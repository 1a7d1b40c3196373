---------------------------- MODULE HeaderFilters ---------------------------
(***************************************************************************)
(* What src/src/proxy.rs does to the header fields of one proxied          *)
(* exchange: the WebSocket test of request_filter, the request filters in  *)
(* their order, the framing of the body, and the response filter.          *)
(*                                                                         *)
(* Fields are a function from the names present, in lower case, to what    *)
(* the filters tell apart of their values: the tokens of Connection, the   *)
(* values of Upgrade, and otherwise who wrote the value.  Spaces, letter   *)
(* case and repeated fields are left out: the code trims, folds and        *)
(* collects them before it compares.                                       *)
(***************************************************************************)
EXTENDS Functions

CONSTANTS Always,       \* fields of every request and response, besides Host
          Sometimes,    \* fields a request may have
          MayName,      \* what a client's Connection field may name
          AnswerNames   \* what an upstream's Connection field may name

Bounded == {"proxy-connection", "keep-alive", "proxy-authenticate", "te",
            "trailer", "transfer-encoding"}

ForwardedFields == {"forwarded", "x-forwarded-for", "x-forwarded-host",
                    "x-forwarded-port", "x-forwarded-prefix",
                    "x-forwarded-proto", "x-real-ip"}

Upgrades == {{"websocket"}, {"other"}}

VARIABLES stage,        \* how far the exchange has come
          client,       \* the request's fields
          transport,    \* request_transport, the version, and if it has a body
          websocket,    \* RequestContext.websocket
          upstream,     \* the request's fields as sent upstream
          answer,       \* the upstream's fields
          status,       \* and its status code
          delivered     \* the response's fields as sent downstream

vars == <<stage, client, transport, websocket, upstream, answer, status,
          delivered>>

NoFields == [n \in {} |-> {}]

-----------------------------------------------------------------------------
(* Reading and writing fields.                                             *)

Without(fields, names) == Restrict(fields, DOMAIN fields \ names)

\* All of the first's fields, and those of the second that it does not have.
Over(first, second) ==
    [n \in DOMAIN first \cup DOMAIN second |->
        IF n \in DOMAIN first THEN first[n] ELSE second[n]]

\* A field that is absent when it has nothing to say.
Field(name, tokens) == [n \in IF tokens = {} THEN {} ELSE {name} |-> tokens]

\* Fields that all have the same writer.
Written(names, writer) == [n \in names |-> {writer}]

Insert(fields, name, value) == Over([n \in {name} |-> value], fields)

Tokens(fields, name) == IF name \in DOMAIN fields THEN fields[name] ELSE {}

ConnectionNames(fields) == Tokens(fields, "connection")

AsksForWebsocket(fields) ==
    /\ "websocket" \in Tokens(fields, "upgrade")
    /\ "upgrade" \in ConnectionNames(fields)

\* Mutant: the fields that Connection names are kept.
StripBoundedOnly(fields, retainUpgrade) ==
    LET kept == Without(fields, Bounded \cup {"connection", "upgrade"})
    IN  IF retainUpgrade
        THEN Insert(Insert(kept, "connection", {"upgrade"}),
                    "upgrade", {"websocket"})
        ELSE kept

\* The fields Connection names and the bounded ones go; for an upgrade the two
\* fields that ask for it are written anew.
StripHopHeaders(fields, retainUpgrade) ==
    LET kept == Without(fields, ConnectionNames(fields) \cup Bounded
                                \cup {"connection", "upgrade"})
    IN  IF retainUpgrade
        THEN Insert(Insert(kept, "connection", {"upgrade"}),
                    "upgrade", {"websocket"})
        ELSE kept

StripRequestHopHeaders(fields) ==
    Without(StripHopHeaders(fields, websocket), {"proxy-authorization"})

Synthesized(fields) ==
    {"x-forwarded-proto", "x-forwarded-port"}
    \cup (IF transport.peerKnown THEN {"x-forwarded-for", "x-real-ip"} ELSE {})
    \cup (IF "host" \in DOMAIN fields THEN {"x-forwarded-host"} ELSE {})

\* Mutant: what the client sent is kept on the plain listener.
ApplyForwardedOnTls(fields) ==
    IF transport.tls
    THEN Over(Written(Synthesized(fields), "gateway"),
              Without(fields, ForwardedFields))
    ELSE fields

ApplyForwardedHeaders(fields) ==
    LET kept == Without(fields, ForwardedFields)
    IN  IF transport.tls
        THEN Over(Written(Synthesized(kept), "gateway"), kept)
        ELSE kept

\* Mutant: a body is framed anew although its length is still there.
FrameEveryBody(fields) ==
    IF transport.body
    THEN Insert(fields, "transfer-encoding", {"gateway"})
    ELSE fields

\* After its framing field is stripped, a body of unknown length is chunked.
FrameBody(fields) ==
    IF transport.body /\ "content-length" \notin DOMAIN fields
    THEN Insert(fields, "transfer-encoding", {"gateway"})
    ELSE fields

-----------------------------------------------------------------------------
(* The exchange.                                                           *)

\* Requests Pingora's parser lets through: routed, so with a Host; what it
\* takes for a body has a framing field, and Transfer-Encoding means a body.
Init ==
    /\ transport \in [tls : BOOLEAN, peerKnown : BOOLEAN, http11 : BOOLEAN,
                      body : BOOLEAN]
    /\ \E some \in SUBSET Sometimes, upgrade \in {{}} \cup Upgrades,
          named \in SUBSET MayName :
           client = Over(Written({"host"} \cup Always \cup some, "client"),
                         Over(Field("upgrade", upgrade),
                              Field("connection", named)))
    /\ transport.body => {"content-length", "transfer-encoding"}
                         \cap DOMAIN client # {}
    /\ "transfer-encoding" \in DOMAIN client => transport.body
    /\ stage = "received"
    /\ websocket = FALSE
    /\ upstream = NoFields
    /\ answer = NoFields
    /\ status = "none"
    /\ delivered = NoFields

\* request_filter: is_valid_websocket_request.
RequestFilter ==
    /\ stage = "received"
    /\ stage' = "filtered"
    /\ websocket' = (transport.http11 /\ AsksForWebsocket(client))
    /\ UNCHANGED <<client, transport, upstream, answer, status, delivered>>

UpstreamRequestFilter ==
    /\ stage = "filtered"
    /\ stage' = "forwarded"
    /\ upstream' =
           FrameBody(ApplyForwardedHeaders(StripRequestHopHeaders(client)))
    /\ UNCHANGED <<client, transport, websocket, answer, status, delivered>>

\* The upstream answers whatever it likes.
Answer ==
    /\ stage = "forwarded"
    /\ stage' = "answered"
    /\ status' \in {"101", "200"}
    /\ \E upgrade \in {{}} \cup Upgrades, named \in SUBSET AnswerNames :
           answer' = Over(Written(Always, "upstream"),
                          Over(Field("upgrade", upgrade),
                               Field("connection", named)))
    /\ UNCHANGED <<client, transport, websocket, upstream, delivered>>

\* Mutant: the response alone decides.
ResponseFilterTrusting ==
    /\ stage = "answered"
    /\ stage' = "delivered"
    /\ delivered' = StripHopHeaders(answer,
                        status = "101" /\ AsksForWebsocket(answer))
    /\ UNCHANGED <<client, transport, websocket, upstream, answer, status>>

UpstreamResponseFilter ==
    /\ stage = "answered"
    /\ stage' = "delivered"
    /\ delivered' = StripHopHeaders(answer,
                        websocket /\ status = "101" /\ AsksForWebsocket(answer))
    /\ UNCHANGED <<client, transport, websocket, upstream, answer, status>>

\* The exchange is over.
Done == stage = "delivered" /\ UNCHANGED vars

Next ==
    \/ RequestFilter \/ UpstreamRequestFilter
    \/ Answer \/ UpstreamResponseFilter
    \/ Done

Spec == Init /\ [][Next]_vars

-----------------------------------------------------------------------------
(* Properties.                                                             *)

Sent == stage \notin {"received", "filtered"}

OfConnection(fields) ==
    Bounded \cup {"connection", "upgrade"} \cup ConnectionNames(fields)

\* The transparency contract of docs/design.md: nothing either side says about
\* its own connection, and neither the client's proxy credentials nor its
\* forwarded fields, reaches the other side; everything else does, unchanged.
OnlyEndToEndFieldsPass ==
    /\ Sent => \A n \in DOMAIN client :
           LET hop == OfConnection(client) \cup ForwardedFields
                      \cup {"proxy-authorization"}
           IN  n \in hop <=> "client" \notin Tokens(upstream, n)
    /\ stage = "delivered" => \A n \in DOMAIN answer :
           n \in OfConnection(answer) <=> "upstream" \notin Tokens(delivered, n)

\* Forwarded fields upstream are the gateway's and only on TLS; a Connection
\* field that names them, or one of the client's own, does not change that.
ForwardedIsTheGateways ==
    Sent =>
        /\ \A n \in ForwardedFields \cap DOMAIN upstream :
               transport.tls /\ upstream[n] = {"gateway"}
        /\ transport.tls =>
               {"x-forwarded-proto", "x-forwarded-port"} \subseteq DOMAIN upstream

\* A body goes upstream framed exactly once, even if Connection named the
\* field that framed it; and no body appears from nowhere.
BodyFramedOnce ==
    Sent =>
        LET framing == {"content-length", "transfer-encoding"}
                       \cap DOMAIN upstream
        IN  IF transport.body
            THEN framing \in {{"content-length"}, {"transfer-encoding"}}
            ELSE framing \subseteq {"content-length"}

\* The two sides agree on an upgrade: the upstream is asked for one only by an
\* HTTP/1.1 request that asks properly, and the client is told of one only if
\* it asked and the upstream switched.
UpgradeIsAgreed ==
    /\ Sent /\ "upgrade" \in DOMAIN upstream =>
           /\ transport.http11 /\ AsksForWebsocket(client)
           /\ AsksForWebsocket(upstream)
    /\ "upgrade" \in DOMAIN delivered =>
           /\ AsksForWebsocket(upstream)
           /\ status = "101" /\ AsksForWebsocket(answer)
           /\ AsksForWebsocket(delivered)
=============================================================================
