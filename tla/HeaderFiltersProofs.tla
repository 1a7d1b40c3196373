------------------------- MODULE HeaderFiltersProofs -------------------------
(***************************************************************************)
(* Proofs about HeaderFilters, for any field names that a client may send, *)
(* that an upstream may answer, and that either Connection field may list. *)
(***************************************************************************)
EXTENDS HeaderFilters, TLAPS

-----------------------------------------------------------------------------
(* What the filters do to fields: who is left, and with which value.       *)

LEMMA WithoutFields ==
  ASSUME NEW fields, NEW names
  PROVE  /\ DOMAIN Without(fields, names) = DOMAIN fields \ names
         /\ \A n \in DOMAIN fields \ names :
                Without(fields, names)[n] = fields[n]
BY DEF Without, Restrict

\* Nothing of the connection is left, and what asks for an upgrade is there
\* exactly when it is to be retained.
LEMMA StrippedFields ==
  ASSUME NEW fields, NEW retain \in BOOLEAN
  PROVE  LET stripped == StripHopHeaders(fields, retain)
             hop == Bounded \cup {"connection", "upgrade"}
                    \cup ConnectionNames(fields)
             asks == IF retain THEN {"connection", "upgrade"} ELSE {}
         IN  /\ DOMAIN stripped = (DOMAIN fields \ hop) \cup asks
             /\ \A n \in DOMAIN fields \ hop : stripped[n] = fields[n]
             /\ retain => /\ stripped["connection"] = {"upgrade"}
                          /\ stripped["upgrade"] = {"websocket"}
<1> DEFINE hop == ConnectionNames(fields) \cup Bounded
                  \cup {"connection", "upgrade"}
           kept == Without(fields, hop)
           named == Insert(kept, "connection", {"upgrade"})
           asked == Insert(named, "upgrade", {"websocket"})
<1>1. StripHopHeaders(fields, retain) = IF retain THEN asked ELSE kept
  BY DEF StripHopHeaders
<1>2. /\ DOMAIN kept = DOMAIN fields \ hop
      /\ \A n \in DOMAIN fields \ hop : kept[n] = fields[n]
  BY WithoutFields
<1> HIDE DEF kept
<1>3. /\ DOMAIN named = DOMAIN kept \cup {"connection"}
      /\ named["connection"] = {"upgrade"}
      /\ \A n \in DOMAIN kept \ {"connection"} : named[n] = kept[n]
  BY DEF Insert, Over
<1> HIDE DEF named
<1>4. /\ DOMAIN asked = DOMAIN named \cup {"upgrade"}
      /\ asked["upgrade"] = {"websocket"}
      /\ \A n \in DOMAIN named \ {"upgrade"} : asked[n] = named[n]
  BY DEF Insert, Over
<1> HIDE DEF asked
<1>5. /\ hop = Bounded \cup {"connection", "upgrade"} \cup ConnectionNames(fields)
      /\ "connection" \in hop /\ "upgrade" \in hop
  OBVIOUS
<1> HIDE DEF hop
<1> QED BY <1>1, <1>2, <1>3, <1>4, <1>5

\* What the gateway says of the client replaces what the client says, on TLS.
LEMMA SynthesizedFields ==
  ASSUME NEW fields, NEW applied, applied = ApplyForwardedHeaders(fields),
         transport.tls \in BOOLEAN, transport.peerKnown \in BOOLEAN
  PROVE  /\ DOMAIN applied \ ForwardedFields = DOMAIN fields \ ForwardedFields
         /\ \A n \in DOMAIN fields \ ForwardedFields : applied[n] = fields[n]
         /\ \A n \in DOMAIN applied \cap ForwardedFields :
                transport.tls /\ applied[n] = {"gateway"}
         /\ transport.tls =>
                {"x-forwarded-proto", "x-forwarded-port"} \subseteq DOMAIN applied
<1> DEFINE kept == Without(fields, ForwardedFields)
           made == Written(Synthesized(kept), "gateway")
<1>1. /\ DOMAIN kept = DOMAIN fields \ ForwardedFields
      /\ \A n \in DOMAIN fields \ ForwardedFields : kept[n] = fields[n]
  BY WithoutFields
<1>2. applied = IF transport.tls THEN Over(made, kept) ELSE kept
  BY DEF ApplyForwardedHeaders
<1>3. /\ Synthesized(kept) \subseteq ForwardedFields
      /\ {"x-forwarded-proto", "x-forwarded-port"} \subseteq Synthesized(kept)
  BY DEF Synthesized, ForwardedFields
<1>4. /\ DOMAIN made = Synthesized(kept)
      /\ \A n \in DOMAIN made : made[n] = {"gateway"}
  BY DEF Written
<1> HIDE DEF made, kept
<1>5. /\ DOMAIN Over(made, kept) = DOMAIN made \cup DOMAIN kept
      /\ \A n \in DOMAIN made : Over(made, kept)[n] = made[n]
      /\ \A n \in DOMAIN kept \ DOMAIN made : Over(made, kept)[n] = kept[n]
  BY DEF Over
<1> QED BY <1>1, <1>2, <1>3, <1>4, <1>5

-----------------------------------------------------------------------------
(* The inductive invariant: each message is what the filters make of the   *)
(* one before it.                                                          *)

Stages == {"received", "filtered", "forwarded", "answered", "delivered"}

TypeOK ==
    /\ stage \in Stages
    /\ transport \in [tls : BOOLEAN, peerKnown : BOOLEAN, http11 : BOOLEAN,
                      body : BOOLEAN]
    /\ websocket \in BOOLEAN

\* Either side writes the values of its own fields, except for the two that
\* are about the connection.
WrittenByTheirOwner ==
    /\ \A n \in DOMAIN client \ {"connection", "upgrade"} :
           client[n] = {"client"}
    /\ \A n \in DOMAIN answer \ {"connection", "upgrade"} :
           answer[n] = {"upstream"}

DecidedByTheRequest ==
    stage # "received" =>
        websocket = (transport.http11 /\ AsksForWebsocket(client))

FilteredFromTheRequest ==
    Sent => upstream =
                FrameBody(ApplyForwardedHeaders(StripRequestHopHeaders(client)))

FilteredFromTheAnswer ==
    delivered = IF stage = "delivered"
                THEN StripHopHeaders(answer, websocket /\ status = "101"
                                             /\ AsksForWebsocket(answer))
                ELSE NoFields

IInv ==
    /\ TypeOK
    /\ WrittenByTheirOwner
    /\ DecidedByTheRequest
    /\ FilteredFromTheRequest
    /\ FilteredFromTheAnswer

\* The fields of a message: its writer's, and the two about the connection.
LEMMA MessageFields ==
  ASSUME NEW writer, NEW names, NEW upgrade, NEW named,
         NEW message,
         message = Over(Written(names, writer),
                        Over(Field("upgrade", upgrade),
                             Field("connection", named)))
  PROVE  \A n \in DOMAIN message \ {"connection", "upgrade"} :
             message[n] = {writer}
<1> DEFINE own == Written(names, writer)
           about == Over(Field("upgrade", upgrade), Field("connection", named))
<1>1. DOMAIN own = names /\ \A n \in names : own[n] = {writer}
  BY DEF Written
<1>2. DOMAIN about \subseteq {"upgrade", "connection"}
  BY DEF Over, Field
<1> HIDE DEF own, about
<1>3. message = Over(own, about)
  BY DEF own, about
<1> QED BY <1>1, <1>2, <1>3 DEF Over

LEMMA InitEstablishes == Init => IInv
<1> SUFFICES ASSUME Init PROVE IInv
  OBVIOUS
<1>1. TypeOK
  BY DEF Init, TypeOK, Stages
<1>2. WrittenByTheirOwner
  <2>1. \A n \in DOMAIN client \ {"connection", "upgrade"} :
            client[n] = {"client"}
    <3>1. PICK some \in SUBSET Sometimes, upgrade \in {{}} \cup Upgrades,
               named \in SUBSET MayName :
              client = Over(Written({"host"} \cup Always \cup some, "client"),
                            Over(Field("upgrade", upgrade),
                                 Field("connection", named)))
      BY DEF Init
    <3> QED BY <3>1, MessageFields
  <2>2. DOMAIN answer = {}
    BY DEF Init, NoFields
  <2> QED BY <2>1, <2>2 DEF WrittenByTheirOwner
<1>3. DecidedByTheRequest /\ FilteredFromTheRequest /\ FilteredFromTheAnswer
  BY DEF Init, DecidedByTheRequest, FilteredFromTheRequest,
     FilteredFromTheAnswer, Sent
<1> QED BY <1>1, <1>2, <1>3 DEF IInv

LEMMA StepKeeps == IInv /\ [Next]_vars => IInv'
<1> SUFFICES ASSUME IInv, [Next]_vars PROVE IInv'
  OBVIOUS
<1> USE DEF IInv, TypeOK, Stages, Sent, WrittenByTheirOwner,
        DecidedByTheRequest, FilteredFromTheRequest, FilteredFromTheAnswer
<1>1. CASE RequestFilter
  BY <1>1 DEF RequestFilter, AsksForWebsocket, Tokens, ConnectionNames
<1>2. CASE UpstreamRequestFilter
  BY <1>2 DEF UpstreamRequestFilter, FrameBody, ApplyForwardedHeaders,
     Synthesized, StripRequestHopHeaders
<1>3. CASE Answer
  <2>1. \A n \in DOMAIN answer' \ {"connection", "upgrade"} :
            answer'[n] = {"upstream"}
    BY <1>3, MessageFields DEF Answer
  <2> QED
    BY <1>3, <2>1 DEF Answer, FrameBody, ApplyForwardedHeaders, Synthesized,
       StripRequestHopHeaders
<1>4. CASE UpstreamResponseFilter
  BY <1>4 DEF UpstreamResponseFilter, FrameBody, ApplyForwardedHeaders,
     Synthesized, StripRequestHopHeaders
<1>5. CASE UNCHANGED vars
  BY <1>5 DEF vars, FrameBody, ApplyForwardedHeaders, Synthesized,
     StripRequestHopHeaders
<1> QED BY <1>1, <1>2, <1>3, <1>4, <1>5 DEF Next, Done

LEMMA Invariance == Spec => []IInv
  BY InitEstablishes, StepKeeps, PTL DEF Spec

\* Types, for any field names.
THEOREM TypeCorrect == Spec => []TypeOK
<1>1. IInv => TypeOK
  BY DEF IInv
<1> QED BY <1>1, Invariance, PTL

-----------------------------------------------------------------------------
(* What it means for the two messages that are sent on.                    *)

\* What goes upstream: the client's own fields that are kept; the two that
\* ask for an upgrade; the forwarded fields on TLS; and the new framing.
LEMMA UpstreamFields ==
  ASSUME IInv, Sent
  PROVE  LET hop == OfConnection(client) \cup ForwardedFields
                    \cup {"proxy-authorization"}
             kept == DOMAIN client \ hop
             asks == IF websocket THEN {"connection", "upgrade"} ELSE {}
             forwarded == DOMAIN upstream \cap ForwardedFields
             framing == IF transport.body /\ "content-length" \notin kept
                        THEN {"transfer-encoding"} ELSE {}
         IN  /\ DOMAIN upstream = kept \cup asks \cup forwarded \cup framing
             /\ \A n \in kept : upstream[n] = {"client"}
             /\ websocket => /\ upstream["connection"] = {"upgrade"}
                             /\ upstream["upgrade"] = {"websocket"}
             /\ \A n \in forwarded : transport.tls /\ upstream[n] = {"gateway"}
             /\ \A n \in framing : upstream[n] = {"gateway"}
             /\ transport.tls =>
                    {"x-forwarded-proto", "x-forwarded-port"} \subseteq forwarded
<1> DEFINE bare == StripHopHeaders(client, websocket)
           stripped == StripRequestHopHeaders(client)
           applied == ApplyForwardedHeaders(stripped)
           bounded == OfConnection(client)
           asks == IF websocket THEN {"connection", "upgrade"} ELSE {}
           framing == IF transport.body /\ "content-length" \notin DOMAIN applied
                      THEN {"transfer-encoding"} ELSE {}
<1>1. /\ websocket \in BOOLEAN /\ transport.tls \in BOOLEAN
      /\ transport.peerKnown \in BOOLEAN /\ transport.body \in BOOLEAN
  BY DEF IInv, TypeOK
<1>2. /\ DOMAIN bare = (DOMAIN client \ bounded) \cup asks
      /\ \A n \in DOMAIN client \ bounded : bare[n] = client[n]
      /\ websocket => /\ bare["connection"] = {"upgrade"}
                      /\ bare["upgrade"] = {"websocket"}
  BY <1>1, StrippedFields DEF OfConnection
<1>3. /\ DOMAIN stripped = DOMAIN bare \ {"proxy-authorization"}
      /\ \A n \in DOMAIN stripped : stripped[n] = bare[n]
  BY DEF StripRequestHopHeaders, Without, Restrict
<1>4. /\ DOMAIN applied \ ForwardedFields = DOMAIN stripped \ ForwardedFields
      /\ \A n \in DOMAIN stripped \ ForwardedFields : applied[n] = stripped[n]
      /\ \A n \in DOMAIN applied \cap ForwardedFields :
             transport.tls /\ applied[n] = {"gateway"}
      /\ transport.tls =>
             {"x-forwarded-proto", "x-forwarded-port"} \subseteq DOMAIN applied
  <2> HIDE DEF stripped, applied
  <2>1. applied = ApplyForwardedHeaders(stripped)
    BY DEF applied
  <2> QED BY <1>1, <2>1, SynthesizedFields
<1>5. /\ DOMAIN upstream = DOMAIN applied \cup framing
      /\ \A n \in DOMAIN applied \ framing : upstream[n] = applied[n]
      /\ \A n \in framing : upstream[n] = {"gateway"}
  <2>1. upstream = FrameBody(applied)
    BY DEF IInv, FilteredFromTheRequest
  <2> HIDE DEF applied
  <2> QED BY <1>1, <2>1 DEF FrameBody, Insert, Over
<1>6. /\ {"connection", "upgrade", "transfer-encoding"} \subseteq bounded
      /\ ForwardedFields \cap {"connection", "upgrade", "transfer-encoding",
                               "content-length", "proxy-authorization"} = {}
  BY DEF OfConnection, Bounded, ForwardedFields
<1>7. \A n \in DOMAIN client \ bounded : client[n] = {"client"}
  BY <1>6 DEF IInv, WrittenByTheirOwner
<1> DEFINE hop == bounded \cup ForwardedFields \cup {"proxy-authorization"}
           kept == DOMAIN client \ hop
           forwarded == DOMAIN upstream \cap ForwardedFields
<1> HIDE DEF bare, stripped, applied, bounded
<1>8. /\ "content-length" \in DOMAIN applied <=> "content-length" \in kept
      /\ asks \cap (ForwardedFields \cup {"proxy-authorization"}) = {}
      /\ framing \cap ForwardedFields = {}
  BY <1>2, <1>3, <1>4, <1>6
<1>9. DOMAIN upstream = kept \cup asks \cup forwarded \cup framing
  <2>1. DOMAIN applied \ ForwardedFields = kept \cup asks
    BY <1>2, <1>3, <1>4, <1>8
  <2>2. forwarded = DOMAIN applied \cap ForwardedFields
    BY <1>5, <1>8
  <2> QED BY <1>5, <2>1, <2>2
<1>10. \A n \in kept : upstream[n] = {"client"}
  BY <1>2, <1>3, <1>4, <1>5, <1>6, <1>7
<1>11. websocket => /\ upstream["connection"] = {"upgrade"}
                    /\ upstream["upgrade"] = {"websocket"}
  <2> SUFFICES ASSUME websocket, NEW n \in {"connection", "upgrade"}
               PROVE  upstream[n] = bare[n]
    BY <1>2
  <2>1. n \in DOMAIN stripped \ ForwardedFields
    BY <1>2, <1>3, <1>8
  <2> QED BY <2>1, <1>3, <1>4, <1>5
<1>12. /\ \A n \in forwarded : transport.tls /\ upstream[n] = {"gateway"}
       /\ transport.tls =>
              {"x-forwarded-proto", "x-forwarded-port"} \subseteq forwarded
  BY <1>4, <1>5, <1>8 DEF ForwardedFields
<1> QED
  BY <1>5, <1>8, <1>9, <1>10, <1>11, <1>12 DEF bounded

\* And downstream: the upstream's own fields and the two for an upgrade.
LEMMA DeliveredFields ==
  ASSUME IInv, stage = "delivered"
  PROVE  LET kept == DOMAIN answer \ OfConnection(answer)
             retain == websocket /\ status = "101" /\ AsksForWebsocket(answer)
         IN  /\ DOMAIN delivered =
                    kept \cup (IF retain THEN {"connection", "upgrade"} ELSE {})
             /\ \A n \in kept : delivered[n] = answer[n]
             /\ retain => /\ delivered["connection"] = {"upgrade"}
                          /\ delivered["upgrade"] = {"websocket"}
<1> DEFINE retain == websocket /\ status = "101" /\ AsksForWebsocket(answer)
<1>1. delivered = StripHopHeaders(answer, retain) /\ retain \in BOOLEAN
  BY DEF IInv, TypeOK, FilteredFromTheAnswer
<1> HIDE DEF retain
<1>2. /\ DOMAIN delivered = (DOMAIN answer \ OfConnection(answer)) \cup
             (IF retain THEN {"connection", "upgrade"} ELSE {})
      /\ \A n \in DOMAIN answer \ OfConnection(answer) :
             delivered[n] = answer[n]
      /\ retain => /\ delivered["connection"] = {"upgrade"}
                   /\ delivered["upgrade"] = {"websocket"}
  BY <1>1, StrippedFields DEF OfConnection
<1> QED BY <1>2 DEF retain

-----------------------------------------------------------------------------
(* The properties.                                                         *)

\* For any field names, what passes is what is end-to-end (proxy.rs
\* strip_hop_headers and its two callers).
THEOREM EndToEndFieldsPass == Spec => []OnlyEndToEndFieldsPass
<1>1. ASSUME IInv, Sent, NEW n \in DOMAIN client
      PROVE  n \in OfConnection(client) \cup ForwardedFields
                   \cup {"proxy-authorization"}
                 <=> "client" \notin Tokens(upstream, n)
  BY <1>1, UpstreamFields
     DEF Tokens, OfConnection, Bounded, ForwardedFields
<1>2. ASSUME IInv, stage = "delivered", NEW n \in DOMAIN answer
      PROVE  n \in OfConnection(answer) <=> "upstream" \notin Tokens(delivered, n)
  <2>1. n \notin {"connection", "upgrade"} => answer[n] = {"upstream"}
    BY <1>2 DEF IInv, WrittenByTheirOwner
  <2>2. {"connection", "upgrade"} \subseteq OfConnection(answer)
    BY DEF OfConnection
  <2> QED BY <1>2, <2>1, <2>2, DeliveredFields DEF Tokens
<1>3. IInv => OnlyEndToEndFieldsPass
  BY <1>1, <1>2 DEF OnlyEndToEndFieldsPass
<1> QED BY <1>3, Invariance, PTL

\* For any field names, no forwarded field of the client's reaches the
\* upstream, and the gateway's do on TLS (proxy.rs apply_forwarded_headers).
THEOREM ForwardedFieldsAreTheGateways == Spec => []ForwardedIsTheGateways
<1>1. IInv => ForwardedIsTheGateways
  BY UpstreamFields DEF ForwardedIsTheGateways
<1> QED BY <1>1, Invariance, PTL

\* For any field names, a body is framed exactly once (proxy.rs
\* upstream_request_filter).
THEOREM BodiesAreFramedOnce == Spec => []BodyFramedOnce
<1>1. ASSUME IInv, Sent
      PROVE  LET framing == {"content-length", "transfer-encoding"}
                            \cap DOMAIN upstream
             IN  IF transport.body
                 THEN framing \in {{"content-length"}, {"transfer-encoding"}}
                 ELSE framing \subseteq {"content-length"}
  <2> DEFINE kept == DOMAIN client \ (OfConnection(client) \cup ForwardedFields
                                      \cup {"proxy-authorization"})
  <2>1. /\ "transfer-encoding" \notin kept
        /\ ForwardedFields \cap {"content-length", "transfer-encoding"} = {}
    BY DEF OfConnection, Bounded, ForwardedFields
  <2>2. /\ "content-length" \in DOMAIN upstream <=> "content-length" \in kept
        /\ "transfer-encoding" \in DOMAIN upstream
               <=> transport.body /\ "content-length" \notin kept
    BY <1>1, <2>1, UpstreamFields
  <2> HIDE DEF kept
  <2> QED BY <2>2
<1>2. IInv => BodyFramedOnce
  BY <1>1 DEF BodyFramedOnce
<1> QED BY <1>2, Invariance, PTL

\* For any field names, both sides come to the same conclusion about an
\* upgrade (proxy.rs request_filter and upstream_response_filter).
THEOREM UpgradesAreAgreed == Spec => []UpgradeIsAgreed
<1>1. ASSUME IInv, Sent, websocket
      PROVE  AsksForWebsocket(upstream)
  BY <1>1, UpstreamFields DEF AsksForWebsocket, ConnectionNames, Tokens
<1>2. ASSUME IInv, Sent, "upgrade" \in DOMAIN upstream
      PROVE  websocket
  BY <1>2, UpstreamFields DEF OfConnection, ForwardedFields, IInv, TypeOK
<1>3. ASSUME IInv, "upgrade" \in DOMAIN delivered
      PROVE  /\ Sent /\ websocket /\ status = "101" /\ AsksForWebsocket(answer)
             /\ AsksForWebsocket(delivered)
  <2>1. stage = "delivered"
    BY <1>3 DEF IInv, FilteredFromTheAnswer, NoFields
  <2>2. "upgrade" \in OfConnection(answer)
    BY DEF OfConnection
  <2>3. websocket /\ status = "101" /\ AsksForWebsocket(answer)
    BY <1>3, <2>1, <2>2, DeliveredFields
  <2>4. AsksForWebsocket(delivered)
    BY <1>3, <2>1, <2>3, DeliveredFields
       DEF AsksForWebsocket, ConnectionNames, Tokens
  <2> QED BY <2>1, <2>3, <2>4 DEF Sent
<1>4. IInv => UpgradeIsAgreed
  BY <1>1, <1>2, <1>3 DEF UpgradeIsAgreed, IInv, DecidedByTheRequest, Sent
<1> QED BY <1>4, Invariance, PTL
=============================================================================
