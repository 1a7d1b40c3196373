------------------------------ MODULE FrontDoor ------------------------------
(***************************************************************************)
(* From the configuration to a routed request: run_gateway of              *)
(* src/src/main.rs, the listeners of src/src/plain_http.rs, and the        *)
(* routing of src/src/proxy.rs.                                            *)
(*                                                                         *)
(* The proxy behind it is Gateway; here a request is routed, answered or   *)
(* proxied.  Sockets, TLS and Pingora are external: accept may happen at   *)
(* any time, try_peek returns when it has filled its buffer of three bytes *)
(* or the connection has ended, and a body that is proxied is read before  *)
(* the connection is used again.                                           *)
(***************************************************************************)
EXTENDS Configuration

CONSTANTS RawConfigs,     \* configurations to start with
          Authorities,    \* values of the Host field
          Connections,
          PeekTimeout     \* TLS_PREFIX_TIMEOUT, in ticks

ASSUME PeekAssumption == PeekTimeout \in Nat \ {0}

\* What toml delivers: a list of services, and one TLS section or none.
ASSUME RawAssumption ==
    \A config \in RawConfigs :
        /\ config.services \in Seq(Range(config.services))
        /\ \A tls, other \in config.tls : tls = other

Hosts ==
    {authority.host : authority \in Authorities} \cup
    UNION {{s.host.host : s \in Range(config.services)} : config \in RawConfigs}

\* A host is never without a label, and a word has one length and one kind.
ASSUME HostAssumption ==
    \A h \in Hosts :
        /\ h \in Seq(Labels) /\ h # <<>>
        /\ \A i \in DOMAIN h : h[i].word = Empty.word <=> h[i].len = 0
        /\ \A g \in Hosts : \A i \in DOMAIN h, j \in DOMAIN g :
               h[i].word = g[j].word => h[i].len = g[j].len /\ h[i].kind = g[j].kind

VARIABLES
    raw,        \* the configuration file
    material,   \* the TLS certificate and key parse and match
    gateway,    \* "starting", "loading", "refused" or "serving"
    loaded,     \* how many services from_toml has gone through
    routes,     \* what it has made of them, the routing table in the end:
                \* services by normalized host
    shutdown,   \* "no", "closing" (the request gate) or Pingora's "broadcast"
    stage,      \* stage[c]: how far connection c has come
    listener,   \* the listener that accepted it
    sent,       \* what the client has sent on it, up to three bytes, and
    ended,      \* that it has closed its side, until the listener is done
    peekIn,     \* ticks until the peek times out
    host,       \* the Host of its last request
    routed,     \* the services that request was routed to
    unread      \* its body is still on the connection

startVars == <<raw, material, gateway, loaded, routes>>
clientVars == <<listener, sent, ended>>
requestVars == <<host, routed, unread>>
vars == <<startVars, shutdown, stage, clientVars, peekIn, requestVars>>

\* "http": Pingora waits for a request.
Stages == {"closed", "accepted", "peeking", "http", "proxying"}

\* The first byte of a TLS record, its second one, and any other.
Bytes == {"0x16", "0x03", "other"}

TypeOK ==
    /\ raw \in RawConfigs
    /\ material \in BOOLEAN
    /\ gateway \in {"starting", "loading", "refused", "serving"}
    /\ loaded \in 0 .. Len(raw.services)
    /\ shutdown \in {"no", "closing", "broadcast"}
    /\ stage \in [Connections -> Stages]
    /\ listener \in [Connections -> {"plain", "tls"}]
    /\ sent \in [Connections -> {s \in Seq(Bytes) : Len(s) <= 3}]
    /\ host \in [Connections -> SUBSET Authorities]
    /\ routed \in [Connections -> SUBSET routes]
    /\ ended \in [Connections -> BOOLEAN]
    /\ unread \in [Connections -> BOOLEAN]
    /\ peekIn \in [Connections -> 0 .. PeekTimeout]

Init ==
    /\ raw \in RawConfigs
    /\ material \in BOOLEAN
    /\ gateway = "starting"
    /\ loaded = 0
    /\ routes = {}
    /\ shutdown = "no"
    /\ stage = [c \in Connections |-> "closed"]
    /\ listener = [c \in Connections |-> "plain"]
    /\ sent = [c \in Connections |-> <<>>]
    /\ ended = [c \in Connections |-> FALSE]
    /\ peekIn = [c \in Connections |-> 0]
    /\ host = [c \in Connections |-> {}]
    /\ routed = [c \in Connections |-> {}]
    /\ unread = [c \in Connections |-> FALSE]

\* What starting up leaves alone.
otherVars == <<raw, material, shutdown, stage, clientVars, peekIn, requestVars>>

\* from_toml up to its loop.
Start ==
    /\ gateway = "starting"
    /\ gateway' = IF ValidFrame(raw) THEN "loading" ELSE "refused"
    /\ UNCHANGED <<loaded, routes, otherVars>>

\* One round of its loop.
LoadService ==
    LET config == AddService([ok |-> TRUE, services |-> routes],
                             raw.services[loaded + 1]) IN
    /\ gateway = "loading"
    /\ loaded < Len(raw.services)
    /\ loaded' = loaded + 1
    /\ routes' = config.services
    /\ gateway' = IF config.ok THEN "loading" ELSE "refused"
    /\ UNCHANGED otherVars

\* run_gateway, the rest: the TLS material, then the listeners.
Listen ==
    /\ gateway = "loading"
    /\ loaded = Len(raw.services)
    /\ gateway' = IF raw.tls # {} => material THEN "serving" ELSE "refused"
    /\ UNCHANGED <<loaded, routes, otherVars>>

-----------------------------------------------------------------------------
(* The client.                                                             *)

Connect(c) ==
    /\ gateway = "serving"
    /\ stage[c] = "closed"
    /\ stage' = [stage EXCEPT ![c] = "accepted"]
    /\ \E l \in {"plain"} \cup (IF raw.tls # {} THEN {"tls"} ELSE {}) :
           listener' = [listener EXCEPT ![c] = l]
    /\ sent' = [sent EXCEPT ![c] = <<>>]
    /\ ended' = [ended EXCEPT ![c] = FALSE]
    /\ host' = [host EXCEPT ![c] = {}]
    /\ routed' = [routed EXCEPT ![c] = {}]
    /\ unread' = [unread EXCEPT ![c] = FALSE]
    /\ UNCHANGED <<startVars, shutdown, peekIn>>

\* A byte arrives at a time of its own, or never.
Send(c) ==
    /\ stage[c] \in {"accepted", "peeking"}
    /\ ~ended[c]
    /\ \/ /\ Len(sent[c]) < 3
          /\ \E b \in Bytes : sent' = [sent EXCEPT ![c] = Append(@, b)]
          /\ UNCHANGED ended
       \/ ended' = [ended EXCEPT ![c] = TRUE] /\ UNCHANGED sent
    /\ UNCHANGED <<startVars, shutdown, stage, listener, peekIn, requestVars>>

-----------------------------------------------------------------------------
(* The listeners.                                                          *)

\* A TLS handshake record, whatever version of TLS.
TlsPrefix(bytes) ==
    Len(bytes) >= 2 /\ bytes[1] = "0x16" /\ bytes[2] = "0x03"

\* The listener is done with the connection.
Leave(c, next) ==
    /\ stage' = [stage EXCEPT ![c] = next]
    /\ sent' = [sent EXCEPT ![c] = <<>>]
    /\ ended' = [ended EXCEPT ![c] = FALSE]
    /\ peekIn' = [peekIn EXCEPT ![c] = 0]
    /\ UNCHANGED <<startVars, shutdown, listener, requestVars>>

\* PlainHttpApp and TlsHttpApp, process_new up to its first await.
ProcessNew(c) ==
    /\ stage[c] = "accepted"
    /\ \/ shutdown = "broadcast" /\ Leave(c, "closed")
       \/ shutdown # "broadcast" /\ listener[c] = "tls" /\ Leave(c, "http")
       \/ /\ shutdown # "broadcast" /\ listener[c] = "plain"
          /\ stage' = [stage EXCEPT ![c] = "peeking"]
          /\ peekIn' = [peekIn EXCEPT ![c] = PeekTimeout]
          /\ UNCHANGED <<startVars, shutdown, clientVars, requestVars>>

\* Mutant: the peek returns with the first bytes that arrive.
PeekedSome(c) == sent[c] # <<>>

Peeked(c) == Len(sent[c]) = 3

\* The select: the change of the watch comes before the peek.
Peek(c) ==
    /\ stage[c] = "peeking"
    /\ \/ shutdown = "broadcast" /\ Leave(c, "closed")
       \/ /\ shutdown # "broadcast" /\ Peeked(c)
          /\ Leave(c, IF TlsPrefix(sent[c]) THEN "closed" ELSE "http")
       \/ /\ shutdown # "broadcast" /\ ~Peeked(c) /\ ended[c]
          /\ Leave(c, "closed")

\* Mutant: the peek has no timeout.
PeekForever(c) == FALSE /\ UNCHANGED vars

PeekTimesOut(c) ==
    /\ stage[c] = "peeking"
    /\ peekIn[c] = 0
    /\ Leave(c, "closed")

\* Mutant: the port of the plain listener serves for both.
PlainPort(c) == raw.listen.port

\* request_transport: the port of the socket that was accepted.
LocalPort(c) ==
    IF listener[c] = "plain" THEN raw.listen.port
    ELSE (CHOOSE tls \in raw.tls : TRUE).listen.port

\* Mutant: the loading answer leaves the connection open.
AnswerAndKeep(c) == stage' = [stage EXCEPT ![c] = "http"]

\* write_shutting_down, write_unknown_host and write_loading_response: the
\* request's body is not read, so the connection is not kept.
AnswerAndClose(c) == stage' = [stage EXCEPT ![c] = "closed"]

\* The gate is closed: 503, whatever the Host.
ShuttingDown(c) ==
    /\ stage[c] = "http"
    /\ shutdown # "no"
    /\ host' = [host EXCEPT ![c] = {}]
    /\ routed' = [routed EXCEPT ![c] = {}]
    /\ \E body \in BOOLEAN : unread' = [unread EXCEPT ![c] = body]
    /\ AnswerAndClose(c)
    /\ UNCHANGED <<startVars, shutdown, clientVars, peekIn>>

\* request_filter: no route (421), a target that is not ready (503), or on to
\* the upstream.
Route(c, authority) ==
    /\ stage[c] = "http"
    /\ shutdown = "no"
    /\ host' = [host EXCEPT ![c] = {authority}]
    /\ routed' = [routed EXCEPT ![c] =
           {s \in routes :
               s.host \in NormalizeRequestHost(authority, LocalPort(c))}]
    /\ \E body \in BOOLEAN : unread' = [unread EXCEPT ![c] = body]
    /\ \/ AnswerAndClose(c)
       \/ routed'[c] # {} /\ stage' = [stage EXCEPT ![c] = "proxying"]
    /\ UNCHANGED <<startVars, shutdown, clientVars, peekIn>>

\* The connection is kept for another request, or ends.
EndRequest(c) ==
    /\ stage[c] = "proxying"
    /\ \E next \in {"http", "closed"} : stage' = [stage EXCEPT ![c] = next]
    /\ host' = [host EXCEPT ![c] = {}]
    /\ routed' = [routed EXCEPT ![c] = {}]
    /\ unread' = [unread EXCEPT ![c] = FALSE]
    /\ UNCHANGED <<startVars, shutdown, clientVars, peekIn>>

-----------------------------------------------------------------------------

CloseGate ==
    /\ gateway = "serving"
    /\ shutdown = "no"
    /\ shutdown' = "closing"
    /\ UNCHANGED <<startVars, stage, clientVars, peekIn, requestVars>>

BroadcastShutdown ==
    /\ shutdown = "closing"
    /\ shutdown' = "broadcast"
    /\ UNCHANGED <<startVars, stage, clientVars, peekIn, requestVars>>

CountDown(n) == IF n > 0 THEN n - 1 ELSE 0

Tick ==
    /\ \A c \in Connections : stage[c] = "peeking" => peekIn[c] > 0
    /\ peekIn' = [c \in Connections |-> CountDown(peekIn[c])]
    /\ UNCHANGED <<startVars, shutdown, stage, clientVars, requestVars>>

Next ==
    \/ Start \/ LoadService \/ Listen
    \/ \E c \in Connections :
           \/ Connect(c) \/ Send(c)
           \/ ProcessNew(c) \/ Peek(c) \/ PeekTimesOut(c)
           \/ \E authority \in Authorities : Route(c, authority)
           \/ ShuttingDown(c) \/ EndRequest(c)
    \/ CloseGate \/ BroadcastShutdown
    \/ Tick

Spec == Init /\ [][Next]_vars

\* The listener's own code runs and time passes; nothing is assumed of the
\* clients.
FairSpec ==
    /\ Spec
    /\ WF_vars(Tick)
    /\ \A c \in Connections :
           WF_vars(ProcessNew(c)) /\ WF_vars(Peek(c)) /\ WF_vars(PeekTimesOut(c))

-----------------------------------------------------------------------------
(* Properties.                                                             *)

\* The loop over the services, which compares each only with the ones before
\* it and only after normalisation, accepts exactly the configurations in
\* which no two services share a name, however written, a label or an
\* upstream; and nothing listens before all of it and the TLS material have
\* been validated.
ServesOnlyWhatIsSound ==
    LET fits == /\ ValidListener(raw.listen)
                /\ \A tls \in raw.tls : ValidTls(tls, raw.listen) /\ material IN
    /\ gateway = "serving" => fits /\ Sound(raw)
    /\ gateway = "refused" => ~(fits /\ Sound(raw))
    /\ \A c \in Connections : stage[c] # "closed" => gateway = "serving"

\* A request reaches the service whose configured host it names, for every
\* way to write that name and the port of the listener it came in through,
\* and no other: the two normalisations agree, ports are compared in full, and
\* the answer does not depend on the other listener.
RoutedAsWritten ==
    \A c \in Connections : \A a \in host[c] :
        routed[c] = {s \in routes :
            /\ a.clean
            /\ \/ a.port = NoPort
               \/ listener[c] = "plain" /\ a.port = raw.listen.port
               \/ listener[c] = "tls" /\ \E tls \in raw.tls : a.port = tls.listen.port
            /\ \E i \in DOMAIN raw.services :
                   /\ SameName(a.host, raw.services[i].host.host)
                   /\ s.upstream = raw.services[i].upstream}

\* "Closing the downstream connection prevents unread body bytes from becoming
\* a later request": Pingora never waits for a request where the body of the
\* one before is still to be read, whichever of the answers that one got.
NoRequestFromABody ==
    \A c \in Connections : stage[c] = "http" => ~unread[c]

\* What may yet become a TLS record.
MayBeTls(bytes) ==
    \/ bytes = <<>>
    \/ bytes[1] = "0x16" /\ (Len(bytes) = 1 \/ bytes[2] = "0x03")

\* No TLS record reaches the HTTP parser of the plain listener, however the
\* client splits it into segments and whenever it pauses.
NoTlsInPlainHttp ==
    [][\A c \in Connections :
          /\ stage[c] \in {"accepted", "peeking"} /\ stage'[c] = "http"
          /\ listener[c] = "plain"
          => ~MayBeTls(sent[c])
      ]_vars

\* A connection that sends nothing, or too little to tell, does not stay in
\* the listener for ever.
PeekEnds ==
    \A c \in Connections : (stage[c] = "peeking") ~> (stage[c] # "peeking")
=============================================================================
