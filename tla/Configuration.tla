---------------------------- MODULE Configuration ----------------------------
(***************************************************************************)
(* Config::from_toml and the host normalisation of src/src/config.rs, as   *)
(* pure operators.  TOML itself is read by the toml crate; a raw           *)
(* configuration is what it delivers.                                      *)
(*                                                                         *)
(* A host is the sequence of its dot-separated labels: "" is <<Empty>>,    *)
(* "a." ends with Empty.  A label is its word in lower case, its length,   *)
(* whether it is written in upper case, and its kind: a name, a decimal    *)
(* octet, or something with an illegal character.  An Option is a set of   *)
(* at most one element.  Other texts are sequences of character classes.   *)
(***************************************************************************)
EXTENDS Integers, Sequences, FiniteSets, SequencesExt

Empty == [word |-> "", len |-> 0, upper |-> FALSE, kind |-> "name"]

Labels == [word : STRING, len : Nat, upper : BOOLEAN,
           kind : {"name", "octet", "illegal"}]

\* An authority without a port, and one that ends with a colon.  A port that
\* is no decimal number is like one that is too large.
NoPort == -1
EmptyPort == -2

MaxPort == 65535

-----------------------------------------------------------------------------
(* Hosts.                                                                  *)

Lengths(host) == [i \in DOMAIN host |-> host[i].len]

NameLength(host) == FoldSeq(+, Len(host) - 1, Lengths(host))

\* strip_suffix('.'): one dot only.
StripDot(host) ==
    IF Len(host) > 1 /\ Last(host).len = 0 THEN Front(host) ELSE host

IsIpAddress(host) ==
    Len(host) = 4 /\ \A i \in DOMAIN host : host[i].kind = "octet"

ToLowerCase(host) == [i \in DOMAIN host |-> [host[i] EXCEPT !.upper = FALSE]]

NormalizeDnsName(host) ==
    LET name == StripDot(host)
        valid == /\ NameLength(name) <= 253
                 /\ ~IsIpAddress(name)
                 /\ \A i \in DOMAIN name :
                        name[i].len \in 1 .. 63 /\ name[i].kind # "illegal"
    IN IF valid THEN {ToLowerCase(name)} ELSE {}

\* A port that does not fit a u16 is an error, not its remainder.
ParsePort(authority) ==
    IF authority.port \in 0 .. MaxPort THEN {authority.port} ELSE {}

\* The only port allowed is the one of allowed, if any; clean stands for:
\* ASCII, without user information, and an authority to the http crate.
NormalizeAuthority(authority, allowed) ==
    IF /\ authority.clean
       /\ authority.port = NoPort \/ ParsePort(authority) \cap allowed # {}
    THEN NormalizeDnsName(authority.host)
    ELSE {}

NormalizeConfigHost(authority) == NormalizeAuthority(authority, {})

NormalizeRequestHost(authority, listenerPort) ==
    NormalizeAuthority(authority, {listenerPort})

-----------------------------------------------------------------------------
(* Configurations.                                                         *)

Loopback == {"127.0.0.1", "127.0.0.2", "::1"}
Wildcard == {"0.0.0.0", "::"}

\* A literal IP socket address.
IsSocketAddress(address) ==
    address.ip # "name" /\ address.port \in 0 .. MaxPort

ValidListener(address) ==
    /\ IsSocketAddress(address)
    /\ address.port # 0
    /\ address.port < 1024 => address.ip \in Wildcard

\* The paths of TLS material are absolute.
ValidTls(tls, listen) ==
    /\ ValidListener(tls.listen)
    /\ tls.listen.port # listen.port
    /\ tls.cert = "absolute" /\ tls.key = "absolute"

ValidLaunchdLabel(label) ==
    /\ label # <<>>
    /\ \A i \in DOMAIN label :
           label[i] \notin {"slash", "control", "tab", "newline", "return", "space"}

ValidCommand(command) ==
    \A argv \in command : argv # <<>> /\ argv[1] = "absolute"

ValidUpstream(upstream) ==
    /\ IsSocketAddress(upstream)
    /\ upstream.ip \in Loopback
    /\ upstream.port # 0

ValidService(raw) ==
    /\ NormalizeConfigHost(raw.host) # {}
    /\ ValidUpstream(raw.upstream)
    /\ ValidLaunchdLabel(raw.label)
    /\ raw.idle > 0
    /\ ValidCommand(raw.command)

\* What is kept of a service.
Loaded(raw) ==
    {[host |-> host, upstream |-> raw.upstream, label |-> raw.label] :
     host \in NormalizeConfigHost(raw.host)}

Rejected == [ok |-> FALSE, services |-> {}]

\* Mutant: duplicates are looked for among the hosts as written.
AddServiceAsWritten(loaded, raw) ==
    IF /\ loaded.ok /\ ValidService(raw)
       /\ \A s \in loaded.services :
              /\ s.host # raw.host.host
              /\ s.label # raw.label
              /\ s.upstream # raw.upstream
    THEN [ok |-> TRUE, services |-> loaded.services \cup Loaded(raw)]
    ELSE Rejected

\* One round of the loop: hosts, labels and upstreams are compared with the
\* ones of the services before it.
AddService(loaded, raw) ==
    LET hosts == NormalizeConfigHost(raw.host) IN
    IF /\ loaded.ok /\ ValidService(raw)
       /\ \A s \in loaded.services :
              /\ s.host \notin hosts
              /\ s.label # raw.label
              /\ s.upstream # raw.upstream
    THEN [ok |-> TRUE, services |-> loaded.services \cup Loaded(raw)]
    ELSE Rejected

\* What from_toml checks before the loop.
ValidFrame(raw) ==
    /\ ValidListener(raw.listen)
    /\ \A tls \in raw.tls : ValidTls(tls, raw.listen)
    /\ raw.services # <<>>

FromToml(raw) ==
    IF ValidFrame(raw)
    THEN FoldLeft(AddService, [ok |-> TRUE, services |-> {}], raw.services)
    ELSE Rejected

-----------------------------------------------------------------------------
(* What the algorithms are checked against.                                *)

Words(host) == [i \in DOMAIN host |-> host[i].word]

\* Every way to write the words of a name, with and without the final dot.
Spellings(words) ==
    IF Last(words) = Empty.word
    THEN {words, Front(words)}
    ELSE {words, Append(words, Empty.word)}

\* Two hosts are the same name, but for case and one final dot.
SameName(host, other) == Words(host) \in Spellings(Words(other))

\* A configuration that routes every host to one service and every service to
\* one process.
Sound(raw) ==
    /\ raw.services # <<>>
    /\ \A i \in DOMAIN raw.services : ValidService(raw.services[i])
    /\ \A i, j \in DOMAIN raw.services : i # j =>
           LET s == raw.services[i]
               t == raw.services[j] IN
           /\ ~SameName(s.host.host, t.host.host)
           /\ s.label # t.label
           /\ s.upstream # t.upstream
=============================================================================
