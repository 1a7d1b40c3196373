----------------------------- MODULE MCFrontDoor -----------------------------
(***************************************************************************)
(* Two or three services picked from a pool in which every kind of field   *)
(* has a right and a wrong value and every kind of duplicate occurs, three *)
(* plain listeners, and requests that write the names in every way around  *)
(* their limits.                                                           *)
(***************************************************************************)
EXTENDS FrontDoor

CONSTANT c1

Label(word, len) == [word |-> word, len |-> len, upper |-> FALSE, kind |-> "name"]
Shout(label) == [label EXCEPT !.upper = TRUE]

app == Label("app", 3)
home == Label("home", 4)
long == Label("long", 63)
tooLong == Label("toolong", 64)
last == Label("last", 61)
octet == [word |-> "127", len |-> 3, upper |-> FALSE, kind |-> "octet"]
dashed == [word |-> "-app", len |-> 4, upper |-> FALSE, kind |-> "illegal"]

\* 63 + 63 + 63 + 61 and three dots are 253 characters.
longest == <<long, long, long, last>>

Authority(hostname, port) == [clean |-> TRUE, host |-> hostname, port |-> port]
Host(hostname) == Authority(hostname, NoPort)

Address(ip, port) == [ip |-> ip, port |-> port]

Service(hostname, port, label) ==
    [host |-> Host(hostname), upstream |-> Address("127.0.0.1", port),
     label |-> label, idle |-> 1800, command |-> {}]

base == Service(<<app, home>>, 9001, <<"a">>)

Pool ==
    {base,
     Service(<<Shout(app), home, Empty>>, 9002, <<"b">>),
     Service(<<app>>, 9002, <<"b">>),
     Service(<<home>>, 9002, <<"a">>),
     Service(<<home>>, 9001, <<"b">>),
     Service(longest, 9003, <<"c">>),
     Service(longest \o <<Empty>>, 9003, <<"d">>),
     [base EXCEPT !.upstream.ip = "::1", !.host = Host(<<home>>), !.label = <<"e">>],
     [base EXCEPT !.upstream.ip = "10.0.0.1"],
     [base EXCEPT !.upstream.port = 0],
     [base EXCEPT !.upstream.port = MaxPort + 1],
     [base EXCEPT !.host.port = 8080],
     [base EXCEPT !.host.host = <<octet, octet, octet, octet>>],
     [base EXCEPT !.label = <<>>],
     [base EXCEPT !.label = <<"a", "slash">>],
     [base EXCEPT !.idle = 0],
     [base EXCEPT !.command = {<<>>}],
     [base EXCEPT !.command = {<<"relative", "absolute">>}],
     [base EXCEPT !.command = {<<"absolute">>}]}

Listeners == {Address("0.0.0.0", 80), Address("127.0.0.1", 80),
              Address("127.0.0.1", 8080), Address("127.0.0.1", 0)}

TlsOptions == {{}} \cup
    {{[listen |-> Address("0.0.0.0", port), cert |-> cert, key |-> key]} :
     port \in {443, 8080}, cert \in {"absolute"}, key \in {"absolute", "relative"}}

Triples == {s \in [1 .. 3 -> Pool] : s[1] = base /\ s[2].host.host = <<app>>}

ServiceLists == {<<>>} \cup {<<s>> : s \in Pool} \cup (Pool \X Pool) \cup Triples

MCRawConfigs ==
    [listen : {Address("127.0.0.1", 8080)}, tls : {{}}, services : ServiceLists]
    \cup [listen : Listeners, tls : TlsOptions,
          services : {<<>>, <<base>>, <<base, Service(longest, 9003, <<"c">>)>>}]

MCAuthorities ==
    {Authority(hostname, port) :
     hostname \in {<<app, home>>, <<app, home, Empty>>, <<Shout(app), home>>, longest},
     port \in {NoPort, EmptyPort, 80, 443, 8080, MaxPort + 1 + 8080}}
    \cup {Host(hostname) : hostname \in
          {<<Empty>>, <<Empty, Empty>>, <<app>>, <<home>>, <<app, home, Empty, Empty>>,
           <<app, Empty, home>>, <<dashed, home>>, longest \o <<Empty>>,
           <<tooLong, home>>, <<long>> \o longest,
           <<octet, octet, octet, octet>>}}
    \cup {[Host(<<app, home>>) EXCEPT !.clean = FALSE]}
=============================================================================
