--------------------------- MODULE FrontDoorProofs --------------------------
(***************************************************************************)
(* Proofs about FrontDoor for any number of connections, configurations    *)
(* and Host values: what from_toml lets through is sound, a request is     *)
(* routed to the service it names, and neither a body nor a TLS record is  *)
(* parsed as a request.                                                    *)
(***************************************************************************)
EXTENDS FrontDoor, TLAPS

-----------------------------------------------------------------------------
(* Host names.                                                             *)

\* What HostAssumption says of one host, in the form the proofs cite.
LEMMA HostsAreSequences ==
  ASSUME NEW h \in Hosts
  PROVE  /\ h \in Seq(Labels)
         /\ Len(h) \in Nat \ {0}
         /\ DOMAIN h = 1 .. Len(h)
         /\ \A i \in 1 .. Len(h) : h[i] \in Labels
<1>1. h \in Seq(Labels) /\ h # <<>>
  BY HostAssumption
<1> HIDE DEF Hosts
<1> QED BY <1>1

\* strip_suffix takes away at most the last label, which is empty then.
LEMMA StrippedNames ==
  ASSUME NEW h \in Hosts, NEW name, name = StripDot(h)
  PROVE  /\ name \in Seq(Labels)
         /\ Len(name) \in Nat \ {0} /\ Len(name) <= Len(h)
         /\ \A i \in 1 .. Len(name) : name[i] = h[i]
         /\ \/ name = h /\ (Len(h) = 1 \/ h[Len(h)].word # Empty.word)
            \/ Len(h) = Len(name) + 1 /\ h[Len(h)].word = Empty.word
<1>1. /\ h \in Seq(Labels) /\ Len(h) \in Nat \ {0} /\ DOMAIN h = 1 .. Len(h)
      /\ \A i \in 1 .. Len(h) : h[i] \in Labels
  BY HostsAreSequences
<1>2. h[Len(h)].word = Empty.word <=> h[Len(h)].len = 0
  <2>1. \A i \in DOMAIN h : h[i].word = Empty.word <=> h[i].len = 0
    BY HostAssumption
  <2>2. Len(h) \in DOMAIN h
    BY <1>1
  <2> QED BY <2>1, <2>2
<1>3. Last(h) = h[Len(h)]
  BY DEF Last
<1>4. CASE Len(h) > 1 /\ Last(h).len = 0
  <2>1. name = SubSeq(h, 1, Len(h) - 1)
    BY <1>4 DEF StripDot, Front
  <2>2. /\ name \in Seq(Labels) /\ Len(name) = Len(h) - 1
        /\ \A i \in 1 .. Len(name) : name[i] = h[i]
    BY <1>1, <1>4, <2>1
  <2>3. Len(name) \in Nat \ {0} /\ Len(h) = Len(name) + 1
    BY <1>1, <1>4, <2>2
  <2>4. h[Len(h)].word = Empty.word
    BY <1>2, <1>3, <1>4
  <2> QED BY <1>1, <2>2, <2>3, <2>4
<1>5. CASE ~(Len(h) > 1 /\ Last(h).len = 0)
  <2>1. name = h
    BY <1>5 DEF StripDot
  <2>2. ASSUME Len(h) # 1 PROVE h[Len(h)].word # Empty.word
    <3>1. Len(h) > 1
      BY <1>1, <2>2
    <3>2. Last(h).len # 0
      BY <1>5, <3>1
    <3> QED BY <1>2, <1>3, <3>2
  <2>3. Len(h) = 1 \/ h[Len(h)].word # Empty.word
    BY <2>2
  <2>4. /\ name \in Seq(Labels) /\ Len(name) \in Nat \ {0}
        /\ Len(name) <= Len(h) /\ \A i \in 1 .. Len(name) : name[i] = h[i]
    BY <1>1, <2>1
  <2> QED BY <2>1, <2>3, <2>4
<1> QED BY <1>4, <1>5

\* Two names of the same words are the same name to normalize_dns_name.
LEMMA WordsTellTheName ==
  ASSUME NEW g \in Hosts, NEW h \in Hosts,
         NEW n, n = StripDot(g), NEW m, m = StripDot(h),
         Len(n) = Len(m), \A i \in 1 .. Len(n) : n[i].word = m[i].word
  PROVE  NormalizeDnsName(g) = NormalizeDnsName(h)
<1>1. /\ n \in Seq(Labels) /\ m \in Seq(Labels) /\ Len(n) \in Nat \ {0}
      /\ \A i \in 1 .. Len(n) : n[i] = g[i]
      /\ \A i \in 1 .. Len(m) : m[i] = h[i]
      /\ Len(n) <= Len(g) /\ Len(m) <= Len(h)
  <2>1. Len(g) \in Nat /\ Len(h) \in Nat
    BY HostsAreSequences
  <2> QED BY <2>1, StrippedNames
<1>2. Len(n) = Len(m) /\ \A i \in 1 .. Len(n) : n[i].word = m[i].word
  OBVIOUS
<1>3. DOMAIN n = 1 .. Len(n) /\ DOMAIN m = 1 .. Len(n)
  BY <1>1, <1>2
<1>4. \A i \in 1 .. Len(n) : n[i] \in Labels /\ m[i] \in Labels
  BY <1>1, <1>2
<1>5. \A i \in 1 .. Len(n) : n[i].len = m[i].len /\ n[i].kind = m[i].kind
  <2> SUFFICES ASSUME NEW i \in 1 .. Len(n)
               PROVE  n[i].len = m[i].len /\ n[i].kind = m[i].kind
    OBVIOUS
  <2>1. i \in DOMAIN g /\ i \in DOMAIN h
    BY <1>1, <1>2, HostsAreSequences
  <2>2. g[i].word = h[i].word
    BY <1>1, <1>2
  <2>3. g[i].len = h[i].len /\ g[i].kind = h[i].kind
    BY <2>1, <2>2, HostAssumption
  <2> QED BY <2>3, <1>1, <1>2
<1>6. Lengths(n) = Lengths(m)
  BY <1>3, <1>5 DEF Lengths
<1>7. \A i \in 1 .. Len(n) : [n[i] EXCEPT !.upper = FALSE] = [m[i] EXCEPT !.upper = FALSE]
  BY <1>2, <1>4, <1>5 DEF Labels
<1>8. ToLowerCase(n) = ToLowerCase(m)
  BY <1>3, <1>7 DEF ToLowerCase
<1>9. IsIpAddress(n) <=> IsIpAddress(m)
  BY <1>2, <1>3, <1>5 DEF IsIpAddress
<1>10. NameLength(n) = NameLength(m)
  BY <1>2, <1>6 DEF NameLength
<1> QED BY <1>2, <1>3, <1>5, <1>8, <1>9, <1>10 DEF NormalizeDnsName

\* What normalize_dns_name makes of a name has the words of that name, and no
\* empty one.
LEMMA NormalNames ==
  ASSUME NEW h \in Hosts, NormalizeDnsName(h) # {}, NEW name, name = StripDot(h)
  PROVE  /\ NormalizeDnsName(h) = {ToLowerCase(name)}
         /\ Words(ToLowerCase(name)) = Words(name)
         /\ \A i \in 1 .. Len(name) : name[i].word # Empty.word
<1>1. /\ name \in Seq(Labels) /\ h \in Seq(Labels)
      /\ Len(h) \in Nat /\ Len(name) \in Nat /\ Len(name) <= Len(h)
      /\ \A i \in 1 .. Len(name) : name[i] = h[i]
  BY StrippedNames, HostsAreSequences
<1>2. NormalizeDnsName(h) = {ToLowerCase(name)}
  BY DEF NormalizeDnsName
<1>3. DOMAIN name = 1 .. Len(name) /\ \A i \in 1 .. Len(name) : name[i] \in Labels
  BY <1>1
<1>4. Words(ToLowerCase(name)) = Words(name)
  BY <1>3 DEF Words, ToLowerCase, Labels
<1>5. \A i \in DOMAIN name : name[i].len \in 1 .. 63
  BY DEF NormalizeDnsName
<1>6. ASSUME NEW i \in 1 .. Len(name) PROVE name[i].word # Empty.word
  <2>1. i \in DOMAIN h /\ name[i] = h[i]
    BY <1>1
  <2> DEFINE len == name[i].len
  <2>2. len \in 1 .. 63
    BY <1>3, <1>5
  <2> HIDE DEF len
  <2>3. len # 0
    BY <2>2
  <2>4. h[i].word # Empty.word
    BY <2>1, <2>3, HostAssumption DEF len
  <2> QED BY <2>1, <2>4
<1> QED BY <1>2, <1>4, <1>6

\* The words of a host are those of its name, and an empty one if a dot was
\* taken away.
LEMMA WordsOfAHost ==
  ASSUME NEW h \in Hosts, NEW name, name = StripDot(h)
  PROVE  /\ Words(name) \in Seq(STRING) /\ Words(h) \in Seq(STRING)
         /\ Len(Words(name)) = Len(name)
         /\ \A i \in 1 .. Len(name) : Words(name)[i] = name[i].word
         /\ \/ name = h
            \/ Words(h) = Append(Words(name), Empty.word)
<1>1. /\ name \in Seq(Labels) /\ h \in Seq(Labels)
      /\ Len(h) \in Nat /\ Len(name) \in Nat /\ Len(name) <= Len(h)
      /\ \A i \in 1 .. Len(name) : name[i] = h[i]
      /\ name = h \/ (Len(h) = Len(name) + 1 /\ h[Len(h)].word = Empty.word)
  BY StrippedNames, HostsAreSequences
<1>2. ASSUME NEW s \in Seq(Labels)
      PROVE  /\ Words(s) \in Seq(STRING) /\ Len(Words(s)) = Len(s)
             /\ \A i \in 1 .. Len(s) : Words(s)[i] = s[i].word
  <2>1. /\ DOMAIN s = 1 .. Len(s) /\ Len(s) \in Nat
        /\ \A i \in 1 .. Len(s) : s[i] \in Labels
    OBVIOUS
  <2>2. Words(s) = [i \in 1 .. Len(s) |-> s[i].word]
    BY <2>1 DEF Words
  <2>3. \A i \in 1 .. Len(s) : s[i].word \in STRING
    BY <2>1 DEF Labels
  <2> QED BY <2>1, <2>2, <2>3
<1>3. CASE Len(h) = Len(name) + 1 /\ h[Len(h)].word = Empty.word
  <2> DEFINE words == Words(name)
             all == Words(h)
             empty == Empty.word
  <2>1. /\ words \in Seq(STRING) /\ Len(words) = Len(name)
        /\ all \in Seq(STRING) /\ Len(all) = Len(h)
        /\ \A i \in 1 .. Len(name) : words[i] = name[i].word
        /\ \A i \in 1 .. Len(h) : all[i] = h[i].word
    BY <1>1, <1>2
  <2>2. \A i \in 1 .. Len(name) : all[i] = words[i]
    BY <1>1, <2>1
  <2>3. all[Len(h)] = empty
    BY <1>1, <1>3, <2>1
  <2> HIDE DEF words, all, empty
  <2>4. all = Append(words, empty)
    BY <1>1, <1>3, <2>1, <2>2, <2>3
  <2> QED BY <2>4, <1>1, <1>2 DEF words, all, empty
<1> QED BY <1>1, <1>2, <1>3

\* Append, Last and Front.
LEMMA AppendAndFront ==
  ASSUME NEW S, NEW s \in Seq(S), NEW e
  PROVE  /\ Len(Append(s, e)) = Len(s) + 1
         /\ Last(Append(s, e)) = e
         /\ Front(Append(s, e)) = s
<1> DEFINE T == S \cup {e}
<1>1. s \in Seq(T) /\ e \in T
  OBVIOUS
<1> HIDE DEF T
<1>2. /\ Append(s, e) \in Seq(T) /\ Len(Append(s, e)) = Len(s) + 1
      /\ Append(s, e)[Len(s) + 1] = e
      /\ \A i \in 1 .. Len(s) : Append(s, e)[i] = s[i]
  BY <1>1
<1>3. SubSeq(Append(s, e), 1, Len(s)) = s
  BY <1>1, <1>2
<1> QED BY <1>2, <1>3 DEF Last, Front

\* The words of a valid name, and the two ways to write them.
LEMMA SpellingsOfAName ==
  ASSUME NEW h \in Hosts, NormalizeDnsName(h) # {}, NEW words,
         words = Words(StripDot(h))
  PROVE  /\ words \in Seq(STRING) /\ words # <<>> /\ Last(words) # Empty.word
         /\ Spellings(Words(h)) = {words, Append(words, Empty.word)}
<1> DEFINE name == StripDot(h)
<1>1. words \in Seq(STRING) /\ Len(words) = Len(name) /\ Len(name) \in Nat \ {0}
  BY WordsOfAHost, StrippedNames
<1>2. words[Len(words)] # Empty.word
  <2> HIDE DEF name
  <2>1. \A i \in 1 .. Len(name) : name[i].word # Empty.word /\ words[i] = name[i].word
    BY NormalNames, WordsOfAHost DEF name
  <2> QED BY <1>1, <2>1
<1>3. Last(words) # Empty.word
  BY <1>2 DEF Last
<1>4. ASSUME name = h
      PROVE  Spellings(Words(h)) = {words, Append(words, Empty.word)}
  <2>1. Words(h) = words
    BY <1>4
  <2>2. Spellings(words) = {words, Append(words, Empty.word)}
    BY <1>3 DEF Spellings
  <2> QED BY <2>1, <2>2
<1>5. ASSUME Words(h) = Append(words, Empty.word)
      PROVE  Spellings(Words(h)) = {words, Append(words, Empty.word)}
  <2>1. Last(Words(h)) = Empty.word /\ Front(Words(h)) = words
    BY <1>1, <1>5, AppendAndFront
  <2> QED BY <1>3, <1>5, <2>1 DEF Spellings
<1>6. name = h \/ Words(h) = Append(words, Empty.word)
  BY WordsOfAHost
<1>7. words # <<>>
  BY <1>1
<1> QED BY <1>1, <1>3, <1>4, <1>5, <1>6, <1>7

\* The normalisation finds exactly the hosts that are the same name.
LEMMA NormalIsSame ==
  ASSUME NEW g \in Hosts, NEW h \in Hosts, NormalizeDnsName(h) # {}
  PROVE  /\ SameName(g, h) => NormalizeDnsName(g) = NormalizeDnsName(h)
         /\ NormalizeDnsName(g) \cap NormalizeDnsName(h) # {} => SameName(g, h)
<1> DEFINE n == StripDot(g)
           m == StripDot(h)
           w == Words(n)
           v == Words(m)
           empty == Empty.word
<1>1. /\ v \in Seq(STRING) /\ v # <<>> /\ Last(v) # empty
      /\ Spellings(Words(h)) = {v, Append(v, empty)}
  BY SpellingsOfAName
<1>2. w \in Seq(STRING) /\ Words(g) \in Seq(STRING)
  BY WordsOfAHost
<1>3. n = g \/ Words(g) = Append(w, empty)
  BY WordsOfAHost
<1>4. ASSUME SameName(g, h) PROVE w = v
  <2>1. CASE Words(g) = v
    <3>1. Words(g) # Append(w, empty)
      BY <1>1, <1>2, <2>1, AppendAndFront
    <3> QED BY <1>3, <2>1, <3>1
  <2>2. CASE Words(g) = Append(v, empty)
    <3>1. Last(Words(g)) = empty /\ Len(Words(g)) > 1 /\ Front(Words(g)) = v
      BY <1>1, <1>2, <2>2, AppendAndFront
    <3>2. n # g
      <4> SUFFICES ASSUME n = g PROVE FALSE
        OBVIOUS
      <4>1. Len(g) = 1 \/ g[Len(g)].word # empty
        BY StrippedNames
      <4>2. Len(g) = Len(Words(g)) /\ Words(g)[Len(g)] = g[Len(g)].word
        BY WordsOfAHost, HostsAreSequences
      <4> QED BY <3>1, <4>1, <4>2 DEF Last
    <3>3. Words(g) = Append(w, empty)
      BY <1>3, <3>2
    <3>4. Front(Words(g)) = w
      BY <1>2, <3>3, AppendAndFront
    <3> QED BY <3>1, <3>4
  <2> QED BY <1>1, <1>4, <2>1, <2>2 DEF SameName
<1>5. ASSUME w = v PROVE NormalizeDnsName(g) = NormalizeDnsName(h)
  <2>1. /\ Len(n) = Len(w) /\ \A i \in 1 .. Len(n) : w[i] = n[i].word
        /\ Len(m) = Len(v) /\ \A i \in 1 .. Len(m) : v[i] = m[i].word
    BY WordsOfAHost
  <2>2. Len(n) = Len(m) /\ \A i \in 1 .. Len(n) : n[i].word = m[i].word
    BY <1>5, <2>1
  <2> QED BY <2>2, WordsTellTheName
<1>6. ASSUME NormalizeDnsName(g) \cap NormalizeDnsName(h) # {}
      PROVE  SameName(g, h)
  <2>1. NormalizeDnsName(g) = {ToLowerCase(n)} /\ NormalizeDnsName(h) = {ToLowerCase(m)}
    BY <1>6, NormalNames
  <2>2. w = Words(ToLowerCase(n)) /\ v = Words(ToLowerCase(m))
    BY <1>6, NormalNames
  <2>3. w = v
    BY <1>6, <2>1, <2>2
  <2> QED BY <1>1, <1>3, <2>3 DEF SameName
<1> QED BY <1>4, <1>5, <1>6

-----------------------------------------------------------------------------
(* The loop of from_toml.                                                  *)

\* What makes two services different for from_toml.
Apart(s, t) ==
    /\ NormalizeConfigHost(s.host) \cap NormalizeConfigHost(t.host) = {}
    /\ s.label # t.label
    /\ s.upstream # t.upstream

Fits ==
    /\ ValidListener(raw.listen)
    /\ \A tls \in raw.tls : ValidTls(tls, raw.listen) /\ material

\* The invariant of from_toml's loop: the services it has gone through are
\* valid and apart, and the table holds them and nothing else.
LoopInvariant ==
    /\ ValidFrame(raw)
    /\ \A i \in 1 .. loaded : ValidService(raw.services[i])
    /\ \A i, j \in 1 .. loaded :
           i # j => Apart(raw.services[i], raw.services[j])
    /\ routes = UNION {Loaded(raw.services[i]) : i \in 1 .. loaded}

StartInOrder ==
    /\ gateway = "starting" => loaded = 0 /\ routes = {}
    /\ gateway \in {"loading", "serving"} => LoopInvariant
    /\ gateway = "serving" => loaded = Len(raw.services) /\ Fits
    /\ gateway = "refused" => ~(Fits /\ Sound(raw))

\* No connection before the listeners, and what each has been routed to is
\* what the table says.
RoutesAreTheTables ==
    \A c \in Connections :
        /\ stage[c] # "closed" \/ host[c] # {} \/ routed[c] # {} => gateway = "serving"
        /\ listener[c] = "tls" => raw.tls # {}
        /\ \A a \in host[c] :
               routed[c] = {s \in routes :
                   s.host \in NormalizeRequestHost(a, LocalPort(c))}


\* What RawAssumption says of one configuration.
LEMMA ServicesAreWritten ==
  ASSUME NEW config \in RawConfigs
  PROVE  /\ Len(config.services) \in Nat
         /\ DOMAIN config.services = 1 .. Len(config.services)
         /\ \A i \in 1 .. Len(config.services) : config.services[i].host.host \in Hosts
<1> DEFINE list == config.services
<1>1. list \in Seq(Range(list))
  BY RawAssumption
<1>2. Len(list) \in Nat /\ DOMAIN list = 1 .. Len(list)
  BY <1>1
<1>3. ASSUME NEW i \in DOMAIN list PROVE list[i].host.host \in Hosts
  <2>1. list[i] \in Range(list)
    BY DEF Range
  <2> QED BY <2>1 DEF Hosts
<1> QED BY <1>2, <1>3

\* A host of a configuration that is accepted at all is normalised like a
\* request's.
LEMMA ConfiguredHosts ==
  ASSUME NEW s, NormalizeConfigHost(s.host) # {}
  PROVE  NormalizeConfigHost(s.host) = NormalizeDnsName(s.host.host)
BY DEF NormalizeConfigHost, NormalizeAuthority

\* For valid services, apart and of different names is the same.
LEMMA ApartIsUnlike ==
  ASSUME NEW s, NEW t, s.host.host \in Hosts, t.host.host \in Hosts,
         ValidService(s), ValidService(t)
  PROVE  Apart(s, t) <=> /\ ~SameName(s.host.host, t.host.host)
                         /\ s.label # t.label /\ s.upstream # t.upstream
<1>1. /\ NormalizeConfigHost(s.host) # {}
      /\ NormalizeConfigHost(s.host) = NormalizeDnsName(s.host.host)
      /\ NormalizeConfigHost(t.host) # {}
      /\ NormalizeConfigHost(t.host) = NormalizeDnsName(t.host.host)
  BY ConfiguredHosts DEF ValidService
<1>2. NormalizeConfigHost(s.host) \cap NormalizeConfigHost(t.host) = {}
          <=> ~SameName(s.host.host, t.host.host)
  BY <1>1, NormalIsSame
<1> QED BY <1>2 DEF Apart

\* What one round decides.
LEMMA RoundAdds ==
  ASSUME NEW list, NEW n \in Nat, NEW table, NEW s,
         table = UNION {Loaded(list[i]) : i \in 1 .. n},
         NEW config, config = AddService([ok |-> TRUE, services |-> table], s),
         \A i \in 1 .. n : ValidService(list[i])
  PROVE  /\ config.ok \in BOOLEAN
         /\ config.ok <=> ValidService(s) /\ \A i \in 1 .. n : Apart(list[i], s)
         /\ config.ok => config.services = table \cup Loaded(s)
<1> DEFINE good == /\ ValidService(s)
                   /\ \A r \in table :
                          /\ r.host \notin NormalizeConfigHost(s.host)
                          /\ r.label # s.label
                          /\ r.upstream # s.upstream
<1>1. config = IF good THEN [ok |-> TRUE, services |-> table \cup Loaded(s)]
               ELSE [ok |-> FALSE, services |-> {}]
  BY DEF AddService, Rejected
<1>2. ASSUME good, NEW i \in 1 .. n PROVE Apart(list[i], s)
  <2>1. \A h \in NormalizeConfigHost(list[i].host) :
            [host |-> h, upstream |-> list[i].upstream, label |-> list[i].label]
                \in table
    BY DEF Loaded
  <2>2. NormalizeConfigHost(list[i].host) # {}
    BY DEF ValidService
  <2>3. \A h \in NormalizeConfigHost(list[i].host) :
            /\ h \notin NormalizeConfigHost(s.host)
            /\ list[i].label # s.label /\ list[i].upstream # s.upstream
    BY <1>2, <2>1
  <2> QED BY <2>2, <2>3 DEF Apart
<1>3. ASSUME ValidService(s), \A i \in 1 .. n : Apart(list[i], s) PROVE good
  <2> SUFFICES ASSUME NEW r \in table
               PROVE  /\ r.host \notin NormalizeConfigHost(s.host)
                      /\ r.label # s.label /\ r.upstream # s.upstream
    BY <1>3
  <2>1. PICK i \in 1 .. n : r \in Loaded(list[i])
    OBVIOUS
  <2>2. /\ r.host \in NormalizeConfigHost(list[i].host)
        /\ r.label = list[i].label /\ r.upstream = list[i].upstream
    BY <2>1 DEF Loaded
  <2> QED BY <1>3, <2>2 DEF Apart
<1>4. good <=> ValidService(s) /\ \A i \in 1 .. n : Apart(list[i], s)
  BY <1>2, <1>3
<1> HIDE DEF good
<1>5. ASSUME good PROVE config.ok = TRUE /\ config.services = table \cup Loaded(s)
  <2> DEFINE more == table \cup Loaded(s)
  <2>1. config = [ok |-> TRUE, services |-> more]
    BY <1>1, <1>5
  <2> HIDE DEF more
  <2>2. config.ok = TRUE /\ config.services = more
    BY <2>1
  <2> QED BY <2>2 DEF more
<1>6. ASSUME ~good PROVE config.ok = FALSE
  BY <1>1, <1>6
<1> QED BY <1>4, <1>5, <1>6


\* A configuration is sound when the loop has gone through all of it.
LEMMA LoopMakesSound ==
  ASSUME raw \in RawConfigs, LoopInvariant, loaded = Len(raw.services)
  PROVE  Sound(raw)
<1> DEFINE list == raw.services
<1>1. /\ DOMAIN list = 1 .. loaded
      /\ \A i \in 1 .. loaded : list[i].host.host \in Hosts
      /\ list # <<>>
  BY ServicesAreWritten DEF LoopInvariant, ValidFrame
<1>2. ASSUME NEW i \in 1 .. loaded, NEW j \in 1 .. loaded, i # j
      PROVE  /\ ~SameName(list[i].host.host, list[j].host.host)
             /\ list[i].label # list[j].label /\ list[i].upstream # list[j].upstream
  <2>1. ValidService(list[i]) /\ ValidService(list[j]) /\ Apart(list[i], list[j])
    BY <1>2 DEF LoopInvariant
  <2> QED BY <1>1, <2>1, ApartIsUnlike
<1>3. \A i \in 1 .. loaded : ValidService(list[i])
  BY DEF LoopInvariant
<1> QED BY <1>1, <1>2, <1>3 DEF Sound

\* Whatever makes a round fail makes the configuration unsound.
LEMMA FailureIsUnsound ==
  ASSUME raw \in RawConfigs, NEW i \in DOMAIN raw.services,
         \/ ~ValidService(raw.services[i])
         \/ \E j \in DOMAIN raw.services \ {i} :
                ~Apart(raw.services[j], raw.services[i])
  PROVE  ~Sound(raw)
<1> DEFINE list == raw.services
<1>1. CASE ~ValidService(list[i])
  BY <1>1 DEF Sound
<1>2. ASSUME NEW j \in DOMAIN list \ {i}, ~Apart(list[j], list[i]), Sound(raw)
      PROVE  FALSE
  <2>1. list[i].host.host \in Hosts /\ list[j].host.host \in Hosts
    BY ServicesAreWritten
  <2>2. ValidService(list[i]) /\ ValidService(list[j])
    BY <1>2 DEF Sound
  <2>3. /\ ~SameName(list[j].host.host, list[i].host.host)
        /\ list[j].label # list[i].label /\ list[j].upstream # list[i].upstream
    BY <1>2 DEF Sound
  <2> QED BY <1>2, <2>1, <2>2, <2>3, ApartIsUnlike
<1> QED BY <1>1, <1>2

\* A round of the loop.
LEMMA RoundKeeps ==
  ASSUME raw \in RawConfigs, StartInOrder, loaded \in Nat, LoadService
  PROVE  StartInOrder'
<1> DEFINE n == loaded
           list == raw.services
           s == list[n + 1]
           config == AddService([ok |-> TRUE, services |-> routes], s)
<1>1. /\ gateway = "loading" /\ n < Len(list) /\ loaded' = n + 1
      /\ routes' = config.services
      /\ gateway' = IF config.ok THEN "loading" ELSE "refused"
      /\ raw' = raw /\ material' = material
  BY DEF LoadService, otherVars
<1>2. LoopInvariant
  BY <1>1 DEF StartInOrder
<1>3. /\ n + 1 \in DOMAIN list /\ \A i \in 1 .. n : i \in DOMAIN list \ {n + 1}
  BY <1>1, ServicesAreWritten
<1>4. /\ config.ok \in BOOLEAN
      /\ config.ok <=> ValidService(s) /\ \A i \in 1 .. n : Apart(list[i], s)
      /\ config.ok => config.services = routes \cup Loaded(s)
  <2>1. /\ routes = UNION {Loaded(list[i]) : i \in 1 .. n}
        /\ \A i \in 1 .. n : ValidService(list[i])
    BY <1>2 DEF LoopInvariant
  <2> HIDE DEF config
  <2>2. config = AddService([ok |-> TRUE, services |-> routes], s)
    BY DEF config
  <2> HIDE DEF list, s
  <2> QED BY <2>1, <2>2, RoundAdds
<1> HIDE DEF config
<1>5. CASE config.ok
  <2>1. \A i \in 1 .. n + 1 : i \in 1 .. n \/ i = n + 1
    OBVIOUS
  <2>2. \A i \in 1 .. n + 1 : ValidService(list[i])
    BY <1>2, <1>4, <1>5, <2>1 DEF LoopInvariant
  <2>3. ASSUME NEW i \in 1 .. n + 1, NEW j \in 1 .. n + 1, i # j
        PROVE  Apart(list[i], list[j])
    <3>1. ASSUME NEW k \in 1 .. n PROVE Apart(list[k], s) /\ Apart(s, list[k])
      BY <1>4, <1>5 DEF Apart
    <3>2. CASE i \in 1 .. n /\ j \in 1 .. n
      BY <1>2, <2>3, <3>2 DEF LoopInvariant
    <3> QED BY <2>1, <2>3, <3>1, <3>2
  <2>4. routes' = UNION {Loaded(list[i]) : i \in 1 .. n + 1}
    <3>1. routes = UNION {Loaded(list[i]) : i \in 1 .. n}
      BY <1>2 DEF LoopInvariant
    <3>2. routes' = routes \cup Loaded(s)
      BY <1>1, <1>4, <1>5
    <3>3. 1 .. n + 1 = 1 .. n \cup {n + 1}
      OBVIOUS
    <3> QED BY <3>1, <3>2, <3>3
  <2>5. LoopInvariant'
    BY <1>1, <1>2, <2>2, <2>3, <2>4 DEF LoopInvariant
  <2> QED BY <1>1, <1>5, <2>5 DEF StartInOrder
<1>6. CASE ~config.ok
  <2>1. ~Sound(raw)
    BY <1>3, <1>4, <1>6, FailureIsUnsound
  <2>2. gateway' = "refused"
    BY <1>1, <1>6
  <2> QED BY <1>1, <2>1, <2>2 DEF StartInOrder
<1> QED BY <1>4, <1>5, <1>6

\* What starts and what is refused before and after the loop.
LEMMA StartKeeps ==
  ASSUME raw \in RawConfigs, StartInOrder, Start
  PROVE  StartInOrder'
<1>1. /\ gateway = "starting" /\ loaded' = 0 /\ routes' = {} /\ raw' = raw
      /\ gateway' = IF ValidFrame(raw) THEN "loading" ELSE "refused"
  BY DEF Start, StartInOrder, otherVars
<1>2. CASE ValidFrame(raw)
  <2>1. LoopInvariant'
    BY <1>1, <1>2 DEF LoopInvariant
  <2> QED BY <1>1, <1>2, <2>1 DEF StartInOrder
<1>3. CASE ~ValidFrame(raw)
  <2>1. ~(Fits /\ Sound(raw))'
    BY <1>1, <1>3 DEF ValidFrame, Fits, Sound
  <2> QED BY <1>1, <1>3, <2>1 DEF StartInOrder
<1> QED BY <1>2, <1>3

LEMMA ListenKeeps ==
  ASSUME raw \in RawConfigs, StartInOrder, Listen
  PROVE  StartInOrder'
<1>1. /\ gateway = "loading" /\ loaded = Len(raw.services)
      /\ UNCHANGED <<raw, material, loaded, routes>>
      /\ gateway' = IF raw.tls # {} => material THEN "serving" ELSE "refused"
  BY DEF Listen, otherVars
<1>2. LoopInvariant /\ LoopInvariant'
  BY <1>1 DEF StartInOrder, LoopInvariant
<1>3. Fits' <=> (raw.tls # {} => material)
  BY <1>1, <1>2 DEF Fits, LoopInvariant, ValidFrame
<1>4. CASE raw.tls # {} => material
  BY <1>1, <1>2, <1>3, <1>4 DEF StartInOrder
<1>5. CASE ~(raw.tls # {} => material)
  BY <1>1, <1>2, <1>3, <1>5 DEF StartInOrder
<1> QED BY <1>4, <1>5

-----------------------------------------------------------------------------
(* The invariant.                                                          *)

\* A body is on a connection only while its request is proxied, or after the
\* end.
UnreadIsProxied ==
    \A c \in Connections : unread[c] => stage[c] \in {"proxying", "closed"}

IInv == TypeOK /\ UnreadIsProxied /\ StartInOrder /\ RoutesAreTheTables

LEMMA InitEstablishes == Init => IInv
<1> SUFFICES ASSUME Init PROVE IInv
  OBVIOUS
<1>1. /\ raw \in RawConfigs /\ Len(raw.services) \in Nat
      /\ <<>> \in {s \in Seq(Bytes) : Len(s) <= 3} /\ 0 \in 0 .. PeekTimeout
  BY ServicesAreWritten, PeekAssumption DEF Init
<1>2. TypeOK
  BY <1>1 DEF Init, TypeOK, Stages
<1>3. UnreadIsProxied /\ StartInOrder /\ RoutesAreTheTables
  BY DEF Init, UnreadIsProxied, StartInOrder, RoutesAreTheTables
<1> QED BY <1>2, <1>3 DEF IInv

\* One step of Next and each conjunct in turn: the types first.
LEMMA TypesKept == ASSUME IInv, [Next]_vars PROVE TypeOK'
<1>1. /\ raw' = raw /\ material' = material
  BY DEF Next, vars, startVars, Start, LoadService, Listen, otherVars, Connect, Send,
         ProcessNew, Peek, PeekTimesOut, Leave, Route, ShuttingDown, EndRequest,
         CloseGate, BroadcastShutdown, Tick
<1>2. /\ raw \in RawConfigs /\ material \in BOOLEAN
      /\ gateway \in {"starting", "loading", "refused", "serving"}
      /\ loaded \in 0 .. Len(raw.services)
      /\ shutdown \in {"no", "closing", "broadcast"}
      /\ stage \in [Connections -> Stages]
      /\ listener \in [Connections -> {"plain", "tls"}]
      /\ sent \in [Connections -> {s \in Seq(Bytes) : Len(s) <= 3}]
      /\ host \in [Connections -> SUBSET Authorities]
      /\ routed \in [Connections -> SUBSET routes]
      /\ ended \in [Connections -> BOOLEAN]
      /\ unread \in [Connections -> BOOLEAN]
      /\ peekIn \in [Connections -> 0 .. PeekTimeout]
  BY DEF IInv, TypeOK
<1>3. <<>> \in {s \in Seq(Bytes) : Len(s) <= 3} /\ 0 \in 0 .. PeekTimeout
      /\ PeekTimeout \in 0 .. PeekTimeout /\ Len(raw.services) \in Nat
  BY <1>2, PeekAssumption, ServicesAreWritten
<1>4. CASE Start
  BY <1>1, <1>2, <1>4
     DEF TypeOK, Start, otherVars, clientVars, requestVars
<1>5. CASE LoadService
  <2>1. routed \in [Connections -> SUBSET routes']
    <3>1. gateway # "serving"
      BY <1>5 DEF LoadService
    <3>2. \A c \in Connections : routed[c] = {}
      BY <3>1 DEF IInv, RoutesAreTheTables
    <3> QED BY <1>2, <3>2
  <2>2. gateway' \in {"starting", "loading", "refused", "serving"}
    BY <1>5 DEF LoadService
  <2>3. loaded' \in 0 .. Len(raw.services)
    BY <1>2, <1>3, <1>5 DEF LoadService
  <2> QED BY <1>1, <1>2, <1>5, <2>1, <2>2, <2>3
     DEF TypeOK, LoadService, otherVars, clientVars, requestVars
<1>6. CASE Listen
  BY <1>1, <1>2, <1>6
     DEF TypeOK, Listen, otherVars, clientVars, requestVars
<1>7. ASSUME NEW c \in Connections, Connect(c) PROVE TypeOK'
  BY <1>1, <1>2, <1>3, <1>7 DEF TypeOK, Connect, startVars, Stages
<1>8. ASSUME NEW c \in Connections, Send(c) PROVE TypeOK'
  <2>1. CASE UNCHANGED sent
    BY <1>1, <1>2, <1>8, <2>1 DEF TypeOK, Send, startVars, requestVars
  <2>2. ASSUME NEW b \in Bytes, Len(sent[c]) < 3,
               sent' = [sent EXCEPT ![c] = Append(@, b)]
        PROVE  sent' \in [Connections -> {s \in Seq(Bytes) : Len(s) <= 3}]
    <3>1. Append(sent[c], b) \in {s \in Seq(Bytes) : Len(s) <= 3}
      <4> DEFINE s == sent[c]
      <4>1. s \in Seq(Bytes) /\ Len(s) < 3
        BY <1>2, <2>2
      <4> HIDE DEF s
      <4>2. Append(s, b) \in Seq(Bytes) /\ Len(Append(s, b)) <= 3
        BY <4>1
      <4> QED BY <4>2 DEF s
    <3> QED BY <1>2, <2>2, <3>1
  <2>3. ASSUME UNCHANGED ended,
               sent' \in [Connections -> {s \in Seq(Bytes) : Len(s) <= 3}]
        PROVE  TypeOK'
    BY <1>1, <1>2, <1>8, <2>3 DEF TypeOK, Send, startVars, requestVars
  <2> QED BY <1>8, <2>1, <2>2, <2>3 DEF Send
<1>9. ASSUME NEW c \in Connections, NEW next \in {"closed", "http"}, Leave(c, next)
      PROVE  TypeOK'
  BY <1>1, <1>2, <1>3, <1>9 DEF TypeOK, Leave, startVars, requestVars, Stages
<1>10. ASSUME NEW c \in Connections, ProcessNew(c) PROVE TypeOK'
  <2>1. CASE /\ stage' = [stage EXCEPT ![c] = "peeking"]
             /\ peekIn' = [peekIn EXCEPT ![c] = PeekTimeout]
             /\ UNCHANGED <<startVars, shutdown, clientVars, requestVars>>
    BY <1>1, <1>2, <1>3, <2>1
       DEF TypeOK, startVars, clientVars, requestVars, Stages
  <2> QED BY <1>9, <1>10, <2>1 DEF ProcessNew
<1>11. ASSUME NEW c \in Connections, Peek(c) \/ PeekTimesOut(c) PROVE TypeOK'
  <2>1. Leave(c, "closed") \/ Leave(c, "http")
    BY <1>11 DEF Peek, PeekTimesOut
  <2> QED BY <1>9, <2>1
<1>12. ASSUME NEW c \in Connections, NEW a \in Authorities, Route(c, a)
       PROVE  TypeOK'
  <2> DEFINE found == {s \in routes : s.host \in NormalizeRequestHost(a, LocalPort(c))}
  <2>1. /\ host' = [host EXCEPT ![c] = {a}]
        /\ routed' = [routed EXCEPT ![c] = found]
        /\ \E body \in BOOLEAN : unread' = [unread EXCEPT ![c] = body]
        /\ \/ stage' = [stage EXCEPT ![c] = "closed"]
           \/ stage' = [stage EXCEPT ![c] = "proxying"]
        /\ UNCHANGED <<startVars, shutdown, clientVars, peekIn>>
    BY <1>12 DEF Route, AnswerAndClose
  <2>2. found \in SUBSET routes
    OBVIOUS
  <2> HIDE DEF found
  <2> QED BY <1>1, <1>2, <2>1, <2>2 DEF TypeOK, startVars, clientVars, Stages
<1>13. ASSUME NEW c \in Connections, ShuttingDown(c) PROVE TypeOK'
  BY <1>1, <1>2, <1>13
     DEF TypeOK, ShuttingDown, AnswerAndClose, startVars, clientVars, Stages
<1>14. ASSUME NEW c \in Connections, EndRequest(c) PROVE TypeOK'
  BY <1>1, <1>2, <1>14 DEF TypeOK, EndRequest, startVars, clientVars, Stages
<1>15. CASE CloseGate \/ BroadcastShutdown
  BY <1>1, <1>2, <1>15
     DEF TypeOK, CloseGate, BroadcastShutdown, startVars, clientVars, requestVars
<1>16. CASE Tick
  <2>1. \A n \in 0 .. PeekTimeout : CountDown(n) \in 0 .. PeekTimeout
    BY PeekAssumption DEF CountDown
  <2>2. peekIn' \in [Connections -> 0 .. PeekTimeout]
    BY <1>2, <1>16, <2>1 DEF Tick
  <2> QED BY <1>1, <1>2, <1>16, <2>2
     DEF TypeOK, Tick, startVars, clientVars, requestVars
<1>17. CASE UNCHANGED vars
  BY <1>1, <1>2, <1>17 DEF TypeOK, vars, startVars, clientVars, requestVars
<1> QED
  BY <1>4, <1>5, <1>6, <1>7, <1>8, <1>10, <1>11, <1>12, <1>13, <1>14, <1>15,
     <1>16, <1>17 DEF Next

\* A step that leaves the table alone and moves a connection whose last
\* request has no Host any more.
LEMMA ForgettingKeeps ==
  ASSUME TypeOK, RoutesAreTheTables, UNCHANGED <<raw, routes, gateway>>,
         gateway = "serving",
         NEW c \in Connections, NEW next, NEW l \in {"plain", "tls"},
         l = "tls" => raw.tls # {},
         stage' = [stage EXCEPT ![c] = next],
         listener' = [listener EXCEPT ![c] = l],
         host' = [host EXCEPT ![c] = {}], routed' = [routed EXCEPT ![c] = {}]
  PROVE  RoutesAreTheTables'
<1> SUFFICES ASSUME NEW d \in Connections
             PROVE  /\ listener'[d] = "tls" => raw.tls # {}
                    /\ \A a \in host'[d] :
                           routed'[d] = {s \in routes :
                               s.host \in NormalizeRequestHost(a, LocalPort(d)')}
  BY DEF RoutesAreTheTables
<1>1. CASE d = c
  BY <1>1 DEF TypeOK
<1>2. CASE d # c
  <2>1. /\ listener'[d] = listener[d] /\ host'[d] = host[d] /\ routed'[d] = routed[d]
    BY <1>2 DEF TypeOK
  <2>2. LocalPort(d)' = LocalPort(d)
    BY <2>1 DEF LocalPort
  <2> QED BY <2>1, <2>2 DEF RoutesAreTheTables
<1> QED BY <1>1, <1>2

\* A request is routed as the table says.
LEMMA RoutingKeeps ==
  ASSUME TypeOK, RoutesAreTheTables, NEW c \in Connections, NEW a \in Authorities,
         Route(c, a)
  PROVE  RoutesAreTheTables'
<1>1. /\ UNCHANGED <<raw, routes, gateway, listener>> /\ gateway = "serving"
      /\ host' = [host EXCEPT ![c] = {a}]
      /\ routed' = [routed EXCEPT ![c] =
             {s \in routes : s.host \in NormalizeRequestHost(a, LocalPort(c))}]
  BY DEF Route, startVars, clientVars, RoutesAreTheTables
<1> SUFFICES ASSUME NEW d \in Connections
             PROVE  \A b \in host'[d] :
                        routed'[d] = {s \in routes :
                            s.host \in NormalizeRequestHost(b, LocalPort(d)')}
  BY <1>1 DEF RoutesAreTheTables
<1>2. LocalPort(d)' = LocalPort(d)
  BY <1>1 DEF LocalPort
<1>3. CASE d = c
  BY <1>1, <1>2, <1>3 DEF TypeOK
<1>4. CASE d # c
  BY <1>1, <1>2, <1>4 DEF TypeOK, RoutesAreTheTables
<1> QED BY <1>3, <1>4

\* Nor does anything else change a route.
LEMMA OtherStepsKeep ==
  ASSUME RoutesAreTheTables, UNCHANGED <<raw, listener, host, routed>>,
         \/ UNCHANGED <<gateway, routes>>
         \/ gateway # "serving" /\ UNCHANGED stage,
         \A c \in Connections : stage'[c] # "closed" => stage[c] # "closed"
  PROVE  RoutesAreTheTables'
<1>1. \A c \in Connections : LocalPort(c)' = LocalPort(c)
  BY DEF LocalPort
<1>2. CASE UNCHANGED <<gateway, routes>>
  BY <1>1, <1>2 DEF RoutesAreTheTables
<1>3. CASE gateway # "serving" /\ UNCHANGED stage
  BY <1>3 DEF RoutesAreTheTables
<1> QED BY <1>2, <1>3

\* The routes: every step is of one of the three kinds.
LEMMA RoutesKept == ASSUME IInv, [Next]_vars PROVE RoutesAreTheTables'
<1>1. TypeOK /\ RoutesAreTheTables
  BY DEF IInv
<1>2. stage \in [Connections -> Stages]
  BY <1>1 DEF TypeOK
<1>3. CASE Start \/ LoadService \/ Listen
  <2>1. gateway # "serving" /\ UNCHANGED <<raw, stage, listener, host, routed>>
    BY <1>3 DEF Start, LoadService, Listen, otherVars, clientVars, requestVars
  <2> QED BY <1>1, <2>1, OtherStepsKeep
<1>4. CASE CloseGate \/ BroadcastShutdown \/ Tick \/ UNCHANGED vars
  <2>1. UNCHANGED <<raw, gateway, routes, stage, listener, host, routed>>
    BY <1>4 DEF CloseGate, BroadcastShutdown, Tick, vars, startVars, clientVars,
                requestVars
  <2> QED BY <1>1, <2>1, OtherStepsKeep
<1>5. ASSUME NEW c \in Connections, stage[c] # "closed",
             NEW next, stage' = [stage EXCEPT ![c] = next],
             UNCHANGED <<startVars, listener, requestVars>>
      PROVE  RoutesAreTheTables'
  <2>1. UNCHANGED <<raw, gateway, routes, listener, host, routed>>
    BY <1>5 DEF startVars, requestVars
  <2>2. \A d \in Connections : stage'[d] # "closed" => stage[d] # "closed"
    BY <1>2, <1>5
  <2> QED BY <1>1, <2>1, <2>2, OtherStepsKeep
<1>6. ASSUME NEW c \in Connections,
             ProcessNew(c) \/ Peek(c) \/ PeekTimesOut(c)
      PROVE  RoutesAreTheTables'
  <2>1. /\ stage[c] # "closed" /\ UNCHANGED <<startVars, listener, requestVars>>
        /\ \E next : stage' = [stage EXCEPT ![c] = next]
    BY <1>6 DEF ProcessNew, Peek, PeekTimesOut, Leave, clientVars
  <2> QED BY <1>5, <2>1
<1>7. ASSUME NEW c \in Connections, Send(c) PROVE RoutesAreTheTables'
  <2>1. UNCHANGED <<raw, gateway, routes, stage, listener, host, routed>>
    BY <1>7 DEF Send, startVars, requestVars
  <2> QED BY <1>1, <2>1, OtherStepsKeep
<1>8. ASSUME NEW c \in Connections, Connect(c) PROVE RoutesAreTheTables'
  <2>1. PICK l \in {"plain"} \cup (IF raw.tls # {} THEN {"tls"} ELSE {}) :
            listener' = [listener EXCEPT ![c] = l]
    BY <1>8 DEF Connect
  <2>2. l \in {"plain", "tls"} /\ (l = "tls" => raw.tls # {})
    BY <2>1
  <2> QED BY <1>1, <1>8, <2>1, <2>2, ForgettingKeeps DEF Connect, startVars
<1>9. ASSUME NEW c \in Connections, ShuttingDown(c) \/ EndRequest(c)
      PROVE  RoutesAreTheTables'
  <2>1. /\ stage[c] # "closed" /\ UNCHANGED <<startVars, listener>>
        /\ host' = [host EXCEPT ![c] = {}] /\ routed' = [routed EXCEPT ![c] = {}]
    BY <1>9 DEF ShuttingDown, EndRequest, clientVars
  <2>2. PICK next : stage' = [stage EXCEPT ![c] = next]
    BY <1>9 DEF ShuttingDown, EndRequest, AnswerAndClose
  <2>3. gateway = "serving" /\ (listener[c] = "tls" => raw.tls # {})
    BY <1>1, <2>1 DEF RoutesAreTheTables
  <2>4. /\ listener[c] \in {"plain", "tls"}
        /\ listener' = [listener EXCEPT ![c] = listener[c]]
    BY <1>1, <2>1 DEF TypeOK
  <2> QED BY <1>1, <2>1, <2>2, <2>3, <2>4, ForgettingKeeps DEF startVars
<1> QED
  BY <1>1, <1>3, <1>4, <1>6, <1>7, <1>8, <1>9, RoutingKeeps DEF Next

\* The order of the start: nothing after Listen touches the table.
LEMMA OrderKept == ASSUME IInv, [Next]_vars PROVE StartInOrder'
<1>1. StartInOrder /\ raw \in RawConfigs /\ loaded \in Nat
  BY ServicesAreWritten DEF IInv, TypeOK
<1>2. CASE Start \/ LoadService \/ Listen
  BY <1>1, <1>2, StartKeeps, RoundKeeps, ListenKeeps
<1>3. CASE UNCHANGED startVars
  BY <1>1, <1>3 DEF startVars, StartInOrder, LoopInvariant, Fits
<1>4. Start \/ LoadService \/ Listen \/ UNCHANGED startVars
  BY DEF Next, vars, Connect, Send, ProcessNew, Peek, PeekTimesOut, Leave, Route,
         ShuttingDown, EndRequest, CloseGate, BroadcastShutdown, Tick
<1> QED BY <1>2, <1>3, <1>4

\* The listeners take a connection to the parser or close it.
LEMMA LeaveKeeps ==
  ASSUME IInv, NEW c \in Connections, NEW next \in {"closed", "http"},
         stage[c] \in {"accepted", "peeking"}, Leave(c, next)
  PROVE  UnreadIsProxied'
BY DEF Leave, requestVars, IInv, TypeOK, UnreadIsProxied, Stages

\* A local answer may leave a body behind, but no connection to read it from.
LEMMA AnswerKeeps ==
  ASSUME IInv, NEW c \in Connections, NEW body \in BOOLEAN,
         unread' = [unread EXCEPT ![c] = body], AnswerAndClose(c)
  PROVE  UnreadIsProxied'
BY DEF AnswerAndClose, IInv, TypeOK, UnreadIsProxied, Stages

LEMMA BodiesKept == ASSUME IInv, [Next]_vars PROVE UnreadIsProxied'
<1>1. CASE UNCHANGED <<stage, unread>>
  BY <1>1 DEF IInv, TypeOK, UnreadIsProxied
<1>2. ASSUME NEW c \in Connections, Connect(c) PROVE UnreadIsProxied'
  BY <1>2 DEF Connect, IInv, TypeOK, UnreadIsProxied, Stages
<1>3. ASSUME NEW c \in Connections, ProcessNew(c) PROVE UnreadIsProxied'
  <2>1. CASE Leave(c, "closed") \/ Leave(c, "http")
    BY <1>3, <2>1, LeaveKeeps DEF ProcessNew
  <2>2. CASE stage' = [stage EXCEPT ![c] = "peeking"] /\ UNCHANGED requestVars
    BY <1>3, <2>2
       DEF ProcessNew, requestVars, IInv, TypeOK, UnreadIsProxied, Stages
  <2> QED BY <1>3, <2>1, <2>2 DEF ProcessNew
<1>4. ASSUME NEW c \in Connections, Peek(c) PROVE UnreadIsProxied'
  <2>1. stage[c] = "peeking" /\ (Leave(c, "closed") \/ Leave(c, "http"))
    BY <1>4 DEF Peek
  <2> QED BY <2>1, LeaveKeeps
<1>5. ASSUME NEW c \in Connections, PeekTimesOut(c) PROVE UnreadIsProxied'
  BY <1>5, LeaveKeeps DEF PeekTimesOut
<1>6. ASSUME NEW c \in Connections, NEW a \in Authorities, Route(c, a)
      PROVE  UnreadIsProxied'
  <2>1. PICK body \in BOOLEAN : unread' = [unread EXCEPT ![c] = body]
    BY <1>6 DEF Route
  <2>2. CASE AnswerAndClose(c)
    BY <2>1, <2>2, AnswerKeeps
  <2>3. CASE stage' = [stage EXCEPT ![c] = "proxying"]
    BY <2>1, <2>3 DEF IInv, TypeOK, UnreadIsProxied, Stages
  <2> QED BY <1>6, <2>2, <2>3 DEF Route
<1>7. ASSUME NEW c \in Connections, ShuttingDown(c) PROVE UnreadIsProxied'
  BY <1>7, AnswerKeeps DEF ShuttingDown
<1>8. ASSUME NEW c \in Connections, EndRequest(c) PROVE UnreadIsProxied'
  BY <1>8 DEF EndRequest, IInv, TypeOK, UnreadIsProxied, Stages
<1>9. ASSUME Start \/ LoadService \/ Listen \/ CloseGate \/ BroadcastShutdown \/ Tick
             \/ (\E c \in Connections : Send(c)) \/ UNCHANGED vars
      PROVE  UNCHANGED <<stage, unread>>
  BY <1>9 DEF Start, LoadService, Listen, otherVars, CloseGate,
              BroadcastShutdown, Tick, Send, requestVars, vars
<1> QED
  BY <1>1, <1>2, <1>3, <1>4, <1>5, <1>6, <1>7, <1>8, <1>9 DEF Next

LEMMA StepKeeps == IInv /\ [Next]_vars => IInv'
BY TypesKept, OrderKept, RoutesKept, BodiesKept DEF IInv

LEMMA InvariantHolds == Spec => []IInv
BY InitEstablishes, StepKeeps, PTL DEF Spec

-----------------------------------------------------------------------------
(* What follows from it.                                                   *)

\* The types of FrontDoor's variables.
THEOREM TypeCorrect == Spec => []TypeOK
<1>1. IInv => TypeOK
  BY DEF IInv
<1> QED BY <1>1, InvariantHolds, PTL

\* The loop's invariant at its end, in terms of names.
LEMMA InvariantServes == ASSUME IInv PROVE ServesOnlyWhatIsSound
<1>1. gateway = "serving" => Fits /\ Sound(raw)
  BY LoopMakesSound DEF IInv, TypeOK, StartInOrder
<1>2. gateway = "refused" => ~(Fits /\ Sound(raw))
  BY DEF IInv, StartInOrder
<1>3. \A c \in Connections : stage[c] # "closed" => gateway = "serving"
  BY DEF IInv, RoutesAreTheTables
<1> QED BY <1>1, <1>2, <1>3 DEF ServesOnlyWhatIsSound, Fits

\* Config::from_toml and run_gateway: what listens has been validated as a
\* whole, what is refused had a reason, for any configuration.
THEOREM SoundIsServed == Spec => []ServesOnlyWhatIsSound
<1>1. IInv => ServesOnlyWhatIsSound
  BY InvariantServes
<1> QED BY <1>1, InvariantHolds, PTL

\* The two normalisations and the table, in terms of names and ports.
LEMMA InvariantRoutes == ASSUME IInv PROVE RoutedAsWritten
<1> SUFFICES ASSUME NEW c \in Connections, NEW a \in host[c]
             PROVE  routed[c] = {s \in routes :
                       /\ a.clean
                       /\ \/ a.port = NoPort
                          \/ listener[c] = "plain" /\ a.port = raw.listen.port
                          \/ /\ listener[c] = "tls"
                             /\ \E tls \in raw.tls : a.port = tls.listen.port
                       /\ \E i \in DOMAIN raw.services :
                              /\ SameName(a.host, raw.services[i].host.host)
                              /\ s.upstream = raw.services[i].upstream}
  BY DEF RoutedAsWritten
<1> DEFINE list == raw.services
           open == /\ a.clean
                   /\ \/ a.port = NoPort
                      \/ listener[c] = "plain" /\ a.port = raw.listen.port
                      \/ /\ listener[c] = "tls"
                         /\ \E tls \in raw.tls : a.port = tls.listen.port
<1>1. /\ raw \in RawConfigs /\ gateway = "serving" /\ LoopInvariant
      /\ loaded = Len(list) /\ a.host \in Hosts
      /\ listener[c] \in {"plain", "tls"} /\ (listener[c] = "tls" => raw.tls # {})
      /\ routed[c] = {s \in routes :
                         s.host \in NormalizeRequestHost(a, LocalPort(c))}
  BY DEF IInv, TypeOK, StartInOrder, RoutesAreTheTables, Hosts
<1>2. /\ Len(list) \in Nat /\ DOMAIN list = 1 .. Len(list)
      /\ \A i \in 1 .. Len(list) : list[i].host.host \in Hosts
  BY <1>1, ServicesAreWritten
<1>3. LocalPort(c) \in 0 .. MaxPort
      /\ (a.port = LocalPort(c) <=>
             \/ listener[c] = "plain" /\ a.port = raw.listen.port
             \/ listener[c] = "tls" /\ \E tls \in raw.tls : a.port = tls.listen.port)
  <2>1. CASE listener[c] = "plain"
    BY <1>1, <2>1 DEF LocalPort, LoopInvariant, ValidFrame, ValidListener, IsSocketAddress
  <2>2. CASE listener[c] = "tls"
    <3>1. PICK tls \in raw.tls : TRUE
      BY <1>1, <2>2
    <3>2. raw.tls = {tls}
      BY <1>1, RawAssumption
    <3>3. LocalPort(c) = tls.listen.port
      BY <2>2, <3>2 DEF LocalPort
    <3> QED
      BY <1>1, <2>2, <3>2, <3>3
         DEF LoopInvariant, ValidFrame, ValidTls, ValidListener, IsSocketAddress
  <2> QED BY <1>1, <2>1, <2>2
<1>4. NormalizeRequestHost(a, LocalPort(c)) =
          IF open THEN NormalizeDnsName(a.host) ELSE {}
  BY <1>3 DEF NormalizeRequestHost, NormalizeAuthority, ParsePort
<1>5. ASSUME NEW s \in routes
      PROVE  s.host \in NormalizeDnsName(a.host) <=>
                 \E i \in DOMAIN list : /\ SameName(a.host, list[i].host.host)
                                        /\ s.upstream = list[i].upstream
  <2>1. PICK j \in 1 .. Len(list) : s \in Loaded(list[j])
    BY <1>1 DEF LoopInvariant
  <2>2. /\ s.host \in NormalizeConfigHost(list[j].host)
        /\ s.upstream = list[j].upstream
    BY <2>1 DEF Loaded
  <2>3. /\ NormalizeDnsName(list[j].host.host) # {}
        /\ s.host \in NormalizeDnsName(list[j].host.host)
    BY <2>2, ConfiguredHosts
  <2>4. ASSUME s.host \in NormalizeDnsName(a.host)
        PROVE  SameName(a.host, list[j].host.host)
    BY <1>1, <1>2, <2>3, <2>4, NormalIsSame
  <2>5. ASSUME NEW i \in DOMAIN list, SameName(a.host, list[i].host.host),
               s.upstream = list[i].upstream
        PROVE  s.host \in NormalizeDnsName(a.host)
    <3>1. i = j
      <4> SUFFICES ASSUME i # j PROVE FALSE
        OBVIOUS
      <4>1. Apart(list[i], list[j])
        BY <1>1, <1>2, <2>5 DEF LoopInvariant
      <4> QED BY <2>2, <2>5, <4>1 DEF Apart
    <3> QED BY <1>1, <1>2, <2>3, <2>5, <3>1, NormalIsSame
  <2> QED BY <1>2, <2>2, <2>4, <2>5
<1> HIDE DEF open, list
<1>6. routed[c] = {s \in routes : open /\
          \E i \in DOMAIN list : /\ SameName(a.host, list[i].host.host)
                                 /\ s.upstream = list[i].upstream}
  <2>1. \A s \in routes : s.host \in NormalizeRequestHost(a, LocalPort(c)) <=>
            open /\ \E i \in DOMAIN list :
                        /\ SameName(a.host, list[i].host.host)
                        /\ s.upstream = list[i].upstream
    BY <1>4, <1>5
  <2> QED BY <1>1, <2>1
<1> QED BY <1>6 DEF open, list

\* normalize_request_host and the routing table: a request reaches the service
\* it names and no other, for any configuration and any Host.
THEOREM RequestsGoWhereTheyName == Spec => []RoutedAsWritten
<1>1. IInv => RoutedAsWritten
  BY InvariantRoutes
<1> QED BY <1>1, InvariantHolds, PTL

\* write_shutting_down, write_unknown_host and write_loading_response close the
\* connection: no unread body is ever parsed as a request.
THEOREM BodiesAreNotParsed == Spec => []NoRequestFromABody
<1>1. IInv => NoRequestFromABody
  BY DEF IInv, UnreadIsProxied, NoRequestFromABody
<1> QED BY <1>1, InvariantHolds, PTL

\* Three bytes that are not the beginning of a TLS record cannot become one.
LEMMA ThreeBytesTell ==
  ASSUME NEW bytes, Len(bytes) = 3, ~TlsPrefix(bytes)
  PROVE  ~MayBeTls(bytes)
BY DEF TlsPrefix, MayBeTls

\* What a step hands to the parser of the plain listener.
LEMMA StepHandsOverNoTls ==
  ASSUME IInv, [Next]_vars, NEW c \in Connections,
         stage[c] \in {"accepted", "peeking"}, stage'[c] = "http",
         listener[c] = "plain"
  PROVE  ~MayBeTls(sent[c])
<1>1. ASSUME NEW d \in Connections, NEW next,
             stage' = [stage EXCEPT ![d] = next]
      PROVE  d = c /\ next = "http"
  BY <1>1 DEF IInv, TypeOK
<1>2. \/ \E d \in Connections : ProcessNew(d) \/ Peek(d) \/ PeekTimesOut(d)
      \/ \E d \in Connections : stage[d] \notin {"accepted", "peeking"}
             /\ \E next \in Stages : stage' = [stage EXCEPT ![d] = next]
      \/ UNCHANGED stage
  <2>1. ASSUME NEW d \in Connections,
               \/ Connect(d) \/ ShuttingDown(d) \/ EndRequest(d)
               \/ \E a \in Authorities : Route(d, a)
        PROVE  stage[d] \notin {"accepted", "peeking"}
               /\ \E next \in Stages : stage' = [stage EXCEPT ![d] = next]
    BY <2>1 DEF Connect, ShuttingDown, EndRequest, Route, AnswerAndClose, Stages
  <2> QED
    BY <2>1 DEF Next, Start, LoadService, Listen, otherVars, CloseGate,
                BroadcastShutdown, Tick, Send, vars
<1>3. ASSUME NEW d \in Connections, ProcessNew(d) PROVE FALSE
  BY <1>1, <1>3 DEF ProcessNew, Leave
<1>4. ASSUME NEW d \in Connections, PeekTimesOut(d) PROVE FALSE
  BY <1>1, <1>4 DEF PeekTimesOut, Leave
<1>5. ASSUME NEW d \in Connections, Peek(d) PROVE ~MayBeTls(sent[c])
  <2>1. Peeked(d) /\ ~TlsPrefix(sent[d]) /\ d = c
    BY <1>1, <1>5 DEF Peek, Leave
  <2> QED BY <2>1, ThreeBytesTell DEF Peeked
<1>6. ASSUME NEW d \in Connections, stage[d] \notin {"accepted", "peeking"},
             NEW next \in Stages, stage' = [stage EXCEPT ![d] = next]
      PROVE  FALSE
  BY <1>1, <1>6
<1>7. CASE UNCHANGED stage
  BY <1>7
<1> QED BY <1>2, <1>3, <1>4, <1>5, <1>6, <1>7

\* PlainHttpApp: however a client cuts a TLS record into segments, the parser
\* of the plain listener does not see it.
THEOREM PlainHttpSeesNoTls == Spec => NoTlsInPlainHttp
<1>1. IInv /\ [Next]_vars =>
        [\A c \in Connections :
            /\ stage[c] \in {"accepted", "peeking"} /\ stage'[c] = "http"
            /\ listener[c] = "plain"
            => ~MayBeTls(sent[c])]_vars
  BY StepHandsOverNoTls
<1> QED BY <1>1, InvariantHolds, PTL DEF Spec, NoTlsInPlainHttp
=============================================================================
