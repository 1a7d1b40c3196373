---------------------------- MODULE SetupProofs -----------------------------
(***************************************************************************)
(* Proofs about Setup, for any invocations, paths and size of a file.      *)
(***************************************************************************)
EXTENDS Setup, TLAPS

Output(i) == args[i].output.text

\* Who writes to a path created the file there and is the only one that does:
\* that is why nobody else's file is touched and a success is its own.
WritersOwn ==
    \A i \in Invocations : pc[i] = "writing" =>
        \E k \in 0 .. Parts : files[Output(i)] = {[by |-> i, written |-> k]}

ExitIsLast == \A i \in Invocations : exit[i] # {} => pc[i] = "done"

IInv == TypeOK /\ WritersOwn /\ ExitIsLast /\ SuccessMeansComplete

LEMMA InitEstablishes == Init => IInv
<1> SUFFICES ASSUME Init PROVE IInv
  OBVIOUS
<1>1. [by |-> Someone, written |-> Parts]
          \in [by : Invocations \cup {Someone}, written : 0 .. Parts]
  BY SetupAssumption
<1>2. TypeOK
  BY <1>1 DEF Init, TypeOK
<1>3. WritersOwn /\ ExitIsLast /\ SuccessMeansComplete
  BY DEF Init, WritersOwn, ExitIsLast, SuccessMeansComplete
<1> QED BY <1>2, <1>3 DEF IInv

\* An invocation that does not touch the files and does not begin to write
\* keeps everything, unless it reports success.
LEMMA QuietStepKeeps ==
  ASSUME IInv, NEW i \in Invocations, UNCHANGED <<files, args>>,
         NEW next \in {"reading", "opening", "done"},
         pc' = [pc EXCEPT ![i] = next],
         \/ UNCHANGED exit
         \/ next = "done" /\ exit' = [exit EXCEPT ![i] = {2}]
         \/ /\ next = "done" /\ exit' = [exit EXCEPT ![i] = {0}]
            /\ \/ args[i].command = "check-config"
               \/ files[Output(i)] = {[by |-> i, written |-> Parts]},
         pc[i] # "done"
  PROVE  IInv'
<1>1. TypeOK'
  BY DEF IInv, TypeOK
<1>2. WritersOwn'
  <2> SUFFICES ASSUME NEW j \in Invocations, pc'[j] = "writing"
               PROVE  \E k \in 0 .. Parts :
                          files'[Output(j)'] = {[by |-> j, written |-> k]}
    BY DEF WritersOwn
  <2>1. pc[j] = "writing"
    BY DEF IInv, TypeOK
  <2> QED BY <2>1 DEF IInv, WritersOwn, Output
<1>3. ExitIsLast'
  <2> SUFFICES ASSUME NEW j \in Invocations, exit'[j] # {}
               PROVE  pc'[j] = "done"
    BY DEF ExitIsLast
  <2>1. CASE j = i
    BY <2>1 DEF IInv, TypeOK, ExitIsLast
  <2>2. CASE j # i
    BY <2>2 DEF IInv, TypeOK, ExitIsLast
  <2> QED BY <2>1, <2>2
<1>4. SuccessMeansComplete'
  <2> SUFFICES ASSUME NEW j \in Invocations, exit'[j] = {0},
                      args'[j].command # "check-config"
               PROVE  files'[args'[j].output.text]
                          = {[by |-> j, written |-> Parts]}
    BY DEF SuccessMeansComplete
  <2>1. CASE exit[j] = {0}
    BY <2>1 DEF IInv, SuccessMeansComplete
  <2>2. CASE exit[j] # {0}
    BY <2>2 DEF IInv, TypeOK, Output
  <2> QED BY <2>1, <2>2
<1> QED BY <1>1, <1>2, <1>3, <1>4 DEF IInv

\* A step that writes to a path at which there is nothing, or the invocation's
\* own file, and leaves the invocation writing.
LEMMA PutKeeps ==
  ASSUME IInv, NEW i \in Invocations, NEW k \in 0 .. Parts,
         Put(i, k), UNCHANGED <<args, exit>>,
         pc' = [pc EXCEPT ![i] = "writing"], pc[i] # "done",
         \/ files[Output(i)] = {}
         \/ \E n \in 0 .. Parts : files[Output(i)] = {[by |-> i, written |-> n]}
  PROVE  IInv'
<1> DEFINE file == [by |-> i, written |-> k]
<1>1. Output(i) \in Texts
  BY SetupAssumption DEF IInv, TypeOK, Output
<1>2. files' = [files EXCEPT ![Output(i)] = {file}]
  BY DEF Put, Output
<1>3. file \in [by : Invocations \cup {Someone}, written : 0 .. Parts]
  OBVIOUS
<1>4. TypeOK'
  <2>1. files' \in [Texts -> SUBSET [by : Invocations \cup {Someone},
                                     written : 0 .. Parts]]
    BY <1>1, <1>2, <1>3 DEF IInv, TypeOK
  <2>2. ASSUME NEW text \in Texts, NEW f \in files'[text], NEW g \in files'[text]
        PROVE  f = g
    BY <2>2, <1>1, <1>2 DEF IInv, TypeOK
  <2> QED BY <2>1, <2>2 DEF IInv, TypeOK
<1>5. ASSUME NEW j \in Invocations, j # i, NEW n \in 0 .. Parts,
             files[Output(j)] = {[by |-> j, written |-> n]}
      PROVE  files'[Output(j)] = {[by |-> j, written |-> n]}
  <2>1. Output(j) # Output(i)
    <3> SUFFICES ASSUME Output(j) = Output(i) PROVE FALSE
      OBVIOUS
    <3>1. PICK m \in 0 .. Parts : files[Output(i)] = {[by |-> i, written |-> m]}
      BY <1>5
    <3>2. [by |-> j, written |-> n] = [by |-> i, written |-> m]
      BY <3>1, <1>5
    <3>3. [by |-> j, written |-> n].by = [by |-> i, written |-> m].by
      BY <3>2
    <3> QED BY <3>3, <1>5
  <2>2. Output(j) \in Texts
    BY SetupAssumption DEF IInv, TypeOK, Output
  <2> QED BY <1>2, <1>5, <2>1, <2>2 DEF IInv, TypeOK
<1>6. WritersOwn'
  <2> SUFFICES ASSUME NEW j \in Invocations, pc'[j] = "writing"
               PROVE  \E n \in 0 .. Parts :
                          files'[Output(j)'] = {[by |-> j, written |-> n]}
    BY DEF WritersOwn
  <2>1. Output(j)' = Output(j)
    BY DEF Output
  <2>2. CASE j = i
    BY <2>1, <2>2, <1>1, <1>2 DEF IInv, TypeOK
  <2>3. CASE j # i
    <3>1. pc[j] = "writing"
      BY <2>3 DEF IInv, TypeOK
    <3>2. PICK n \in 0 .. Parts : files[Output(j)] = {[by |-> j, written |-> n]}
      BY <3>1 DEF IInv, WritersOwn
    <3> QED BY <3>2, <2>1, <2>3, <1>5
  <2> QED BY <2>2, <2>3
<1>7. ExitIsLast'
  BY DEF IInv, TypeOK, ExitIsLast
<1>8. SuccessMeansComplete'
  <2> SUFFICES ASSUME NEW j \in Invocations, exit'[j] = {0},
                      args'[j].command # "check-config"
               PROVE  files'[args'[j].output.text]
                          = {[by |-> j, written |-> Parts]}
    BY DEF SuccessMeansComplete
  <2>1. exit[j] = {0} /\ pc[j] = "done"
    BY DEF IInv, ExitIsLast
  <2>2. files[Output(j)] = {[by |-> j, written |-> Parts]}
    BY <2>1 DEF IInv, SuccessMeansComplete, Output
  <2>3. j # i /\ Parts \in 0 .. Parts
    BY <2>1, SetupAssumption
  <2>4. files'[Output(j)] = {[by |-> j, written |-> Parts]}
    BY <2>2, <2>3, <1>5
  <2> QED BY <2>4 DEF Output
<1> QED BY <1>4, <1>6, <1>7, <1>8 DEF IInv

LEMMA StepKeeps == IInv /\ [Next]_vars => IInv'
<1> SUFFICES ASSUME IInv, [Next]_vars PROVE IInv'
  OBVIOUS
<1>1. ASSUME NEW i \in Invocations, Prepare(i) PROVE IInv'
  <2>1. CASE Exit(i, "start", 2) /\ UNCHANGED files
    BY <2>1, QuietStepKeeps DEF Exit
  <2>2. ASSUME NEW next \in {"reading", "opening"}, Move(i, "start", next),
               UNCHANGED files
        PROVE  IInv'
    BY <2>2, QuietStepKeeps DEF Move
  <2> QED BY <1>1, <2>1, <2>2 DEF Prepare
<1>2. ASSUME NEW i \in Invocations, LoadConfig(i) PROVE IInv'
  <2>1. CASE Exit(i, "reading", 2) /\ UNCHANGED files
    BY <2>1, QuietStepKeeps DEF Exit
  <2>2. CASE /\ args[i].command = "check-config"
             /\ Exit(i, "reading", 0) /\ UNCHANGED files
    BY <2>2, QuietStepKeeps DEF Exit
  <2>3. CASE Move(i, "reading", "opening") /\ UNCHANGED files
    BY <2>3, QuietStepKeeps DEF Move
  <2> QED BY <1>2, <2>1, <2>2, <2>3 DEF LoadConfig
<1>3. ASSUME NEW i \in Invocations, CreateNew(i) PROVE IInv'
  <2>1. CASE /\ Move(i, "opening", "writing")
             /\ files[args[i].output.text] = {} /\ Put(i, 0)
    <3>1. 0 \in 0 .. Parts
      BY SetupAssumption
    <3> QED BY <2>1, <3>1, PutKeeps DEF Move, Output
  <2>2. CASE Exit(i, "opening", 2) /\ UNCHANGED files
    BY <2>2, QuietStepKeeps DEF Exit
  <2> QED BY <1>3, <2>1, <2>2 DEF CreateNew
<1>4. ASSUME NEW i \in Invocations, Write(i) PROVE IInv'
  <2>1. PICK k \in 0 .. Parts : files[Output(i)] = {[by |-> i, written |-> k]}
    BY <1>4 DEF Write, IInv, WritersOwn
  <2>2. PICK f \in files[Output(i)] :
            /\ pc[i] = "writing" /\ f.written < Parts
            /\ Put(i, f.written + 1) /\ UNCHANGED <<args, pc, exit>>
    BY <1>4 DEF Write, Output
  <2>3. f.written = k
    BY <2>1, <2>2
  <2>4. k + 1 \in 0 .. Parts
    BY <2>2, <2>3, SetupAssumption
  <2>5. pc' = [pc EXCEPT ![i] = "writing"]
    BY <2>2 DEF IInv, TypeOK
  <2> QED BY <2>1, <2>2, <2>3, <2>4, <2>5, PutKeeps
<1>5. ASSUME NEW i \in Invocations, WriteFails(i) PROVE IInv'
  BY <1>5, QuietStepKeeps DEF WriteFails, Exit
<1>6. ASSUME NEW i \in Invocations, Succeed(i) PROVE IInv'
  <2>1. PICK k \in 0 .. Parts : files[Output(i)] = {[by |-> i, written |-> k]}
    BY <1>6 DEF Succeed, Exit, IInv, WritersOwn
  <2>2. PICK f \in files[Output(i)] : f.written = Parts
    BY <1>6 DEF Succeed, Output
  <2>3. files[Output(i)] = {[by |-> i, written |-> Parts]}
    BY <2>1, <2>2
  <2> QED BY <1>6, <2>3, QuietStepKeeps DEF Succeed, Exit
<1>7. ASSUME NEW i \in Invocations, Kill(i) PROVE IInv'
  BY <1>7, QuietStepKeeps DEF Kill
<1>8. CASE UNCHANGED vars
  BY <1>8 DEF vars, IInv, TypeOK, WritersOwn, ExitIsLast, SuccessMeansComplete,
              Output
<1> QED
  BY <1>1, <1>2, <1>3, <1>4, <1>5, <1>6, <1>7, <1>8 DEF Next

LEMMA InvariantHolds == Spec => []IInv
  BY InitEstablishes, StepKeeps, PTL DEF Spec

\* The types of Setup's variables, and that a path holds at most one file.
THEOREM TypeCorrect == Spec => []TypeOK
<1>1. IInv => TypeOK
  BY DEF IInv
<1> QED BY <1>1, InvariantHolds, PTL

\* write_new: whoever reports success has left a complete file of its own.
THEOREM SuccessIsComplete == Spec => []SuccessMeansComplete
<1>1. IInv => SuccessMeansComplete
  BY DEF IInv
<1> QED BY <1>1, InvariantHolds, PTL

\* What a step of one generator may do to the files there are.
LEMMA StepOverwritesNothing ==
  ASSUME IInv, [Next]_vars, NEW text \in Texts, NEW f \in files[text]
  PROVE  \E g \in files'[text] :
             /\ g.by = f.by /\ g.written >= f.written
             /\ g # f => pc[f.by] = "writing"
<1>1. f.written \in 0 .. Parts
  BY DEF IInv, TypeOK
<1>2. CASE UNCHANGED files
  BY <1>1, <1>2
<1>3. ASSUME NEW i \in Invocations, NEW k, Put(i, k), Output(i) # text
      PROVE  UNCHANGED files[text]
  BY <1>3 DEF Put, Output, IInv, TypeOK
<1>4. ASSUME NEW i \in Invocations, CreateNew(i), Put(i, 0),
             files[Output(i)] = {}
      PROVE  UNCHANGED files[text]
  BY <1>4, <1>3
<1>5. ASSUME NEW i \in Invocations, Write(i), Output(i) = text
      PROVE  \E g \in files'[text] :
                 /\ g.by = f.by /\ g.written >= f.written
                 /\ g # f => pc[f.by] = "writing"
  <2>1. PICK k \in 0 .. Parts : files[text] = {[by |-> i, written |-> k]}
    BY <1>5 DEF Write, IInv, WritersOwn
  <2>2. f = [by |-> i, written |-> k]
    BY <2>1
  <2>3. pc[i] = "writing" /\ Put(i, k + 1)
    BY <1>5, <2>1 DEF Write, Output
  <2>4. files'[text] = {[by |-> i, written |-> k + 1]}
    BY <2>3, <1>5 DEF Put, Output, IInv, TypeOK
  <2> QED BY <2>2, <2>3, <2>4
<1>6. ASSUME NEW i \in Invocations, Write(i), Output(i) # text
      PROVE  UNCHANGED files[text]
  BY <1>6, <1>3 DEF Write
<1>7. CASE UNCHANGED files[text]
  BY <1>1, <1>7
<1>8. \/ UNCHANGED files
      \/ \E i \in Invocations :
             \/ Write(i)
             \/ CreateNew(i) /\ Put(i, 0) /\ files[Output(i)] = {}
  BY DEF Next, vars, Prepare, LoadConfig, CreateNew, WriteFails, Succeed, Kill,
         Output
<1> QED BY <1>2, <1>4, <1>5, <1>6, <1>7, <1>8

\* create_new: "refuse to overwrite an existing file", for any number of
\* generators at the same time.
THEOREM NothingOverwritten == Spec => NothingIsOverwritten
<1>1. IInv /\ [Next]_vars =>
        [\A text \in Texts : \A f \in files[text] :
            \E g \in files'[text] :
                /\ g.by = f.by /\ g.written >= f.written
                /\ g # f => pc[f.by] = "writing"]_vars
  BY StepOverwritesNothing
<1> QED BY <1>1, InvariantHolds, PTL DEF Spec, NothingIsOverwritten

-----------------------------------------------------------------------------
(* What launchd reads from the property list.                              *)

\* STRING; the provers do not know that a literal is one.
Classes == STRING \cup {"slash", "logs", "stdout", "stderr"}

ClassedPaths == [absolute : BOOLEAN, utf8 : BOOLEAN, text : Seq(Classes)]

\* No carriage return anywhere in a text.
NoReturn(text) == \A k \in DOMAIN text : text[k] # "return"

PathsHaveNoReturn ==
    \A a \in Arguments :
        /\ NoReturn(a.config.text)
        /\ \A p \in a.program \cup a.logDir \cup a.home \cup CurrentExe : NoReturn(p.text)

LEMMA Widen ==
  ASSUME NEW text \in Seq(STRING)
  PROVE  text \in Seq(Classes)
BY DEF Classes

\* write_escaped_xml against a reader of XML: every text comes back, but for
\* its carriage returns.
LEMMA WrittenIsRead ==
  ASSUME NEW text \in Seq(Classes)
  PROVE  ReadXml(WriteEscapedXml(text)) =
             {[k \in DOMAIN text |->
                  IF text[k] = "return" THEN "newline" ELSE text[k]]}
<1> DEFINE string == WriteEscapedXml(text)
           markup == {"amp", "lt", "gt", "quot", "apos"}
<1>1. /\ DOMAIN string = DOMAIN text
      /\ \A k \in DOMAIN text : /\ string[k].class = text[k]
                                /\ string[k].escaped <=> text[k] \in markup
  BY DEF WriteEscapedXml
<1> HIDE DEF string
<1>2. ~\E k \in DOMAIN string :
          ~string[k].escaped /\ string[k].class \in {"amp", "lt"}
  BY <1>1
<1>3. \A k \in DOMAIN text :
          (string[k].class = "return" /\ ~string[k].escaped) <=> text[k] = "return"
  BY <1>1
<1>4. [k \in DOMAIN string |->
          IF string[k].class = "return" /\ ~string[k].escaped
          THEN "newline" ELSE string[k].class]
      = [k \in DOMAIN text |-> IF text[k] = "return" THEN "newline" ELSE text[k]]
  BY <1>1, <1>3
<1>5. ReadXml(string) =
        {[k \in DOMAIN string |->
            IF string[k].class = "return" /\ ~string[k].escaped
            THEN "newline" ELSE string[k].class]}
  BY <1>2 DEF ReadXml
<1> QED BY <1>4, <1>5 DEF string

LEMMA ReadsBack ==
  ASSUME NEW text \in Seq(Classes), NoReturn(text)
  PROVE  ReadXml(WriteEscapedXml(text)) = {text}
<1>1. [k \in DOMAIN text |-> IF text[k] = "return" THEN "newline" ELSE text[k]] = text
  <2>1. text = [k \in DOMAIN text |-> text[k]]
    OBVIOUS
  <2>2. \A k \in DOMAIN text : text[k] # "return"
    BY DEF NoReturn
  <2> QED BY <2>1, <2>2
<1> QED BY <1>1, WrittenIsRead

LEMMA Names ==
  ASSUME NEW class \in {"slash", "logs", "stdout", "stderr"}
  PROVE  <<class>> \in Seq(Classes) /\ NoReturn(<<class>>)
<1>1. class \in Classes /\ class # "return"
  BY DEF Classes
<1>2. <<class>> \in Seq(Classes) /\ DOMAIN <<class>> = {1} /\ <<class>>[1] = class
  BY <1>1
<1> QED BY <1>1, <1>2 DEF NoReturn

LEMMA Concatenation ==
  ASSUME NEW s \in Seq(Classes), NEW t \in Seq(Classes)
  PROVE  /\ s \o t \in Seq(Classes)
         /\ NoReturn(s) /\ NoReturn(t) => NoReturn(s \o t)
<1>1. /\ s \o t \in Seq(Classes) /\ Len(s \o t) = Len(s) + Len(t)
      /\ \A k \in 1 .. Len(s) + Len(t) :
             (s \o t)[k] = IF k <= Len(s) THEN s[k] ELSE t[k - Len(s)]
  OBVIOUS
<1>2. ASSUME NoReturn(s), NoReturn(t), NEW k \in DOMAIN (s \o t)
      PROVE  (s \o t)[k] # "return"
  <2>1. k \in 1 .. Len(s) + Len(t)
    BY <1>1
  <2>2. CASE k <= Len(s)
    <3>1. k \in DOMAIN s /\ (s \o t)[k] = s[k]
      BY <1>1, <2>1, <2>2
    <3> QED BY <1>2, <3>1 DEF NoReturn
  <2>3. CASE ~(k <= Len(s))
    <3>1. k - Len(s) \in DOMAIN t /\ (s \o t)[k] = t[k - Len(s)]
      BY <1>1, <2>1, <2>3
    <3> QED BY <1>2, <3>1 DEF NoReturn
  <2> QED BY <2>2, <2>3
<1> QED BY <1>1, <1>2 DEF NoReturn

LEMMA LogsReadBack ==
  ASSUME NEW directory \in ClassedPaths, NEW label \in Seq(Classes),
         NEW name \in {"stdout", "stderr"},
         NoReturn(directory.text), NoReturn(label)
  PROVE  ReadXml(WriteEscapedXml(Log(directory, label, name))) =
             {directory.text \o <<"slash">> \o label \o <<name>>}
<1> DEFINE text == directory.text
           log == text \o <<"slash">> \o label \o <<name>>
<1>1. text \in Seq(Classes) /\ <<"slash">> \in Seq(Classes) /\ <<name>> \in Seq(Classes)
  <2>1. text \in Seq(Classes)
    BY DEF ClassedPaths
  <2>2. \A class \in {"slash", "stdout", "stderr"} : <<class>> \in Seq(Classes)
    BY Names
  <2> QED BY <2>1, <2>2
<1>2. NoReturn(<<"slash">>) /\ NoReturn(<<name>>)
  <2>1. \A class \in {"slash", "stdout", "stderr"} : NoReturn(<<class>>)
    BY Names
  <2> QED BY <2>1
<1>3. Log(directory, label, name) = text \o <<"slash">> \o (label \o <<name>>)
  BY DEF Log, Join, ClassedPaths
<1> HIDE DEF text
<1>4. text \o <<"slash">> \o (label \o <<name>>) = log
  BY <1>1
<1>5. text \o <<"slash">> \in Seq(Classes) /\ NoReturn(text \o <<"slash">>)
  BY <1>1, <1>2, Concatenation DEF text
<1>6. text \o <<"slash">> \o label \in Seq(Classes)
      /\ NoReturn(text \o <<"slash">> \o label)
  BY <1>5, Concatenation
<1>7. log \in Seq(Classes) /\ NoReturn(log)
  BY <1>1, <1>2, <1>6, Concatenation
<1> HIDE DEF log
<1>8. ReadXml(WriteEscapedXml(log)) = {log}
  BY <1>7, ReadsBack
<1> QED BY <1>3, <1>4, <1>8 DEF text, log

\* launchd reads from the property list what the operator gave, if no path has
\* a carriage return.
THEOREM PlistIsReadBack ==
  ASSUME PathsHaveNoReturn
  PROVE  Spec => []PlistReadsBack
<1>1. ASSUME IInv PROVE PlistReadsBack
  <2> SUFFICES ASSUME NEW i \in Invocations, NEW xml \in Plist(i)
               PROVE  /\ ReadXml(xml.label) = {args[i].label}
                      /\ ReadXml(xml.program) = {p.text : p \in Program(i)}
                      /\ ReadXml(xml.config) = {args[i].config.text}
                      /\ ReadXml(xml.stdout) = {d.text \o <<"slash">> \o args[i].label
                                       \o <<"stdout">> : d \in LogDirectory(i)}
                      /\ ReadXml(xml.stderr) = {d.text \o <<"slash">> \o args[i].label
                                       \o <<"stderr">> : d \in LogDirectory(i)}
    BY DEF PlistReadsBack
  <2> DEFINE a == args[i]
  <2>1. a \in Arguments
    BY <1>1 DEF IInv, TypeOK
  <2>2. PICK program \in Program(i), directory \in LogDirectory(i) :
            xml \in GatewayPlistXml(a.label, program, a.config, directory)
    BY DEF Plist
  <2>3. /\ ValidLaunchdLabel(a.label)
        /\ xml = [label |-> WriteEscapedXml(a.label),
                  program |-> WriteEscapedXml(program.text),
                  config |-> WriteEscapedXml(a.config.text),
                  stdout |-> WriteEscapedXml(Log(directory, a.label, "stdout")),
                  stderr |-> WriteEscapedXml(Log(directory, a.label, "stderr"))]
    BY <2>2 DEF GatewayPlistXml
  <2>4. /\ a.label \in Seq(Classes) /\ a.config \in Paths /\ a.config.text \in Seq(Classes)
        /\ NoReturn(a.label) /\ NoReturn(a.config.text)
    <3>1. NoReturn(a.label)
      BY <2>3 DEF ValidLaunchdLabel, NoReturn
    <3>2. a.label \in Seq(Classes) /\ a.config \in Paths
      BY <2>1, ArgumentAssumption, Widen
    <3>3. NoReturn(a.config.text)
      BY <2>1 DEF PathsHaveNoReturn
    <3> QED BY <3>1, <3>2, <3>3, Widen DEF Paths
  <2>5. /\ Program(i) = {program} /\ program.text \in Seq(Classes)
        /\ NoReturn(program.text)
    <3>1. Program(i) \in {a.program, CurrentExe}
      BY DEF Program
    <3>2. Program(i) \subseteq Paths /\ \A p, q \in Program(i) : p = q
      BY <2>1, <3>1, ArgumentAssumption
    <3>3. NoReturn(program.text)
      BY <2>1, <3>1 DEF PathsHaveNoReturn
    <3> QED BY <3>2, <3>3, Widen DEF Paths
  <2>6. /\ LogDirectory(i) = {directory} /\ directory \in ClassedPaths
        /\ NoReturn(directory.text)
    <3>1. CASE a.logDir # {}
      <4>1. LogDirectory(i) = a.logDir
        BY <3>1 DEF LogDirectory
      <4>2. a.logDir \subseteq Paths /\ \A p, q \in a.logDir : p = q
        BY <2>1, ArgumentAssumption
      <4>3. NoReturn(directory.text)
        BY <2>1, <4>1 DEF PathsHaveNoReturn
      <4>4. directory \in ClassedPaths
        BY <4>1, <4>2, Widen DEF Paths, ClassedPaths
      <4> QED BY <4>1, <4>2, <4>3, <4>4
    <3>2. CASE a.logDir = {}
      <4>1. PICK home \in a.home : directory = Join(home, <<"logs">>)
        BY <3>2 DEF LogDirectory
      <4>2. a.home \subseteq Paths /\ \A p, q \in a.home : p = q
        BY <2>1, ArgumentAssumption
      <4>3. LogDirectory(i) = {directory}
        BY <3>2, <4>1, <4>2 DEF LogDirectory
      <4>4. home.text \in Seq(Classes) /\ NoReturn(home.text)
        BY <2>1, <4>2, Widen DEF Paths, PathsHaveNoReturn
      <4> DEFINE logs == home.text \o <<"slash">> \o <<"logs">>
      <4>5. logs \in Seq(Classes) /\ NoReturn(logs)
        <5>1. /\ <<"slash">> \in Seq(Classes) /\ NoReturn(<<"slash">>)
              /\ <<"logs">> \in Seq(Classes) /\ NoReturn(<<"logs">>)
          <6>1. \A class \in {"slash", "logs"} :
                    <<class>> \in Seq(Classes) /\ NoReturn(<<class>>)
            BY Names
          <6> QED BY <6>1
        <5>2. home.text \o <<"slash">> \in Seq(Classes)
              /\ NoReturn(home.text \o <<"slash">>)
          BY <4>4, <5>1, Concatenation
        <5> QED BY <5>1, <5>2, Concatenation
      <4> HIDE DEF logs
      <4>6. directory = [home EXCEPT !.text = logs]
        BY <4>1, <4>2 DEF Join, Paths, logs
      <4>7. directory \in ClassedPaths /\ directory.text = logs
        BY <4>2, <4>5, <4>6 DEF Paths, ClassedPaths
      <4> QED BY <4>3, <4>5, <4>7
    <3> QED BY <3>1, <3>2
  <2>7. /\ ReadXml(xml.label) = {a.label}
        /\ ReadXml(xml.program) = {program.text}
        /\ ReadXml(xml.config) = {a.config.text}
    BY <2>3, <2>4, <2>5, ReadsBack
  <2>8. /\ ReadXml(xml.stdout) =
               {directory.text \o <<"slash">> \o a.label \o <<"stdout">>}
        /\ ReadXml(xml.stderr) =
               {directory.text \o <<"slash">> \o a.label \o <<"stderr">>}
    BY <2>3, <2>4, <2>6, LogsReadBack
  <2>9. {p.text : p \in Program(i)} = {program.text}
    BY <2>5
  <2>10. ASSUME NEW name
         PROVE  {d.text \o <<"slash">> \o a.label \o <<name>> : d \in LogDirectory(i)}
                    = {directory.text \o <<"slash">> \o a.label \o <<name>>}
    BY <2>6
  <2> QED BY <2>7, <2>8, <2>9, <2>10
<1> QED BY <1>1, InvariantHolds, PTL
=============================================================================
