------------------------------- MODULE Setup --------------------------------
(***************************************************************************)
(* The setup commands: init-config, check-config and init-gateway-plist of *)
(* src/src/main.rs with the property list of src/src/setup.rs, run by      *)
(* hand, at the same time or again after a failure, over one file system.  *)
(*                                                                         *)
(* A text is a sequence of character classes.  A path is a text, whether   *)
(* it is absolute and whether it is UTF-8.  A file that exists is known by *)
(* who wrote it and how many of its Parts are written; write_all may stop  *)
(* between two of them.                                                    *)
(***************************************************************************)
EXTENDS Configuration

CONSTANTS Invocations,
          Arguments,      \* argument records of the three commands
          Texts,          \* texts of the paths of files
          Directories,    \* texts of the paths that are directories
          CurrentExe,     \* env::current_exe()
          Someone,        \* who wrote what was there before
          Parts

ASSUME SetupAssumption ==
    /\ Parts \in Nat \ {0} /\ Someone \notin Invocations
    /\ \A a \in Arguments : a.output.text \in Texts

Paths == [absolute : BOOLEAN, utf8 : BOOLEAN, text : Seq(STRING)]

\* An option is given once or not at all.
ASSUME ArgumentAssumption ==
    \A a \in Arguments :
        /\ a.label \in Seq(STRING) /\ a.config \in Paths
        /\ \A option \in {a.program, a.logDir, a.home, CurrentExe} :
               option \subseteq Paths /\ \A p, q \in option : p = q

VARIABLES files,    \* files[text]: {} or {the file}
          args,     \* args[i]: the arguments of invocation i
          pc,       \* its program counter
          exit      \* its exit status, {} before it exits

vars == <<files, args, pc, exit>>

\* A path has no file or one.
TypeOK ==
    /\ files \in [Texts -> SUBSET [by : Invocations \cup {Someone},
                                   written : 0 .. Parts]]
    /\ \A text \in Texts : \A f, g \in files[text] : f = g
    /\ args \in [Invocations -> Arguments]
    /\ pc \in [Invocations -> {"start", "reading", "opening", "writing", "done"}]
    /\ exit \in [Invocations -> {{}, {0}, {2}}]

Init ==
    /\ files \in [Texts -> {{}, {[by |-> Someone, written |-> Parts]}}]
    /\ args \in [Invocations -> Arguments]
    /\ pc = [i \in Invocations |-> "start"]
    /\ exit = [i \in Invocations |-> {}]

-----------------------------------------------------------------------------
(* The property list.                                                      *)

IsXmlCharacter(class) == class # "control"

\* Mutant: an ampersand is written as it is.
EscapeMarkup(text) ==
    [k \in DOMAIN text |->
        [class |-> text[k], escaped |-> text[k] \in {"lt", "gt", "quot", "apos"}]]

WriteEscapedXml(text) ==
    [k \in DOMAIN text |->
        [class |-> text[k],
         escaped |-> text[k] \in {"amp", "lt", "gt", "quot", "apos"}]]

ValidText(text) == \A k \in DOMAIN text : IsXmlCharacter(text[k])

ValidPath(path) == path.absolute /\ path.utf8 /\ ValidText(path.text)

Join(path, name) == [path EXCEPT !.text = @ \o <<"slash">> \o name]

Log(directory, label, name) == Join(directory, label \o <<name>>).text

\* The strings of gateway_plist_xml, {} for an error.
GatewayPlistXml(label, program, config, directory) ==
    IF /\ ValidLaunchdLabel(label) /\ ValidText(label)
       /\ ValidPath(program) /\ ValidPath(config) /\ ValidPath(directory)
       /\ directory.text \in Directories
    THEN {[label |-> WriteEscapedXml(label),
           program |-> WriteEscapedXml(program.text),
           config |-> WriteEscapedXml(config.text),
           stdout |-> WriteEscapedXml(Log(directory, label, "stdout")),
           stderr |-> WriteEscapedXml(Log(directory, label, "stderr"))]}
    ELSE {}

Program(i) == IF args[i].program = {} THEN CurrentExe ELSE args[i].program

\* --log-dir, or $HOME/Library/Logs if HOME is set and absolute.
LogDirectory(i) ==
    IF args[i].logDir # {} THEN args[i].logDir
    ELSE {Join(home, <<"logs">>) : home \in {h \in args[i].home : h.absolute}}

Plist(i) ==
    UNION {GatewayPlistXml(args[i].label, program, args[i].config, directory) :
           program \in Program(i), directory \in LogDirectory(i)}

-----------------------------------------------------------------------------
(* The commands.                                                           *)

Move(i, from, to) ==
    /\ pc[i] = from
    /\ pc' = [pc EXCEPT ![i] = to]
    /\ UNCHANGED <<args, exit>>

Exit(i, from, status) ==
    /\ pc[i] = from
    /\ pc' = [pc EXCEPT ![i] = "done"]
    /\ exit' = [exit EXCEPT ![i] = {status}]
    /\ UNCHANGED args

\* starter_toml, which goes through from_toml before it is written.
StarterService(word, port) ==
    [host |-> [clean |-> TRUE, port |-> NoPort,
               host |-> <<[word |-> word, len |-> Len(word), upper |-> FALSE,
                           kind |-> "name"]>>],
     upstream |-> [ip |-> "127.0.0.1", port |-> port],
     label |-> <<word>>, idle |-> 1800, command |-> {}]

Starter ==
    [listen |-> [ip |-> "0.0.0.0", port |-> 8080], tls |-> {},
     services |-> <<StarterService("first", 9001), StarterService("second", 9002)>>]

\* What comes before the configuration is read.
Prepare(i) ==
    LET ready == CASE args[i].command = "init-config" -> FromToml(Starter).ok
                   [] args[i].command = "check-config" -> TRUE
                   [] args[i].command = "init-gateway-plist" ->
                          /\ args[i].output.absolute
                          /\ Program(i) # {} /\ LogDirectory(i) # {}
        next == IF args[i].command = "init-config" THEN "opening" ELSE "reading" IN
    /\ IF ready THEN Move(i, "start", next) ELSE Exit(i, "start", 2)
    /\ UNCHANGED files

\* Config::load.  A file that is not there or not begun is an error, and one
\* that is written in part may be one or not.
Loads(i) ==
    {f.written > 0 : f \in files[args[i].config.text]}
        \cup {f.written = Parts : f \in files[args[i].config.text]}

LoadConfig(i) ==
    /\ \/ /\ TRUE \in Loads(i)
          /\ IF args[i].command = "check-config" THEN Exit(i, "reading", 0)
             ELSE IF Plist(i) # {} THEN Move(i, "reading", "opening")
             ELSE Exit(i, "reading", 2)
       \/ /\ FALSE \in Loads(i) \/ Loads(i) = {}
          /\ Exit(i, "reading", 2)
    /\ UNCHANGED files

Put(i, written) ==
    files' = [files EXCEPT ![args[i].output.text] =
                  {[by |-> i, written |-> written]}]

\* Mutant: an existing file is opened and truncated.
CreateOrTruncate(i) == Move(i, "opening", "writing") /\ Put(i, 0)

\* create_new: the test for the file and its creation are one.
CreateNew(i) ==
    \/ Move(i, "opening", "writing") /\ files[args[i].output.text] = {} /\ Put(i, 0)
    \/ Exit(i, "opening", 2) /\ UNCHANGED files

Write(i) ==
    \E f \in files[args[i].output.text] :
        /\ pc[i] = "writing"
        /\ f.written < Parts
        /\ Put(i, f.written + 1)
        /\ UNCHANGED <<args, pc, exit>>

\* Mutant: the result of write_all is dropped.
IgnoreWriteError(i) == Exit(i, "writing", 0) /\ UNCHANGED files

\* What was written stays.
WriteFails(i) == Exit(i, "writing", 2) /\ UNCHANGED files

Succeed(i) ==
    /\ \E f \in files[args[i].output.text] : f.written = Parts
    /\ Exit(i, "writing", 0)
    /\ UNCHANGED files

\* The process is killed: it has no exit status.
Kill(i) ==
    /\ pc[i] # "done"
    /\ pc' = [pc EXCEPT ![i] = "done"]
    /\ UNCHANGED <<files, args, exit>>

Next ==
    \E i \in Invocations :
        \/ Prepare(i) \/ LoadConfig(i)
        \/ CreateNew(i) \/ Write(i) \/ WriteFails(i) \/ Succeed(i)
        \/ Kill(i)

Spec == Init /\ [][Next]_vars

-----------------------------------------------------------------------------
(* Properties.                                                             *)

\* "Both generators create only a new output and refuse to overwrite an
\* existing file": whatever is at a path, one left half written by a failure
\* included, stays there, and nobody but its writer adds to it, however
\* many generators race for the path.
NothingIsOverwritten ==
    [][\A text \in Texts : \A f \in files[text] :
          \E g \in files'[text] :
              /\ g.by = f.by /\ g.written >= f.written
              /\ g # f => pc[f.by] = "writing"
      ]_vars

\* A generator that reports success has left its complete output, whoever
\* else was given the same path and whatever happened to them.
SuccessMeansComplete ==
    \A i \in Invocations :
        exit[i] = {0} /\ args[i].command # "check-config" =>
            files[args[i].output.text] = {[by |-> i, written |-> Parts]}

\* How launchd reads a string back: raw markup is an error, an entity is its
\* character, and a raw carriage return is the end of a line (XML 1.0, 2.11),
\* read as a line feed.
ReadXml(string) ==
    IF \E k \in DOMAIN string :
           ~string[k].escaped /\ string[k].class \in {"amp", "lt"}
    THEN {}
    ELSE {[k \in DOMAIN string |->
              IF string[k].class = "return" /\ ~string[k].escaped
              THEN "newline" ELSE string[k].class]}

\* README.md: the command "safely escapes the generated XML".  What launchd
\* reads from a property list is what the operator gave, with the two logs in
\* the log directory under the label.
PlistReadsBack ==
    \A i \in Invocations : exit[i] = {0} /\ args[i].command = "init-gateway-plist" =>
        \A xml \in Plist(i) :
            /\ ReadXml(xml.label) = {args[i].label}
            /\ ReadXml(xml.program) = {p.text : p \in Program(i)}
            /\ ReadXml(xml.config) = {args[i].config.text}
            /\ ReadXml(xml.stdout) = {d.text \o <<"slash">> \o args[i].label
                                       \o <<"stdout">> : d \in LogDirectory(i)}
            /\ ReadXml(xml.stderr) = {d.text \o <<"slash">> \o args[i].label
                                       \o <<"stderr">> : d \in LogDirectory(i)}
=============================================================================
