------------------------------ MODULE MCSetup -------------------------------
(***************************************************************************)
(* Two invocations of any two commands.  Labels and paths hold one         *)
(* character of every class that is treated apart.                         *)
(***************************************************************************)
EXTENDS Setup

CONSTANTS i1, i2, someone

Path(text) == [absolute |-> TRUE, utf8 |-> TRUE, text |-> text]

toml == Path(<<"c", "amp", "lt", "newline">>)
plist == Path(<<"p">>)
logs == Path(<<"l", "gt">>)
home == Path(<<"h", "quot">>)
exe == Path(<<"e", "apos", "amp", "tab", "space">>)

MCTexts == {toml.text, plist.text}
MCDirectories == {logs.text, home.text \o <<"slash", "logs">>}
MCCurrentExe == {exe}

base == [command |-> "init-gateway-plist", output |-> plist, config |-> toml,
         label |-> <<"r", "amp", "lt">>, program |-> {}, logDir |-> {logs},
         home |-> {home}]

MCArguments ==
    {base,
     [base EXCEPT !.command = "init-config", !.output = toml],
     [base EXCEPT !.command = "check-config"],
     [base EXCEPT !.output.absolute = FALSE],
     [base EXCEPT !.config.absolute = FALSE],
     [base EXCEPT !.program = {plist}, !.logDir = {}],
     [base EXCEPT !.program = {[plist EXCEPT !.utf8 = FALSE]}],
     [base EXCEPT !.logDir = {}, !.home = {}],
     [base EXCEPT !.logDir = {}, !.home = {[home EXCEPT !.absolute = FALSE]}],
     [base EXCEPT !.logDir = {plist}],
     [base EXCEPT !.logDir = {[logs EXCEPT !.text = @ \o <<"control">>]}],
     [base EXCEPT !.label = <<"r", "slash">>],
     [base EXCEPT !.label = <<"r", "return">>],
     [base EXCEPT !.label = <<>>]}
=============================================================================
