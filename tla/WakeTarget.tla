----------------------------- MODULE WakeTarget -----------------------------
(***************************************************************************)
(* WakeTarget of src/src/wake.rs: the launch state of each service behind  *)
(* its own mutex, and the launchctl kickstart tasks it spawns.             *)
(*                                                                         *)
(* A step is one critical section.  Whether the kickstart succeeds, fails  *)
(* or times out makes no difference to the state.  CoolingDownUntil(until) *)
(* is kept as the time left, coolIn.                                       *)
(***************************************************************************)
EXTENDS Integers

CONSTANTS Services,
          RetryCooldown   \* RETRY_COOLDOWN, in ticks

ASSUME CooldownAssumption == RetryCooldown \in Nat \ {0}

VARIABLES launch,         \* LaunchState
          coolIn,         \* ticks until CoolingDownUntil is over
          kickstarts      \* kickstart tasks that have not finished

vars == <<launch, coolIn, kickstarts>>

LaunchStates == {"Eligible", "Launching", "CoolingDown"}

TypeOK ==
    /\ launch \in [Services -> LaunchStates]
    /\ coolIn \in [Services -> 0 .. RetryCooldown]
    /\ kickstarts \in [Services -> Nat]

Init ==
    /\ launch = [s \in Services |-> "Eligible"]
    /\ coolIn = [s \in Services |-> 0]
    /\ kickstarts = [s \in Services |-> 0]

LaunchInProgress(s) == launch[s] = "Launching"

\* Mutant: a kickstart under way does not refuse the next one.
MayLaunchAgain(s) == launch[s] = "CoolingDown" => coolIn[s] = 0

MayLaunch(s) ==
    \/ launch[s] = "Eligible"
    \/ launch[s] = "CoolingDown" /\ coolIn[s] = 0

\* Concurrent cold requests share the kickstart that is under way, and none
\* is started while the last one cools down.
RequestLaunch(s) ==
    IF MayLaunch(s)
    THEN /\ launch' = [launch EXCEPT ![s] = "Launching"]
         /\ coolIn' = [coolIn EXCEPT ![s] = 0]
         /\ kickstarts' = [kickstarts EXCEPT ![s] = @ + 1]
    ELSE UNCHANGED vars

\* Mutant: a failed kickstart returns without launch_finished_at.
LaunchFinishedSilently(s) ==
    /\ kickstarts[s] > 0
    /\ kickstarts' = [kickstarts EXCEPT ![s] = @ - 1]
    /\ UNCHANGED <<launch, coolIn>>

\* launch_finished_at, on every outcome of the kickstart.
LaunchFinished(s) ==
    /\ kickstarts[s] > 0
    /\ kickstarts' = [kickstarts EXCEPT ![s] = @ - 1]
    /\ launch' = [launch EXCEPT ![s] = "CoolingDown"]
    /\ coolIn' = [coolIn EXCEPT ![s] = RetryCooldown]

\* Overwrites whatever state it finds: the caller must know that no kickstart
\* is under way (see Next).
AllowLaunchAfterStop(s) ==
    /\ launch' = [launch EXCEPT ![s] = "Eligible"]
    /\ coolIn' = [coolIn EXCEPT ![s] = 0]
    /\ UNCHANGED kickstarts

Tick ==
    /\ coolIn' = [s \in Services |-> IF coolIn[s] > 0 THEN coolIn[s] - 1 ELSE 0]
    /\ UNCHANGED <<launch, kickstarts>>

\* The contract of the callers: a stop is reported only when no kickstart is
\* under way.  Gateway shows that the stop attempts keep it, although they
\* read the launch state and report the stop in two critical sections.
ReportStop(s) == ~LaunchInProgress(s) /\ AllowLaunchAfterStop(s)

Next ==
    \/ \E s \in Services : RequestLaunch(s) \/ LaunchFinished(s) \/ ReportStop(s)
    \/ Tick

Spec == Init /\ [][Next]_vars

\* Kickstarts are bounded by a timeout and time passes.
FairSpec ==
    /\ Spec
    /\ WF_vars(Tick)
    /\ \A s \in Services : WF_vars(LaunchFinished(s))

-----------------------------------------------------------------------------
(* Properties.                                                             *)

\* launchctl kickstart is deduplicated: the state says Launching exactly
\* while one task runs, so a second kickstart of a service never overlaps the
\* first and a finished one never leaves the state behind.
OneKickstart ==
    \A s \in Services : kickstarts[s] = (IF LaunchInProgress(s) THEN 1 ELSE 0)

\* A kickstart, failed or not, never locks a service out of being launched.
LaunchableAgain == \A s \in Services : LaunchInProgress(s) ~> MayLaunch(s)
=============================================================================
