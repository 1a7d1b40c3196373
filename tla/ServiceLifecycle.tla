-------------------------- MODULE ServiceLifecycle --------------------------
(***************************************************************************)
(* ServiceLifecycle, StopAttempt and ServiceLease of src/src/lifecycle.rs: *)
(* the per-service state behind one mutex, and the stop attempts that run  *)
(* beside the requests.                                                    *)
(*                                                                         *)
(* A step is one critical section of a service's mutex, except the one of  *)
(* start_allowed_attempt_at, which spawns launchctl while it holds the     *)
(* mutex: it is split into Decide and StartStop/StopNotStarted, and the    *)
(* mutex is held in between.  The launch state of WakeTarget has a mutex   *)
(* of its own; here it is an input, launchInProgress, that may change at   *)
(* any moment.                                                             *)
(*                                                                         *)
(* Instants are replaced by the time left until they matter: idleIn and    *)
(* retryIn count down to zero on every Tick.                               *)
(***************************************************************************)
EXTENDS Integers

CONSTANTS Services,
          Checked,        \* services with a can_stop_command
          IdleTimeout,    \* idle_timeout, in ticks
          CheckRetry,     \* STOP_CHECK_RETRY, in ticks
          MaxGeneration   \* bound on the activity of one service, 0 for none

ASSUME CheckedAssumption == Checked \subseteq Services
ASSUME TimingAssumption ==
    /\ IdleTimeout \in Nat \ {0}
    /\ CheckRetry \in Nat \ {0}
    /\ MaxGeneration \in Nat

VARIABLES inFlight,           \* LifecycleState.in_flight
          generation,         \* LifecycleState.generation
          idleIn,             \* idle_timeout minus the age of idle_since
          retryIn,            \* retry time left of last_check_finished
          attemptInProgress,  \* LifecycleState.attempt_in_progress
          stopAttempted,      \* stop_attempted_generation: {} or {Some}
          attempts,           \* the running run_stop_attempt tasks
          launchInProgress,   \* WakeTarget::launch_in_progress()
          disturbed,          \* history: activity since an attempt began
          stopsSent           \* history: stops since the last activity

activityVars == <<inFlight, generation, idleIn>>
checkVars == <<retryIn, attemptInProgress, stopAttempted>>
historyVars == <<disturbed, stopsSent>>
vars == <<activityVars, checkVars, attempts, launchInProgress, historyVars>>

Phases == {"checking", "allowed", "locked", "stopping"}

\* StopAttempt, with how far its task has come.
StopAttempts == [service : Services, generation : Nat,
                 requiresIdle : BOOLEAN, phase : Phases]

TypeOK ==
    /\ inFlight \in [Services -> Nat]
    /\ generation \in [Services -> Nat]
    /\ idleIn \in [Services -> 0 .. IdleTimeout]
    /\ retryIn \in [Services -> 0 .. CheckRetry]
    /\ attemptInProgress \in [Services -> BOOLEAN]
    /\ stopAttempted \in [Services -> SUBSET Nat]
    /\ attempts \subseteq StopAttempts
    /\ launchInProgress \in [Services -> BOOLEAN]
    /\ disturbed \in [Services -> BOOLEAN]
    /\ stopsSent \in [Services -> Nat]

\* new_at: a fresh process adopts every service as idle since now.
Init ==
    /\ inFlight = [s \in Services |-> 0]
    /\ generation = [s \in Services |-> 0]
    /\ idleIn = [s \in Services |-> IdleTimeout]
    /\ retryIn = [s \in Services |-> 0]
    /\ attemptInProgress = [s \in Services |-> FALSE]
    /\ stopAttempted = [s \in Services |-> {}]
    /\ attempts = {}
    /\ launchInProgress = [s \in Services |-> FALSE]
    /\ disturbed = [s \in Services |-> FALSE]
    /\ stopsSent = [s \in Services |-> 0]

\* The service's mutex is free: no attempt is between its decision and its
\* spawn of launchctl.
Unlocked(s) ==
    \A a \in attempts : a.service = s => a.phase # "locked"

-----------------------------------------------------------------------------
(* Requests.                                                               *)

\* Mutant: activity forgets the checks but keeps the generation.
SameGeneration(s) ==
    /\ retryIn' = [retryIn EXCEPT ![s] = 0]
    /\ stopAttempted' = [stopAttempted EXCEPT ![s] = {}]
    /\ UNCHANGED <<generation, attemptInProgress, attempts, launchInProgress>>

\* What every activity does: a new generation, and nothing remembered of the
\* checks and the stop of the generations before it.
NewGeneration(s) ==
    /\ generation' = [generation EXCEPT ![s] = @ + 1]
    /\ retryIn' = [retryIn EXCEPT ![s] = 0]
    /\ stopAttempted' = [stopAttempted EXCEPT ![s] = {}]
    /\ UNCHANGED <<attemptInProgress, attempts, launchInProgress>>

RecordActivity(s) ==
    /\ disturbed' = [disturbed EXCEPT ![s] = TRUE]
    /\ stopsSent' = [stopsSent EXCEPT ![s] = 0]

\* Mutant: an arrival does not begin a new grace period.
NoteArrivalStillIdle(s) ==
    /\ Unlocked(s)
    /\ UNCHANGED <<inFlight, idleIn>>
    /\ NewGeneration(s)
    /\ RecordActivity(s)

NoteRequestArrival(s) ==
    /\ Unlocked(s)
    /\ idleIn' = [idleIn EXCEPT ![s] = IdleTimeout]
    /\ UNCHANGED inFlight
    /\ NewGeneration(s)
    /\ RecordActivity(s)

\* acquire leaves idle_since alone.
Acquire(s) ==
    /\ Unlocked(s)
    /\ inFlight' = [inFlight EXCEPT ![s] = @ + 1]
    /\ UNCHANGED idleIn
    /\ NewGeneration(s)
    /\ RecordActivity(s)

\* Mutant: the lease releases again after it has been released.
ReleaseTwice(s) ==
    /\ Unlocked(s)
    /\ inFlight' = [inFlight EXCEPT ![s] = @ - 1]
    /\ idleIn' = [idleIn EXCEPT ![s] = IdleTimeout]
    /\ NewGeneration(s)
    /\ RecordActivity(s)

\* A ServiceLease is dropped; its released flag makes it happen once.
Release(s) ==
    /\ Unlocked(s)
    /\ inFlight[s] > 0
    /\ inFlight' = [inFlight EXCEPT ![s] = @ - 1]
    /\ idleIn' = [idleIn EXCEPT ![s] = IdleTimeout]
    /\ NewGeneration(s)
    /\ RecordActivity(s)

-----------------------------------------------------------------------------
(* Stop attempts.                                                          *)

AlreadySignalled(s) == stopAttempted[s] = {generation[s]}

\* Mutant: an attempt already under way is overlooked.
OccupiedByRequests(s) == inFlight[s] # 0 \/ launchInProgress[s]

Occupied(s) == inFlight[s] # 0 \/ attemptInProgress[s] \/ launchInProgress[s]

\* A service without a can_stop_command is allowed to stop at once.
BeginAttempt(s, requiresIdle) ==
    /\ attemptInProgress' = [attemptInProgress EXCEPT ![s] = TRUE]
    /\ attempts' = attempts \cup
           {[service |-> s, generation |-> generation[s],
             requiresIdle |-> requiresIdle,
             phase |-> IF s \in Checked THEN "checking" ELSE "allowed"]}
    /\ disturbed' = [disturbed EXCEPT ![s] = FALSE]
    /\ UNCHANGED <<activityVars, retryIn, stopAttempted, launchInProgress,
                   stopsSent>>

\* The idle scan.
BeginStopAttempt(s) ==
    /\ Unlocked(s)
    /\ ~Occupied(s)
    /\ idleIn[s] = 0
    /\ ~AlreadySignalled(s)
    /\ retryIn[s] = 0
    /\ BeginAttempt(s, TRUE)

\* The shutdown cleanup, case Ready: it skips the idle and retry times.
BeginShutdownAttempt(s) ==
    /\ Unlocked(s)
    /\ ~AlreadySignalled(s)
    /\ ~Occupied(s)
    /\ BeginAttempt(s, FALSE)

MoveTo(a, phase) ==
    attempts' = (attempts \ {a}) \cup {[a EXCEPT !.phase = phase]}

EndAttempt(a) ==
    /\ attempts' = attempts \ {a}
    /\ attemptInProgress' = [attemptInProgress EXCEPT ![a.service] = FALSE]

CheckAllows(a) ==
    /\ a.phase = "checking"
    /\ MoveTo(a, "allowed")
    /\ UNCHANGED <<activityVars, checkVars, launchInProgress, historyVars>>

\* Mutant: a refusal leaves attempt_in_progress set.
CheckRefusesUnfinished(a) ==
    /\ a.phase = "checking"
    /\ Unlocked(a.service)
    /\ attempts' = attempts \ {a}
    /\ retryIn' = [retryIn EXCEPT ![a.service] = CheckRetry]
    /\ UNCHANGED <<activityVars, attemptInProgress, stopAttempted,
                   launchInProgress, historyVars>>

\* Mutant: a refusal counts for whatever idle period it comes in.
CheckRefusesAnyPeriod(a) ==
    /\ a.phase = "checking"
    /\ Unlocked(a.service)
    /\ EndAttempt(a)
    /\ retryIn' = [retryIn EXCEPT ![a.service] = CheckRetry]
    /\ UNCHANGED <<activityVars, stopAttempted, launchInProgress, historyVars>>

\* The checker vetoed, failed or timed out.  The refusal counts only if the
\* service is still in the idle period that was checked.
CheckRefuses(a) ==
    LET s == a.service IN
    /\ a.phase = "checking"
    /\ Unlocked(s)
    /\ EndAttempt(a)
    /\ retryIn' = IF generation[s] = a.generation /\ inFlight[s] = 0
                  THEN [retryIn EXCEPT ![s] = CheckRetry]
                  ELSE retryIn
    /\ UNCHANGED <<activityVars, stopAttempted, launchInProgress, historyVars>>

\* Mutant: requests that came and went during the check are not noticed.
ObsoleteIfBusy(a) == inFlight[a.service] # 0 \/ launchInProgress[a.service]

Obsolete(a) ==
    LET s == a.service IN
    \/ generation[s] # a.generation
    \/ inFlight[s] # 0
    \/ launchInProgress[s]
    \/ a.requiresIdle /\ idleIn[s] # 0

Discard(a) ==
    /\ a.phase = "allowed"
    /\ Unlocked(a.service)
    /\ Obsolete(a)
    /\ EndAttempt(a)
    /\ UNCHANGED <<activityVars, retryIn, stopAttempted, launchInProgress,
                   historyVars>>

\* The decision holds and the mutex stays locked.
Decide(a) ==
    /\ a.phase = "allowed"
    /\ Unlocked(a.service)
    /\ ~Obsolete(a)
    /\ MoveTo(a, "locked")
    /\ UNCHANGED <<activityVars, checkVars, launchInProgress, historyVars>>

\* Mutant: the generation's stop is not recorded.
StartStopUnrecorded(a) ==
    /\ a.phase = "locked"
    /\ MoveTo(a, "stopping")
    /\ launchInProgress' = [launchInProgress EXCEPT ![a.service] = FALSE]
    /\ stopsSent' = [stopsSent EXCEPT ![a.service] = @ + 1]
    /\ UNCHANGED <<activityVars, checkVars, disturbed>>

\* launchctl kill SIGTERM was spawned: the wake target may launch again.
StartStop(a) ==
    LET s == a.service IN
    /\ a.phase = "locked"
    /\ MoveTo(a, "stopping")
    /\ launchInProgress' = [launchInProgress EXCEPT ![s] = FALSE]
    /\ stopAttempted' = [stopAttempted EXCEPT ![s] = {generation[s]}]
    /\ stopsSent' = [stopsSent EXCEPT ![s] = @ + 1]
    /\ UNCHANGED <<activityVars, retryIn, attemptInProgress, disturbed>>

StopNotStarted(a) ==
    /\ a.phase = "locked"
    /\ EndAttempt(a)
    /\ retryIn' = [retryIn EXCEPT ![a.service] = CheckRetry]
    /\ UNCHANGED <<activityVars, stopAttempted, launchInProgress, historyVars>>

\* launchctl succeeded, failed or timed out.
FinishStop(a) ==
    /\ a.phase = "stopping"
    /\ Unlocked(a.service)
    /\ EndAttempt(a)
    /\ UNCHANGED <<activityVars, retryIn, stopAttempted, launchInProgress,
                   historyVars>>

-----------------------------------------------------------------------------
(* Surroundings.                                                           *)

\* A kickstart begins or ends, seen through the wake target's own mutex.
ChangeLaunch(s) ==
    /\ launchInProgress' = [launchInProgress EXCEPT ![s] = ~@]
    /\ UNCHANGED <<activityVars, checkVars, attempts, historyVars>>

CountDown(timer) ==
    [s \in Services |-> IF timer[s] > 0 THEN timer[s] - 1 ELSE 0]

Tick ==
    /\ idleIn' = CountDown(idleIn)
    /\ retryIn' = CountDown(retryIn)
    /\ UNCHANGED <<inFlight, generation, attemptInProgress, stopAttempted,
                   attempts, launchInProgress, historyVars>>

AttemptStep(a) ==
    \/ CheckAllows(a) \/ CheckRefuses(a)
    \/ Discard(a) \/ Decide(a)
    \/ StartStop(a) \/ StopNotStarted(a)
    \/ FinishStop(a)

InBounds(s) == MaxGeneration = 0 \/ generation[s] < MaxGeneration

Next ==
    \/ \E s \in Services :
           \/ InBounds(s) /\ NoteRequestArrival(s)
           \/ InBounds(s) /\ Acquire(s)
           \/ InBounds(s) /\ Release(s)
           \/ BeginStopAttempt(s)
           \/ BeginShutdownAttempt(s)
           \/ ChangeLaunch(s)
    \/ \E a \in attempts : AttemptStep(a)
    \/ Tick

Spec == Init /\ [][Next]_vars

\* Time passes, the scan comes round, commands are bounded by timeouts.
Fairness ==
    /\ WF_vars(Tick)
    /\ \A s \in Services :
           /\ WF_vars(BeginStopAttempt(s))
           /\ WF_vars(\E a \in attempts : a.service = s /\ AttemptStep(a))

FairSpec == Spec /\ Fairness

-----------------------------------------------------------------------------
(* Properties.                                                             *)

\* A service has at most one stop task (scan_at and the cleanup both spawn
\* them), and the flag that keeps others out is raised exactly as long as the
\* task runs: it is neither left behind nor cleared early on any exit path.
OneAttemptPerService ==
    /\ \A a, b \in attempts : a.service = b.service => a = b
    /\ \A s \in Services :
           attemptInProgress[s] <=> \E a \in attempts : a.service = s

\* At the moment launchctl is spawned the service has no request, has had none
\* since the attempt began, however long its checker ran and however many
\* requests came and went meanwhile, and an idle stop still finds it idle.
StopOnlyWhenQuiet ==
    \A a \in attempts : a.phase = "locked" =>
        /\ inFlight[a.service] = 0
        /\ ~disturbed[a.service]
        /\ a.requiresIdle => idleIn[a.service] = 0

\* Two attempts never both send a stop for one idle period, whichever of the
\* scan and the shutdown cleanup starts them and however they end.
AtMostOneStop == \A s \in Services : stopsSent[s] <= 1

Undecided(s) ==
    \E a \in attempts : a.service = s /\ a.phase # "stopping"

Policy == INSTANCE StopPolicy WITH
              leases <- inFlight,
              considered <- {s \in Services : Undecided(s) /\ ~disturbed[s]}

\* Generations, flags and lock together implement the stop policy.
ImplementsStopPolicy == Policy!Spec

\* No exit path strands a service: while one is quiet and not yet signalled,
\* attempts to stop it keep coming, after a veto, a failure or an obsolete
\* decision too.
StopsAreRetried ==
    \A s \in Services :
        []<>(\/ inFlight[s] > 0 \/ launchInProgress[s]
             \/ AlreadySignalled(s)
             \/ Undecided(s))
=============================================================================
