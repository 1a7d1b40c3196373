--------------------------- MODULE ShutdownTiming ---------------------------
(***************************************************************************)
(* How long the shutdown of src/src/lifecycle.rs and src/src/main.rs takes *)
(* when every wait runs to its limit: the cleanup's path through the drain *)
(* deadline, a poll, a checker, launchctl and the reaping of a killed      *)
(* child, against the ceiling after which the signal task goes on without  *)
(* it.  What the steps do to the services' state is in Gateway; here an    *)
(* attempt may be refused, obsolete or not, and only its time counts.      *)
(*                                                                         *)
(* Every await with a timeout has a timer, and time does not pass while a  *)
(* task is runnable: the model measures the timeouts, not the scheduler.   *)
(***************************************************************************)
EXTENDS Integers

CONSTANTS Services,
          Checked,          \* services with a can_stop_command
          Drain,            \* SHUTDOWN_DRAIN_TIMEOUT, 5 s
          Poll,             \* SHUTDOWN_POLL_INTERVAL, 20 ms
          Check,            \* STOP_CHECK_TIMEOUT, 5 s
          Stop,             \* STOP_COMMAND_TIMEOUT, 5 s
          Terminate,        \* the wait of terminate_timed_out_child, 1 s
          Ceiling           \* GATEWAY_CLEANUP_WAIT_TIMEOUT_SECONDS, 20 s

\* The longest path of one service.
Bound == Drain + Poll + Check + Stop + Terminate

\* 5 + 0.02 + 5 + 5 + 1 < 20.
ASSUME CheckedAssumption == Checked \subseteq Services
ASSUME DurationAssumption ==
    /\ {Drain, Poll, Check, Stop, Terminate, Ceiling} \subseteq Nat \ {0}
    /\ Bound < Ceiling

VARIABLES elapsed,      \* since the signal, until the hand-off
          signalTask,   \* coordinate_cleanup
          monitor,      \* IdleMonitor::start
          drainLeft,    \* until the deadline of the cleanup
          admissions,   \* some request still holds an admission
          busy,         \* services with a lease or a kickstart
          task,         \* what the service's stop or cleanup task awaits
          left          \* and how long it may still do so

vars == <<elapsed, signalTask, monitor, drainLeft, admissions, busy, task,
          left>>

\* polling belongs to cleanup_service_at_shutdown, the others to
\* run_stop_attempt and its children.
Waits == {"none", "polling", "checking", "killingCheck", "stopping",
          "killingStop"}

Limit(wait) ==
    CASE wait = "none" -> 0
      [] wait = "polling" -> Poll
      [] wait = "checking" -> Check
      [] wait = "stopping" -> Stop
      [] OTHER -> Terminate

TypeOK ==
    /\ elapsed \in 0 .. Ceiling
    /\ signalTask \in {"serving", "waiting", "completed", "gaveUp"}
    /\ monitor \in {"scanning", "draining", "joining", "finished"}
    /\ drainLeft \in 0 .. Drain
    /\ admissions \in BOOLEAN
    /\ busy \in [Services -> BOOLEAN]
    /\ task \in [Services -> Waits]
    /\ left \in [Services -> Nat]
    /\ \A s \in Services : left[s] <= Limit(task[s])

Init ==
    /\ elapsed = 0
    /\ signalTask = "serving"
    /\ monitor = "scanning"
    /\ drainLeft = 0
    /\ admissions = FALSE
    /\ busy = [s \in Services |-> FALSE]
    /\ task = [s \in Services |-> "none"]
    /\ left = [s \in Services |-> 0]

-----------------------------------------------------------------------------
(* The stop task of a service.                                             *)

Await(s, wait) ==
    /\ task' = [task EXCEPT ![s] = wait]
    /\ left' = [left EXCEPT ![s] = Limit(wait)]

FirstWait(s) == IF s \in Checked THEN "checking" ELSE "stopping"

\* The scan begins an attempt.
ScanBegins(s) ==
    /\ monitor = "scanning"
    /\ task[s] = "none"
    /\ ~busy[s]
    /\ Await(s, FirstWait(s))
    /\ UNCHANGED <<elapsed, signalTask, monitor, drainLeft, admissions, busy>>

\* Mutant: a checker that was killed allows the stop.
CheckEndsLeniently(s) ==
    /\ \/ task[s] = "checking" /\ left[s] > 0 /\ Await(s, "stopping")
       \/ task[s] = "checking" /\ left[s] = 0 /\ Await(s, "killingCheck")
       \/ task[s] = "killingCheck" /\ Await(s, "stopping")
    /\ UNCHANGED <<elapsed, signalTask, monitor, drainLeft, admissions, busy>>

\* The checker answers in time, and the attempt goes on to launchctl or ends;
\* or it is killed and reaped, and the attempt ends.
CheckEnds(s) ==
    /\ \/ /\ task[s] = "checking"
          /\ Await(s, "stopping") \/ Await(s, "none")
       \/ task[s] = "checking" /\ left[s] = 0 /\ Await(s, "killingCheck")
       \/ task[s] = "killingCheck" /\ Await(s, "none")
    /\ UNCHANGED <<elapsed, signalTask, monitor, drainLeft, admissions, busy>>

\* launchctl ends in time, or it is killed and reaped.
StopEnds(s) ==
    /\ \/ task[s] \in {"stopping", "killingStop"} /\ Await(s, "none")
       \/ task[s] = "stopping" /\ left[s] = 0 /\ Await(s, "killingStop")
    /\ UNCHANGED <<elapsed, signalTask, monitor, drainLeft, admissions, busy>>

\* One pass of cleanup_service_at_shutdown: Ready, Busy at the deadline, Busy.
PollService(s) ==
    /\ task[s] = "polling"
    /\ left[s] = 0
    /\ \/ ~busy[s] /\ Await(s, FirstWait(s))
       \/ busy[s] /\ drainLeft = 0 /\ Await(s, "none")
       \/ busy[s] /\ drainLeft > 0 /\ Await(s, "polling")
    /\ UNCHANGED <<elapsed, signalTask, monitor, drainLeft, admissions, busy>>

-----------------------------------------------------------------------------
(* Requests and kickstarts, as far as the cleanup waits for them.          *)

\* The gate is closed with the signal.
Admit ==
    /\ signalTask = "serving"
    /\ admissions' = TRUE
    /\ UNCHANGED <<elapsed, signalTask, monitor, drainLeft, busy, task, left>>

\* An admitted request takes a lease or launches.
Occupy(s) ==
    /\ admissions
    /\ busy' = [busy EXCEPT ![s] = TRUE]
    /\ UNCHANGED <<elapsed, signalTask, monitor, drainLeft, admissions, task,
                   left>>

DropAdmissions ==
    /\ admissions
    /\ admissions' = FALSE
    /\ UNCHANGED <<elapsed, signalTask, monitor, drainLeft, busy, task, left>>

Quiesce(s) ==
    /\ busy[s]
    /\ busy' = [busy EXCEPT ![s] = FALSE]
    /\ UNCHANGED <<elapsed, signalTask, monitor, drainLeft, admissions, task,
                   left>>

-----------------------------------------------------------------------------
(* Signal task and monitor.                                                *)

RequestShutdown ==
    /\ signalTask = "serving"
    /\ signalTask' = "waiting"
    /\ UNCHANGED <<elapsed, monitor, drainLeft, admissions, busy, task, left>>

StartCleanup ==
    /\ monitor = "scanning"
    /\ signalTask # "serving"
    /\ monitor' = "draining"
    /\ drainLeft' = Drain
    /\ UNCHANGED <<elapsed, signalTask, admissions, busy, task, left>>

\* Mutant: the services get a drain time of their own.
FinishDrainAndRestart ==
    /\ monitor = "draining"
    /\ ~admissions
    /\ monitor' = "joining"
    /\ drainLeft' = Drain
    /\ task' = [s \in Services |->
                   IF task[s] = "none" THEN "polling" ELSE task[s]]
    /\ UNCHANGED <<elapsed, signalTask, admissions, busy, left>>

\* prepare_shutdown leaves an attempt under way alone and a stop it remembers
\* unrepeated; every other service gets a cleanup task, which polls at once.
\* An undrained gate gets no service a task.
FinishDrain ==
    /\ monitor = "draining"
    /\ \/ /\ ~admissions
          /\ \E signalled \in SUBSET Services :
                 task' = [s \in Services |->
                             IF task[s] = "none" /\ s \notin signalled
                             THEN "polling" ELSE task[s]]
       \/ admissions /\ drainLeft = 0 /\ UNCHANGED task
    /\ monitor' = "joining"
    /\ UNCHANGED <<elapsed, signalTask, drainLeft, admissions, busy, left>>

FinishCleanup ==
    /\ monitor = "joining"
    /\ \A s \in Services : task[s] = "none"
    /\ monitor' = "finished"
    /\ UNCHANGED <<elapsed, signalTask, drainLeft, admissions, busy, task,
                   left>>

\* wait_for_cleanup returns: the cleanup is finished, or the ceiling is met.
HandOff ==
    /\ signalTask = "waiting"
    /\ \/ monitor = "finished" /\ signalTask' = "completed"
       \/ monitor # "finished" /\ elapsed = Ceiling /\ signalTask' = "gaveUp"
    /\ UNCHANGED <<elapsed, monitor, drainLeft, admissions, busy, task, left>>

-----------------------------------------------------------------------------
(* Time.                                                                   *)

CountDown(n) == IF n > 0 THEN n - 1 ELSE 0

\* Somebody can run without waiting any longer.
Runnable ==
    \/ \E s \in Services : task[s] # "none" /\ left[s] = 0
    \/ monitor = "scanning" /\ signalTask # "serving"
    \/ monitor = "draining" /\ (~admissions \/ drainLeft = 0)
    \/ monitor = "joining" /\ \A s \in Services : task[s] = "none"
    \/ signalTask = "waiting" /\ (monitor = "finished" \/ elapsed = Ceiling)

Tick ==
    /\ ~Runnable
    /\ elapsed' = IF signalTask = "waiting" THEN elapsed + 1 ELSE elapsed
    /\ drainLeft' = CountDown(drainLeft)
    /\ left' = [s \in Services |-> CountDown(left[s])]
    /\ UNCHANGED <<signalTask, monitor, admissions, busy, task>>

Next ==
    \/ \E s \in Services :
           \/ ScanBegins(s) \/ CheckEnds(s) \/ StopEnds(s) \/ PollService(s)
           \/ Occupy(s) \/ Quiesce(s)
    \/ Admit \/ DropAdmissions
    \/ RequestShutdown \/ StartCleanup \/ FinishDrain \/ FinishCleanup
    \/ HandOff
    \/ Tick

Spec == Init /\ [][Next]_vars

-----------------------------------------------------------------------------
(* Properties.                                                             *)

\* docs/design.md, "the longest legitimate sequential service path": drain,
\* checker, launchctl and the reaping of launchctl.  No interleaving of
\* services, existing attempts and late requests takes longer.
CleanupWithinBound == monitor # "finished" => elapsed <= Bound

\* The ceiling of coordinate_cleanup is a fail-safe: a cleanup whose children
\* are all bounded is never cut off by it.
CeilingNeverMet == signalTask # "gaveUp"
=============================================================================
