---------------------------- MODULE RequestGate -----------------------------
(***************************************************************************)
(* RequestGate and RequestAdmission of src/src/lifecycle.rs: a mutex over  *)
(* (accepting, admitted), one tokio Notify, and the one task that waits    *)
(* for the count to reach zero during shutdown.                            *)
(*                                                                         *)
(* A step is one critical section of the mutex or one operation of the     *)
(* Notify.  close and release unlock the mutex before they call            *)
(* notify_one, so the call is a step of its own: notifying holds the       *)
(* threads that are between the two.                                       *)
(***************************************************************************)
EXTENDS Integers, FiniteSets

CONSTANTS Contexts,     \* request contexts, each drops its admission once
          Closers,      \* threads that close the gate: signal task, monitor
          DrainWaiter   \* the monitor, the closer that then waits

ASSUME ThreadAssumption ==
    /\ DrainWaiter \in Closers
    /\ Contexts \cap Closers = {}

VARIABLES accepting,    \* RequestGateState.accepting
          admitted,     \* RequestGateState.admitted
          held,         \* contexts whose RequestAdmission is not released
          notifying,    \* threads that unlocked with drained = TRUE
          permit,       \* Notify's stored permit
          waiter,       \* program counter of wait_for_drain_until
          expired       \* its deadline has passed

gateState == <<accepting, admitted, held>>
vars == <<accepting, admitted, held, notifying, permit, waiter, expired>>

WaiterStates == {"idle", "closing", "checking", "polling", "parked", "woken",
                 "drained", "undrained"}

TypeOK ==
    /\ accepting \in BOOLEAN
    /\ admitted \in Nat
    /\ held \subseteq Contexts
    /\ notifying \subseteq Contexts \cup Closers
    /\ permit \in BOOLEAN
    /\ waiter \in WaiterStates
    /\ expired \in BOOLEAN

Init ==
    /\ accepting = TRUE
    /\ admitted = 0
    /\ held = {}
    /\ notifying = {}
    /\ permit = FALSE
    /\ waiter = "idle"
    /\ expired = FALSE

-----------------------------------------------------------------------------
(* The threads.                                                            *)

\* Mutant: admit does not look at accepting.
AdmitWhenClosed(c) ==
    /\ c \notin held \cup notifying
    /\ admitted' = admitted + 1
    /\ held' = held \cup {c}
    /\ UNCHANGED <<accepting, notifying, permit, waiter, expired>>

Admit(c) ==
    /\ accepting
    /\ c \notin held \cup notifying
    /\ admitted' = admitted + 1
    /\ held' = held \cup {c}
    /\ UNCHANGED <<accepting, notifying, permit, waiter, expired>>

\* Mutant: release and close forget the notification.
OweNothing(t) == UNCHANGED notifying

\* Whoever leaves the count at zero owes the Notify a call.
OweNotify(t) ==
    notifying' = IF admitted' = 0 THEN notifying \cup {t} ELSE notifying

\* Mutant: the released flag is not set, so the admission drops again.
ReleaseTwice(c) ==
    /\ c \in held
    /\ admitted' = admitted - 1
    /\ UNCHANGED <<accepting, held, notifying, permit, waiter, expired>>

\* Drop of a RequestAdmission; its released flag makes it happen once.
Release(c) ==
    /\ c \in held
    /\ admitted' = admitted - 1
    /\ held' = held \ {c}
    /\ OweNotify(c)
    /\ UNCHANGED <<accepting, permit, waiter, expired>>

\* ShutdownCoordinator::request on another thread.
Close(t) ==
    /\ t # DrainWaiter
    /\ t \notin notifying
    /\ accepting' = FALSE
    /\ UNCHANGED <<admitted, held>>
    /\ OweNotify(t)
    /\ UNCHANGED <<permit, waiter, expired>>

\* The monitor closes the gate itself before it waits on it.
CloseAndDrain ==
    /\ waiter = "idle"
    /\ accepting' = FALSE
    /\ UNCHANGED <<admitted, held>>
    /\ OweNotify(DrainWaiter)
    /\ waiter' = "closing"
    /\ UNCHANGED <<permit, expired>>

\* Mutant: notify_waiters, which keeps nothing for a waiter yet to park.
NotifyWaiting(t) ==
    /\ t \in notifying
    /\ notifying' = notifying \ {t}
    /\ waiter' = IF waiter = "parked" THEN "woken" ELSE waiter
    /\ UNCHANGED <<gateState, permit, expired>>

\* notify_one hands the wakeup to a parked waiter, and otherwise keeps it.
NotifyOne(t) ==
    /\ t \in notifying
    /\ notifying' = notifying \ {t}
    /\ IF waiter = "parked"
          THEN waiter' = "woken" /\ UNCHANGED permit
          ELSE permit' = TRUE /\ UNCHANGED waiter
    /\ UNCHANGED <<gateState, expired>>

-----------------------------------------------------------------------------
(* The waiter.                                                             *)

StartWait ==
    /\ waiter = "closing"
    /\ DrainWaiter \notin notifying
    /\ waiter' = "checking"
    /\ UNCHANGED <<gateState, notifying, permit, expired>>

Expire ==
    /\ waiter \in {"checking", "polling", "parked", "woken"}
    /\ expired' = TRUE
    /\ UNCHANGED <<gateState, notifying, permit, waiter>>

\* One pass of the loop up to the await: the count is read under the lock.
CheckGate ==
    /\ waiter = "checking"
    /\ waiter' = IF admitted = 0 THEN "drained"
                 ELSE IF expired THEN "undrained"
                 ELSE "polling"
    /\ UNCHANGED <<gateState, notifying, permit, expired>>

\* First poll of the Notified future: take the permit or park.
PollNotified ==
    /\ waiter = "polling"
    /\ permit' = FALSE
    /\ waiter' = IF permit THEN "checking" ELSE "parked"
    /\ UNCHANGED <<gateState, notifying, expired>>

Resume ==
    /\ waiter = "woken"
    /\ waiter' = "checking"
    /\ UNCHANGED <<gateState, notifying, permit, expired>>

\* The timeout elapses with no wakeup delivered: the count decides.
TimeOut ==
    /\ waiter = "parked"
    /\ expired
    /\ waiter' = IF admitted = 0 THEN "drained" ELSE "undrained"
    /\ UNCHANGED <<gateState, notifying, permit, expired>>

WaiterStep == StartWait \/ CheckGate \/ PollNotified \/ Resume \/ TimeOut

Next ==
    \/ \E c \in Contexts : Admit(c) \/ Release(c)
    \/ \E t \in Closers : Close(t)
    \/ CloseAndDrain
    \/ \E t \in Contexts \cup Closers : NotifyOne(t)
    \/ StartWait \/ Expire \/ CheckGate \/ PollNotified \/ Resume \/ TimeOut

Spec == Init /\ [][Next]_vars

\* Runnable threads run.  Neither the deadline nor a release is assumed.
Fairness ==
    /\ WF_vars(WaiterStep)
    /\ \A t \in Contexts \cup Closers : WF_vars(NotifyOne(t))

FairSpec == Spec /\ Fairness

-----------------------------------------------------------------------------
(* Properties.                                                             *)

\* The counter is the number of admissions not yet dropped, so the
\* "released without an admitted request" panic cannot happen.
CountsOutstanding == admitted = Cardinality(held)

\* No lost wakeup (lifecycle.rs wait_for_drain_until): whenever the waiter has
\* committed to sleep on a count that is already zero, a notification is
\* stored or on its way.
NoLostWakeup ==
    /\ (waiter = "polling" /\ admitted = 0) => (permit \/ notifying # {})
    /\ (waiter = "parked" /\ admitted = 0) => notifying # {}

\* A drain reported to the cleanup stays true: no request is admitted then or
\* later, so no request can come between the cleanup and a service.
DrainIsFinal == waiter = "drained" => (held = {} /\ ~accepting)

\* The gate implements what the cleanup relies on.
Outcome ==
    IF waiter \in {"idle", "closing"} THEN "none"
    ELSE IF waiter \in {"drained", "undrained"} THEN waiter
    ELSE "waiting"

Barrier == INSTANCE DrainBarrier WITH outcome <- Outcome

\* Every step of the mutex, counter and Notify is a step of the barrier or
\* invisible to it.
ImplementsBarrier == Barrier!Spec

\* And the cleanup is told: a wakeup that a closing or releasing thread sends
\* while the waiter is between its check and its sleep is not missed.
ImplementsFairBarrier == Barrier!FairSpec
=============================================================================
