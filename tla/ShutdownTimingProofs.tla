------------------------ MODULE ShutdownTimingProofs ------------------------
(***************************************************************************)
(* Proofs about ShutdownTiming, for any services and any durations whose   *)
(* sum is below the ceiling.                                               *)
(***************************************************************************)
EXTENDS ShutdownTiming, TLAPS

\* The latest moment after the signal at which each wait may still end.
Latest(wait) ==
    CASE wait = "polling" -> Drain + Poll
      [] wait = "checking" -> Drain + Poll + Check
      [] wait = "stopping" -> Drain + Poll + Check + Stop
      [] wait = "killingCheck" -> Drain + Poll + Check + Terminate
      [] OTHER -> Bound

\* The clock starts with the signal, which the monitor notices at once, and
\* the monitor is at work until the signal task hears of its completion.
ClockAgrees ==
    /\ signalTask = "serving" => elapsed = 0 /\ monitor = "scanning"
    /\ monitor = "scanning" => elapsed = 0
    /\ signalTask = "completed" => monitor = "finished"

\* Until the deadline, the time that has passed and the time left make up the
\* drain time.
DrainCounts ==
    /\ monitor = "draining" => elapsed + drainLeft = Drain
    /\ monitor = "joining" /\ drainLeft > 0 => elapsed + drainLeft = Drain

\* Every wait ends in time.
TasksFit == \A s \in Services : elapsed + left[s] <= Latest(task[s])

\* The cleanup's own tasks begin after the drain, and none outlives it.
TasksAreJoined ==
    \A s \in Services :
        /\ task[s] = "polling" => monitor = "joining"
        /\ task[s] # "none" => monitor # "finished"

IInv ==
    /\ TypeOK
    /\ elapsed <= Bound
    /\ CeilingNeverMet
    /\ ClockAgrees
    /\ DrainCounts
    /\ TasksFit
    /\ TasksAreJoined

LEMMA Durations ==
    /\ Drain \in Nat /\ Poll \in Nat /\ Check \in Nat /\ Stop \in Nat
    /\ Terminate \in Nat /\ Ceiling \in Nat
    /\ Drain > 0 /\ Poll > 0 /\ Check > 0 /\ Stop > 0 /\ Terminate > 0
    /\ Bound = Drain + Poll + Check + Stop + Terminate
    /\ Bound < Ceiling
  BY DurationAssumption DEF Bound

LEMMA LimitsFit ==
    /\ Limit("none") = 0 /\ Limit("polling") = Poll
    /\ Limit("checking") = Check /\ Limit("stopping") = Stop
    /\ Limit("killingCheck") = Terminate /\ Limit("killingStop") = Terminate
    /\ Latest("none") = Bound /\ Latest("polling") = Drain + Poll
    /\ Latest("checking") = Drain + Poll + Check
    /\ Latest("stopping") = Drain + Poll + Check + Stop
    /\ Latest("killingCheck") = Drain + Poll + Check + Terminate
    /\ Latest("killingStop") = Bound
  BY DEF Limit, Latest

LEMMA WaitIsLimited ==
  ASSUME NEW wait \in Waits
  PROVE  /\ Limit(wait) \in Nat
         /\ Latest(wait) \in Nat
         /\ Latest(wait) <= Bound
         /\ Limit(wait) <= Latest(wait)
         /\ wait # "none" => Limit(wait) > 0
  BY LimitsFit, Durations DEF Waits

LEMMA InitInvariant == Init => IInv
<1> SUFFICES ASSUME Init PROVE IInv
  OBVIOUS
<1>1. \A s \in Services : task[s] = "none" /\ left[s] = 0
  BY DEF Init
<1>2. \A s \in Services : Limit(task[s]) = 0 /\ Latest(task[s]) = Bound
  BY <1>1 DEF Limit, Latest
<1>3. TypeOK
  <2>1. ASSUME NEW s \in Services PROVE left[s] <= Limit(task[s])
    BY <1>1, <1>2
  <2>2. task \in [Services -> Waits] /\ left \in [Services -> Nat]
    BY DEF Init, Waits
  <2>3. busy \in [Services -> BOOLEAN] /\ admissions \in BOOLEAN
    BY DEF Init
  <2>4. elapsed \in 0 .. Ceiling /\ drainLeft \in 0 .. Drain
    BY Durations DEF Init
  <2> QED
    BY <2>1, <2>2, <2>3, <2>4 DEF Init, TypeOK
<1>4. TasksFit
  <2>1. ASSUME NEW s \in Services PROVE elapsed + left[s] <= Latest(task[s])
    <3>1. elapsed = 0 /\ left[s] = 0 /\ Latest(task[s]) = Bound
      BY <1>1, <1>2 DEF Init
    <3> QED
      BY <3>1, Durations
  <2> QED
    BY <2>1 DEF TasksFit
<1>5. Bound \in Nat
  BY Durations
<1> QED
  BY <1>1, <1>3, <1>4, <1>5
     DEF Init, IInv, CeilingNeverMet, ClockAgrees, DrainCounts, TasksAreJoined

\* A task that goes over to a wait which fits keeps the invariant.
LEMMA AwaitStep ==
  ASSUME IInv, NEW s \in Services, NEW wait \in Waits,
         elapsed + Limit(wait) <= Latest(wait),
         wait = "polling" => monitor = "joining",
         monitor # "finished",
         Await(s, wait),
         UNCHANGED <<elapsed, signalTask, monitor, drainLeft, admissions, busy>>
  PROVE  IInv'
<1>1. /\ task' \in [Services -> Waits] /\ left' \in [Services -> Nat]
      /\ task'[s] = wait /\ left'[s] = Limit(wait)
      /\ \A t \in Services \ {s} : task'[t] = task[t] /\ left'[t] = left[t]
  BY WaitIsLimited DEF Await, IInv, TypeOK
<1>2. \A t \in Services : left'[t] <= Limit(task'[t])
  BY <1>1, WaitIsLimited DEF IInv, TypeOK
<1>3. TypeOK'
  BY <1>1, <1>2 DEF IInv, TypeOK, Limit
<1>4. \A t \in Services : elapsed + left'[t] <= Latest(task'[t])
  BY <1>1 DEF IInv, TasksFit
<1>5. TasksFit'
  BY <1>4 DEF TasksFit, Latest
<1>6. TasksAreJoined'
  BY <1>1 DEF IInv, TasksAreJoined
<1> QED
  BY <1>3, <1>5, <1>6 DEF IInv, CeilingNeverMet, ClockAgrees, DrainCounts

LEMMA ScanStep ==
  ASSUME IInv, NEW s \in Services, ScanBegins(s)
  PROVE  IInv'
<1>1. elapsed = 0
  BY DEF ScanBegins, IInv, ClockAgrees
<1>2. FirstWait(s) \in Waits
  BY DEF FirstWait, Waits
<1>3. elapsed + Limit(FirstWait(s)) <= Latest(FirstWait(s))
  BY <1>1, <1>2, WaitIsLimited
<1> QED
  BY <1>2, <1>3, AwaitStep DEF ScanBegins, FirstWait

LEMMA CheckStep ==
  ASSUME IInv, NEW s \in Services, CheckEnds(s)
  PROVE  IInv'
<1> elapsed \in Nat /\ elapsed <= Bound /\ left[s] \in Nat
  BY DEF IInv, TypeOK
<1> monitor # "finished"
  BY DEF IInv, TasksAreJoined, CheckEnds
<1>1. elapsed + left[s] <= Latest(task[s])
  BY DEF IInv, TasksFit
<1>2. CASE Await(s, "none")
  BY <1>2, AwaitStep, LimitsFit, Durations DEF CheckEnds, Waits
<1>3. CASE task[s] = "checking" /\ Await(s, "stopping")
  <2>1. elapsed + Limit("stopping") <= Latest("stopping")
    BY <1>1, <1>3, LimitsFit, Durations
  <2> QED
    BY <1>3, <2>1, AwaitStep DEF CheckEnds, Waits
<1>4. CASE task[s] = "checking" /\ Await(s, "killingCheck")
  <2>1. elapsed + Limit("killingCheck") <= Latest("killingCheck")
    BY <1>1, <1>4, LimitsFit, Durations
  <2> QED
    BY <1>4, <2>1, AwaitStep DEF CheckEnds, Waits
<1> QED
  BY <1>2, <1>3, <1>4 DEF CheckEnds

LEMMA StopStep ==
  ASSUME IInv, NEW s \in Services, StopEnds(s)
  PROVE  IInv'
<1> elapsed \in Nat /\ elapsed <= Bound /\ left[s] \in Nat
  BY DEF IInv, TypeOK
<1> monitor # "finished"
  BY DEF IInv, TasksAreJoined, StopEnds
<1>1. elapsed + left[s] <= Latest(task[s])
  BY DEF IInv, TasksFit
<1>2. CASE Await(s, "none")
  BY <1>2, AwaitStep, LimitsFit, Durations DEF StopEnds, Waits
<1>3. CASE task[s] = "stopping" /\ Await(s, "killingStop")
  <2>1. elapsed + Limit("killingStop") <= Latest("killingStop")
    BY <1>1, <1>3, LimitsFit, Durations
  <2> QED
    BY <1>3, <2>1, AwaitStep DEF StopEnds, Waits
<1> QED
  BY <1>2, <1>3 DEF StopEnds

\* A poll is repeated only before the deadline, so it adds one interval.
LEMMA PollStep ==
  ASSUME IInv, NEW s \in Services, PollService(s)
  PROVE  IInv'
<1> elapsed \in Nat /\ elapsed <= Bound /\ left[s] = 0 /\ drainLeft \in Nat
  BY DEF IInv, TypeOK, PollService
<1> monitor = "joining"
  BY DEF IInv, TasksAreJoined, PollService
<1>1. elapsed <= Drain + Poll
  BY LimitsFit DEF IInv, TasksFit, PollService
<1>2. CASE Await(s, "none")
  BY <1>2, AwaitStep, LimitsFit, Durations DEF PollService, Waits
<1>3. CASE Await(s, FirstWait(s))
  <2>1. FirstWait(s) \in Waits
    BY DEF FirstWait, Waits
  <2>2. elapsed + Limit(FirstWait(s)) <= Latest(FirstWait(s))
    BY <1>1, LimitsFit, Durations DEF FirstWait
  <2> QED
    BY <1>3, <2>1, <2>2, AwaitStep DEF PollService, FirstWait
<1>4. CASE drainLeft > 0 /\ Await(s, "polling")
  <2>1. elapsed + drainLeft = Drain
    BY <1>4 DEF IInv, TypeOK, DrainCounts
  <2>2. elapsed + Limit("polling") <= Latest("polling")
    BY <1>4, <2>1, LimitsFit, Durations
  <2> QED
    BY <1>4, <2>2, AwaitStep DEF PollService, Waits
<1> QED
  BY <1>2, <1>3, <1>4 DEF PollService

\* Requests and signals touch no timer.
LEMMA EnvironmentStep ==
  ASSUME IInv,
         \/ Admit \/ DropAdmissions \/ RequestShutdown \/ HandOff
         \/ \E s \in Services : Occupy(s) \/ Quiesce(s)
  PROVE  IInv'
<1>1. UNCHANGED <<elapsed, monitor, drainLeft, task, left>>
  BY DEF Admit, DropAdmissions, RequestShutdown, HandOff, Occupy, Quiesce
<1>2. TypeOK'
  <2>1. \A s \in Services : left'[s] <= Limit(task'[s])
    BY <1>1 DEF IInv, TypeOK
  <2>2. signalTask' \in {"serving", "waiting", "completed", "gaveUp"}
    BY DEF IInv, TypeOK, Admit, DropAdmissions, RequestShutdown, HandOff,
       Occupy, Quiesce
  <2>3. admissions' \in BOOLEAN /\ busy' \in [Services -> BOOLEAN]
    BY DEF IInv, TypeOK, Admit, DropAdmissions, RequestShutdown, HandOff,
       Occupy, Quiesce
  <2>4. \A s \in Services : Limit(task[s])' = Limit(task'[s])
    BY DEF Limit
  <2> QED
    BY <1>1, <2>1, <2>2, <2>3, <2>4 DEF IInv, TypeOK
<1>3. TasksFit' /\ TasksAreJoined' /\ DrainCounts' /\ (elapsed <= Bound)'
  BY <1>1 DEF IInv, TasksFit, TasksAreJoined, DrainCounts, Latest, Bound
<1>4. CeilingNeverMet' /\ ClockAgrees'
  <2>1. elapsed \in Nat /\ elapsed # Ceiling
    BY Durations DEF IInv, TypeOK
  <2> QED
    BY <1>1, <2>1 DEF IInv, CeilingNeverMet, ClockAgrees, Admit,
       DropAdmissions, RequestShutdown, HandOff, Occupy, Quiesce
<1> QED
  BY <1>2, <1>3, <1>4 DEF IInv

\* The services become pollers with nothing to wait for at first.
LEMMA DrainStep ==
  ASSUME IInv, FinishDrain
  PROVE  IInv'
<1>1. elapsed + drainLeft = Drain /\ elapsed \in Nat /\ drainLeft \in Nat
  BY DEF FinishDrain, IInv, TypeOK, DrainCounts
<1>2. /\ task' \in [Services -> Waits]
      /\ \A s \in Services :
             task'[s] = task[s] \/ (task[s] = "none" /\ task'[s] = "polling")
  BY DEF FinishDrain, IInv, TypeOK, Waits
<1>3. ASSUME NEW s \in Services
      PROVE  left[s] <= Limit(task'[s]) /\ elapsed + left[s] <= Latest(task'[s])
  <2>1. CASE task'[s] = task[s]
    BY <2>1 DEF IInv, TypeOK, TasksFit
  <2>2. CASE task[s] = "none" /\ task'[s] = "polling"
    <3>1. Limit(task[s]) = 0 /\ Limit(task'[s]) = Poll
      BY <2>2 DEF Limit
    <3>2. Latest(task'[s]) = Drain + Poll
      BY <2>2 DEF Latest
    <3>3. left[s] \in Nat /\ left[s] <= Limit(task[s])
      BY DEF IInv, TypeOK
    <3> QED
      BY <1>1, <3>1, <3>2, <3>3, Durations
  <2> QED
    BY <1>2, <2>1, <2>2
<1>4. UNCHANGED <<elapsed, signalTask, drainLeft, admissions, busy, left>>
      /\ monitor' = "joining" /\ monitor = "draining"
  BY DEF FinishDrain
<1>5. TypeOK'
  BY <1>2, <1>3, <1>4 DEF IInv, TypeOK, Limit
<1>6. TasksFit'
  BY <1>3, <1>4 DEF TasksFit, Latest
<1>7. CeilingNeverMet' /\ ClockAgrees' /\ DrainCounts' /\ TasksAreJoined'
  BY <1>1, <1>4 DEF IInv, CeilingNeverMet, ClockAgrees, DrainCounts,
     TasksAreJoined
<1> QED
  BY <1>4, <1>5, <1>6, <1>7 DEF IInv, Bound

LEMMA MonitorStep ==
  ASSUME IInv, StartCleanup \/ FinishCleanup
  PROVE  IInv'
<1>1. UNCHANGED <<elapsed, signalTask, admissions, busy, task, left>>
  BY DEF StartCleanup, FinishCleanup
<1>2. Drain \in Nat /\ drainLeft' \in 0 .. Drain
  BY Durations DEF IInv, TypeOK, StartCleanup, FinishCleanup
<1>3. \A s \in Services : Limit(task[s])' = Limit(task[s])
  BY <1>1 DEF Limit
<1>4. TypeOK'
  BY <1>1, <1>2, <1>3 DEF IInv, TypeOK, StartCleanup, FinishCleanup
<1>5. TasksFit' /\ (elapsed <= Bound)' /\ CeilingNeverMet'
  BY <1>1 DEF IInv, TasksFit, Latest, Bound, CeilingNeverMet
<1>6. ClockAgrees' /\ DrainCounts'
  BY <1>1, <1>2 DEF IInv, ClockAgrees, DrainCounts, StartCleanup, FinishCleanup
<1>7. TasksAreJoined'
  BY <1>1 DEF IInv, TasksAreJoined, StartCleanup, FinishCleanup
<1> QED
  BY <1>4, <1>5, <1>6, <1>7 DEF IInv

\* Time passes only while some timer that is waited for still runs, so the
\* bound is kept with what that timer has left.
LEMMA TickStep ==
  ASSUME IInv, Tick
  PROVE  IInv'
<1>1. UNCHANGED <<signalTask, monitor, admissions, busy, task>>
  BY DEF Tick
<1>2. elapsed \in Nat /\ drainLeft \in 0 .. Drain /\ Drain \in Nat
  BY Durations DEF IInv, TypeOK
<1>3. elapsed' = IF signalTask = "waiting" THEN elapsed + 1 ELSE elapsed
  BY DEF Tick
<1>4. drainLeft' = IF drainLeft > 0 THEN drainLeft - 1 ELSE 0
  BY DEF Tick, CountDown
<1>5. ASSUME NEW s \in Services
      PROVE  /\ left'[s] \in Nat
             /\ left'[s] <= Limit(task[s])
             /\ elapsed + 1 <= Bound => elapsed' + left'[s] <= Latest(task[s])
             /\ task[s] # "none" => elapsed + 1 <= Latest(task[s])
  <2>1. left'[s] = IF left[s] > 0 THEN left[s] - 1 ELSE 0
    BY DEF Tick, CountDown
  <2>2. /\ left[s] \in Nat /\ left[s] <= Limit(task[s]) /\ task[s] \in Waits
        /\ elapsed + left[s] <= Latest(task[s])
    BY DEF IInv, TypeOK, TasksFit
  <2>3. Limit(task[s]) \in Nat /\ Latest(task[s]) \in Nat
    BY <2>2, WaitIsLimited
  <2>4. task[s] # "none" => left[s] > 0
    BY <2>2 DEF Tick, Runnable
  <2>5. task[s] = "none" => Latest(task[s]) = Bound /\ Limit(task[s]) = 0
    BY DEF Latest, Limit
  <2>6. CASE task[s] = "none"
    BY <2>1, <2>2, <2>3, <2>5, <2>6, <1>2, <1>3
  <2>7. CASE task[s] # "none"
    BY <2>1, <2>2, <2>3, <2>4, <2>7, <1>2, <1>3
  <2> QED
    BY <2>6, <2>7
<1>6. signalTask = "waiting" => elapsed + 1 <= Bound
  <2> SUFFICES ASSUME signalTask = "waiting" PROVE elapsed + 1 <= Bound
    OBVIOUS
  <2>1. monitor \in {"draining", "joining"}
    BY DEF Tick, Runnable, IInv, TypeOK
  <2>2. CASE monitor = "draining"
    <3>1. drainLeft > 0 /\ elapsed + drainLeft = Drain
      BY <2>2, <1>2 DEF Tick, Runnable, IInv, DrainCounts
    <3> QED
      BY <3>1, <1>2, Durations
  <2>3. CASE monitor = "joining"
    <3>1. PICK s \in Services : task[s] # "none"
      BY <2>3 DEF Tick, Runnable
    <3>2. elapsed + 1 <= Latest(task[s]) /\ task[s] \in Waits
      BY <3>1, <1>5 DEF IInv, TypeOK
    <3>3. Latest(task[s]) \in Nat /\ Latest(task[s]) <= Bound
      BY <3>2, WaitIsLimited
    <3> QED
      BY <3>2, <3>3, <1>2, Durations
  <2> QED
    BY <2>1, <2>2, <2>3
<1>7. elapsed' <= Bound /\ elapsed' \in 0 .. Ceiling
  BY <1>2, <1>3, <1>6, Durations DEF IInv
<1>8. TypeOK'
  <2>1. left' \in [Services -> Nat]
    BY <1>5 DEF Tick
  <2>2. drainLeft' \in 0 .. Drain
    BY <1>2, <1>4
  <2>3. \A s \in Services : left'[s] <= Limit(task'[s])
    BY <1>1, <1>5
  <2> QED
    BY <1>1, <1>7, <2>1, <2>2, <2>3 DEF IInv, TypeOK, Limit
<1>9. TasksFit'
  <2>1. ASSUME NEW s \in Services PROVE elapsed' + left'[s] <= Latest(task'[s])
    <3>1. CASE signalTask = "waiting"
      BY <3>1, <1>1, <1>5, <1>6
    <3>2. CASE signalTask # "waiting"
      <4>1. elapsed' = elapsed
        BY <3>2, <1>3
      <4>2. left'[s] \in Nat /\ left[s] \in Nat /\ left'[s] <= left[s]
        BY <1>5 DEF Tick, CountDown, IInv, TypeOK
      <4>3. Latest(task[s]) \in Nat /\ elapsed + left[s] <= Latest(task[s])
        BY WaitIsLimited DEF IInv, TypeOK, TasksFit
      <4> QED
        BY <4>1, <4>2, <4>3, <1>1, <1>2
    <3> QED
      BY <3>1, <3>2
  <2> QED
    BY <2>1 DEF TasksFit, Latest
<1>10. CeilingNeverMet' /\ TasksAreJoined'
  BY <1>1 DEF IInv, CeilingNeverMet, TasksAreJoined
<1>11. ClockAgrees'
  BY <1>1, <1>3 DEF IInv, ClockAgrees, Tick, Runnable
<1>12. DrainCounts'
  <2>1. monitor \in {"draining", "joining"} => signalTask = "waiting"
    BY DEF IInv, TypeOK, ClockAgrees, CeilingNeverMet
  <2> QED
    BY <2>1, <1>1, <1>2, <1>3, <1>4 DEF IInv, DrainCounts, Tick, Runnable
<1> QED
  BY <1>7, <1>8, <1>9, <1>10, <1>11, <1>12 DEF IInv, Bound

LEMMA StepInvariant == IInv /\ [Next]_vars => IInv'
<1> SUFFICES ASSUME IInv, [Next]_vars
             PROVE  IInv'
  OBVIOUS
<1>1. CASE UNCHANGED vars
  BY <1>1 DEF vars, IInv, TypeOK, CeilingNeverMet, ClockAgrees, DrainCounts,
     TasksFit, TasksAreJoined, Limit, Latest, Bound
<1>2. ASSUME NEW s \in Services,
             ScanBegins(s) \/ CheckEnds(s) \/ StopEnds(s) \/ PollService(s)
      PROVE  IInv'
  BY <1>2, ScanStep, CheckStep, StopStep, PollStep
<1> QED
  BY <1>1, <1>2, EnvironmentStep, DrainStep, MonitorStep, TickStep DEF Next

LEMMA Invariance == Spec => []IInv
  BY InitInvariant, StepInvariant, PTL DEF Spec

\* Types, for every set of services and all durations.
THEOREM TypeCorrect == Spec => []TypeOK
<1>1. IInv => TypeOK
  BY DEF IInv
<1> QED
  BY <1>1, Invariance, PTL

\* However many services there are, they share the bound of one: the cleanup
\* (lifecycle.rs cleanup_at_shutdown) takes at most a drain, a poll, a
\* checker, launchctl and the reaping of launchctl.
THEOREM CleanupIsBounded == Spec => []CleanupWithinBound
<1>1. IInv => CleanupWithinBound
  BY DEF IInv, CleanupWithinBound
<1> QED
  BY <1>1, Invariance, PTL

\* main.rs coordinate_cleanup hands over a cleanup that is finished.
THEOREM CeilingIsNeverMet == Spec => []CeilingNeverMet
<1>1. IInv => CeilingNeverMet
  BY DEF IInv
<1> QED
  BY <1>1, Invariance, PTL
=============================================================================
