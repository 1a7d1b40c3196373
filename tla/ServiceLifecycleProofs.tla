----------------------- MODULE ServiceLifecycleProofs -----------------------
(***************************************************************************)
(* Proofs about ServiceLifecycle for every set of services, every timing   *)
(* and every bound on the activity.                                        *)
(***************************************************************************)
EXTENDS ServiceLifecycle, TLAPS

-----------------------------------------------------------------------------
(* The inductive invariant.                                                *)

\* stop_attempted_generation is forgotten with every new generation, so what
\* it remembers is the present one, and it remembers every stop sent in it.
StopIsRemembered ==
    \A s \in Services :
        /\ stopAttempted[s] \in {{}, {generation[s]}}
        /\ stopsSent[s] = IF stopAttempted[s] = {} THEN 0 ELSE 1

\* Comparing generations tells exactly whether activity came meanwhile.
GenerationTells ==
    \A a \in attempts :
        LET s == a.service IN
        /\ a.generation <= generation[s]
        /\ disturbed[s] <=> a.generation # generation[s]

\* An undisturbed attempt that has not sent its stop is alone with its
\* generation: nobody else has sent one either.
UndecidedIsFirst ==
    \A a \in attempts :
        a.phase # "stopping" /\ ~disturbed[a.service]
            => stopAttempted[a.service] = {}

IInv ==
    /\ TypeOK
    /\ OneAttemptPerService
    /\ StopIsRemembered
    /\ GenerationTells
    /\ UndecidedIsFirst
    /\ StopOnlyWhenQuiet

-----------------------------------------------------------------------------
(* Lemmas about the helpers the actions are built from.                    *)

\* Changing the phase of an attempt changes nothing else of it.
LEMMA PhaseChange ==
    ASSUME NEW a \in StopAttempts, NEW p \in Phases
    PROVE  LET b == [a EXCEPT !.phase = p] IN
           /\ b \in StopAttempts
           /\ b.service = a.service /\ b.generation = a.generation
           /\ b.requiresIdle = a.requiresIdle /\ b.phase = p
BY DEF StopAttempts

\* Counting down keeps a timer in its range.
LEMMA CountDownType ==
    ASSUME NEW max \in Nat, NEW timer \in [Services -> 0 .. max]
    PROVE  /\ CountDown(timer) \in [Services -> 0 .. max]
           /\ \A s \in Services : timer[s] = 0 => CountDown(timer)[s] = 0
BY DEF CountDown

\* The initial state satisfies the inductive invariant.
LEMMA InitInvariant == Init => IInv
BY TimingAssumption DEF Init, IInv, TypeOK, OneAttemptPerService,
   StopIsRemembered, GenerationTells, UndecidedIsFirst, StopOnlyWhenQuiet

\* An arrival, a lease or a release: attempts stay where they are, none of
\* the service's holds its mutex, and each is told apart from the new
\* generation.
LEMMA ActivityStep ==
    ASSUME IInv, NEW s \in Services, Unlocked(s),
           NewGeneration(s), RecordActivity(s),
           inFlight' \in [Services -> Nat],
           idleIn' \in [Services -> 0 .. IdleTimeout],
           \A t \in Services \ {s} :
               inFlight'[t] = inFlight[t] /\ idleIn'[t] = idleIn[t]
    PROVE  IInv'
<1> USE DEF IInv, TypeOK, NewGeneration, RecordActivity
<1>1. TypeOK'
  <2>1. generation' \in [Services -> Nat] /\ stopsSent' \in [Services -> Nat]
    OBVIOUS
  <2>2. stopAttempted' \in [Services -> SUBSET Nat]
    OBVIOUS
  <2>3. retryIn' \in [Services -> 0 .. CheckRetry]
    BY TimingAssumption
  <2>4. disturbed' \in [Services -> BOOLEAN]
    OBVIOUS
  <2> QED
    BY <2>1, <2>2, <2>3, <2>4
<1>2. OneAttemptPerService'
  BY DEF OneAttemptPerService
<1>3. StopIsRemembered'
  BY DEF StopIsRemembered
<1>4. GenerationTells'
  BY DEF GenerationTells, StopAttempts
<1>5. UndecidedIsFirst'
  BY DEF UndecidedIsFirst, StopAttempts
<1>6. StopOnlyWhenQuiet'
  BY DEF StopOnlyWhenQuiet, Unlocked, StopAttempts
<1> QED
  BY <1>1, <1>2, <1>3, <1>4, <1>5, <1>6

\* A new attempt begins on a service that had none and was not signalled.
LEMMA BeginStep ==
    ASSUME IInv, NEW s \in Services, NEW idle \in BOOLEAN,
           ~Occupied(s), ~AlreadySignalled(s), BeginAttempt(s, idle)
    PROVE  IInv'
<1> USE DEF IInv, TypeOK, BeginAttempt, activityVars
<1> DEFINE new == [service |-> s, generation |-> generation[s],
                   requiresIdle |-> idle,
                   phase |-> IF s \in Checked THEN "checking" ELSE "allowed"]
<1>1. /\ new \in StopAttempts
      /\ new.phase \notin {"locked", "stopping"}
      /\ new.service = s /\ new.generation = generation[s]
      /\ attempts' = attempts \cup {new}
  BY DEF StopAttempts, Phases
<1> HIDE DEF new
<1>2. \A a \in attempts : a.service # s
  BY DEF Occupied, OneAttemptPerService
<1>3. stopAttempted[s] = {}
  BY DEF AlreadySignalled, StopIsRemembered
<1>4. TypeOK'
  BY <1>1
<1>5. OneAttemptPerService'
  BY <1>1, <1>2 DEF OneAttemptPerService
<1>6. StopIsRemembered'
  BY DEF StopIsRemembered
<1>7. GenerationTells'
  BY <1>1, <1>2 DEF GenerationTells, StopAttempts
<1>8. UndecidedIsFirst'
  BY <1>1, <1>2, <1>3 DEF UndecidedIsFirst, StopAttempts
<1>9. StopOnlyWhenQuiet'
  BY <1>1, <1>2 DEF StopOnlyWhenQuiet, StopAttempts
<1> QED
  BY <1>4, <1>5, <1>6, <1>7, <1>8, <1>9

\* An attempt moves on without sending a stop; if it takes the mutex, it has
\* found the service quiet.
LEMMA MoveStep ==
    ASSUME IInv, NEW a \in attempts, NEW p \in {"allowed", "locked"},
           a.phase # "stopping", MoveTo(a, p),
           p = "locked" => ~Obsolete(a),
           UNCHANGED <<activityVars, checkVars, historyVars>>,
           launchInProgress' \in [Services -> BOOLEAN]
    PROVE  IInv'
<1> USE DEF IInv, TypeOK, activityVars, checkVars, historyVars
<1> DEFINE b == [a EXCEPT !.phase = p]
<1>0. a \in StopAttempts /\ p \in Phases
  BY DEF Phases
<1>1. /\ b \in StopAttempts /\ b.service = a.service /\ b.phase = p
      /\ b.generation = a.generation /\ b.requiresIdle = a.requiresIdle
      /\ attempts' = (attempts \ {a}) \cup {b}
      /\ a \in StopAttempts
  BY <1>0, PhaseChange DEF MoveTo
<1> HIDE DEF b
<1>2. TypeOK'
  BY <1>1
<1>3. OneAttemptPerService'
  BY <1>1 DEF OneAttemptPerService
<1>4. StopIsRemembered'
  BY DEF StopIsRemembered
<1>5. GenerationTells'
  BY <1>1 DEF GenerationTells
<1>6. UndecidedIsFirst'
  BY <1>1 DEF UndecidedIsFirst
<1>7. StopOnlyWhenQuiet'
  BY <1>1 DEF StopOnlyWhenQuiet, Obsolete, GenerationTells, StopAttempts
<1> QED
  BY <1>2, <1>3, <1>4, <1>5, <1>6, <1>7

\* An attempt ends, on any path that sends no stop, and frees its service.
LEMMA EndStep ==
    ASSUME IInv, NEW a \in attempts, EndAttempt(a),
           retryIn' \in [Services -> 0 .. CheckRetry],
           UNCHANGED <<activityVars, stopAttempted, launchInProgress,
                       historyVars>>
    PROVE  IInv'
<1> USE DEF IInv, TypeOK, EndAttempt, activityVars, historyVars
<1>1. TypeOK'
  BY DEF StopAttempts
<1>2. OneAttemptPerService'
  BY DEF OneAttemptPerService, StopAttempts
<1>3. StopIsRemembered' /\ GenerationTells' /\ UndecidedIsFirst'
  BY DEF StopIsRemembered, GenerationTells, UndecidedIsFirst
<1>4. StopOnlyWhenQuiet'
  BY DEF StopOnlyWhenQuiet
<1> QED
  BY <1>1, <1>2, <1>3, <1>4

\* The stop is sent: the attempt that holds the mutex is alone, undisturbed
\* and the first of its generation.
LEMMA StopStep ==
    ASSUME IInv, NEW a \in attempts, StartStop(a)
    PROVE  /\ IInv'
           /\ stopsSent[a.service] = 0
           /\ inFlight[a.service] = 0
           /\ ~disturbed[a.service]
<1> USE DEF IInv, TypeOK, StartStop, activityVars
<1> DEFINE s == a.service
           b == [a EXCEPT !.phase = "stopping"]
<1>1. /\ b \in StopAttempts /\ b.service = a.service
      /\ b.phase = "stopping" /\ b.generation = a.generation
      /\ attempts' = (attempts \ {a}) \cup {b}
      /\ a \in StopAttempts
      /\ s \in Services
  BY PhaseChange DEF MoveTo, Phases, StopAttempts
<1> HIDE DEF b
<1>2. inFlight[s] = 0 /\ ~disturbed[s] /\ stopAttempted[s] = {}
  BY DEF StopOnlyWhenQuiet, UndecidedIsFirst
<1>3. stopsSent[s] = 0
  BY <1>1, <1>2 DEF StopIsRemembered
<1>4. \A c \in attempts : c.service = s => c = a
  BY DEF OneAttemptPerService
<1>5. TypeOK'
  BY <1>1
<1>6. OneAttemptPerService'
  BY <1>1 DEF OneAttemptPerService
<1>7. StopIsRemembered'
  BY <1>1, <1>3 DEF StopIsRemembered
<1>8. GenerationTells'
  BY <1>1 DEF GenerationTells
<1>9. UndecidedIsFirst'
  BY <1>1, <1>4 DEF UndecidedIsFirst, StopAttempts
<1>10. StopOnlyWhenQuiet'
  BY <1>1 DEF StopOnlyWhenQuiet
<1> QED
  BY <1>2, <1>3, <1>5, <1>6, <1>7, <1>8, <1>9, <1>10

-----------------------------------------------------------------------------
(* Every step preserves the invariant.                                     *)

\* Steps of the requests and of the two starters of attempts.
LEMMA ServiceStepInvariant ==
    ASSUME IInv, NEW s \in Services
    PROVE  /\ NoteRequestArrival(s) => IInv'
           /\ Acquire(s) => IInv'
           /\ Release(s) => IInv'
           /\ BeginStopAttempt(s) => IInv'
           /\ BeginShutdownAttempt(s) => IInv'
           /\ ChangeLaunch(s) => IInv'
<1>1. TypeOK
  BY DEF IInv
<1>2. ASSUME NoteRequestArrival(s) PROVE IInv'
  BY <1>1, <1>2, ActivityStep, TimingAssumption
     DEF NoteRequestArrival, TypeOK
<1>3. ASSUME Acquire(s) PROVE IInv'
  BY <1>1, <1>3, ActivityStep DEF Acquire, TypeOK
<1>4. ASSUME Release(s) PROVE IInv'
  BY <1>1, <1>4, ActivityStep, TimingAssumption DEF Release, TypeOK
<1>5. ASSUME BeginStopAttempt(s) PROVE IInv'
  BY <1>5, BeginStep DEF BeginStopAttempt
<1>6. ASSUME BeginShutdownAttempt(s) PROVE IInv'
  BY <1>6, BeginStep DEF BeginShutdownAttempt
<1>7. ASSUME ChangeLaunch(s) PROVE IInv'
  BY <1>7 DEF ChangeLaunch, IInv, TypeOK, OneAttemptPerService,
     StopIsRemembered, GenerationTells, UndecidedIsFirst, StopOnlyWhenQuiet,
     activityVars, checkVars, historyVars
<1> QED
  BY <1>2, <1>3, <1>4, <1>5, <1>6, <1>7

\* Steps of the stop tasks.
LEMMA AttemptStepInvariant ==
    ASSUME IInv, NEW a \in attempts, AttemptStep(a)
    PROVE  IInv'
<1>1. TypeOK /\ a.service \in Services
  BY DEF IInv, TypeOK, StopAttempts
<1>2. CASE CheckAllows(a)
  BY <1>1, <1>2, MoveStep DEF CheckAllows, TypeOK
<1>3. CASE CheckRefuses(a)
  BY <1>1, <1>3, EndStep, TimingAssumption DEF CheckRefuses, TypeOK
<1>4. CASE Discard(a)
  BY <1>1, <1>4, EndStep DEF Discard, TypeOK
<1>5. CASE Decide(a)
  BY <1>1, <1>5, MoveStep DEF Decide, TypeOK
<1>6. CASE StartStop(a)
  BY <1>6, StopStep
<1>7. CASE StopNotStarted(a)
  BY <1>1, <1>7, EndStep, TimingAssumption DEF StopNotStarted, TypeOK
<1>8. CASE FinishStop(a)
  BY <1>1, <1>8, EndStep DEF FinishStop, TypeOK
<1> QED
  BY <1>2, <1>3, <1>4, <1>5, <1>6, <1>7, <1>8 DEF AttemptStep

\* Time only shortens what is left of the timers.
LEMMA TickInvariant == ASSUME IInv, Tick PROVE IInv'
<1>1. TypeOK'
  BY CountDownType, TimingAssumption DEF IInv, TypeOK, Tick, historyVars
<1>2. StopOnlyWhenQuiet'
  BY CountDownType, TimingAssumption
     DEF IInv, TypeOK, Tick, historyVars, StopOnlyWhenQuiet, StopAttempts
<1> QED
  BY <1>1, <1>2 DEF IInv, Tick, historyVars, OneAttemptPerService,
     StopIsRemembered, GenerationTells, UndecidedIsFirst

\* The inductive invariant is preserved by every step.
LEMMA StepInvariant == IInv /\ [Next]_vars => IInv'
<1> SUFFICES ASSUME IInv, [Next]_vars PROVE IInv'
  OBVIOUS
<1>1. CASE UNCHANGED vars
  BY <1>1 DEF vars, activityVars, checkVars, historyVars, IInv, TypeOK,
     OneAttemptPerService, StopIsRemembered, GenerationTells,
     UndecidedIsFirst, StopOnlyWhenQuiet
<1> QED
  BY <1>1, ServiceStepInvariant, AttemptStepInvariant, TickInvariant DEF Next

\* The inductive invariant holds throughout.
LEMMA Invariance == Spec => []IInv
BY InitInvariant, StepInvariant, PTL DEF Spec

-----------------------------------------------------------------------------
(* What a stop leaves behind, for the modules that compose lifecycles.     *)

\* A service has had no request since its last stop, and a stop still under
\* way is the last one unless the generation tells otherwise.
StopsSettle ==
    /\ \A s \in Services : stopsSent[s] = 1 => inFlight[s] = 0
    /\ \A a \in attempts :
           a.phase = "stopping" /\ generation[a.service] = a.generation
               => stopsSent[a.service] = 1

LEMMA InitSettled == Init => StopsSettle
BY DEF Init, StopsSettle

\* Activity makes the service's last stop one of the past.
LEMMA ActivitySettles ==
    ASSUME IInv, StopsSettle, NEW s \in Services,
           NewGeneration(s), RecordActivity(s),
           \A t \in Services \ {s} : inFlight'[t] = inFlight[t]
    PROVE  StopsSettle'
BY DEF IInv, TypeOK, StopsSettle, NewGeneration, RecordActivity,
   GenerationTells, StopAttempts

\* A step of an attempt that sends nothing.
LEMMA QuietAttemptSettles ==
    ASSUME IInv, StopsSettle, NEW a \in attempts,
           UNCHANGED <<inFlight, generation, stopsSent>>,
           attempts' \subseteq attempts
               \/ \E p \in {"allowed", "locked"} : MoveTo(a, p)
    PROVE  StopsSettle'
<1>1. \A p \in {"allowed", "locked"} : [a EXCEPT !.phase = p].phase = p
  BY PhaseChange DEF IInv, TypeOK, Phases
<1> QED BY <1>1 DEF StopsSettle, MoveTo

LEMMA SettleStep == ASSUME IInv, StopsSettle, [Next]_vars PROVE StopsSettle'
<1>1. ASSUME NEW s \in Services,
             NoteRequestArrival(s) \/ Acquire(s) \/ Release(s)
      PROVE  StopsSettle'
  BY <1>1, ActivitySettles DEF NoteRequestArrival, Acquire, Release, IInv, TypeOK
<1>2. ASSUME NEW s \in Services,
             BeginStopAttempt(s) \/ BeginShutdownAttempt(s)
      PROVE  StopsSettle'
  BY <1>2 DEF BeginStopAttempt, BeginShutdownAttempt, BeginAttempt,
     activityVars, StopsSettle
<1>3. CASE \/ \E s \in Services : ChangeLaunch(s)
           \/ Tick \/ UNCHANGED vars
  BY <1>3 DEF ChangeLaunch, Tick, vars, activityVars, historyVars, StopsSettle
<1>4. ASSUME NEW a \in attempts, AttemptStep(a), ~StartStop(a)
      PROVE  StopsSettle'
  BY <1>4, QuietAttemptSettles DEF AttemptStep, CheckAllows, CheckRefuses,
     Discard, Decide, StopNotStarted, FinishStop, EndAttempt, activityVars,
     historyVars
<1>5. ASSUME NEW a \in attempts, StartStop(a) PROVE StopsSettle'
  <2>1. [a EXCEPT !.phase = "stopping"].service = a.service
    BY PhaseChange DEF IInv, TypeOK, Phases
  <2>2. /\ a.service \in Services /\ stopsSent \in [Services -> Nat]
        /\ stopsSent[a.service] = 0 /\ inFlight[a.service] = 0
    BY <1>5, StopStep DEF IInv, TypeOK, StopAttempts
  <2>3. /\ stopsSent' = [stopsSent EXCEPT ![a.service] = 1]
        /\ attempts' = (attempts \ {a}) \cup {[a EXCEPT !.phase = "stopping"]}
        /\ UNCHANGED <<inFlight, generation>>
    BY <1>5, <2>2 DEF StartStop, MoveTo, activityVars
  <2>4. \A c \in attempts : c.service \in Services
    BY DEF IInv, TypeOK, StopAttempts
  <2> QED BY <2>1, <2>2, <2>3, <2>4 DEF StopsSettle
<1> QED BY <1>1, <1>2, <1>3, <1>4, <1>5 DEF Next

-----------------------------------------------------------------------------
(* Theorems.                                                               *)

\* Type correctness of the lifecycle.
THEOREM TypeCorrect == Spec => []TypeOK
<1>1. IInv => TypeOK
  BY DEF IInv
<1> QED
  BY <1>1, Invariance, PTL

\* At most one stop task per service, with its flag raised as long as it runs.
THEOREM AttemptsAreExclusive == Spec => []OneAttemptPerService
<1>1. IInv => OneAttemptPerService
  BY DEF IInv
<1> QED
  BY <1>1, Invariance, PTL

\* A stop is only ever sent to a service that has been quiet throughout.
THEOREM StopsAreQuiet == Spec => []StopOnlyWhenQuiet
<1>1. IInv => StopOnlyWhenQuiet
  BY DEF IInv
<1> QED
  BY <1>1, Invariance, PTL

\* No idle period sees two stops.
THEOREM OneStopPerIdlePeriod == Spec => []AtMostOneStop
<1>1. IInv => AtMostOneStop
  <2> SUFFICES ASSUME IInv, NEW s \in Services PROVE stopsSent[s] <= 1
    BY DEF AtMostOneStop
  <2>1. stopsSent[s] = IF stopAttempted[s] = {} THEN 0 ELSE 1
    BY DEF IInv, StopIsRemembered
  <2> QED
    BY <2>1
<1> QED
  BY <1>1, Invariance, PTL

-----------------------------------------------------------------------------
(* The lifecycle implements the stop policy.                               *)

Considered == {s \in Services : Undecided(s) /\ ~disturbed[s]}

\* An activity ends the consideration of its service and of no other.
LEMMA ActivityConsiders ==
    ASSUME IInv, NEW s \in Services, NewGeneration(s), RecordActivity(s)
    PROVE  Considered' = Considered \ {s}
BY DEF IInv, TypeOK, Considered, Undecided, NewGeneration, RecordActivity

\* Beginning an attempt considers its service, whatever happened before.
LEMMA BeginConsiders ==
    ASSUME IInv, NEW s \in Services, NEW idle \in BOOLEAN,
           ~Occupied(s), BeginAttempt(s, idle)
    PROVE  Considered' = Considered \cup {s} /\ inFlight[s] = 0
<1> DEFINE new == [service |-> s, generation |-> generation[s],
                   requiresIdle |-> idle,
                   phase |-> IF s \in Checked THEN "checking" ELSE "allowed"]
<1>1. new.phase # "stopping" /\ new.service = s
      /\ attempts' = attempts \cup {new}
  BY DEF BeginAttempt
<1> HIDE DEF new
<1>2. \A t \in Services : Undecided(t)' <=> Undecided(t) \/ t = s
  BY <1>1 DEF Undecided
<1>3. /\ disturbed \in [Services -> BOOLEAN]
      /\ disturbed' = [disturbed EXCEPT ![s] = FALSE]
  BY DEF IInv, TypeOK, BeginAttempt
<1>4. Considered' = Considered \cup {s}
  BY <1>2, <1>3 DEF Considered
<1> QED
  BY <1>4 DEF Occupied

\* An attempt that moves on short of its stop is considered as before.
LEMMA MoveConsiders ==
    ASSUME IInv, NEW a \in attempts, NEW p \in {"allowed", "locked"},
           a.phase # "stopping", MoveTo(a, p), UNCHANGED historyVars
    PROVE  Considered' = Considered
<1> DEFINE b == [a EXCEPT !.phase = p]
<1>1. a \in StopAttempts /\ p \in Phases
  BY DEF IInv, TypeOK, Phases
<1>2. /\ b.service = a.service /\ b.phase # "stopping"
      /\ attempts' = (attempts \ {a}) \cup {b}
  BY <1>1, PhaseChange DEF MoveTo
<1> HIDE DEF b
<1>3. \A t \in Services : Undecided(t)' <=> Undecided(t)
  BY <1>2 DEF Undecided
<1> QED
  BY <1>3 DEF Considered, historyVars

\* An attempt that ends, or has sent its stop, is considered no longer.
LEMMA LeaveConsiders ==
    ASSUME IInv, NEW a \in attempts, UNCHANGED disturbed,
           EndAttempt(a) \/ MoveTo(a, "stopping")
    PROVE  Considered' = Considered \ {a.service}
<1> DEFINE b == [a EXCEPT !.phase = "stopping"]
<1>1. a \in StopAttempts /\ "stopping" \in Phases
  BY DEF IInv, TypeOK, Phases
<1>2. b.phase = "stopping"
  BY <1>1, PhaseChange
<1>3. attempts' = attempts \ {a} \/ attempts' = (attempts \ {a}) \cup {b}
  BY DEF EndAttempt, MoveTo
<1> HIDE DEF b
<1>4. \A c \in attempts : c.service = a.service => c = a
  BY DEF IInv, OneAttemptPerService
<1>5. \A t \in Services : Undecided(t)' <=> Undecided(t) /\ t # a.service
  BY <1>2, <1>3, <1>4 DEF Undecided
<1> QED
  BY <1>5 DEF Considered

\* Every step of the lifecycle is a step of the policy or invisible to it.
THEOREM LifecycleImplementsPolicy == Spec => ImplementsStopPolicy
<1> USE DEF Policy!vars
<1>0. Considered = {s \in Services : Undecided(s) /\ ~disturbed[s]}
  BY DEF Considered
<1>1. Init => Policy!Init
  BY DEF Init, Policy!Init, Undecided
<1>2. IInv /\ [Next]_vars => [Policy!Next]_Policy!vars
  <2> SUFFICES ASSUME IInv, [Next]_vars PROVE [Policy!Next]_Policy!vars
    OBVIOUS
  <2>1. ASSUME NEW s \in Services,
               NoteRequestArrival(s) \/ Acquire(s) \/ Release(s)
        PROVE  Policy!Activity(s)
    BY <2>1, ActivityConsiders DEF NoteRequestArrival, Acquire, Release,
       RecordActivity, Policy!Activity, Considered
  <2>2. ASSUME NEW s \in Services,
               BeginStopAttempt(s) \/ BeginShutdownAttempt(s)
        PROVE  Policy!Consider(s)
    BY <2>2, BeginConsiders DEF BeginStopAttempt, BeginShutdownAttempt,
       BeginAttempt, activityVars, Policy!Consider, Considered
  <2>3. ASSUME NEW s \in Services, ChangeLaunch(s)
        PROVE  UNCHANGED Policy!vars
    BY <2>3 DEF ChangeLaunch, activityVars, historyVars, Undecided
  <2>4. ASSUME Tick PROVE UNCHANGED Policy!vars
    BY <2>4 DEF Tick, historyVars, Undecided
  <2>5. ASSUME NEW a \in attempts, CheckAllows(a) \/ Decide(a)
        PROVE  UNCHANGED Policy!vars
    BY <2>5, MoveConsiders DEF CheckAllows, Decide, activityVars,
       historyVars, Considered
  <2>6. ASSUME NEW a \in attempts,
               CheckRefuses(a) \/ Discard(a) \/ StopNotStarted(a)
                   \/ FinishStop(a)
        PROVE  Policy!Withdraw(a.service)
    BY <2>6, LeaveConsiders DEF CheckRefuses, Discard, StopNotStarted,
       FinishStop, activityVars, historyVars, Policy!Withdraw, Considered
  <2>7. ASSUME NEW a \in attempts, StartStop(a)
        PROVE  Policy!Stop(a.service)
    <3>1. /\ stopsSent[a.service] = 0 /\ inFlight[a.service] = 0
          /\ ~disturbed[a.service] /\ a.service \in Services
      BY <2>7, StopStep DEF IInv, TypeOK, StopAttempts
    <3>2. Considered' = Considered \ {a.service}
      BY <2>7, LeaveConsiders DEF StartStop
    <3>3. a.service \in Considered
      BY <2>7, <3>1 DEF StartStop, Considered, Undecided
    <3>4. stopsSent' = [stopsSent EXCEPT ![a.service] = 1]
      BY <2>7, <3>1 DEF StartStop
    <3> QED
      BY <2>7, <3>1, <3>2, <3>3, <3>4 DEF StartStop, activityVars,
         Policy!Stop, Considered
  <2>8. CASE UNCHANGED vars
    BY <2>8 DEF vars, activityVars, checkVars, historyVars, Undecided
  <2>9. \A a \in attempts : a.service \in Services
    BY DEF IInv, TypeOK, StopAttempts
  <2> QED
    BY <2>1, <2>2, <2>3, <2>4, <2>5, <2>6, <2>7, <2>8, <2>9
       DEF Next, AttemptStep, Policy!Next
<1> QED
  BY <1>1, <1>2, Invariance, PTL DEF Spec, ImplementsStopPolicy, Policy!Spec
=============================================================================
