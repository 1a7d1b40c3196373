---------------------------- MODULE GatewayProofs ---------------------------
(***************************************************************************)
(* Proofs about Gateway, for every set of services and requests and every  *)
(* timing that GatewayAssumption allows.                                   *)
(***************************************************************************)
EXTENDS Gateway, FiniteSetTheorems, TLAPS

\* What is proved about a lifecycle on its own, with the launch states as the
\* gateway keeps them.
Alone == INSTANCE ServiceLifecycleProofs WITH
             launchInProgress <- [s \in Services |-> launch[s] = "Launching"],
             MaxGeneration <- 0

-----------------------------------------------------------------------------
(* The inductive invariant.                                                *)

AdmittedStages == {"admitted", "probing", "ready", "cold", "launched", "leased"}
RoutedStages == {"probing", "ready", "cold", "launched", "leased", "proxying"}

\* A request has a route from its arrival to its end.
RoutesAreKept ==
    \A r \in Requests :
        IF stage[r] \in RoutedStages THEN route[r] \in Services
                                     ELSE route[r] = NoService

\* A request holds its admission until it has its lease or its kickstart.
AdmissionsAreHeld == held = {r \in Requests : stage[r] \in AdmittedStages}

Leased(s) == {r \in Requests : route[r] = s /\ stage[r] \in {"leased", "proxying"}}

LeasesAreFinite == \A s \in Services : IsFiniteSet(Leased(s))

\* How far monitor, gate and cleanup have come agrees.
DrainInOrder ==
    /\ drain = "none" <=> monitor = "scanning"
    /\ drain = "waiting" <=> monitor = "draining"
    /\ monitor = "preparing" => drain = "drained"
    /\ drain # "none" => ~accepting
    /\ drain = "drained" => held = {}
    /\ expired => drain # "none" /\ drainIn = 0

CleanupInOrder ==
    /\ drain \in {"none", "waiting"} => toPrepare = Services
    /\ drain = "drained" /\ monitor # "preparing" => toPrepare = {}
    /\ polling \cap toPrepare = {}
    /\ polling # {} => drain = "drained"
    /\ phase = "Completed" => monitor = "finished"
    /\ monitor = "finished" => polling = {} /\ attempts = {}

\* The shutdown's own attempts begin after the drain, on a service that has
\* nothing left that could disturb it.
ShutdownStopsAreUndisturbed ==
    \A a \in attempts : ~a.requiresIdle =>
        /\ drain = "drained"
        /\ a.phase # "stopping" =>
               /\ generation[a.service] = a.generation
               /\ inFlight[a.service] = 0
               /\ launch[a.service] # "Launching"

\* A request between its arrival and its lease or kickstart keeps its service
\* from being idle: the probe is shorter than the idle timeout, and no time
\* passes in the other stages.
ArrivalsKeepAwake ==
    Timely => \A r \in Requests : stage[r] \in RoutedStages \ {"proxying"} =>
        idleIn[route[r]] > IF stage[r] = "probing" THEN probeIn[r] ELSE 0

LockedIsNotLaunching ==
    \A a \in attempts : a.phase = "locked" /\ (Timely \/ ~a.requiresIdle) =>
        launch[a.service] # "Launching"

\* The same argument for the drain deadline.
AdmissionsEndInTime ==
    Timely =>
        /\ drain # "undrained"
        /\ drain = "waiting" => \A r \in held :
               drainIn > IF stage[r] = "admitted" THEN ProbeTimeout
                         ELSE IF stage[r] = "probing" THEN probeIn[r] ELSE 0

\* What CleanupDecidesEveryService says of a cleanup that is over, for every
\* service it has prepared.
PreparedAreDecided ==
    drain = "drained" =>
        \A s \in Services \ toPrepare :
            \/ s \in polling
            \/ \E a \in attempts : a.service = s
            \/ stopsSent[s] = 1
            \/ s \in excused \cup overtaken

IInv ==
    /\ TypeOK /\ Alone!IInv /\ Alone!StopsSettle
    /\ RoutesAreKept
    /\ AdmissionsAreHeld
    /\ LeasesMatchRequests /\ LeasesAreFinite
    /\ DrainInOrder /\ CleanupInOrder
    /\ ShutdownStopsAreUndisturbed
    /\ ArrivalsKeepAwake
    /\ LockedIsNotLaunching
    /\ AdmissionsEndInTime
    /\ PreparedAreDecided

-----------------------------------------------------------------------------
(* Every step of the gateway is a step of its components.                  *)

\* A launch state that changes is a kickstart that begins or ends.
LEMMA LaunchChange ==
  ASSUME Wake!TypeOK, NEW s \in Services, UNCHANGED lifeVars,
         NEW state \in {"Launching", "CoolingDown"},
         launch' = [launch EXCEPT ![s] = state]
  PROVE  Life!ChangeLaunch(s) \/ UNCHANGED Life!vars
<1> USE DEF lifeVars, Life!vars, Life!activityVars, Life!checkVars,
        Life!historyVars, Wake!TypeOK, Wake!LaunchStates
<1>1. CASE (launch'[s] = "Launching") = (launch[s] = "Launching")
  BY <1>1
<1>2. CASE (launch'[s] = "Launching") # (launch[s] = "Launching")
  BY <1>2 DEF Life!ChangeLaunch
<1> QED BY <1>1, <1>2

\* What the requests do to the lifecycles.
LEMMA RequestLifeStep ==
  ASSUME TypeOK, RoutesAreKept, NEW r \in Requests,
         NewContext(r) \/ RequestStep(r) \/ EndRequest(r)
  PROVE  \/ UNCHANGED Life!vars
         \/ \E s \in Services :
                \/ Life!NoteRequestArrival(s) \/ Life!Acquire(s)
                \/ Life!Release(s) \/ Life!ChangeLaunch(s)
<1>1. CASE \/ NewContext(r) \/ UnknownHost(r) \/ ProbeEnds(r) \/ FinishCold(r)
           \/ FailBeforeProxying(r) \/ StartProxying(r)
  BY <1>1 DEF NewContext, UnknownHost, ProbeEnds, FinishCold,
     FailBeforeProxying, StartProxying, DropAdmission, wakeVars, lifeVars,
     Life!vars, Life!activityVars, Life!checkVars, Life!historyVars
<1>2. CASE \E s \in Services : NoteArrival(r, s)
  BY <1>2 DEF NoteArrival
<1>3. CASE RequestLaunch(r)
  <2>1. route[r] \in Services /\ UNCHANGED lifeVars
    BY <1>3 DEF RequestLaunch, Move, RoutesAreKept, RoutedStages
  <2>2. \/ launch' = [launch EXCEPT ![route[r]] = "Launching"]
        \/ UNCHANGED launch
    BY <1>3 DEF RequestLaunch, Wake!RequestLaunch, Wake!vars
  <2>3. CASE UNCHANGED launch
    BY <2>1, <2>3 DEF lifeVars, Life!vars, Life!activityVars, Life!checkVars,
       Life!historyVars
  <2> QED BY <2>1, <2>2, <2>3, LaunchChange DEF TypeOK
<1>4. CASE AcquireLease(r)
  BY <1>4 DEF AcquireLease, Move, RoutesAreKept, RoutedStages
<1>5. CASE EndRequest(r)
  BY <1>5 DEF EndRequest, Move, RoutesAreKept, RoutedStages
<1> QED BY <1>1, <1>2, <1>3, <1>4, <1>5 DEF RequestStep

LEMMA LifeStep ==
  ASSUME TypeOK, RoutesAreKept, [Next]_vars
  PROVE  [Life!Next]_(Life!vars)
<1>1. ASSUME NEW r \in Requests, NewContext(r) \/ RequestStep(r) \/ EndRequest(r)
      PROVE  [Life!Next]_(Life!vars)
  BY <1>1, RequestLifeStep DEF Life!Next, Life!InBounds
<1>2. ASSUME NEW s \in Services, LaunchFinished(s)
      PROVE  [Life!Next]_(Life!vars)
  BY <1>2, LaunchChange
     DEF LaunchFinished, Wake!LaunchFinished, TypeOK, Life!Next
<1>3. ASSUME NEW s \in Services, Scan(s) PROVE Life!Next
  BY <1>3 DEF Scan, Life!Next
<1>4. ASSUME NEW a \in attempts, AttemptStep(a) PROVE Life!Next
  BY <1>4 DEF AttemptStep, ContinueAttempt, StartStop, RefuseStop, DiscardStop,
     FinishStop, Life!Next, Life!AttemptStep
<1>5. ASSUME NEW s \in Services, CleanupDecides(s) PROVE Life!Next
  BY <1>5 DEF CleanupDecides, Life!Next
<1>6. CASE Tick
  BY <1>6 DEF Tick, Life!Next
<1>7. ASSUME UNCHANGED lifeVars, UNCHANGED wakeVars PROVE UNCHANGED Life!vars
  BY <1>7 DEF lifeVars, wakeVars, Life!vars, Life!activityVars,
     Life!checkVars, Life!historyVars
<1>8. CASE \/ StartCleanup \/ FinishDrain \/ FinishCleanup
           \/ CloseGate \/ RequestShutdown \/ HandOff \/ UNCHANGED vars
           \/ \E s \in Services : Prepare(s) \/ CleanupGivesUp(s)
  BY <1>7, <1>8 DEF StartCleanup, FinishDrain, FinishCleanup, CloseGate,
     RequestShutdown, HandOff, vars, Prepare, CleanupGivesUp
<1> QED
  BY <1>1, <1>2, <1>3, <1>4, <1>5, <1>6, <1>8 DEF Next, CleanupStep

\* What the gateway does to the lifecycles, a lifecycle on its own may do.
LEMMA AloneNext ==
  ASSUME [Life!Next]_(Life!vars)
  PROVE  [Alone!Next]_(Alone!vars)
<1> USE DEF Life!activityVars, Alone!activityVars, Life!checkVars,
        Alone!checkVars, Life!historyVars, Alone!historyVars
<1>1. UNCHANGED Life!vars => UNCHANGED Alone!vars
  BY DEF Life!vars, Alone!vars
<1>2. Life!Next => Alone!Next
  BY DEF Life!Next, Alone!Next, Life!InBounds, Alone!InBounds,
     Life!NoteRequestArrival, Alone!NoteRequestArrival,
     Life!Acquire, Alone!Acquire, Life!Release, Alone!Release,
     Life!BeginStopAttempt, Alone!BeginStopAttempt,
     Life!BeginShutdownAttempt, Alone!BeginShutdownAttempt,
     Life!ChangeLaunch, Alone!ChangeLaunch, Life!Tick, Alone!Tick,
     Life!AttemptStep, Alone!AttemptStep, Life!CheckAllows, Alone!CheckAllows,
     Life!CheckRefuses, Alone!CheckRefuses, Life!Discard, Alone!Discard,
     Life!Decide, Alone!Decide, Life!StartStop, Alone!StartStop,
     Life!StopNotStarted, Alone!StopNotStarted,
     Life!FinishStop, Alone!FinishStop, Life!Unlocked, Alone!Unlocked,
     Life!NewGeneration, Alone!NewGeneration,
     Life!RecordActivity, Alone!RecordActivity,
     Life!AlreadySignalled, Alone!AlreadySignalled,
     Life!Occupied, Alone!Occupied, Life!BeginAttempt, Alone!BeginAttempt,
     Life!MoveTo, Alone!MoveTo, Life!EndAttempt, Alone!EndAttempt,
     Life!Obsolete, Alone!Obsolete, Life!CountDown, Alone!CountDown
<1> QED BY <1>1, <1>2

\* So its invariant survives.
LEMMA AloneStep ==
  ASSUME Alone!IInv, Alone!StopsSettle, [Life!Next]_(Life!vars)
  PROVE  Alone!IInv' /\ Alone!StopsSettle'
<1>1. /\ Checked \subseteq Services /\ 0 \in Nat
      /\ IdleTimeout \in Nat \ {0} /\ CheckRetry \in Nat \ {0}
  BY GatewayAssumption
<1>2. [Alone!Next]_(Alone!vars)
  BY AloneNext
<1> QED BY <1>1, <1>2, Alone!StepInvariant, Alone!SettleStep

-----------------------------------------------------------------------------
(* Requests, routes and admissions.                                        *)

\* Steps of the commands, the monitor and the signal task.
OtherStep ==
    \/ \E s \in Services : LaunchFinished(s) \/ Scan(s)
    \/ \E a \in attempts : AttemptStep(a)
    \/ CleanupStep
    \/ CloseGate \/ RequestShutdown \/ HandOff
    \/ UNCHANGED vars

RequestsOK ==
    /\ stage \in [Requests -> Stages]
    /\ route \in [Requests -> Services \cup {NoService}]
    /\ probeIn \in [Requests -> 0 .. ProbeTimeout]
    /\ RoutesAreKept
    /\ AdmissionsAreHeld

LEMMA StepCases ==
  ASSUME [Next]_vars
  PROVE  \/ \E r \in Requests : NewContext(r) \/ RequestStep(r) \/ EndRequest(r)
         \/ OtherStep
         \/ Tick
BY DEF Next, OtherStep

\* No other step touches the requests, or opens the gate.
LEMMA OtherFrame ==
  ASSUME OtherStep
  PROVE  /\ UNCHANGED <<stage, route, probeIn, held>>
         /\ UNCHANGED <<inFlight, generation, idleIn>>
         /\ accepting' => accepting
<1> USE DEF requestVars, gateVars, lifeVars, Life!activityVars
<1>1. CASE \E a \in attempts : AttemptStep(a)
  BY <1>1 DEF AttemptStep, ContinueAttempt, StartStop, RefuseStop, DiscardStop,
     FinishStop, Life!CheckAllows, Life!CheckRefuses, Life!Discard,
     Life!Decide, Life!StartStop, Life!StopNotStarted, Life!FinishStop
<1>2. CASE \E s \in Services :
               \/ LaunchFinished(s) \/ Scan(s) \/ Prepare(s)
               \/ CleanupDecides(s) \/ CleanupGivesUp(s)
  BY <1>2 DEF LaunchFinished, Scan, Prepare, CleanupDecides, CleanupGivesUp,
     Life!BeginStopAttempt, Life!BeginShutdownAttempt, Life!BeginAttempt
<1>3. CASE StartCleanup \/ FinishDrain \/ FinishCleanup
  BY <1>3 DEF StartCleanup, FinishDrain, FinishCleanup, Gate!StartDrain,
     Gate!Drained, Gate!GaveUp
<1>4. CASE CloseGate \/ RequestShutdown \/ HandOff \/ UNCHANGED vars
  BY <1>4 DEF CloseGate, RequestShutdown, HandOff, Gate!Close, vars
<1> QED BY <1>1, <1>2, <1>3, <1>4 DEF OtherStep, CleanupStep

\* A request that moves on gains or loses its route and its admission with
\* the stage it reaches.
LEMMA MoveKeeps ==
  ASSUME RequestsOK, NEW r \in Requests, NEW from \in Stages, NEW to \in Stages,
         Move(r, from, to),
         probeIn' \in [Requests -> 0 .. ProbeTimeout],
         NEW dest \in Services \cup {NoService},
         route' = [route EXCEPT ![r] = dest],
         IF to \in RoutedStages THEN dest \in Services ELSE dest = NoService,
         held' = IF to \in AdmittedStages THEN held \cup {r} ELSE held \ {r}
  PROVE  RequestsOK'
BY DEF RequestsOK, Move, RoutesAreKept, AdmissionsAreHeld

LEMMA RequestKeepsRequests ==
  ASSUME RequestsOK, NEW r \in Requests,
         NewContext(r) \/ RequestStep(r) \/ EndRequest(r)
  PROVE  RequestsOK'
<1> USE DEF RequestsOK, RoutesAreKept, AdmissionsAreHeld, AdmittedStages,
        RoutedStages, Stages, Move, gateVars
<1>0. NoService \notin Services /\ ProbeTimeout \in Nat
  BY GatewayAssumption
<1>1. CASE NewContext(r)
  <2>1. route' = [route EXCEPT ![r] = NoService] /\ UNCHANGED probeIn
    BY <1>1 DEF NewContext
  <2>2. \/ Move(r, "new", "admitted") /\ held' = held \cup {r}
        \/ Move(r, "new", "answered") /\ held' = held \ {r}
    BY <1>1 DEF NewContext, Gate!Admit
  <2> QED BY <2>1, <2>2, MoveKeeps
<1>2. CASE \E s \in Services : NoteArrival(r, s)
  <2>1. PICK s \in Services : NoteArrival(r, s)
    BY <1>2
  <2>2. probeIn' \in [Requests -> 0 .. ProbeTimeout] /\ held' = held \cup {r}
    BY <1>0, <2>1 DEF NoteArrival
  <2>3. Move(r, "admitted", "probing") /\ route' = [route EXCEPT ![r] = s]
    BY <2>1 DEF NoteArrival
  <2> QED BY <2>2, <2>3, MoveKeeps
<1>3. CASE ProbeEnds(r) \/ RequestLaunch(r) \/ AcquireLease(r)
  <2>1. /\ route' = [route EXCEPT ![r] = route[r]]
        /\ probeIn' \in [Requests -> 0 .. ProbeTimeout] /\ UNCHANGED held
    BY <1>0, <1>3 DEF ProbeEnds, RequestLaunch, AcquireLease
  <2>2. PICK from, to \in RoutedStages \ {"proxying"} : Move(r, from, to)
    BY <1>3 DEF ProbeEnds, RequestLaunch, AcquireLease
  <2>3. route[r] \in Services /\ held' = held \cup {r}
    BY <2>1, <2>2
  <2> QED BY <2>1, <2>2, <2>3, MoveKeeps
<1>4. CASE \/ UnknownHost(r) \/ FinishCold(r) \/ FailBeforeProxying(r)
           \/ EndRequest(r)
  <2>1. route' = [route EXCEPT ![r] = NoService] /\ UNCHANGED probeIn
    BY <1>4 DEF UnknownHost, FinishCold, FailBeforeProxying, EndRequest,
       DropAdmission, Forget
  <2>2. held' = held \ {r}
    BY <1>4 DEF UnknownHost, FinishCold, FailBeforeProxying, EndRequest,
       DropAdmission, Gate!Release
  <2>3. \E from \in Stages : Move(r, from, "answered")
    BY <1>4 DEF UnknownHost, FinishCold, FailBeforeProxying, EndRequest,
       DropAdmission
  <2> QED BY <2>1, <2>2, <2>3, MoveKeeps
<1>5. CASE StartProxying(r)
  <2>1. route' = [route EXCEPT ![r] = route[r]] /\ UNCHANGED probeIn
    BY <1>5 DEF StartProxying, DropAdmission
  <2>2. Move(r, "leased", "proxying") /\ held' = held \ {r}
    BY <1>5 DEF StartProxying, DropAdmission, Gate!Release
  <2> QED BY <2>1, <2>2, MoveKeeps
<1> QED BY <1>1, <1>2, <1>3, <1>4, <1>5 DEF RequestStep

LEMMA CountDownFits ==
  ASSUME NEW max \in Nat, NEW n \in 0 .. max
  PROVE  CountDown(n) \in 0 .. max
BY DEF CountDown

LEMMA RequestsStep == ASSUME RequestsOK, [Next]_vars PROVE RequestsOK'
<1>1. CASE OtherStep
  BY <1>1, OtherFrame DEF RequestsOK, RoutesAreKept, AdmissionsAreHeld
<1>2. CASE Tick
  <2>1. probeIn' \in [Requests -> 0 .. ProbeTimeout]
    BY <1>2, CountDownFits, GatewayAssumption DEF Tick, RequestsOK
  <2> QED
    BY <1>2, <2>1 DEF Tick, RequestsOK, RoutesAreKept, AdmissionsAreHeld
<1> QED BY <1>1, <1>2, StepCases, RequestKeepsRequests

-----------------------------------------------------------------------------
(* Leases.                                                                 *)

LEMMA LeaseStep ==
  ASSUME RequestsOK, LeasesMatchRequests, LeasesAreFinite,
         inFlight \in [Services -> Nat], [Next]_vars
  PROVE  LeasesMatchRequests' /\ LeasesAreFinite'
<1> USE DEF RequestsOK, RoutesAreKept, Move, RoutedStages, Stages
<1>0. NoService \notin Services
  BY GatewayAssumption
<1>1. \A s \in Services :
          inFlight[s] = Cardinality(Leased(s)) /\ IsFiniteSet(Leased(s))
  BY DEF LeasesMatchRequests, LeasesAreFinite, Leased
<1>2. SUFFICES \A s \in Services :
          inFlight'[s] = Cardinality(Leased(s)') /\ IsFiniteSet(Leased(s)')
  BY DEF LeasesMatchRequests, LeasesAreFinite, Leased
<1>3. ASSUME UNCHANGED inFlight, \A s \in Services : Leased(s)' = Leased(s)
      PROVE  \A s \in Services :
                 inFlight'[s] = Cardinality(Leased(s)') /\ IsFiniteSet(Leased(s)')
  BY <1>1, <1>3
<1>4. CASE OtherStep
  BY <1>3, <1>4, OtherFrame DEF Leased
<1>5. CASE Tick
  BY <1>3, <1>5 DEF Tick, Life!Tick, Leased
<1>6. ASSUME NEW r \in Requests,
             \/ NewContext(r) \/ UnknownHost(r) \/ ProbeEnds(r)
             \/ RequestLaunch(r) \/ FinishCold(r) \/ FailBeforeProxying(r)
             \/ StartProxying(r) \/ \E s \in Services : NoteArrival(r, s)
      PROVE  UNCHANGED inFlight /\ \A s \in Services : Leased(s)' = Leased(s)
  <2>1. UNCHANGED inFlight
    BY <1>6 DEF NewContext, UnknownHost, ProbeEnds, RequestLaunch, FinishCold,
       FailBeforeProxying, StartProxying, NoteArrival, DropAdmission,
       lifeVars, Life!NoteRequestArrival
  <2>2. /\ \A q \in Requests \ {r} : stage'[q] = stage[q] /\ route'[q] = route[q]
        /\ \/ {stage[r], stage'[r]} \cap {"leased", "proxying"} = {}
           \/ /\ stage[r] = "leased" /\ stage'[r] = "proxying"
              /\ route'[r] = route[r]
    BY <1>6 DEF NewContext, UnknownHost, ProbeEnds, RequestLaunch, FinishCold,
       FailBeforeProxying, StartProxying, NoteArrival, DropAdmission, Forget
  <2> QED BY <2>1, <2>2 DEF Leased
<1>7. ASSUME NEW r \in Requests, AcquireLease(r)
      PROVE  \A s \in Services :
                 inFlight'[s] = Cardinality(Leased(s)') /\ IsFiniteSet(Leased(s)')
  <2>1. /\ stage[r] = "ready" /\ route[r] \in Services
        /\ stage' = [stage EXCEPT ![r] = "leased"] /\ UNCHANGED route
        /\ inFlight' = [inFlight EXCEPT ![route[r]] = @ + 1]
    BY <1>7 DEF AcquireLease, Life!Acquire
  <2>2. \A s \in Services : Leased(s)' = IF s = route[r] THEN Leased(s) \cup {r}
                                                         ELSE Leased(s)
    BY <2>1 DEF Leased
  <2>3. r \notin Leased(route[r])
    BY <2>1 DEF Leased
  <2> QED BY <1>1, <2>1, <2>2, <2>3, FS_AddElement
<1>8. ASSUME NEW r \in Requests, EndRequest(r)
      PROVE  \A s \in Services :
                 inFlight'[s] = Cardinality(Leased(s)') /\ IsFiniteSet(Leased(s)')
  <2>1. /\ stage[r] = "proxying" /\ route[r] \in Services
        /\ stage' = [stage EXCEPT ![r] = "answered"]
        /\ route' = [route EXCEPT ![r] = NoService]
        /\ inFlight' = [inFlight EXCEPT ![route[r]] = @ - 1]
    BY <1>8 DEF EndRequest, Forget, Life!Release
  <2>2. \A s \in Services : Leased(s)' = IF s = route[r] THEN Leased(s) \ {r}
                                                         ELSE Leased(s)
    BY <1>0, <2>1 DEF Leased
  <2>3. r \in Leased(route[r])
    BY <2>1 DEF Leased
  <2> QED BY <1>1, <2>1, <2>2, <2>3, FS_RemoveElement
<1> QED BY <1>3, <1>4, <1>5, <1>6, <1>7, <1>8, StepCases DEF RequestStep

-----------------------------------------------------------------------------
(* The wake targets.                                                       *)

\* Who writes the launch states, and what each knows when it does.
LEMMA WakeCases ==
  ASSUME RoutesAreKept, [Next]_vars
  PROVE  \/ UNCHANGED wakeVars
         \/ Wake!Tick
         \/ \E r \in Requests :
                /\ stage[r] = "cold" /\ route[r] \in Services
                /\ Wake!RequestLaunch(route[r])
                /\ UNCHANGED <<gateVars, lifeVars, shutdownVars>>
         \/ \E s \in Services : Wake!LaunchFinished(s) /\ UNCHANGED lifeVars
         \/ \E a \in attempts : /\ Wake!AllowLaunchAfterStop(a.service)
                                /\ Life!StartStop(a)
<1>1. ASSUME NEW r \in Requests,
             NewContext(r) \/ RequestStep(r) \/ EndRequest(r)
      PROVE  \/ UNCHANGED wakeVars
             \/ RequestLaunch(r)
  BY <1>1 DEF NewContext, RequestStep, EndRequest, UnknownHost, NoteArrival,
     ProbeEnds, FinishCold, AcquireLease, FailBeforeProxying, StartProxying,
     DropAdmission
<1>2. ASSUME NEW r \in Requests, RequestLaunch(r)
      PROVE  /\ stage[r] = "cold" /\ route[r] \in Services
             /\ Wake!RequestLaunch(route[r])
             /\ UNCHANGED <<gateVars, lifeVars, shutdownVars>>
  BY <1>2 DEF RequestLaunch, Move, RoutesAreKept, RoutedStages
<1>3. CASE \E a \in attempts : AttemptStep(a)
  BY <1>3 DEF AttemptStep, ContinueAttempt, StartStop, RefuseStop, DiscardStop,
     FinishStop
<1>4. CASE \E s \in Services : LaunchFinished(s)
  BY <1>4 DEF LaunchFinished
<1>5. CASE \/ CleanupStep \/ CloseGate \/ RequestShutdown \/ HandOff
           \/ UNCHANGED vars \/ \E s \in Services : Scan(s)
  BY <1>5 DEF CleanupStep, StartCleanup, FinishDrain, Prepare, CleanupDecides,
     CleanupGivesUp, FinishCleanup, CloseGate, RequestShutdown, HandOff, Scan,
     vars
<1>6. CASE Tick
  BY <1>6 DEF Tick
<1> QED BY <1>1, <1>2, <1>3, <1>4, <1>5, <1>6, StepCases DEF OtherStep

LEMMA WakeTypes ==
  ASSUME Wake!TypeOK, Life!TypeOK, RoutesAreKept, [Next]_vars
  PROVE  Wake!TypeOK'
<1> USE GatewayAssumption DEF Wake!TypeOK, Wake!LaunchStates
<1>1. CASE UNCHANGED wakeVars
  BY <1>1 DEF wakeVars
<1>2. CASE Wake!Tick
  BY <1>2 DEF Wake!Tick
<1>3. ASSUME NEW s \in Services, Wake!RequestLaunch(s) PROVE Wake!TypeOK'
  BY <1>3 DEF Wake!RequestLaunch, Wake!vars
<1>4. ASSUME NEW s \in Services,
             Wake!LaunchFinished(s) \/ Wake!AllowLaunchAfterStop(s)
      PROVE  Wake!TypeOK'
  BY <1>4 DEF Wake!LaunchFinished, Wake!AllowLaunchAfterStop
<1>5. \A a \in attempts : a.service \in Services
  BY DEF Life!TypeOK, Life!StopAttempts
<1> QED BY <1>1, <1>2, <1>3, <1>4, <1>5, WakeCases

-----------------------------------------------------------------------------
(* The order of shutdown.                                                  *)

\* No request starts or ends an attempt or moves the shutdown on, and only an
\* open gate admits one.
LEMMA RequestFrame ==
  ASSUME NEW r \in Requests, NewContext(r) \/ RequestStep(r) \/ EndRequest(r)
  PROVE  /\ UNCHANGED shutdownVars
         /\ UNCHANGED <<accepting, drain, expired, attempts>>
         /\ held' \subseteq held \/ accepting
<1> USE DEF gateVars, lifeVars, Gate!Release
<1>1. CASE \/ NewContext(r) \/ UnknownHost(r) \/ ProbeEnds(r) \/ RequestLaunch(r)
           \/ FinishCold(r) \/ FailBeforeProxying(r) \/ StartProxying(r)
  BY <1>1 DEF NewContext, UnknownHost, ProbeEnds, RequestLaunch, FinishCold,
     FailBeforeProxying, StartProxying, DropAdmission, Gate!Admit
<1>2. CASE \/ AcquireLease(r) \/ EndRequest(r)
           \/ \E s \in Services : NoteArrival(r, s)
  BY <1>2 DEF AcquireLease, EndRequest, NoteArrival, Life!Acquire,
     Life!Release, Life!NoteRequestArrival, Life!NewGeneration
<1> QED BY <1>1, <1>2 DEF RequestStep

LEMMA DrainStep ==
  ASSUME DrainInOrder, drainIn \in Nat, [Next]_vars
  PROVE  DrainInOrder'
<1> USE DEF DrainInOrder
<1>1. ASSUME NEW r \in Requests, NewContext(r) \/ RequestStep(r) \/ EndRequest(r)
      PROVE  DrainInOrder'
  BY <1>1, RequestFrame DEF shutdownVars
<1>2. ASSUME UNCHANGED gateVars, UNCHANGED <<monitor, drainIn>>
      PROVE  DrainInOrder'
  BY <1>2 DEF gateVars
<1>3. ASSUME NEW a \in attempts, AttemptStep(a) PROVE DrainInOrder'
  BY <1>2, <1>3 DEF AttemptStep, ContinueAttempt, StartStop, RefuseStop,
     DiscardStop, FinishStop, shutdownVars
<1>4. ASSUME NEW s \in Services,
             LaunchFinished(s) \/ Scan(s) \/ CleanupDecides(s) \/ CleanupGivesUp(s)
      PROVE  DrainInOrder'
  BY <1>2, <1>4 DEF LaunchFinished, Scan, CleanupDecides, CleanupGivesUp,
     shutdownVars
<1>5. CASE RequestShutdown \/ HandOff \/ UNCHANGED vars
  BY <1>2, <1>5 DEF RequestShutdown, HandOff, vars, shutdownVars
<1>6. CASE StartCleanup \/ FinishDrain \/ FinishCleanup
  BY <1>6 DEF StartCleanup, FinishDrain, FinishCleanup, Gate!StartDrain,
     Gate!Drained, Gate!GaveUp, gateVars
<1>7. CASE \E s \in Services : Prepare(s)
  BY <1>7 DEF Prepare, gateVars
<1>8. CASE CloseGate
  BY <1>8 DEF CloseGate, Gate!Close
<1>9. CASE Tick
  BY <1>9 DEF Tick, CountDown
<1> QED
  BY <1>1, <1>3, <1>4, <1>5, <1>6, <1>7, <1>8, <1>9, StepCases
     DEF OtherStep, CleanupStep

LEMMA CleanupStepKeepsOrder ==
  ASSUME DrainInOrder, CleanupInOrder, toPrepare \subseteq Services,
         [Next]_vars
  PROVE  CleanupInOrder'
<1> USE DEF DrainInOrder, CleanupInOrder
<1>1. ASSUME NEW r \in Requests, NewContext(r) \/ RequestStep(r) \/ EndRequest(r)
      PROVE  CleanupInOrder'
  BY <1>1, RequestFrame DEF shutdownVars
<1>2. ASSUME UNCHANGED <<drain, phase, monitor, toPrepare, polling>>,
             attempts' = attempts \/ monitor # "finished"
      PROVE  CleanupInOrder'
  BY <1>2
<1>3. ASSUME NEW a \in attempts, AttemptStep(a) PROVE CleanupInOrder'
  BY <1>2, <1>3 DEF AttemptStep, ContinueAttempt, StartStop, RefuseStop,
     DiscardStop, FinishStop, shutdownVars, gateVars
<1>4. ASSUME NEW s \in Services, LaunchFinished(s) \/ Scan(s)
      PROVE  CleanupInOrder'
  BY <1>2, <1>4 DEF LaunchFinished, Scan, shutdownVars, gateVars, lifeVars
<1>5. CASE CloseGate \/ HandOff \/ Tick \/ UNCHANGED vars
  BY <1>2, <1>5 DEF CloseGate, Gate!Close, HandOff, Tick, Life!Tick, vars,
     shutdownVars, gateVars, lifeVars
<1>6. CASE RequestShutdown
  BY <1>6 DEF RequestShutdown, gateVars, lifeVars
<1>7. CASE StartCleanup \/ FinishDrain \/ FinishCleanup
  BY <1>7 DEF StartCleanup, FinishDrain, FinishCleanup, Gate!StartDrain,
     Gate!Drained, Gate!GaveUp, gateVars, lifeVars
<1>8. ASSUME NEW s \in Services, Prepare(s) PROVE CleanupInOrder'
  BY <1>8 DEF Prepare, gateVars, lifeVars
<1>9. ASSUME NEW s \in Services, CleanupDecides(s) \/ CleanupGivesUp(s)
      PROVE  CleanupInOrder'
  BY <1>9 DEF CleanupDecides, CleanupGivesUp, gateVars
<1> QED
  BY <1>1, <1>3, <1>4, <1>5, <1>6, <1>7, <1>8, <1>9, StepCases
     DEF OtherStep, CleanupStep

\* The rest of the types.
ShutdownTypes ==
    /\ Gate!TypeOK
    /\ phase \in {"Running", "Requested", "Completed"}
    /\ signalTask \in {"serving", "closed", "waiting", "handedOff"}
    /\ monitor \in {"scanning", "draining", "preparing", "joining", "finished"}
    /\ drainIn \in 0 .. DrainTimeout
    /\ toPrepare \subseteq Services
    /\ polling \subseteq Services
    /\ excused \subseteq Services
    /\ overtaken \subseteq Services

LEMMA ShutdownTypesStep ==
  ASSUME ShutdownTypes, Life!TypeOK, RequestsOK, [Next]_vars
  PROVE  ShutdownTypes'
<1> USE DEF ShutdownTypes, Gate!TypeOK, Gate!Outcomes
<1>1. ASSUME NEW r \in Requests, NewContext(r) \/ RequestStep(r) \/ EndRequest(r)
      PROVE  ShutdownTypes'
  BY <1>1, RequestFrame, RequestsStep
     DEF shutdownVars, RequestsOK, AdmissionsAreHeld
<1>2. ASSUME NEW a \in attempts, AttemptStep(a) PROVE ShutdownTypes'
  <2>1. a.service \in Services
    BY DEF Life!TypeOK, Life!StopAttempts
  <2> QED
    BY <1>2, <2>1 DEF AttemptStep, ContinueAttempt, StartStop, RefuseStop,
       DiscardStop, FinishStop, Excuse, shutdownVars, gateVars
<1>3. ASSUME NEW s \in Services, LaunchFinished(s) \/ Scan(s)
      PROVE  ShutdownTypes'
  BY <1>3 DEF LaunchFinished, Scan, shutdownVars, gateVars
<1>4. ASSUME NEW s \in Services,
             Prepare(s) \/ CleanupDecides(s) \/ CleanupGivesUp(s)
      PROVE  ShutdownTypes'
  <2>1. CASE Prepare(s)
    BY <2>1 DEF Prepare, gateVars
  <2>2. CASE CleanupDecides(s)
    BY <2>2 DEF CleanupDecides, gateVars
  <2>3. CASE CleanupGivesUp(s)
    BY <2>3 DEF CleanupGivesUp, Excuse, gateVars
  <2> QED BY <1>4, <2>1, <2>2, <2>3
<1>5. CASE StartCleanup \/ FinishDrain \/ FinishCleanup
  <2>1. CASE StartCleanup
    <3>1. DrainTimeout \in 0 .. DrainTimeout
      BY GatewayAssumption
    <3> QED BY <2>1, <3>1 DEF StartCleanup, Gate!StartDrain
  <2>2. CASE FinishDrain
    BY <2>2 DEF FinishDrain, Gate!Drained, Gate!GaveUp
  <2>3. CASE FinishCleanup
    BY <2>3 DEF FinishCleanup, gateVars
  <2> QED BY <1>5, <2>1, <2>2, <2>3
<1>6. CASE CloseGate \/ RequestShutdown \/ HandOff \/ UNCHANGED vars
  BY <1>6 DEF CloseGate, Gate!Close, RequestShutdown, HandOff, vars,
     shutdownVars, gateVars
<1>7. CASE Tick
  BY <1>7, CountDownFits, GatewayAssumption DEF Tick
<1> QED
  BY <1>1, <1>2, <1>3, <1>4, <1>5, <1>6, <1>7, StepCases
     DEF OtherStep, CleanupStep

-----------------------------------------------------------------------------
(* Stop attempts.                                                          *)

\* b is a with its task further on: a decision is taken in the open, and a
\* stop once begun stays one.
Follows(b, a) ==
    /\ b.service = a.service /\ b.generation = a.generation
    /\ b.requiresIdle = a.requiresIdle
    /\ a.phase = "stopping" => b.phase = "stopping"
    /\ b.phase = "locked" => a.phase = "locked" \/ ~Life!Obsolete(a)

Begins(b) ==
    /\ b.service \in Services /\ b.generation = generation[b.service]
    /\ b.phase \in {"checking", "allowed"}
    /\ ~Life!Occupied(b.service)
    /\ b.requiresIdle \/ b.service \in polling

LEMMA AttemptMoves ==
  ASSUME Life!TypeOK, NEW a \in attempts, Life!AttemptStep(a),
         NEW b \in attempts'
  PROVE  \E c \in attempts : Follows(b, c)
<1>1. \A p \in Life!Phases : /\ [a EXCEPT !.phase = p].service = a.service
                             /\ [a EXCEPT !.phase = p].generation = a.generation
                             /\ [a EXCEPT !.phase = p].requiresIdle = a.requiresIdle
                             /\ [a EXCEPT !.phase = p].phase = p
  BY DEF Life!TypeOK, Life!StopAttempts
<1>2. CASE b \in attempts
  BY <1>2 DEF Follows
<1>3. ASSUME b \notin attempts
      PROVE  \/ Life!CheckAllows(a) /\ b = [a EXCEPT !.phase = "allowed"]
             \/ Life!Decide(a) /\ b = [a EXCEPT !.phase = "locked"]
             \/ Life!StartStop(a) /\ b = [a EXCEPT !.phase = "stopping"]
  BY <1>3 DEF Life!AttemptStep, Life!CheckAllows, Life!CheckRefuses,
     Life!Discard, Life!Decide, Life!StartStop, Life!StopNotStarted,
     Life!FinishStop, Life!MoveTo, Life!EndAttempt
<1> QED
  BY <1>1, <1>2, <1>3 DEF Follows, Life!Phases, Life!CheckAllows, Life!Decide

LEMMA AttemptBegins ==
  ASSUME NEW s \in Services, NEW idle \in BOOLEAN, ~Life!Occupied(s),
         Life!BeginAttempt(s, idle), idle \/ s \in polling, NEW b \in attempts'
  PROVE  (\E c \in attempts : Follows(b, c)) \/ Begins(b)
BY DEF Life!BeginAttempt, Follows, Begins

LEMMA AttemptsEvolve ==
  ASSUME Life!TypeOK, [Next]_vars, NEW b \in attempts'
  PROVE  (\E a \in attempts : Follows(b, a)) \/ Begins(b)
<1>1. CASE attempts' = attempts
  BY <1>1 DEF Follows
<1>2. ASSUME NEW r \in Requests, NewContext(r) \/ RequestStep(r) \/ EndRequest(r)
      PROVE  attempts' = attempts
  BY <1>2, RequestFrame
<1>3. CASE Tick
  BY <1>1, <1>3 DEF Tick, Life!Tick
<1>4. CASE \/ StartCleanup \/ FinishDrain \/ FinishCleanup \/ CloseGate
           \/ RequestShutdown \/ HandOff \/ UNCHANGED vars
           \/ \E s \in Services : LaunchFinished(s) \/ Prepare(s) \/ CleanupGivesUp(s)
  BY <1>1, <1>4 DEF StartCleanup, FinishDrain, FinishCleanup, CloseGate,
     RequestShutdown, HandOff, vars, LaunchFinished, Prepare, CleanupGivesUp,
     lifeVars
<1>5. ASSUME NEW a \in attempts, AttemptStep(a)
      PROVE  \E c \in attempts : Follows(b, c)
  BY <1>5, AttemptMoves DEF AttemptStep, ContinueAttempt, StartStop,
     RefuseStop, DiscardStop, FinishStop, Life!AttemptStep
<1>6. ASSUME NEW s \in Services, Scan(s) \/ CleanupDecides(s)
      PROVE  (\E c \in attempts : Follows(b, c)) \/ Begins(b)
  BY <1>6, AttemptBegins DEF Scan, CleanupDecides, Life!BeginStopAttempt,
     Life!BeginShutdownAttempt
<1> QED
  BY <1>1, <1>2, <1>3, <1>4, <1>5, <1>6, StepCases DEF OtherStep, CleanupStep

\* Once the gate is drained nothing is left of the requests but the end of
\* those that are proxied, and new ones are refused.
LEMMA AfterDrain ==
  ASSUME RequestsOK, DrainInOrder, drain = "drained", [Next]_vars
  PROVE  /\ drain' = "drained"
         /\ \A r \in Requests : stage[r] \notin AdmittedStages
         /\ \/ OtherStep \/ Tick
            \/ \E r \in Requests : EndRequest(r)
            \/ UNCHANGED <<wakeVars, lifeVars>>
<1>1. \A r \in Requests : stage[r] \notin AdmittedStages
  BY DEF DrainInOrder, RequestsOK, AdmissionsAreHeld
<1>2. ASSUME NEW r \in Requests, RequestStep(r) PROVE FALSE
  BY <1>1, <1>2 DEF RequestStep, UnknownHost, NoteArrival, ProbeEnds,
     RequestLaunch, FinishCold, AcquireLease, FailBeforeProxying,
     StartProxying, DropAdmission, Move, AdmittedStages
<1>3. ASSUME NEW r \in Requests, NewContext(r)
      PROVE  UNCHANGED <<wakeVars, lifeVars>>
  BY <1>3 DEF NewContext
<1>4. drain' = "drained"
  <2>1. CASE \E r \in Requests : NewContext(r) \/ EndRequest(r)
    BY <2>1, RequestFrame
  <2>2. CASE OtherStep
    BY <2>2 DEF OtherStep, LaunchFinished, Scan, AttemptStep, ContinueAttempt,
       StartStop, RefuseStop, DiscardStop, FinishStop, CleanupStep,
       StartCleanup, FinishDrain, Prepare, CleanupDecides, CleanupGivesUp,
       FinishCleanup, CloseGate, RequestShutdown, HandOff, vars, gateVars,
       Gate!StartDrain, Gate!Drained, Gate!GaveUp, Gate!Close
  <2>3. CASE Tick
    BY <2>3 DEF Tick
  <2> QED BY <1>2, <2>1, <2>2, <2>3, StepCases
<1> QED BY <1>1, <1>2, <1>3, <1>4, StepCases

-----------------------------------------------------------------------------
(* Time: a request between two callbacks.                                  *)

\* A request step moves one request; the idle time of its service stays or
\* begins anew, and an arrival begins it anew.
LEMMA RequestAwakens ==
  ASSUME TypeOK, RoutesAreKept, NEW r \in Requests,
         NewContext(r) \/ RequestStep(r) \/ EndRequest(r)
  PROVE  /\ \A q \in Requests \ {r} :
                /\ stage'[q] = stage[q] /\ route'[q] = route[q]
                /\ probeIn'[q] = probeIn[q]
         /\ \A s \in Services : idleIn'[s] \in {idleIn[s], IdleTimeout}
         /\ stage'[r] \in RoutedStages \ {"proxying"} =>
                \/ /\ stage[r] \in RoutedStages \ {"proxying"}
                   /\ stage'[r] # "probing" /\ route'[r] = route[r]
                \/ /\ route'[r] \in Services /\ idleIn'[route'[r]] = IdleTimeout
                   /\ probeIn'[r] = ProbeTimeout
<1> USE DEF TypeOK, Life!TypeOK, Move, RoutedStages, lifeVars,
        Life!activityVars
<1>1. CASE \/ NewContext(r) \/ UnknownHost(r) \/ FinishCold(r)
           \/ FailBeforeProxying(r) \/ StartProxying(r)
  BY <1>1 DEF NewContext, UnknownHost, FinishCold, FailBeforeProxying,
     StartProxying, DropAdmission, Forget
<1>2. CASE ProbeEnds(r) \/ RequestLaunch(r)
  BY <1>2 DEF ProbeEnds, RequestLaunch
<1>3. CASE \E s \in Services : NoteArrival(r, s)
  BY <1>3 DEF NoteArrival, Life!NoteRequestArrival
<1>4. CASE AcquireLease(r)
  BY <1>4 DEF AcquireLease, Life!Acquire
<1>5. CASE EndRequest(r)
  BY <1>5 DEF EndRequest, Forget, Life!Release
<1> QED BY <1>1, <1>2, <1>3, <1>4, <1>5 DEF RequestStep

LEMMA AwakeStep ==
  ASSUME TypeOK, RoutesAreKept, ArrivalsKeepAwake, [Next]_vars
  PROVE  ArrivalsKeepAwake'
<1> SUFFICES ASSUME Timely PROVE ArrivalsKeepAwake'
  BY DEF ArrivalsKeepAwake
<1> USE DEF ArrivalsKeepAwake
<1>0. /\ ProbeTimeout \in Nat /\ IdleTimeout \in Nat /\ ProbeTimeout < IdleTimeout
      /\ idleIn \in [Services -> 0 .. IdleTimeout]
      /\ probeIn \in [Requests -> 0 .. ProbeTimeout]
      /\ \A r \in Requests :
             stage[r] \in RoutedStages \ {"proxying"} => route[r] \in Services
  BY GatewayAssumption DEF TypeOK, Life!TypeOK, RoutesAreKept
<1>1. CASE OtherStep
  BY <1>1, OtherFrame
<1>2. CASE Tick
  <2> SUFFICES ASSUME NEW r \in Requests,
                      stage[r] \in RoutedStages \ {"proxying"}
               PROVE  idleIn'[route[r]] >
                          IF stage[r] = "probing" THEN probeIn'[r] ELSE 0
    BY <1>2 DEF Tick
  <2>1. stage[r] = "probing" /\ probeIn[r] # 0
    BY <1>2 DEF Tick, Due, RoutedStages
  <2>2. /\ probeIn'[r] = probeIn[r] - 1
        /\ idleIn'[route[r]] =
               IF idleIn[route[r]] > 0 THEN idleIn[route[r]] - 1 ELSE 0
    BY <1>0, <1>2, <2>1 DEF Tick, CountDown, Life!Tick, Life!CountDown
  <2> QED BY <1>0, <2>1, <2>2
<1>3. ASSUME NEW r \in Requests, NewContext(r) \/ RequestStep(r) \/ EndRequest(r)
      PROVE  ArrivalsKeepAwake'
  <2> SUFFICES ASSUME NEW q \in Requests,
                      stage'[q] \in RoutedStages \ {"proxying"}
               PROVE  idleIn'[route'[q]] >
                          IF stage'[q] = "probing" THEN probeIn'[q] ELSE 0
    OBVIOUS
  <2>1. CASE q # r
    BY <1>0, <1>3, <2>1, RequestAwakens
  <2>2. CASE q = r
    BY <1>0, <1>3, <2>2, RequestAwakens
  <2> QED BY <2>1, <2>2
<1> QED BY <1>1, <1>2, <1>3, StepCases

\* An admission is given while the gate is open, and what becomes of it
\* afterwards is bounded by its probe.
LEMMA AdmissionStep ==
  ASSUME TypeOK, RequestsOK, DrainInOrder, AdmissionsEndInTime, [Next]_vars
  PROVE  AdmissionsEndInTime'
<1> SUFFICES ASSUME Timely PROVE AdmissionsEndInTime'
  BY DEF AdmissionsEndInTime
<1> USE DEF AdmissionsEndInTime
<1>0. /\ ProbeTimeout \in Nat /\ DrainTimeout \in Nat /\ ProbeTimeout < DrainTimeout
      /\ drainIn \in 0 .. DrainTimeout
      /\ probeIn \in [Requests -> 0 .. ProbeTimeout]
      /\ held = {r \in Requests : stage[r] \in AdmittedStages}
  BY GatewayAssumption DEF TypeOK, RequestsOK, AdmissionsAreHeld
<1>1. ASSUME UNCHANGED <<drain, drainIn, stage, probeIn, held>>
      PROVE  AdmissionsEndInTime'
  BY <1>1
<1>2. ASSUME NEW a \in attempts, AttemptStep(a) PROVE AdmissionsEndInTime'
  BY <1>1, <1>2 DEF AttemptStep, ContinueAttempt, StartStop, RefuseStop,
     DiscardStop, FinishStop, gateVars, requestVars, shutdownVars
<1>3. ASSUME NEW s \in Services,
             \/ LaunchFinished(s) \/ Scan(s) \/ Prepare(s)
             \/ CleanupDecides(s) \/ CleanupGivesUp(s)
      PROVE  AdmissionsEndInTime'
  BY <1>1, <1>3 DEF LaunchFinished, Scan, Prepare, CleanupDecides,
     CleanupGivesUp, gateVars, requestVars, shutdownVars
<1>4. CASE \/ FinishCleanup \/ CloseGate \/ RequestShutdown \/ HandOff
           \/ UNCHANGED vars
  BY <1>1, <1>4 DEF FinishCleanup, CloseGate, Gate!Close, RequestShutdown,
     HandOff, vars, gateVars, requestVars, shutdownVars
<1>5. CASE StartCleanup
  BY <1>0, <1>5 DEF StartCleanup, Gate!StartDrain, requestVars
<1>6. CASE FinishDrain
  <2>1. ASSUME Gate!GaveUp PROVE FALSE
    BY <1>0, <2>1 DEF Gate!GaveUp, DrainInOrder
  <2> QED BY <1>6, <2>1 DEF FinishDrain, Gate!Drained
<1>7. CASE Tick
  <2>1. UNCHANGED <<drain, held, stage>>
    BY <1>7 DEF Tick
  <2> SUFFICES ASSUME drain = "waiting", NEW r \in held
               PROVE  drainIn' > IF stage[r] = "admitted" THEN ProbeTimeout
                                 ELSE IF stage[r] = "probing" THEN probeIn'[r]
                                 ELSE 0
    BY <2>1
  <2>2. r \in Requests /\ stage[r] = "probing" /\ probeIn[r] # 0
    BY <1>0, <1>7 DEF Tick, Due, AdmittedStages
  <2>3. probeIn'[r] = probeIn[r] - 1 /\ drainIn' = drainIn - 1
    BY <1>0, <1>7, <2>2 DEF Tick, CountDown
  <2> QED BY <1>0, <2>2, <2>3
<1>8. ASSUME NEW r \in Requests, NewContext(r) \/ RequestStep(r) \/ EndRequest(r)
      PROVE  AdmissionsEndInTime'
  <2>1. /\ UNCHANGED <<drain, drainIn>>
        /\ drain = "waiting" => held' \subseteq held
    BY <1>8, RequestFrame DEF shutdownVars, DrainInOrder
  <2> SUFFICES ASSUME drain = "waiting", NEW q \in held'
               PROVE  drainIn > IF stage'[q] = "admitted" THEN ProbeTimeout
                                ELSE IF stage'[q] = "probing" THEN probeIn'[q]
                                ELSE 0
    BY <2>1
  <2>2. q \in held /\ q \in Requests /\ stage[q] \in AdmittedStages
    BY <1>0, <2>1
  <2>3. CASE stage'[q] = stage[q] /\ probeIn'[q] = probeIn[q]
    BY <1>0, <2>2, <2>3
  <2>4. CASE /\ stage[q] = "admitted" /\ stage'[q] = "probing"
             /\ probeIn'[q] = ProbeTimeout
    BY <1>0, <2>2, <2>4
  <2>5. CASE stage'[q] \notin {"admitted", "probing"}
    BY <1>0, <2>2, <2>5
  <2>6. \/ stage'[q] = stage[q] /\ probeIn'[q] = probeIn[q]
        \/ /\ stage[q] = "admitted" /\ stage'[q] = "probing"
           /\ probeIn'[q] = ProbeTimeout
        \/ stage'[q] \notin {"admitted", "probing"}
    <3>1. ~NewContext(r) \/ q # r
      BY <2>2 DEF NewContext, Move, AdmittedStages
    <3>2. stage \in [Requests -> Stages]
      BY DEF RequestsOK
    <3> QED
      BY <1>0, <1>8, <2>2, <3>1, <3>2 DEF NewContext, RequestStep, EndRequest,
         UnknownHost, NoteArrival, ProbeEnds, RequestLaunch, FinishCold,
         AcquireLease, FailBeforeProxying, StartProxying, DropAdmission, Move
  <2> QED BY <2>3, <2>4, <2>5, <2>6
<1> QED
  BY <1>2, <1>3, <1>4, <1>5, <1>6, <1>7, <1>8, StepCases
     DEF OtherStep, CleanupStep

-----------------------------------------------------------------------------
(* Stop attempts and requests.                                             *)

\* A launch begins only for a cold request.
LEMMA LaunchesAreRequested ==
  ASSUME TypeOK, RoutesAreKept, [Next]_vars, NEW s \in Services,
         launch'[s] = "Launching", launch[s] # "Launching"
  PROVE  \E r \in Requests :
             stage[r] = "cold" /\ route[r] = s /\ UNCHANGED lifeVars
<1> USE DEF TypeOK, Wake!TypeOK
<1>1. ~UNCHANGED wakeVars /\ ~Wake!Tick
  BY DEF wakeVars, Wake!Tick
<1>2. ASSUME NEW t \in Services,
             Wake!LaunchFinished(t) \/ Wake!AllowLaunchAfterStop(t)
      PROVE  FALSE
  BY <1>2 DEF Wake!LaunchFinished, Wake!AllowLaunchAfterStop
<1>3. \A a \in attempts : a.service \in Services
  BY DEF Life!TypeOK, Life!StopAttempts
<1>4. PICK r \in Requests : /\ stage[r] = "cold" /\ route[r] \in Services
                            /\ Wake!RequestLaunch(route[r])
                            /\ UNCHANGED lifeVars
  BY <1>1, <1>2, <1>3, WakeCases
<1>5. route[r] = s
  BY <1>4 DEF Wake!RequestLaunch, Wake!vars
<1> QED BY <1>4, <1>5

\* After the drain a quiet service is left alone.
LEMMA QuietStaysQuiet ==
  ASSUME TypeOK, RequestsOK, DrainInOrder, drain = "drained", [Next]_vars,
         NEW s \in Services, inFlight[s] = 0, launch[s] # "Launching"
  PROVE  /\ drain' = "drained"
         /\ generation'[s] = generation[s] /\ inFlight'[s] = 0
         /\ launch'[s] # "Launching"
<1>1. drain' = "drained" /\ launch'[s] # "Launching"
  BY AfterDrain, LaunchesAreRequested DEF RequestsOK, AdmittedStages
<1>2. CASE OtherStep \/ Tick \/ UNCHANGED <<wakeVars, lifeVars>>
  BY <1>1, <1>2, OtherFrame DEF Tick, Life!Tick, lifeVars
<1>3. ASSUME NEW r \in Requests, EndRequest(r)
      PROVE  generation'[s] = generation[s] /\ inFlight'[s] = 0
  BY <1>3 DEF EndRequest, Life!Release, Life!NewGeneration, TypeOK, Life!TypeOK
<1> QED BY <1>1, <1>2, <1>3, AfterDrain

LEMMA UndisturbedStep ==
  ASSUME TypeOK, RequestsOK, DrainInOrder, CleanupInOrder,
         ShutdownStopsAreUndisturbed, [Next]_vars
  PROVE  ShutdownStopsAreUndisturbed'
<1> SUFFICES ASSUME NEW b \in attempts', ~b.requiresIdle
             PROVE  /\ drain' = "drained"
                    /\ b.phase # "stopping" =>
                           /\ generation'[b.service] = b.generation
                           /\ inFlight'[b.service] = 0
                           /\ launch'[b.service] # "Launching"
  BY DEF ShutdownStopsAreUndisturbed
<1>1. CASE Begins(b)
  <2>1. /\ drain = "drained" /\ b.service \in Services
        /\ generation[b.service] = b.generation
        /\ inFlight[b.service] = 0 /\ launch[b.service] # "Launching"
    BY <1>1 DEF Begins, Life!Occupied, CleanupInOrder
  <2> QED BY <2>1, QuietStaysQuiet
<1>2. ASSUME NEW a \in attempts, Follows(b, a)
      PROVE  /\ drain' = "drained"
             /\ b.phase # "stopping" =>
                    /\ generation'[b.service] = b.generation
                    /\ inFlight'[b.service] = 0
                    /\ launch'[b.service] # "Launching"
  <2>1. drain = "drained" /\ b.service \in Services
    BY <1>2 DEF Follows, ShutdownStopsAreUndisturbed, TypeOK, Life!TypeOK,
       Life!StopAttempts
  <2>2. b.phase # "stopping" =>
            /\ generation[b.service] = b.generation
            /\ inFlight[b.service] = 0 /\ launch[b.service] # "Launching"
    BY <1>2 DEF Follows, ShutdownStopsAreUndisturbed
  <2> QED BY <2>1, <2>2, QuietStaysQuiet, AfterDrain
<1> QED BY <1>1, <1>2, AttemptsEvolve DEF TypeOK

\* No request is on its way to a service whose stop is being sent, ...
LEMMA NothingOnTheWay ==
  ASSUME RequestsOK, Alone!StopOnlyWhenQuiet, DrainInOrder,
         ShutdownStopsAreUndisturbed, ArrivalsKeepAwake,
         NEW a \in attempts, a.phase = "locked", Timely \/ ~a.requiresIdle,
         NEW r \in Requests, stage[r] \in RoutedStages \ {"proxying"}
  PROVE  route[r] # a.service
<1>1. CASE ~a.requiresIdle
  <2>1. held = {}
    BY <1>1 DEF ShutdownStopsAreUndisturbed, DrainInOrder
  <2> QED
    BY <2>1 DEF RequestsOK, AdmissionsAreHeld, AdmittedStages, RoutedStages
<1>2. CASE a.requiresIdle
  <2>1. Timely /\ idleIn[a.service] = 0
    BY <1>2 DEF Alone!StopOnlyWhenQuiet
  <2>2. /\ stage[r] = "probing" => probeIn[r] \in Nat
        /\ idleIn[route[r]] > IF stage[r] = "probing" THEN probeIn[r] ELSE 0
    BY <2>1, GatewayAssumption DEF RequestsOK, ArrivalsKeepAwake
  <2> QED BY <2>1, <2>2
<1> QED BY <1>1, <1>2 

\* ... so nobody launches it meanwhile.
LEMMA LockedStep ==
  ASSUME TypeOK, RequestsOK, Alone!StopOnlyWhenQuiet, DrainInOrder,
         ShutdownStopsAreUndisturbed, ArrivalsKeepAwake, LockedIsNotLaunching,
         [Next]_vars
  PROVE  LockedIsNotLaunching'
<1> SUFFICES ASSUME NEW b \in attempts', b.phase = "locked",
                    Timely \/ ~b.requiresIdle, launch'[b.service] = "Launching"
             PROVE  FALSE
  BY DEF LockedIsNotLaunching
<1>1. PICK a \in attempts : Follows(b, a)
  BY AttemptsEvolve DEF Begins, TypeOK
<1>2. b.service \in Services /\ launch[b.service] # "Launching"
  BY <1>1 DEF Follows, LockedIsNotLaunching, Life!Obsolete, TypeOK,
     Life!TypeOK, Life!StopAttempts
<1>3. PICK r \in Requests :
          stage[r] = "cold" /\ route[r] = b.service /\ UNCHANGED lifeVars
  BY <1>2, LaunchesAreRequested DEF RequestsOK
<1>4. b \in attempts
  BY <1>3 DEF lifeVars
<1> QED BY <1>3, <1>4, NothingOnTheWay DEF RoutedStages

-----------------------------------------------------------------------------
(* No service falls through the cleanup.                                   *)

Accounted(s) ==
    \/ s \in polling
    \/ \E a \in attempts : a.service = s
    \/ stopsSent[s] = 1
    \/ s \in excused \cup overtaken

\* A task that moves on is still there.
LEMMA MoveKeepsTask ==
  ASSUME Life!TypeOK, NEW a \in attempts, NEW p \in Life!Phases,
         Life!MoveTo(a, p), NEW s \in Services, \E c \in attempts : c.service = s
  PROVE  \E c \in attempts' : c.service = s
<1>1. [a EXCEPT !.phase = p].service = a.service
  BY DEF Life!TypeOK, Life!StopAttempts
<1> QED BY <1>1 DEF Life!MoveTo

\* A stop task leaves its service stopped, excused or overtaken.
LEMMA AttemptAccounts ==
  ASSUME TypeOK, Alone!StopsSettle, drain = "drained",
         ShutdownStopsAreUndisturbed, NEW a \in attempts, AttemptStep(a),
         NEW s \in Services \ toPrepare, Accounted(s)
  PROVE  Accounted(s)'
<1> USE DEF Accounted, shutdownVars
<1>0. Life!TypeOK /\ {"allowed", "locked", "stopping"} \subseteq Life!Phases
  BY DEF TypeOK, Life!Phases
<1>1. CASE ContinueAttempt(a)
  <2>1. /\ UNCHANGED <<polling, stopsSent, excused, overtaken>>
        /\ Life!MoveTo(a, "allowed") \/ Life!MoveTo(a, "locked")
    BY <1>1 DEF ContinueAttempt, Life!CheckAllows, Life!Decide, Life!historyVars
  <2> QED BY <1>0, <2>1, MoveKeepsTask
<1>2. CASE StartStop(a)
  <2>1. /\ UNCHANGED <<polling, excused, overtaken>>
        /\ Life!MoveTo(a, "stopping")
        /\ stopsSent' = [stopsSent EXCEPT ![a.service] = @ + 1]
    BY <1>2 DEF StartStop, Life!StartStop
  <2>2. CASE s = a.service
    BY <1>0, <2>1, <2>2, MoveKeepsTask
  <2>3. CASE s # a.service
    BY <1>0, <2>1, <2>3, MoveKeepsTask
  <2> QED BY <2>2, <2>3
<1>3. ASSUME attempts' = attempts \ {a}, UNCHANGED <<polling, stopsSent>>,
             excused \subseteq excused', overtaken \subseteq overtaken',
             s = a.service => s \in excused' \cup overtaken' \/ stopsSent[s] = 1
      PROVE  Accounted(s)'
  BY <1>3
<1>4. CASE RefuseStop(a)
  <2>1. attempts' = attempts \ {a} /\ UNCHANGED <<polling, stopsSent, overtaken>>
    BY <1>4 DEF RefuseStop, Life!CheckRefuses, Life!StopNotStarted,
       Life!EndAttempt, Life!historyVars
  <2>2. excused \subseteq excused' /\ (s = a.service => s \in excused')
    BY <1>4 DEF RefuseStop, Excuse
  <2> QED BY <1>3, <2>1, <2>2
<1>5. CASE DiscardStop(a)
  <2>1. attempts' = attempts \ {a} /\ UNCHANGED <<polling, stopsSent, overtaken>>
    BY <1>5 DEF DiscardStop, Life!Discard, Life!EndAttempt, Life!historyVars
  <2>2. Life!Obsolete(a) /\ a.phase = "allowed" /\ a.service \in Services
    BY <1>0, <1>5 DEF DiscardStop, Life!Discard, Life!TypeOK, Life!StopAttempts
  <2>3. a.requiresIdle
    BY <2>2 DEF Life!Obsolete, ShutdownStopsAreUndisturbed
  <2>4. excused \subseteq excused' /\ (s = a.service => s \in excused')
    BY <1>5, <2>3 DEF DiscardStop, Excuse
  <2> QED BY <1>3, <2>1, <2>4
<1>6. CASE FinishStop(a)
  <2>1. /\ attempts' = attempts \ {a} /\ UNCHANGED <<polling, stopsSent, excused>>
        /\ a.phase = "stopping"
    BY <1>6 DEF FinishStop, Life!FinishStop, Life!EndAttempt, Life!historyVars
  <2>2. overtaken' = IF a.service \notin toPrepare
                           /\ generation[a.service] # a.generation
                     THEN overtaken \cup {a.service} ELSE overtaken
    BY <1>6 DEF FinishStop
  <2>3. generation[a.service] = a.generation => stopsSent[a.service] = 1
    BY <2>1 DEF Alone!StopsSettle
  <2> QED BY <1>3, <2>1, <2>2, <2>3
<1> QED BY <1>1, <1>2, <1>4, <1>5, <1>6 DEF AttemptStep

\* Prepare and the two ends of a cleanup task account for their service.
LEMMA CleanupAccounts ==
  ASSUME TypeOK, Alone!IInv, CleanupInOrder, NEW t \in Services,
         Prepare(t) \/ CleanupDecides(t) \/ CleanupGivesUp(t),
         \A s \in Services \ toPrepare : Accounted(s)
  PROVE  \A s \in Services \ toPrepare' : Accounted(s)'
<1> USE DEF Accounted
<1>1. CASE Prepare(t)
  <2>1. attemptInProgress[t] => \E a \in attempts : a.service = t
    BY DEF Alone!IInv, Alone!OneAttemptPerService
  <2>2. Life!AlreadySignalled(t) => stopsSent[t] = 1
    BY DEF Life!AlreadySignalled, Alone!IInv, Alone!StopIsRemembered
  <2>3. /\ toPrepare' = toPrepare \ {t} /\ polling \subseteq polling'
        /\ t \in polling' \/ attemptInProgress[t] \/ Life!AlreadySignalled(t)
        /\ UNCHANGED <<attempts, stopsSent, excused, overtaken>>
    BY <1>1 DEF Prepare, lifeVars
  <2> QED BY <2>1, <2>2, <2>3
<1>2. CASE CleanupDecides(t)
  <2> DEFINE new == [service |-> t, generation |-> generation[t],
                     requiresIdle |-> FALSE,
                     phase |-> IF t \in Checked THEN "checking" ELSE "allowed"]
  <2>1. attempts' = attempts \cup {new} /\ UNCHANGED stopsSent
    BY <1>2 DEF CleanupDecides, Life!BeginShutdownAttempt, Life!BeginAttempt
  <2>2. polling' = polling \ {t} /\ UNCHANGED <<toPrepare, excused, overtaken>>
    BY <1>2 DEF CleanupDecides
  <2>3. new.service = t
    OBVIOUS
  <2> HIDE DEF new
  <2> QED BY <2>1, <2>2, <2>3
<1>3. CASE CleanupGivesUp(t)
  BY <1>3 DEF CleanupGivesUp, Excuse, lifeVars, CleanupInOrder
<1> QED BY <1>1, <1>2, <1>3

LEMMA DecidedStep ==
  ASSUME TypeOK, RequestsOK, Alone!IInv, Alone!StopsSettle, DrainInOrder,
         CleanupInOrder, ShutdownStopsAreUndisturbed, PreparedAreDecided,
         [Next]_vars
  PROVE  PreparedAreDecided'
<1>1. PreparedAreDecided <=>
          (drain = "drained" => \A s \in Services \ toPrepare : Accounted(s))
  BY DEF PreparedAreDecided, Accounted
<1>2. SUFFICES ASSUME drain' = "drained"
               PROVE  \A s \in Services \ toPrepare' : Accounted(s)'
  BY DEF PreparedAreDecided, Accounted
<1>3. ASSUME NEW r \in Requests, NewContext(r) \/ RequestStep(r) \/ EndRequest(r)
      PROVE  \A s \in Services \ toPrepare' : Accounted(s)'
  <2>1. drain = "drained" /\ UNCHANGED <<shutdownVars, attempts>>
    BY <1>2, <1>3, RequestFrame
  <2>2. UNCHANGED stopsSent \/ \E q \in Requests : EndRequest(q)
    <3>1. ~RequestStep(r)
      BY <2>1 DEF DrainInOrder, RequestsOK, AdmissionsAreHeld, AdmittedStages,
         RequestStep, UnknownHost, NoteArrival, ProbeEnds, RequestLaunch,
         FinishCold, AcquireLease, FailBeforeProxying, StartProxying,
         DropAdmission, Move
    <3> QED BY <1>3, <3>1 DEF NewContext, lifeVars
  <2>3. \A s \in Services : stopsSent[s] = 1 => stopsSent'[s] = 1
    BY <2>2 DEF EndRequest, Life!Release, Life!RecordActivity,
       Alone!StopsSettle, TypeOK, Life!TypeOK
  <2> QED BY <1>1, <2>1, <2>3 DEF Accounted, shutdownVars
<1>4. ASSUME NEW a \in attempts, AttemptStep(a)
      PROVE  \A s \in Services \ toPrepare' : Accounted(s)'
  <2>1. UNCHANGED <<drain, toPrepare>>
    BY <1>4 DEF AttemptStep, ContinueAttempt, StartStop, RefuseStop,
       DiscardStop, FinishStop, shutdownVars, gateVars
  <2> QED BY <1>1, <1>2, <1>4, <2>1, AttemptAccounts
<1>5. ASSUME NEW s \in Services,
             Prepare(s) \/ CleanupDecides(s) \/ CleanupGivesUp(s)
      PROVE  \A t \in Services \ toPrepare' : Accounted(t)'
  <2>1. UNCHANGED drain
    BY <1>5 DEF Prepare, CleanupDecides, CleanupGivesUp, gateVars
  <2> QED BY <1>1, <1>2, <1>5, <2>1, CleanupAccounts
<1>6. CASE FinishDrain
  <2>1. toPrepare' = Services
    BY <1>6 DEF FinishDrain, DrainInOrder, CleanupInOrder
  <2> QED BY <2>1
<1>7. ASSUME drain = "drained", attempts \subseteq attempts',
             UNCHANGED <<toPrepare, polling, excused, overtaken, stopsSent>>
      PROVE  \A s \in Services \ toPrepare' : Accounted(s)'
  BY <1>1, <1>7 DEF Accounted
<1>8. ASSUME NEW s \in Services, LaunchFinished(s) \/ Scan(s)
      PROVE  \A t \in Services \ toPrepare' : Accounted(t)'
  BY <1>2, <1>7, <1>8 DEF LaunchFinished, Scan, Life!BeginStopAttempt,
     Life!BeginAttempt, lifeVars, shutdownVars, gateVars
<1>9. CASE \/ StartCleanup \/ FinishCleanup \/ CloseGate \/ RequestShutdown
           \/ HandOff \/ Tick \/ UNCHANGED vars
  BY <1>2, <1>7, <1>9 DEF StartCleanup, Gate!StartDrain, FinishCleanup,
     CloseGate, Gate!Close, RequestShutdown, HandOff, Tick, Life!Tick,
     Life!historyVars, vars, lifeVars, shutdownVars, gateVars
<1> QED
  BY <1>3, <1>4, <1>5, <1>6, <1>8, <1>9, StepCases DEF OtherStep, CleanupStep

-----------------------------------------------------------------------------
(* The invariant holds.                                                    *)

LEMMA TypesAgree == Life!TypeOK <=> Alone!TypeOK
BY DEF Life!TypeOK, Alone!TypeOK, Life!StopAttempts, Alone!StopAttempts,
   Life!Phases, Alone!Phases

\* Where the parts of the invariant come from.
LEMMA Parts ==
  IInv <=>
    /\ RequestsOK /\ ShutdownTypes /\ Wake!TypeOK
    /\ Alone!IInv /\ Alone!StopsSettle
    /\ LeasesMatchRequests /\ LeasesAreFinite
    /\ DrainInOrder /\ CleanupInOrder
    /\ ShutdownStopsAreUndisturbed
    /\ ArrivalsKeepAwake
    /\ LockedIsNotLaunching
    /\ AdmissionsEndInTime
    /\ PreparedAreDecided
BY TypesAgree DEF IInv, TypeOK, RequestsOK, ShutdownTypes, Alone!IInv

LEMMA InitEstablishes == Init => IInv
<1> SUFFICES ASSUME Init PROVE IInv
  OBVIOUS
<1> USE GatewayAssumption DEF Init
<1>1. Alone!IInv /\ Alone!StopsSettle
  <2>1. /\ Checked \subseteq Services /\ 0 \in Nat
        /\ IdleTimeout \in Nat \ {0} /\ CheckRetry \in Nat \ {0}
    OBVIOUS
  <2>2. Alone!Init
    BY DEF Life!Init, Alone!Init
  <2> QED BY <2>1, <2>2, Alone!InitInvariant, Alone!InitSettled
<1>2. Wake!TypeOK
  BY DEF Wake!Init, Wake!TypeOK, Wake!LaunchStates
<1>3. RequestsOK
  BY DEF RequestsOK, Stages, RoutesAreKept, RoutedStages, AdmissionsAreHeld,
     AdmittedStages, Gate!Init
<1>4. ShutdownTypes
  <2>1. Gate!TypeOK
    BY DEF Gate!Init, Gate!TypeOK, Gate!Outcomes
  <2>2. drainIn \in 0 .. DrainTimeout
    OBVIOUS
  <2> QED BY <2>1, <2>2 DEF ShutdownTypes
<1>5. LeasesMatchRequests /\ LeasesAreFinite
  <2>1. \A s \in Services : Leased(s) = {}
    BY DEF Leased
  <2>2. \A s \in Services : inFlight[s] = 0
    BY DEF Life!Init
  <2> QED
    BY <2>1, <2>2, FS_EmptySet DEF LeasesMatchRequests, LeasesAreFinite, Leased
<1>6. DrainInOrder /\ CleanupInOrder
  BY DEF DrainInOrder, CleanupInOrder, Gate!Init
<1>7. /\ ShutdownStopsAreUndisturbed /\ ArrivalsKeepAwake
      /\ LockedIsNotLaunching /\ AdmissionsEndInTime /\ PreparedAreDecided
  BY DEF ShutdownStopsAreUndisturbed, ArrivalsKeepAwake, RoutedStages,
     LockedIsNotLaunching, AdmissionsEndInTime, PreparedAreDecided,
     Life!Init, Gate!Init
<1> QED BY <1>1, <1>2, <1>3, <1>4, <1>5, <1>6, <1>7, Parts

LEMMA StepKeeps == IInv /\ [Next]_vars => IInv'
<1> SUFFICES ASSUME IInv, [Next]_vars PROVE IInv'
  OBVIOUS
<1>0. /\ TypeOK /\ Life!TypeOK /\ inFlight \in [Services -> Nat]
      /\ drainIn \in Nat /\ toPrepare \subseteq Services
      /\ RoutesAreKept /\ Alone!StopOnlyWhenQuiet
  BY GatewayAssumption DEF IInv, TypeOK, Life!TypeOK, Alone!IInv
<1>1. /\ RequestsOK /\ ShutdownTypes /\ Wake!TypeOK
      /\ Alone!IInv /\ Alone!StopsSettle
      /\ LeasesMatchRequests /\ LeasesAreFinite
      /\ DrainInOrder /\ CleanupInOrder
      /\ ShutdownStopsAreUndisturbed /\ ArrivalsKeepAwake
      /\ LockedIsNotLaunching /\ AdmissionsEndInTime /\ PreparedAreDecided
  BY Parts
<1>2. RequestsOK' /\ ShutdownTypes' /\ Wake!TypeOK'
  BY <1>0, <1>1, RequestsStep, ShutdownTypesStep, WakeTypes
<1>3. Alone!IInv' /\ Alone!StopsSettle'
  BY <1>0, <1>1, LifeStep, AloneStep
<1>4. LeasesMatchRequests' /\ LeasesAreFinite'
  BY <1>0, <1>1, LeaseStep
<1>5. DrainInOrder' /\ CleanupInOrder'
  BY <1>0, <1>1, DrainStep, CleanupStepKeepsOrder
<1>6. ShutdownStopsAreUndisturbed' /\ LockedIsNotLaunching'
  BY <1>0, <1>1, UndisturbedStep, LockedStep
<1>7. ArrivalsKeepAwake' /\ AdmissionsEndInTime'
  BY <1>0, <1>1, AwakeStep, AdmissionStep
<1>8. PreparedAreDecided'
  BY <1>0, <1>1, DecidedStep
<1>9. TypeOK'
  BY <1>2, <1>3 DEF TypeOK, RequestsOK, ShutdownTypes, Alone!IInv,
     Life!TypeOK, Alone!TypeOK, Life!StopAttempts, Alone!StopAttempts,
     Life!Phases, Alone!Phases
<1> QED
  BY <1>2, <1>3, <1>4, <1>5, <1>6, <1>7, <1>8, <1>9 DEF IInv, RequestsOK

LEMMA Invariance == Spec => []IInv
BY InitEstablishes, StepKeeps, PTL DEF Spec

-----------------------------------------------------------------------------
(* Theorems.                                                               *)

\* Types, for any services, requests and timing.
THEOREM TypeCorrect == Spec => []TypeOK
<1>1. IInv => TypeOK
  BY DEF IInv
<1> QED BY <1>1, Invariance, PTL

\* Every proxied request has one lease and every lease its request, through
\* every end a request can have (proxy.rs logging and the drop of a context).
THEOREM LeasesAreTheRequests == Spec => []LeasesMatchRequests
<1>1. IInv => LeasesMatchRequests
  BY DEF IInv
<1> QED BY <1>1, Invariance, PTL

\* No stop is sent while a request is between its arrival and its end, or a
\* kickstart under way (lifecycle.rs start_allowed_attempt_at): for a stop of
\* the shutdown always, for an idle stop if requests are scheduled in time.
THEOREM NoRequestIsStopped == Spec => []NoStopUnderRequest
<1>1. ASSUME IInv PROVE NoStopUnderRequest
  <2> SUFFICES ASSUME NEW a \in attempts, a.phase = "locked",
                      Timely \/ ~a.requiresIdle
               PROVE  /\ launch[a.service] # "Launching"
                      /\ \A r \in Requests : route[r] # a.service
    BY DEF NoStopUnderRequest
  <2>1. /\ RequestsOK /\ Alone!StopOnlyWhenQuiet /\ DrainInOrder
        /\ ShutdownStopsAreUndisturbed /\ ArrivalsKeepAwake
    BY <1>1, Parts DEF Alone!IInv
  <2>2. a.service \in Services /\ a.service # NoService
    BY <1>1, GatewayAssumption DEF IInv, TypeOK, Life!TypeOK, Life!StopAttempts
  <2>3. inFlight[a.service] = 0
    BY <2>1 DEF Alone!StopOnlyWhenQuiet
  <2>4. ASSUME NEW r \in Requests, route[r] = a.service PROVE FALSE
    <3>1. stage[r] = "proxying"
      BY <2>1, <2>2, <2>4, NothingOnTheWay
         DEF RequestsOK, RoutesAreKept, RoutedStages
    <3>2. r \in Leased(a.service)
      BY <2>4, <3>1 DEF Leased
    <3>3. IsFiniteSet(Leased(a.service)) /\ Cardinality(Leased(a.service)) = 0
      BY <1>1, <2>2, <2>3 DEF IInv, LeasesMatchRequests, LeasesAreFinite, Leased
    <3> QED BY <3>2, <3>3, FS_EmptySet
  <2>5. launch[a.service] # "Launching"
    BY <1>1 DEF IInv, LockedIsNotLaunching
  <2> QED BY <2>4, <2>5
<1> QED BY <1>1, Invariance, PTL

\* With timely scheduling the cleanup never gives up on the gate.
THEOREM DrainNeverGivesUp ==
  ASSUME Timely PROVE Spec => []AdmissionsDrainInTime
<1>1. IInv => AdmissionsDrainInTime
  BY DEF IInv, AdmissionsEndInTime, AdmissionsDrainInTime
<1> QED BY <1>1, Invariance, PTL

\* A cleanup that ends after a drain has decided every service (lifecycle.rs
\* cleanup_at_shutdown, prepare_shutdown, cleanup_service_at_shutdown).
THEOREM NoServiceIsForgotten == Spec => []CleanupDecidesEveryService
<1>1. ASSUME IInv, phase = "Completed", drain = "drained", NEW s \in Services
      PROVE  stopsSent[s] = 1 \/ s \in excused \cup overtaken
  <2>1. monitor = "finished" /\ polling = {} /\ attempts = {} /\ toPrepare = {}
    BY <1>1 DEF IInv, CleanupInOrder
  <2> QED BY <1>1, <2>1 DEF IInv, PreparedAreDecided
<1>2. IInv => CleanupDecidesEveryService
  BY <1>1 DEF CleanupDecidesEveryService
<1> QED BY <1>2, Invariance, PTL

\* Once the gate is drained, requests only end.
THEOREM DrainedMeansDrained == Spec => NothingArrivesAfterDrain
<1>1. ASSUME IInv, [Next]_vars, drain = "drained", NEW s \in Services
      PROVE  /\ kickstarts'[s] <= kickstarts[s]
             /\ generation'[s] # generation[s] => inFlight'[s] < inFlight[s]
  <2>0. RequestsOK /\ DrainInOrder /\ TypeOK
    BY <1>1, Parts DEF IInv
  <2> USE DEF TypeOK, Life!TypeOK, Wake!TypeOK
  <2>1. kickstarts'[s] <= kickstarts[s]
    <3>1. ASSUME UNCHANGED kickstarts PROVE kickstarts'[s] <= kickstarts[s]
      BY <2>0, <3>1
    <3>2. ASSUME NEW t \in Services, Wake!LaunchFinished(t)
          PROVE  kickstarts'[s] <= kickstarts[s]
      BY <2>0, <3>2 DEF Wake!LaunchFinished
    <3>3. \A r \in Requests : stage[r] # "cold"
      BY <1>1, <2>0, AfterDrain DEF AdmittedStages
    <3> QED
      BY <1>1, <2>0, <3>1, <3>2, <3>3, WakeCases
         DEF RequestsOK, wakeVars, Wake!Tick, Wake!AllowLaunchAfterStop
  <2>2. generation'[s] # generation[s] => inFlight'[s] < inFlight[s]
    <3>1. CASE OtherStep \/ Tick \/ UNCHANGED <<wakeVars, lifeVars>>
      BY <3>1, OtherFrame DEF Tick, Life!Tick, lifeVars
    <3>2. ASSUME NEW r \in Requests, EndRequest(r)
          PROVE  generation'[s] # generation[s] => inFlight'[s] < inFlight[s]
      BY <2>0, <3>2 DEF EndRequest, Life!Release, Life!NewGeneration
    <3> QED BY <1>1, <2>0, <3>1, <3>2, AfterDrain
  <2> QED BY <2>1, <2>2
<1>2. IInv /\ [Next]_vars =>
          [drain = "drained" =>
              \A s \in Services :
                  /\ kickstarts'[s] <= kickstarts[s]
                  /\ generation'[s] # generation[s] => inFlight'[s] < inFlight[s]
          ]_vars
  BY <1>1
<1> QED BY <1>2, Invariance, PTL DEF Spec, NothingArrivesAfterDrain

-----------------------------------------------------------------------------
(* The components, as the gateway uses them.                               *)

\* Whatever the threads do, the gate behaves as DrainBarrier promises: each
\* step of the gateway is one of its steps or leaves it alone, so what
\* RequestGate is shown to implement is what the cleanup relies on.
THEOREM GatewayKeepsBarrier == Spec => Gate!Spec
<1>1. Init => Gate!Init
  BY DEF Init
<1>2. ASSUME IInv, [Next]_vars PROVE [Gate!Next]_(Gate!vars)
  <2> USE DEF gateVars, Gate!vars
  <2>1. ASSUME NEW r \in Requests,
               NewContext(r) \/ RequestStep(r) \/ EndRequest(r)
        PROVE  [Gate!Next]_(Gate!vars)
    BY <2>1 DEF NewContext, RequestStep, EndRequest, UnknownHost, NoteArrival,
       ProbeEnds, RequestLaunch, FinishCold, AcquireLease, FailBeforeProxying,
       StartProxying, DropAdmission, Gate!Next
  <2>2. ASSUME NEW a \in attempts, AttemptStep(a) PROVE UNCHANGED gateVars
    BY <2>2 DEF AttemptStep, ContinueAttempt, StartStop, RefuseStop,
       DiscardStop, FinishStop
  <2>3. ASSUME NEW s \in Services,
               \/ LaunchFinished(s) \/ Scan(s) \/ Prepare(s)
               \/ CleanupDecides(s) \/ CleanupGivesUp(s)
        PROVE  UNCHANGED gateVars
    BY <2>3 DEF LaunchFinished, Scan, Prepare, CleanupDecides, CleanupGivesUp
  <2>4. CASE \/ StartCleanup \/ FinishDrain \/ FinishCleanup \/ CloseGate
             \/ RequestShutdown \/ HandOff \/ UNCHANGED vars
    BY <2>4 DEF StartCleanup, FinishDrain, FinishCleanup, CloseGate,
       RequestShutdown, HandOff, vars, Gate!Next
  <2>5. CASE Tick
    <3>1. UNCHANGED <<accepting, held, drain>>
      BY <2>5 DEF Tick
    <3>2. expired' = (drain # "none" /\ drainIn' = 0)
      BY <2>5 DEF Tick
    <3>3. expired => drain # "none" /\ drainIn' = 0
      BY <1>2, <2>5 DEF Tick, CountDown, IInv, DrainInOrder
    <3>4. expired \in BOOLEAN
      BY <1>2 DEF IInv, TypeOK, Gate!TypeOK
    <3> QED BY <3>1, <3>2, <3>3, <3>4 DEF Gate!Next, Gate!Expire
  <2> QED
    BY <1>2, <2>1, <2>2, <2>3, <2>4, <2>5, StepCases DEF OtherStep, CleanupStep
<1>3. IInv /\ [Next]_vars => [Gate!Next]_(Gate!vars)
  BY <1>2
<1> QED BY <1>1, <1>3, Invariance, PTL DEF Spec, Gate!Spec

\* The requests, the monitor and the cleanup drive each service's lifecycle
\* only through its operations and under its mutex: a behaviour of the
\* gateway is one of ServiceLifecycle, ...
THEOREM GatewayKeepsLifecycle == Spec => Life!Spec
<1>1. Init => Life!Init
  <2>1. ASSUME Wake!Init
        PROVE  [s \in Services |-> launch[s] = "Launching"]
                   = [s \in Services |-> FALSE]
    BY <2>1 DEF Wake!Init
  <2> QED BY <2>1 DEF Init
<1>2. IInv /\ [Next]_vars => [Life!Next]_(Life!vars)
  BY LifeStep DEF IInv
<1> QED BY <1>1, <1>2, Invariance, PTL DEF Spec, Life!Spec

\* ... so no idle period of a service sees two stops, whatever requests,
\* kickstarts, scans and cleanup do around it.
THEOREM OneStopWhateverHappens == Spec => []Life!AtMostOneStop
<1>1. IInv => Life!AtMostOneStop
  BY DEF IInv, Alone!IInv, Alone!StopIsRemembered, Life!AtMostOneStop
<1> QED BY <1>1, Invariance, PTL

\* With timely scheduling a stop is never reported to a wake target that is
\* launching, although the stop attempt has given up that target's mutex
\* since it looked: the contract under which kickstarts are unique is kept, ...
THEOREM StopsKeepWakeContract ==
  ASSUME Timely PROVE Spec => KeepsWakeContract
<1>1. Init => Wake!Init
  BY DEF Init
<1>2. ASSUME IInv, [Next]_vars PROVE [Wake!Next]_(Wake!vars)
  <2>1. ASSUME NEW a \in attempts, Wake!AllowLaunchAfterStop(a.service),
               Life!StartStop(a)
        PROVE  Wake!Next
    <3>1. a.service \in Services /\ launch[a.service] # "Launching"
      BY <1>2, <2>1 DEF IInv, LockedIsNotLaunching, Life!StartStop, TypeOK,
         Life!TypeOK, Life!StopAttempts
    <3> QED BY <2>1, <3>1 DEF Wake!Next, Wake!ReportStop, Wake!LaunchInProgress
  <2>2. RoutesAreKept
    BY <1>2 DEF IInv
  <2> QED BY <1>2, <2>1, <2>2, WakeCases DEF Wake!Next, wakeVars, Wake!vars
<1>3. IInv /\ [Next]_vars => [Wake!Next]_(Wake!vars)
  BY <1>2
<1> QED BY <1>1, <1>3, Invariance, PTL DEF Spec, KeepsWakeContract, Wake!Spec

-----------------------------------------------------------------------------
(* The wake targets on their own, under the contract of their callers.     *)

\* OneKickstart is inductive together with the types: the two writers of the
\* launch state that could break it, the end of a kickstart and the report of
\* a stop, are each tied to the state they may find.
WakeIInv == Wake!TypeOK /\ Wake!OneKickstart

LEMMA WakeInitEstablishes == Wake!Init => WakeIInv
  BY GatewayAssumption
     DEF Wake!Init, WakeIInv, Wake!TypeOK, Wake!OneKickstart,
         Wake!LaunchInProgress, Wake!LaunchStates

LEMMA LaunchKeeps ==
  ASSUME WakeIInv, NEW s \in Services, Wake!RequestLaunch(s)
  PROVE  WakeIInv'
<1> USE DEF WakeIInv, Wake!TypeOK, Wake!OneKickstart, Wake!LaunchInProgress
<1>1. CASE ~Wake!MayLaunch(s)
  BY <1>1 DEF Wake!RequestLaunch, Wake!vars
<1>2. CASE Wake!MayLaunch(s)
  <2>1. kickstarts[s] = 0
    BY <1>2 DEF Wake!MayLaunch
  <2>2. /\ launch' = [launch EXCEPT ![s] = "Launching"]
        /\ coolIn' = [coolIn EXCEPT ![s] = 0]
        /\ kickstarts' = [kickstarts EXCEPT ![s] = @ + 1]
    BY <1>2 DEF Wake!RequestLaunch
  <2> QED BY <2>1, <2>2, GatewayAssumption DEF Wake!LaunchStates
<1> QED BY <1>1, <1>2

LEMMA LaunchEndKeeps ==
  ASSUME WakeIInv, NEW s \in Services, Wake!LaunchFinished(s)
  PROVE  WakeIInv'
<1> USE DEF WakeIInv, Wake!TypeOK, Wake!OneKickstart, Wake!LaunchInProgress
<1>1. launch[s] = "Launching" /\ kickstarts[s] = 1
  BY DEF Wake!LaunchFinished
<1> QED
  BY <1>1, GatewayAssumption DEF Wake!LaunchFinished, Wake!LaunchStates

LEMMA StopKeeps ==
  ASSUME WakeIInv, NEW s \in Services, Wake!ReportStop(s)
  PROVE  WakeIInv'
  BY GatewayAssumption
     DEF Wake!ReportStop, Wake!AllowLaunchAfterStop, WakeIInv, Wake!TypeOK,
         Wake!OneKickstart, Wake!LaunchInProgress, Wake!LaunchStates

LEMMA WakeStepKeeps == WakeIInv /\ [Wake!Next]_(Wake!vars) => WakeIInv'
<1> SUFFICES ASSUME WakeIInv, [Wake!Next]_(Wake!vars)
             PROVE  WakeIInv'
  OBVIOUS
<1>1. CASE Wake!Tick
  BY <1>1, GatewayAssumption
     DEF Wake!Tick, WakeIInv, Wake!TypeOK, Wake!OneKickstart,
         Wake!LaunchInProgress, Wake!LaunchStates
<1>2. CASE UNCHANGED Wake!vars
  BY <1>2 DEF Wake!vars, WakeIInv, Wake!TypeOK, Wake!OneKickstart,
     Wake!LaunchInProgress
<1> QED BY <1>1, <1>2, LaunchKeeps, LaunchEndKeeps, StopKeeps DEF Wake!Next

LEMMA WakeInvariance == Wake!Spec => []WakeIInv
  BY WakeInitEstablishes, WakeStepKeeps, PTL DEF Wake!Spec

\* Under the callers' contract two kickstarts of a service never overlap, and
\* the state says Launching exactly while one runs (wake.rs request_launch_at,
\* launch_finished_at and allow_launch_after_stop).
THEOREM KickstartIsUnique == Wake!Spec => []Wake!OneKickstart
<1>1. WakeIInv => Wake!OneKickstart
  BY DEF WakeIInv
<1> QED BY <1>1, WakeInvariance, PTL

\* The stop attempts keep that contract, and so kickstarts are unique in the
\* gateway.
THEOREM KickstartsStayUnique ==
  ASSUME Timely PROVE Spec => []OneKickstart
<1>1. Wake!OneKickstart <=> OneKickstart
  BY DEF OneKickstart
<1> QED
  BY <1>1, KickstartIsUnique, StopsKeepWakeContract, PTL DEF KeepsWakeContract
=============================================================================
