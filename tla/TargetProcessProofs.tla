------------------------- MODULE TargetProcessProofs -------------------------
(***************************************************************************)
(* Proofs about TargetProcess, for any services, any times and any number  *)
(* of visits and faults, crashes of the gateway included.                  *)
(***************************************************************************)
EXTENDS TargetProcess, TLAPS

\* What is proved about a lifecycle on its own, with the launch states as the
\* gateway keeps them.
Alone == INSTANCE ServiceLifecycleProofs WITH
             launchInProgress <- [s \in Services |-> launch[s] = "Launching"],
             MaxGeneration <- 0

-----------------------------------------------------------------------------
(* The inductive invariant.                                                *)

\* Stop attempts are the idle scan's and die with the gateway.
AttemptsAreIdle == \A a \in attempts : running /\ a.requiresIdle

UndisturbedIsUnused ==
    \A a \in attempts : ~disturbed[a.service] => inFlight[a.service] = 0

\* What the countdown of the idle time has used up has been quiet.
IdleTimeIsQuiet ==
    running => \A s \in Services :
        inFlight[s] = 0 => quietFor[s] + idleIn[s] >= IdleTimeout

\* The retry time counts from the last refusal, and none is running while
\* nothing has been refused.
ForgottenWhileDown == ~running => \A s \in Services : retryIn[s] = 0

RetryTimeIsRefusal ==
    \A s \in Services : refusedFor[s] + retryIn[s] = CheckRetry

CheckingIsDue ==
    \A a \in attempts :
        a.phase = "checking" /\ ~disturbed[a.service] => retryIn[a.service] = 0

\* A request is answered before time passes, and a client that was told to
\* come back does so RetryAfter after its service was last touched.
ClientsComeBack ==
    running => \A s \in Services :
        /\ client[s] = "asking" => quietFor[s] = 0
        /\ client[s] = "waiting" => quietFor[s] + clientIn[s] <= RetryAfter

LockedIsNotLaunching ==
    \A a \in attempts : a.phase = "locked" => launch[a.service] # "Launching"

IInv ==
    /\ TypeOK /\ Alone!IInv
    /\ AttemptsAreIdle /\ UndisturbedIsUnused
    /\ IdleTimeIsQuiet
    /\ ForgottenWhileDown /\ RetryTimeIsRefusal /\ CheckingIsDue
    /\ ClientsComeBack
    /\ LockedIsNotLaunching /\ Wake!OneKickstart

-----------------------------------------------------------------------------
(* Every step but the crash and the replacement is one of the lifecycles.  *)

\* A launch state that changes is a kickstart that begins or ends.
LEMMA LaunchChange ==
  ASSUME Wake!TypeOK, NEW s \in Services, UNCHANGED lifeVars,
         Wake!RequestLaunch(s) \/ Wake!LaunchFinished(s)
  PROVE  Life!ChangeLaunch(s) \/ UNCHANGED Life!vars
<1> USE DEF lifeVars, Life!vars, Life!activityVars, Life!checkVars,
        Life!historyVars, Wake!TypeOK, Wake!LaunchStates, Wake!vars
<1>1. \/ UNCHANGED launch
      \/ \E state \in {"Launching", "CoolingDown"} :
             launch' = [launch EXCEPT ![s] = state]
  BY DEF Wake!RequestLaunch, Wake!LaunchFinished
<1>2. CASE (launch'[s] = "Launching") = (launch[s] = "Launching")
  BY <1>1, <1>2
<1>3. CASE (launch'[s] = "Launching") # (launch[s] = "Launching")
  BY <1>1, <1>3 DEF Life!ChangeLaunch
<1> QED BY <1>2, <1>3

\* Steps that leave the gateway's own state alone.
OutsideStep ==
    \/ \E s \in Services : Refused(s) \/ Listen(s)
    \/ \E c \in commands : LaunchctlActs(c) \/ OrphanEnds(c)
    \/ UNCHANGED vars

LEMMA StepCases ==
  ASSUME [Next]_vars
  PROVE  \/ OutsideStep
         \/ \E s \in Services :
                \/ Ask(s) \/ Serve(s) \/ AnswerCold(s) \/ LaunchFinished(s)
                \/ Exit(s) \/ Complete(s) \/ Scan(s)
         \/ \E a \in attempts : AttemptStep(a)
         \/ Crash \/ Replace
         \/ Tick
BY DEF Next, ServiceStep, OutsideStep

LEMMA OutsideFrame ==
  ASSUME OutsideStep
  PROVE  UNCHANGED <<wakeVars, lifeVars, gatewayVars, historyVars>>
BY DEF OutsideStep, Refused, Listen, LaunchctlActs, OrphanEnds, vars

LEMMA NoLifeStep ==
  ASSUME UNCHANGED <<wakeVars, lifeVars>>
  PROVE  UNCHANGED Life!vars
BY DEF wakeVars, lifeVars, Life!vars, Life!activityVars, Life!checkVars,
   Life!historyVars

LEMMA LifeStep ==
  ASSUME TypeOK, [Next]_vars, ~Crash, ~Replace
  PROVE  [Life!Next]_(Life!vars)
<1> USE DEF Life!Next, Life!InBounds
<1>1. CASE OutsideStep
  BY <1>1, OutsideFrame, NoLifeStep
<1>2. ASSUME NEW s \in Services,
             Ask(s) \/ Serve(s) \/ Complete(s) \/ Scan(s)
      PROVE  Life!Next
  BY <1>2 DEF Ask, Serve, Complete, Scan
<1>3. ASSUME NEW s \in Services, AnswerCold(s) \/ LaunchFinished(s)
      PROVE  [Life!Next]_(Life!vars)
  BY <1>3, LaunchChange DEF AnswerCold, LaunchFinished, TypeOK
<1>4. ASSUME NEW s \in Services, Exit(s) PROVE [Life!Next]_(Life!vars)
  BY <1>4, NoLifeStep DEF Exit
<1>5. ASSUME NEW a \in attempts, AttemptStep(a) PROVE Life!Next
  BY <1>5 DEF AttemptStep, Life!AttemptStep
<1>6. CASE Tick
  BY <1>6, NoLifeStep DEF Tick
<1> QED BY <1>1, <1>2, <1>3, <1>4, <1>5, <1>6, StepCases

\* What the gateway does to the lifecycles, a lifecycle on its own may do.
LEMMA AloneNext ==
  ASSUME [Life!Next]_(Life!vars)
  PROVE  [Alone!Next]_(Alone!vars)
<1> USE DEF Life!activityVars, Alone!activityVars, Life!checkVars,
        Alone!checkVars, Life!historyVars, Alone!historyVars
<1>1. UNCHANGED Life!vars => UNCHANGED Alone!vars
  BY DEF Life!vars, Alone!vars
<1>2. Life!Next => Alone!Next
  BY DEF Life!Next, Alone!Next, Life!InBounds, Alone!InBounds,
     Life!NoteRequestArrival, Alone!NoteRequestArrival,
     Life!Acquire, Alone!Acquire, Life!Release, Alone!Release,
     Life!BeginStopAttempt, Alone!BeginStopAttempt,
     Life!BeginShutdownAttempt, Alone!BeginShutdownAttempt,
     Life!ChangeLaunch, Alone!ChangeLaunch, Life!Tick, Alone!Tick,
     Life!AttemptStep, Alone!AttemptStep, Life!CheckAllows, Alone!CheckAllows,
     Life!CheckRefuses, Alone!CheckRefuses, Life!Discard, Alone!Discard,
     Life!Decide, Alone!Decide, Life!StartStop, Alone!StartStop,
     Life!StopNotStarted, Alone!StopNotStarted,
     Life!FinishStop, Alone!FinishStop, Life!Unlocked, Alone!Unlocked,
     Life!NewGeneration, Alone!NewGeneration,
     Life!RecordActivity, Alone!RecordActivity,
     Life!AlreadySignalled, Alone!AlreadySignalled,
     Life!Occupied, Alone!Occupied, Life!BeginAttempt, Alone!BeginAttempt,
     Life!MoveTo, Alone!MoveTo, Life!EndAttempt, Alone!EndAttempt,
     Life!Obsolete, Alone!Obsolete, Life!CountDown, Alone!CountDown
<1> QED BY <1>1, <1>2

\* The lifecycle's invariant survives the death of the gateway, because
\* nothing of what it speaks of does.
LEMMA AloneStep ==
  ASSUME TypeOK, Alone!IInv, AttemptsAreIdle, [Next]_vars
  PROVE  Alone!IInv'
<1> USE DEF Alone!IInv, Alone!TypeOK, Alone!OneAttemptPerService,
        Alone!StopIsRemembered, Alone!GenerationTells,
        Alone!UndecidedIsFirst, Alone!StopOnlyWhenQuiet
<1>1. CASE Crash
  BY <1>1, TargetAssumption DEF Crash, ForgetEverything
<1>2. CASE Replace
  <2>1. attempts = {}
    BY <1>2 DEF Replace, AttemptsAreIdle
  <2>2. /\ UNCHANGED <<wakeVars, inFlight, generation, retryIn, attemptInProgress,
                       stopAttempted, attempts, disturbed, stopsSent>>
        /\ idleIn' \in [Services -> 0 .. IdleTimeout]
    BY <1>2, TargetAssumption DEF Replace
  <2> QED BY <2>1, <2>2 DEF wakeVars
<1>3. CASE ~Crash /\ ~Replace
  <2>1. /\ Checked \subseteq Services /\ 0 \in Nat
        /\ IdleTimeout \in Nat \ {0} /\ CheckRetry \in Nat \ {0}
    BY TargetAssumption
  <2>2. [Alone!Next]_(Alone!vars)
    BY <1>3, AloneNext, LifeStep
  <2> HIDE DEF Alone!IInv
  <2> QED BY <2>1, <2>2, Alone!StepInvariant
<1> QED BY <1>1, <1>2, <1>3

-----------------------------------------------------------------------------
(* Types.                                                                  *)

LEMMA CountDownFits ==
  ASSUME NEW max \in Nat, NEW n \in 0 .. max
  PROVE  CountDown(n) \in 0 .. max
BY DEF CountDown

ClientTypes ==
    /\ client \in [Services -> {"away", "asking", "served", "waiting"}]
    /\ clientIn \in [Services -> 0 .. RetryAfter]
    /\ tries \in [Services -> 0 .. MaxTries + 1]
    /\ visitsLeft \in 0 .. Visits

LEMMA FailedTypes ==
  ASSUME ClientTypes, NEW clients \in SUBSET Services, Failed(clients)
  PROVE  ClientTypes'
<1>1. tries' \in [Services -> 0 .. MaxTries + 1]
  BY TargetAssumption DEF ClientTypes, Failed
<1>2. clientIn' \in [Services -> 0 .. RetryAfter]
  BY TargetAssumption DEF ClientTypes, Failed
<1> QED BY <1>1, <1>2 DEF ClientTypes, Failed

HistoryTypes ==
    /\ quietFor \in [Services -> 0 .. IdleTimeout]
    /\ refusedFor \in [Services -> 0 .. CheckRetry]

LEMMA ActivityTypes ==
  ASSUME HistoryTypes, NEW s \in Services, Activity(s) PROVE HistoryTypes'
BY TargetAssumption DEF HistoryTypes, Activity

LEMMA FaultType ==
  ASSUME faultsLeft \in 0 .. Faults, Fault \/ UNCHANGED faultsLeft
  PROVE  faultsLeft' \in 0 .. Faults
BY TargetAssumption DEF Fault

TargetTypes ==
    /\ target \in [Services -> {"down", "starting", "up", "exiting"}]
    /\ targetIn \in [Services -> Nat]

GatewayTypes ==
    /\ running \in BOOLEAN
    /\ restartIn \in 0 .. RestartTime
    /\ kickIn \in [Services -> 0 .. LaunchTimeout]
    /\ commands \subseteq Commands

\* What the gateway's components do not own.
OwnTypes ==
    /\ ClientTypes /\ HistoryTypes /\ TargetTypes /\ GatewayTypes
    /\ faultsLeft \in 0 .. Faults

LEMMA OwnTypesStep ==
  ASSUME OwnTypes, Life!TypeOK, [Next]_vars PROVE OwnTypes'
<1> USE TargetAssumption DEF OwnTypes
<1>1. ASSUME NEW s \in Services,
             Ask(s) \/ Serve(s) \/ AnswerCold(s) \/ Exit(s) \/ Complete(s)
                 \/ Refused(s)
      PROVE  ClientTypes'
  <2>1. CASE Failed({s})
    BY <2>1, FailedTypes
  <2>2. CASE UNCHANGED clientVars
    BY <2>2 DEF clientVars, ClientTypes
  <2>3. CASE Ask(s) \/ Serve(s) \/ Complete(s)
    BY <2>3 DEF ClientTypes, Ask, Serve, Complete
  <2> QED BY <1>1, <2>1, <2>2, <2>3 DEF AnswerCold, Exit, Refused
<1>2. ASSUME NEW s \in Services,
             Ask(s) \/ Serve(s) \/ AnswerCold(s) \/ Exit(s) \/ Complete(s)
                 \/ Refused(s)
      PROVE  HistoryTypes'
  BY <1>2, ActivityTypes
     DEF Ask, Serve, AnswerCold, Exit, Complete, Refused, historyVars,
         HistoryTypes
<1>3. ASSUME NEW s \in Services,
             Ask(s) \/ Serve(s) \/ AnswerCold(s) \/ Exit(s) \/ Complete(s)
                 \/ Refused(s)
      PROVE  TargetTypes'
  <2>1. \/ UNCHANGED targetVars
        \/ Become(s, "down", 0)
    BY <1>3 DEF Ask, Serve, AnswerCold, Exit, Complete, Refused
  <2> QED BY <2>1 DEF targetVars, TargetTypes, Become
<1>4. ASSUME NEW s \in Services,
             Ask(s) \/ Serve(s) \/ AnswerCold(s) \/ Exit(s) \/ Complete(s)
                 \/ Refused(s)
      PROVE  GatewayTypes' /\ faultsLeft' \in 0 .. Faults
  <2>1. CASE AnswerCold(s)
    <3>1. [service |-> s, verb |-> "kickstart", owned |-> TRUE] \in Commands
      BY DEF Commands
    <3>2. commands' \subseteq Commands
      BY <2>1, <3>1 DEF AnswerCold, GatewayTypes
    <3>3. kickIn' \in [Services -> 0 .. LaunchTimeout]
      BY <2>1 DEF AnswerCold, GatewayTypes
    <3>4. GatewayTypes'
      BY <2>1, <3>2, <3>3 DEF AnswerCold, GatewayTypes
    <3> QED BY <2>1, <3>4, FaultType DEF AnswerCold
  <2>2. CASE Ask(s) \/ Serve(s) \/ Exit(s) \/ Complete(s) \/ Refused(s)
    BY <2>2, FaultType DEF Ask, Serve, Exit, Complete, Refused,
       gatewayVars, GatewayTypes
  <2> QED BY <1>4, <2>1, <2>2
<1>5. CASE \E c \in commands : LaunchctlActs(c) \/ OrphanEnds(c)
  <2>1. PICK c \in commands : LaunchctlActs(c) \/ OrphanEnds(c)
    BY <1>5
  <2>2. /\ c.service \in Services /\ commands' = commands \ {c}
        /\ \/ UNCHANGED targetVars
           \/ Become(c.service, "starting", StartTime)
           \/ Become(c.service, "exiting", ExitTime)
    BY <2>1 DEF LaunchctlActs, OrphanEnds, GatewayTypes, Commands
  <2>3. TargetTypes'
    BY <2>2 DEF targetVars, TargetTypes, Become
  <2>4. UNCHANGED <<gatewayVars, clientVars, historyVars, faultsLeft>>
    BY <2>1 DEF LaunchctlActs, OrphanEnds
  <2> QED
    BY <2>2, <2>3, <2>4 DEF gatewayVars, clientVars, historyVars,
       ClientTypes, HistoryTypes, GatewayTypes
<1>6. ASSUME NEW s \in Services, Listen(s) PROVE OwnTypes'
  BY <1>6 DEF Listen, Become, ClientTypes, HistoryTypes, TargetTypes,
     GatewayTypes, gatewayVars, clientVars, historyVars
<1>7. ASSUME NEW s \in Services, LaunchFinished(s) PROVE OwnTypes'
  <2>1. faultsLeft' \in 0 .. Faults
    BY <1>7, FaultType DEF LaunchFinished
  <2> QED
    BY <1>7, <2>1 DEF LaunchFinished, ClientTypes, HistoryTypes, TargetTypes,
       GatewayTypes, targetVars, clientVars, historyVars
<1>8. ASSUME NEW s \in Services, Scan(s) PROVE OwnTypes'
  BY <1>8 DEF Scan, ClientTypes, HistoryTypes, TargetTypes, GatewayTypes,
     gatewayVars, targetVars, clientVars, historyVars
<1>9. ASSUME NEW a \in attempts, AttemptStep(a) PROVE OwnTypes'
  <2>1. a.service \in Services
    BY DEF Life!TypeOK, Life!StopAttempts
  <2>2. [service |-> a.service, verb |-> "kill", owned |-> TRUE] \in Commands
    BY <2>1 DEF Commands
  <2>3. commands' \subseteq Commands
    BY <1>9, <2>2 DEF AttemptStep, GatewayTypes
  <2>4. refusedFor' \in [Services -> 0 .. CheckRetry]
    BY <1>9, <2>1 DEF AttemptStep, HistoryTypes
  <2> QED
    BY <1>9, <2>3, <2>4 DEF AttemptStep, ClientTypes, HistoryTypes,
       TargetTypes, GatewayTypes, gatewayVars, targetVars, clientVars
<1>10. CASE Crash
  <2>1. ClientTypes'
    BY <1>10, FailedTypes DEF Crash
  <2>2. commands' \subseteq Commands
    <3>1. \A c \in Commands : [c EXCEPT !.owned = FALSE] \in Commands
      BY DEF Commands
    <3> QED BY <1>10, <3>1 DEF Crash, GatewayTypes
  <2>3. HistoryTypes' /\ TargetTypes'
    BY <1>10 DEF Crash, HistoryTypes, TargetTypes, targetVars
  <2>5. restartIn' \in 0 .. RestartTime
    BY <1>10 DEF Crash
  <2>6. kickIn' \in [Services -> 0 .. LaunchTimeout]
    BY <1>10 DEF Crash
  <2>7. GatewayTypes'
    BY <1>10, <2>2, <2>5, <2>6 DEF Crash, GatewayTypes
  <2>4. faultsLeft' \in 0 .. Faults
    BY <1>10, FaultType DEF Crash
  <2> QED
    BY <2>1, <2>3, <2>4, <2>7
<1>11. CASE Replace
  BY <1>11 DEF Replace, ClientTypes, HistoryTypes, TargetTypes, GatewayTypes,
     targetVars, clientVars
<1>12. CASE Tick
  <2>1. /\ restartIn' \in 0 .. RestartTime
        /\ kickIn' \in [Services -> 0 .. LaunchTimeout]
        /\ clientIn' \in [Services -> 0 .. RetryAfter]
    BY <1>12, CountDownFits DEF Tick, ClientTypes, HistoryTypes, TargetTypes,
       GatewayTypes
  <2>2. targetIn' \in [Services -> Nat]
    BY <1>12 DEF Tick, ClientTypes, HistoryTypes, TargetTypes, GatewayTypes,
       CountDown
  <2>3. quietFor' \in [Services -> 0 .. IdleTimeout]
    BY <1>12 DEF Tick, ClientTypes, HistoryTypes, TargetTypes, GatewayTypes
  <2>4. refusedFor' \in [Services -> 0 .. CheckRetry]
    BY <1>12 DEF Tick, ClientTypes, HistoryTypes, TargetTypes, GatewayTypes
  <2> QED BY <1>12, <2>1, <2>2, <2>3, <2>4 DEF Tick, ClientTypes,
      HistoryTypes, TargetTypes, GatewayTypes
<1>13. CASE UNCHANGED vars
  BY <1>13 DEF vars, ClientTypes, HistoryTypes, TargetTypes, GatewayTypes,
     gatewayVars, targetVars, clientVars, historyVars
<1>14. ASSUME NEW s \in Services,
             Ask(s) \/ Serve(s) \/ AnswerCold(s) \/ Exit(s) \/ Complete(s)
                 \/ Refused(s)
      PROVE  OwnTypes'
  BY <1>1, <1>2, <1>3, <1>4, <1>14
<1> QED
  BY <1>5, <1>6, <1>7, <1>8, <1>9, <1>10, <1>11, <1>12, <1>13, <1>14
     DEF Next, ServiceStep

-----------------------------------------------------------------------------
(* Attempts, activity and refusals.                                        *)

\* A request that comes, is served or ends: the attempts stay, the service's
\* own is disturbed, and the history notes it.
ActivityStep(s) ==
    /\ Life!Unlocked(s)
    /\ Life!NewGeneration(s) /\ Life!RecordActivity(s) /\ Activity(s)
    /\ \A t \in Services \ {s} :
           inFlight'[t] = inFlight[t] /\ idleIn'[t] = idleIn[t]
    /\ inFlight'[s] > 0 \/ idleIn'[s] = IdleTimeout
    /\ UNCHANGED <<launch, kickstarts, running>>

\* The lifecycle and its history at rest.
QuietStep == UNCHANGED <<lifeVars, historyVars, running>>

LEMMA ActivityCases ==
  ASSUME Life!TypeOK, NEW s \in Services,
         Ask(s) \/ Serve(s) \/ Exit(s) \/ Complete(s)
  PROVE  ActivityStep(s) \/ (QuietStep /\ UNCHANGED wakeVars)
<1> USE TargetAssumption DEF ActivityStep, Life!TypeOK, wakeVars, gatewayVars,
        Life!NewGeneration
<1>1. CASE Ask(s)
  BY <1>1 DEF Ask, Life!NoteRequestArrival
<1>2. CASE Serve(s)
  BY <1>2 DEF Serve, Life!Acquire
<1>3. CASE Complete(s)
  BY <1>3 DEF Complete, Life!Release
<1>4. CASE Exit(s) /\ client[s] = "served"
  BY <1>4 DEF Exit, Life!Release
<1>5. CASE Exit(s) /\ client[s] # "served"
  BY <1>5 DEF Exit, QuietStep
<1> QED BY <1>1, <1>2, <1>3, <1>4, <1>5

LEMMA LifeCases ==
  ASSUME Life!TypeOK, [Next]_vars
  PROVE  \/ \E s \in Services : ActivityStep(s)
         \/ QuietStep
         \/ \E s \in Services : Scan(s)
         \/ \E a \in attempts : AttemptStep(a)
         \/ Crash \/ Replace \/ Tick
<1>1. ASSUME NEW s \in Services,
             Ask(s) \/ Serve(s) \/ Exit(s) \/ Complete(s)
      PROVE  ActivityStep(s) \/ QuietStep
  BY <1>1, ActivityCases
<1>2. ASSUME NEW s \in Services, AnswerCold(s) \/ LaunchFinished(s)
      PROVE  QuietStep
  BY <1>2 DEF AnswerCold, LaunchFinished, QuietStep
<1>3. OutsideStep => QuietStep
  BY OutsideFrame DEF QuietStep, gatewayVars
<1> QED BY <1>1, <1>2, <1>3, StepCases

\* b is a with its task further on: a decision is taken in the open.
Follows(b, a) ==
    /\ b.service = a.service /\ b.generation = a.generation
    /\ b.requiresIdle = a.requiresIdle
    /\ b.phase = "checking" => b = a
    /\ b.phase = "locked" => a.phase = "locked" \/ ~Life!Obsolete(a)

LEMMA AttemptMoves ==
  ASSUME Life!TypeOK, NEW a \in attempts, Life!AttemptStep(a),
         NEW b \in attempts'
  PROVE  \E c \in attempts : Follows(b, c)
<1>1. \A p \in Life!Phases : /\ [a EXCEPT !.phase = p].service = a.service
                             /\ [a EXCEPT !.phase = p].generation = a.generation
                             /\ [a EXCEPT !.phase = p].requiresIdle
                                    = a.requiresIdle
                             /\ [a EXCEPT !.phase = p].phase = p
  BY DEF Life!TypeOK, Life!StopAttempts
<1>2. CASE b \in attempts
  BY <1>2 DEF Follows
<1>3. ASSUME b \notin attempts
      PROVE  \/ Life!CheckAllows(a) /\ b = [a EXCEPT !.phase = "allowed"]
             \/ Life!Decide(a) /\ b = [a EXCEPT !.phase = "locked"]
             \/ Life!StartStop(a) /\ b = [a EXCEPT !.phase = "stopping"]
  BY <1>3 DEF Life!AttemptStep, Life!CheckAllows, Life!CheckRefuses,
     Life!Discard, Life!Decide, Life!StartStop, Life!StopNotStarted,
     Life!FinishStop, Life!MoveTo, Life!EndAttempt
<1> QED BY <1>1, <1>2, <1>3 DEF Follows, Life!Phases, Life!Decide

\* The scan begins an attempt where nothing is in the way of one.
Begins(b) ==
    /\ b.service \in Services /\ b.requiresIdle
    /\ b.phase \in {"checking", "allowed"}
    /\ inFlight[b.service] = 0 /\ retryIn[b.service] = 0 /\ running

LEMMA AttemptsEvolve ==
  ASSUME Life!TypeOK, [Next]_vars, NEW b \in attempts'
  PROVE  (\E a \in attempts : Follows(b, a)) \/ Begins(b)
<1>1. CASE b \in attempts
  BY <1>1 DEF Follows
<1>2. ASSUME NEW s \in Services, ActivityStep(s) PROVE b \in attempts
  BY <1>2 DEF ActivityStep, Life!NewGeneration
<1>3. CASE QuietStep \/ Crash \/ Replace \/ Tick
  BY <1>1, <1>3 DEF QuietStep, lifeVars, Crash, ForgetEverything, Replace,
     Tick, Life!Tick
<1>4. ASSUME NEW s \in Services, Scan(s) PROVE b \in attempts \/ Begins(b)
  BY <1>4 DEF Scan, Life!BeginStopAttempt, Life!BeginAttempt, Life!Occupied,
     Begins
<1>5. ASSUME NEW a \in attempts, AttemptStep(a)
      PROVE  \E c \in attempts : Follows(b, c)
  BY <1>5, AttemptMoves DEF AttemptStep, Life!AttemptStep
<1> QED BY <1>1, <1>2, <1>3, <1>4, <1>5, LifeCases

LEMMA AttemptsIdleStep ==
  ASSUME Life!TypeOK, AttemptsAreIdle, [Next]_vars
  PROVE  AttemptsAreIdle'
<1> SUFFICES ASSUME NEW b \in attempts' PROVE running' /\ b.requiresIdle
  BY DEF AttemptsAreIdle
<1>1. running /\ b.requiresIdle
  BY AttemptsEvolve DEF AttemptsAreIdle, Follows, Begins
<1>2. ~Crash /\ ~Replace
  BY <1>1 DEF Crash, ForgetEverything, Replace
<1>3. UNCHANGED running
  BY <1>2, LifeCases DEF ActivityStep, QuietStep, Scan, AttemptStep, Tick,
     gatewayVars
<1> QED BY <1>1, <1>3

\* A service with an undisturbed attempt has no request.
LEMMA UnusedStep ==
  ASSUME Life!TypeOK, UndisturbedIsUnused, [Next]_vars
  PROVE  UndisturbedIsUnused'
<1> SUFFICES ASSUME NEW b \in attempts', ~disturbed'[b.service]
             PROVE  inFlight'[b.service] = 0
  BY DEF UndisturbedIsUnused
<1>0. \A a \in attempts : a.service \in Services
  BY DEF Life!TypeOK, Life!StopAttempts
<1>1. ASSUME NEW s \in Services, ActivityStep(s)
      PROVE  inFlight'[b.service] = 0
  <2>1. b \in attempts /\ b.service \in Services
    BY <1>0, <1>1 DEF ActivityStep, Life!NewGeneration
  <2> QED
    BY <1>1, <2>1 DEF ActivityStep, Life!RecordActivity, UndisturbedIsUnused,
       Life!TypeOK
<1>2. CASE QuietStep \/ Crash \/ Replace \/ Tick
  BY <1>2 DEF QuietStep, lifeVars, Crash, ForgetEverything, Replace, Tick,
     Life!Tick, Life!historyVars, UndisturbedIsUnused
<1>3. ASSUME NEW s \in Services, Scan(s) PROVE inFlight'[b.service] = 0
  <2>1. UNCHANGED inFlight /\ inFlight[s] = 0
    BY <1>3 DEF Scan, Life!BeginStopAttempt, Life!BeginAttempt, Life!Occupied,
       Life!activityVars
  <2>2. b.service = s \/ b \in attempts
    BY <1>3 DEF Scan, Life!BeginStopAttempt, Life!BeginAttempt
  <2>3. b.service # s => ~disturbed[b.service]
    BY <1>3 DEF Scan, Life!BeginStopAttempt, Life!BeginAttempt, Life!TypeOK
  <2> QED BY <2>1, <2>2, <2>3 DEF UndisturbedIsUnused
<1>4. ASSUME NEW a \in attempts, AttemptStep(a)
      PROVE  inFlight'[b.service] = 0
  <2>1. UNCHANGED <<inFlight, disturbed>>
    BY <1>4 DEF AttemptStep, Life!CheckAllows, Life!CheckRefuses,
       Life!Discard, Life!Decide, Life!StartStop, Life!StopNotStarted,
       Life!FinishStop, Life!activityVars, Life!historyVars
  <2>2. PICK c \in attempts : Follows(b, c)
    BY <1>4, AttemptMoves DEF AttemptStep, Life!AttemptStep
  <2> QED BY <2>1, <2>2 DEF Follows, UndisturbedIsUnused
<1> QED BY <1>1, <1>2, <1>3, <1>4, LifeCases

\* A refusal counts exactly if it comes in the idle period that was checked:
\* comparing generations and leases tells whether the attempt was disturbed.
LEMMA RefusalCounts ==
  ASSUME Life!TypeOK, Alone!GenerationTells, UndisturbedIsUnused,
         Alone!StopOnlyWhenQuiet, HistoryTypes, NEW a \in attempts,
         AttemptStep(a)
  PROVE  \/ UNCHANGED <<retryIn, refusedFor>>
         \/ /\ retryIn' = [retryIn EXCEPT ![a.service] = CheckRetry]
            /\ refusedFor' = [refusedFor EXCEPT ![a.service] = 0]
            /\ attempts' = attempts \ {a}
<1>1. CASE /\ UNCHANGED refusedFor
           /\ \/ Life!StartStop(a) \/ Life!FinishStop(a) \/ Life!CheckAllows(a)
              \/ Life!Discard(a) \/ Life!Decide(a)
  BY <1>1 DEF Life!StartStop, Life!FinishStop, Life!CheckAllows, Life!Discard,
     Life!Decide, Life!checkVars
<1>2. ASSUME Life!CheckRefuses(a) \/ Life!StopNotStarted(a),
             refusedFor' = IF disturbed[a.service] THEN refusedFor
                           ELSE [refusedFor EXCEPT ![a.service] = 0]
      PROVE  \/ UNCHANGED <<retryIn, refusedFor>>
             \/ /\ retryIn' = [retryIn EXCEPT ![a.service] = CheckRetry]
                /\ refusedFor' = [refusedFor EXCEPT ![a.service] = 0]
                /\ attempts' = attempts \ {a}
  <2>1. attempts' = attempts \ {a}
    BY <1>2 DEF Life!CheckRefuses, Life!StopNotStarted, Life!EndAttempt
  <2>2. disturbed[a.service] <=>
            ~(generation[a.service] = a.generation /\ inFlight[a.service] = 0)
    <3>1. disturbed[a.service] <=> a.generation # generation[a.service]
      BY DEF Alone!GenerationTells
    <3> QED BY <3>1 DEF UndisturbedIsUnused
  <2>3. CASE Life!CheckRefuses(a)
    BY <1>2, <2>1, <2>2, <2>3 DEF Life!CheckRefuses
  <2>4. CASE Life!StopNotStarted(a)
    BY <1>2, <2>1, <2>4 DEF Life!StopNotStarted, Alone!StopOnlyWhenQuiet
  <2> QED BY <1>2, <2>3, <2>4
<1> QED BY <1>1, <1>2 DEF AttemptStep

LEMMA RetryStep ==
  ASSUME Life!TypeOK, Alone!IInv, UndisturbedIsUnused, HistoryTypes,
         ForgottenWhileDown, RetryTimeIsRefusal, [Next]_vars
  PROVE  RetryTimeIsRefusal'
<1> USE TargetAssumption DEF RetryTimeIsRefusal, Life!TypeOK, HistoryTypes
<1>1. ASSUME NEW s \in Services, ActivityStep(s) PROVE RetryTimeIsRefusal'
  BY <1>1 DEF ActivityStep, Life!NewGeneration, Activity
<1>2. CASE QuietStep \/ Replace \/ \E s \in Services : Scan(s)
  BY <1>2 DEF QuietStep, lifeVars, historyVars, Replace, Scan,
     Life!BeginStopAttempt, Life!BeginAttempt
<1>3. ASSUME NEW a \in attempts, AttemptStep(a) PROVE RetryTimeIsRefusal'
  <2>1. a.service \in Services
    BY DEF Life!StopAttempts
  <2>2. \/ UNCHANGED <<retryIn, refusedFor>>
        \/ /\ retryIn' = [retryIn EXCEPT ![a.service] = CheckRetry]
           /\ refusedFor' = [refusedFor EXCEPT ![a.service] = 0]
    BY <1>3, RefusalCounts DEF Alone!IInv
  <2> QED BY <2>1, <2>2
<1>4. CASE Crash
  BY <1>4 DEF Crash, ForgetEverything
<1>5. CASE Tick
  <2> SUFFICES ASSUME NEW s \in Services
               PROVE  refusedFor'[s] + retryIn'[s] = CheckRetry
    OBVIOUS
  <2>1. refusedFor'[s] = IF refusedFor[s] < CheckRetry THEN refusedFor[s] + 1
                                                       ELSE CheckRetry
    BY <1>5 DEF Tick
  <2>2. retryIn'[s] = IF retryIn[s] > 0 THEN retryIn[s] - 1 ELSE 0
    <3>1. CASE running
      BY <1>5, <3>1 DEF Tick, Life!Tick, Life!CountDown
    <3>2. CASE ~running
      BY <1>5, <3>2 DEF Tick, lifeVars, ForgottenWhileDown
    <3> QED BY <3>1, <3>2
  <2> QED BY <2>1, <2>2
<1> QED BY <1>1, <1>2, <1>3, <1>4, <1>5, LifeCases

LEMMA DueStep ==
  ASSUME Life!TypeOK, Alone!IInv, UndisturbedIsUnused, HistoryTypes,
         CheckingIsDue, [Next]_vars
  PROVE  CheckingIsDue'
<1> SUFFICES ASSUME NEW b \in attempts', b.phase = "checking",
                    ~disturbed'[b.service]
             PROVE  retryIn'[b.service] = 0
  BY DEF CheckingIsDue
<1>1. \/ b \in attempts /\ b.service \in Services
      \/ Begins(b)
  BY AttemptsEvolve DEF Follows, Life!TypeOK, Life!StopAttempts
<1>2. ASSUME NEW s \in Services, ActivityStep(s) PROVE retryIn'[b.service] = 0
  <2>1. b \in attempts /\ b.service \in Services
    BY <1>2 DEF ActivityStep, Life!NewGeneration, Life!TypeOK,
       Life!StopAttempts
  <2> QED
    BY <1>2, <2>1 DEF ActivityStep, Life!NewGeneration, Life!RecordActivity,
       CheckingIsDue, Life!TypeOK
<1>3. CASE QuietStep \/ Crash \/ Replace
  BY <1>1, <1>3 DEF QuietStep, lifeVars, Crash, ForgetEverything, Replace,
     CheckingIsDue, Begins
<1>4. CASE Tick
  <2>1. b \in attempts /\ b.service \in Services /\ retryIn[b.service] = 0
    BY <1>4 DEF Tick, lifeVars, Life!Tick, Life!historyVars, CheckingIsDue,
       Life!TypeOK, Life!StopAttempts
  <2> QED BY <1>4, <2>1 DEF Tick, lifeVars, Life!Tick, Life!CountDown
<1>5. ASSUME NEW s \in Services, Scan(s) PROVE retryIn'[b.service] = 0
  <2>1. UNCHANGED retryIn
    BY <1>5 DEF Scan, Life!BeginStopAttempt, Life!BeginAttempt
  <2>2. b \in attempts /\ b.service # s => ~disturbed[b.service]
    BY <1>5 DEF Scan, Life!BeginStopAttempt, Life!BeginAttempt, Life!TypeOK
  <2>3. retryIn[s] = 0
    BY <1>5 DEF Scan, Life!BeginStopAttempt
  <2> QED BY <1>1, <2>1, <2>2, <2>3 DEF CheckingIsDue, Begins
<1>6. ASSUME NEW a \in attempts, AttemptStep(a) PROVE retryIn'[b.service] = 0
  <2>1. UNCHANGED disturbed
    BY <1>6 DEF AttemptStep, Life!CheckAllows, Life!CheckRefuses,
       Life!Discard, Life!Decide, Life!StartStop, Life!StopNotStarted,
       Life!FinishStop, Life!historyVars
  <2>2. b \in attempts
    BY <1>6, AttemptMoves DEF AttemptStep, Life!AttemptStep, Follows
  <2>3. retryIn[b.service] = 0 /\ b.service \in Services
    BY <2>1, <2>2 DEF CheckingIsDue, Life!TypeOK, Life!StopAttempts
  <2>4. b.service = a.service => b = a
    BY <2>2 DEF Alone!IInv, Alone!OneAttemptPerService
  <2>5. \/ UNCHANGED <<retryIn, refusedFor>>
        \/ /\ retryIn' = [retryIn EXCEPT ![a.service] = CheckRetry]
           /\ refusedFor' = [refusedFor EXCEPT ![a.service] = 0]
           /\ attempts' = attempts \ {a}
    BY <1>6, RefusalCounts DEF Alone!IInv
  <2> QED BY <2>3, <2>4, <2>5 DEF Life!TypeOK
<1> QED BY <1>2, <1>3, <1>4, <1>5, <1>6, LifeCases

LEMMA ForgottenStep ==
  ASSUME Life!TypeOK, AttemptsAreIdle, ForgottenWhileDown, [Next]_vars
  PROVE  ForgottenWhileDown'
<1> USE DEF ForgottenWhileDown
<1>1. ASSUME NEW s \in Services, ActivityStep(s) PROVE ForgottenWhileDown'
  BY <1>1 DEF ActivityStep, Life!NewGeneration, Life!TypeOK
<1>2. CASE QuietStep \/ Crash \/ Replace
  BY <1>2 DEF QuietStep, lifeVars, Crash, ForgetEverything, Replace
<1>3. CASE (\E s \in Services : Scan(s)) \/ \E a \in attempts : AttemptStep(a)
  BY <1>3 DEF Scan, AttemptStep, AttemptsAreIdle, gatewayVars
<1>4. CASE Tick
  BY <1>4 DEF Tick, lifeVars
<1> QED BY <1>1, <1>2, <1>3, <1>4, LifeCases

-----------------------------------------------------------------------------
(* Quiet times.                                                            *)

LEMMA QuietTimeStep ==
  ASSUME Life!TypeOK, HistoryTypes, IdleTimeIsQuiet, [Next]_vars
  PROVE  IdleTimeIsQuiet'
<1> USE TargetAssumption DEF IdleTimeIsQuiet, HistoryTypes, Life!TypeOK
<1>1. ASSUME NEW s \in Services, ActivityStep(s) PROVE IdleTimeIsQuiet'
  BY <1>1 DEF ActivityStep, Activity
<1>2. CASE QuietStep
  BY <1>2 DEF QuietStep, lifeVars, historyVars
<1>3. CASE (\E s \in Services : Scan(s)) \/ \E a \in attempts : AttemptStep(a)
  <2>1. UNCHANGED <<running, inFlight, idleIn, quietFor>>
    BY <1>3 DEF Scan, Life!BeginStopAttempt, Life!BeginAttempt, AttemptStep,
       Life!CheckAllows, Life!CheckRefuses, Life!Discard, Life!Decide,
       Life!StartStop, Life!StopNotStarted, Life!FinishStop,
       Life!activityVars, gatewayVars, historyVars
  <2> QED BY <2>1
<1>4. CASE Crash
  BY <1>4 DEF Crash
<1>5. CASE Replace
  BY <1>5 DEF Replace
<1>6. CASE Tick
  <2> SUFFICES ASSUME running, NEW s \in Services, inFlight[s] = 0
               PROVE  quietFor'[s] + idleIn'[s] >= IdleTimeout
    BY <1>6 DEF Tick, Life!Tick
  <2>1. quietFor'[s] = IF quietFor[s] < IdleTimeout THEN quietFor[s] + 1
                                                    ELSE quietFor[s]
    BY <1>6 DEF Tick
  <2>2. idleIn'[s] = IF idleIn[s] > 0 THEN idleIn[s] - 1 ELSE 0
    BY <1>6 DEF Tick, Life!Tick, Life!CountDown
  <2> QED BY <2>1, <2>2
<1> QED BY <1>1, <1>2, <1>3, <1>4, <1>5, <1>6, LifeCases

\* A decision to stop has the whole idle timeout behind it.
LEMMA LockedIsQuiet ==
  ASSUME Life!TypeOK, Alone!StopOnlyWhenQuiet, HistoryTypes, AttemptsAreIdle,
         IdleTimeIsQuiet, NEW a \in attempts, a.phase = "locked"
  PROVE  quietFor[a.service] = IdleTimeout /\ running
<1>1. /\ running /\ idleIn[a.service] = 0 /\ inFlight[a.service] = 0
      /\ a.service \in Services
  BY DEF Alone!StopOnlyWhenQuiet, AttemptsAreIdle, Life!TypeOK,
     Life!StopAttempts
<1> QED BY <1>1, TargetAssumption DEF IdleTimeIsQuiet, HistoryTypes

LEMMA ClientsStep ==
  ASSUME Life!TypeOK, OwnTypes, ClientsComeBack, [Next]_vars
  PROVE  ClientsComeBack'
<1> USE TargetAssumption DEF ClientsComeBack, OwnTypes, HistoryTypes,
        ClientTypes
<1>1. ASSUME UNCHANGED <<running, client, clientIn, quietFor>>
      PROVE  ClientsComeBack'
  BY <1>1
<1>2. ASSUME NEW s \in Services, Ask(s) \/ Serve(s) \/ Complete(s)
      PROVE  ClientsComeBack'
  BY <1>2 DEF Ask, Serve, Complete, Activity, gatewayVars
<1>3. ASSUME NEW s \in Services, AnswerCold(s) PROVE ClientsComeBack'
  BY <1>3 DEF AnswerCold, Failed, historyVars
<1>4. ASSUME NEW s \in Services, Exit(s) PROVE ClientsComeBack'
  <2>1. CASE client[s] = "served"
    BY <1>4, <2>1 DEF Exit, Failed, Activity, gatewayVars
  <2>2. CASE client[s] # "served"
    BY <1>1, <1>4, <2>2 DEF Exit, clientVars, historyVars, gatewayVars
  <2> QED BY <2>1, <2>2
<1>5. ASSUME NEW s \in Services,
             Refused(s) \/ Listen(s) \/ LaunchFinished(s) \/ Scan(s)
      PROVE  ClientsComeBack'
  BY <1>1, <1>5 DEF Refused, Listen, LaunchFinished, Scan, clientVars,
     historyVars, gatewayVars
<1>6. CASE \/ \E c \in commands : LaunchctlActs(c) \/ OrphanEnds(c)
           \/ \E a \in attempts : AttemptStep(a)
           \/ UNCHANGED vars
  BY <1>1, <1>6 DEF LaunchctlActs, OrphanEnds, AttemptStep, vars, clientVars,
     historyVars, gatewayVars
<1>7. CASE Crash
  BY <1>7 DEF Crash
<1>8. CASE Replace
  BY <1>8 DEF Replace, clientVars
<1>9. CASE Tick
  <2> SUFFICES ASSUME running, NEW s \in Services
               PROVE  /\ client[s] = "asking" => quietFor'[s] = 0
                      /\ client[s] = "waiting" =>
                             quietFor'[s] + clientIn'[s] <= RetryAfter
    BY <1>9 DEF Tick
  <2>1. client[s] # "asking" /\ (client[s] = "waiting" => clientIn[s] > 0)
    BY <1>9 DEF Tick, Due
  <2>2. clientIn'[s] = IF clientIn[s] > 0 THEN clientIn[s] - 1 ELSE 0
    BY <1>9 DEF Tick, CountDown
  <2>3. quietFor'[s] \in {quietFor[s], quietFor[s] + 1}
    BY <1>9 DEF Tick
  <2> QED BY <2>1, <2>2, <2>3
<1> QED
  BY <1>2, <1>3, <1>4, <1>5, <1>6, <1>7, <1>8, <1>9 DEF Next, ServiceStep

-----------------------------------------------------------------------------
(* Kickstarts.                                                             *)

\* Who writes the launch states.
LEMMA WakeCases ==
  ASSUME Life!TypeOK, [Next]_vars
  PROVE  \/ UNCHANGED <<launch, kickstarts>>
         \/ Crash
         \/ \E s \in Services :
                /\ client[s] = "asking" /\ UNCHANGED lifeVars
                /\ Wake!RequestLaunch(s)
         \/ \E s \in Services : Wake!LaunchFinished(s) /\ UNCHANGED lifeVars
         \/ \E a \in attempts :
                /\ a.phase = "locked" /\ a.service \in Services
                /\ Wake!AllowLaunchAfterStop(a.service)
<1> USE DEF wakeVars
<1>1. ASSUME NEW s \in Services, Ask(s) \/ Serve(s) \/ Exit(s) \/ Complete(s)
      PROVE  UNCHANGED <<launch, kickstarts>>
  BY <1>1 DEF Ask, Serve, Exit, Complete
<1>2. ASSUME NEW a \in attempts, AttemptStep(a)
      PROVE  \/ UNCHANGED <<launch, kickstarts>>
             \/ /\ a.phase = "locked" /\ a.service \in Services
                /\ Wake!AllowLaunchAfterStop(a.service)
  BY <1>2 DEF AttemptStep, Life!StartStop, Life!TypeOK, Life!StopAttempts
<1>3. CASE OutsideStep \/ Replace \/ \E s \in Services : Scan(s)
  BY <1>3, OutsideFrame DEF Replace, Scan
<1>4. CASE Tick
  BY <1>4 DEF Tick, Wake!Tick
<1>5. ASSUME NEW s \in Services, AnswerCold(s)
      PROVE  /\ client[s] = "asking" /\ UNCHANGED lifeVars
             /\ Wake!RequestLaunch(s)
  BY <1>5 DEF AnswerCold
<1>6. ASSUME NEW s \in Services, LaunchFinished(s)
      PROVE  Wake!LaunchFinished(s) /\ UNCHANGED lifeVars
  BY <1>6 DEF LaunchFinished
<1> QED BY <1>1, <1>2, <1>3, <1>4, <1>5, <1>6, StepCases

LEMMA WakeTypesStep ==
  ASSUME Wake!TypeOK, Life!TypeOK, [Next]_vars
  PROVE  Wake!TypeOK'
<1> USE TargetAssumption DEF Wake!TypeOK, Wake!LaunchStates, wakeVars
<1>1. ASSUME NEW s \in Services,
             Ask(s) \/ Serve(s) \/ Exit(s) \/ Complete(s) \/ Scan(s)
      PROVE  Wake!TypeOK'
  BY <1>1 DEF Ask, Serve, Exit, Complete, Scan
<1>2. ASSUME NEW s \in Services, Wake!RequestLaunch(s) \/ Wake!LaunchFinished(s)
      PROVE  Wake!TypeOK'
  BY <1>2 DEF Wake!RequestLaunch, Wake!LaunchFinished, Wake!vars
<1>3. ASSUME NEW a \in attempts, AttemptStep(a) PROVE Wake!TypeOK'
  BY <1>3 DEF AttemptStep, Wake!AllowLaunchAfterStop
<1>4. CASE OutsideStep \/ Replace
  BY <1>4, OutsideFrame DEF Replace
<1>5. CASE Crash
  BY <1>5 DEF Crash, ForgetEverything
<1>6. CASE Tick
  BY <1>6 DEF Tick, Wake!Tick
<1> QED
  BY <1>1, <1>2, <1>3, <1>4, <1>5, <1>6, StepCases
     DEF AnswerCold, LaunchFinished

LEMMA LockedStep ==
  ASSUME Life!TypeOK, Wake!TypeOK, Alone!StopOnlyWhenQuiet, HistoryTypes,
         AttemptsAreIdle, IdleTimeIsQuiet, ClientsComeBack,
         LockedIsNotLaunching, [Next]_vars
  PROVE  LockedIsNotLaunching'
<1> SUFFICES ASSUME NEW b \in attempts', b.phase = "locked",
                    launch'[b.service] = "Launching"
             PROVE  FALSE
  BY DEF LockedIsNotLaunching
<1>1. PICK a \in attempts : Follows(b, a)
  BY AttemptsEvolve DEF Begins
<1>2. b.service \in Services /\ launch[b.service] # "Launching"
  BY <1>1 DEF Follows, LockedIsNotLaunching, Life!Obsolete, Life!TypeOK,
     Life!StopAttempts
<1>3. ~Crash
  BY DEF Crash, ForgetEverything
<1>4. PICK s \in Services : /\ client[s] = "asking" /\ UNCHANGED lifeVars
                            /\ Wake!RequestLaunch(s)
  BY <1>2, <1>3, WakeCases DEF Wake!LaunchFinished,
     Wake!AllowLaunchAfterStop, Wake!TypeOK
<1>5. s = b.service /\ b \in attempts
  BY <1>2, <1>4 DEF Wake!RequestLaunch, Wake!vars, Wake!TypeOK, lifeVars
<1>6. quietFor[s] = IdleTimeout /\ running
  BY <1>5, LockedIsQuiet
<1> QED BY <1>4, <1>6, TargetAssumption DEF ClientsComeBack

LEMMA KickstartStep ==
  ASSUME Life!TypeOK, Wake!TypeOK, LockedIsNotLaunching, Wake!OneKickstart,
         [Next]_vars
  PROVE  Wake!OneKickstart'
<1> USE DEF Wake!OneKickstart, Wake!LaunchInProgress, Wake!TypeOK,
        Wake!LaunchStates
<1>1. CASE UNCHANGED <<launch, kickstarts>>
  BY <1>1
<1>2. CASE Crash
  BY <1>2 DEF Crash, ForgetEverything
<1>3. ASSUME NEW s \in Services, Wake!RequestLaunch(s)
      PROVE  Wake!OneKickstart'
  BY <1>3 DEF Wake!RequestLaunch, Wake!MayLaunch, Wake!vars
<1>4. ASSUME NEW s \in Services, Wake!LaunchFinished(s)
      PROVE  Wake!OneKickstart'
  BY <1>4 DEF Wake!LaunchFinished
<1>5. ASSUME NEW a \in attempts, a.phase = "locked", a.service \in Services,
             Wake!AllowLaunchAfterStop(a.service)
      PROVE  Wake!OneKickstart'
  BY <1>5 DEF Wake!AllowLaunchAfterStop, LockedIsNotLaunching
<1> QED BY <1>1, <1>2, <1>3, <1>4, <1>5, WakeCases

-----------------------------------------------------------------------------
(* The invariant holds.                                                    *)

LEMMA InitEstablishes == Init => IInv
<1> SUFFICES ASSUME Init PROVE IInv
  OBVIOUS
<1> USE TargetAssumption DEF Init
<1>1. Alone!IInv
  <2>1. /\ Checked \subseteq Services /\ 0 \in Nat
        /\ IdleTimeout \in Nat \ {0} /\ CheckRetry \in Nat \ {0}
    OBVIOUS
  <2>2. Alone!Init
    BY DEF Life!Init, Alone!Init
  <2> QED BY <2>1, <2>2, Alone!InitInvariant
<1>2. Wake!TypeOK /\ Wake!OneKickstart
  BY DEF Wake!Init, Wake!TypeOK, Wake!LaunchStates, Wake!OneKickstart,
     Wake!LaunchInProgress
<1>3. Life!TypeOK
  BY <1>1 DEF Alone!IInv, Life!TypeOK, Alone!TypeOK, Life!StopAttempts,
     Alone!StopAttempts, Life!Phases, Alone!Phases
<1>4. TypeOK
  BY <1>2, <1>3 DEF TypeOK
<1>5. /\ AttemptsAreIdle /\ UndisturbedIsUnused
      /\ CheckingIsDue /\ LockedIsNotLaunching
  BY DEF Life!Init, AttemptsAreIdle, UndisturbedIsUnused, CheckingIsDue,
     LockedIsNotLaunching
<1>6. /\ IdleTimeIsQuiet /\ ForgottenWhileDown /\ RetryTimeIsRefusal
      /\ ClientsComeBack
  BY DEF Life!Init, IdleTimeIsQuiet, ForgottenWhileDown, RetryTimeIsRefusal,
     ClientsComeBack
<1> QED BY <1>1, <1>2, <1>4, <1>5, <1>6 DEF IInv

LEMMA StepKeeps == IInv /\ [Next]_vars => IInv'
<1> SUFFICES ASSUME IInv, [Next]_vars PROVE IInv'
  OBVIOUS
<1>1. /\ TypeOK /\ Wake!TypeOK /\ Life!TypeOK /\ OwnTypes /\ HistoryTypes
      /\ Alone!IInv /\ Alone!StopOnlyWhenQuiet
  BY DEF IInv, TypeOK, OwnTypes, ClientTypes, HistoryTypes, TargetTypes,
     GatewayTypes, Alone!IInv
<1>2. Alone!IInv' /\ Wake!TypeOK' /\ OwnTypes'
  BY <1>1, AloneStep, WakeTypesStep, OwnTypesStep DEF IInv
<1>3. AttemptsAreIdle' /\ UndisturbedIsUnused'
  BY <1>1, AttemptsIdleStep, UnusedStep DEF IInv
<1>4. ForgottenWhileDown' /\ RetryTimeIsRefusal' /\ CheckingIsDue'
  BY <1>1, ForgottenStep, RetryStep, DueStep DEF IInv
<1>5. IdleTimeIsQuiet' /\ ClientsComeBack'
  BY <1>1, QuietTimeStep, ClientsStep DEF IInv
<1>6. LockedIsNotLaunching' /\ Wake!OneKickstart'
  BY <1>1, LockedStep, KickstartStep DEF IInv
<1>7. TypeOK'
  BY <1>2 DEF TypeOK, OwnTypes, ClientTypes, HistoryTypes, TargetTypes,
     GatewayTypes, Alone!IInv, Life!TypeOK, Alone!TypeOK, Life!StopAttempts,
     Alone!StopAttempts, Life!Phases, Alone!Phases
<1> QED BY <1>2, <1>3, <1>4, <1>5, <1>6, <1>7 DEF IInv

LEMMA Invariance == Spec => []IInv
BY InitEstablishes, StepKeeps, PTL DEF Spec

LEMMA InvariantQuiet ==
  ASSUME IInv, NEW a \in attempts, a.phase = "locked"
  PROVE  quietFor[a.service] = IdleTimeout /\ running /\ a.service \in Services
BY LockedIsQuiet DEF IInv, TypeOK, HistoryTypes, Alone!IInv, Life!TypeOK,
   Life!StopAttempts

-----------------------------------------------------------------------------
(* The tries of a client: what the count below rests on.                   *)

Kickstart(s) == [service |-> s, verb |-> "kickstart", owned |-> TRUE]
Kill(s) == [service |-> s, verb |-> "kill", owned |-> TRUE]
OrphanKill(s) == [service |-> s, verb |-> "kill", owned |-> FALSE]

RestartIsTimed == running => restartIn = 0

\* A client waits for a time only when it was told to, and counts its tries
\* only while it visits.
ClientsRest ==
    \A s \in Services :
        /\ client[s] # "waiting" => clientIn[s] = 0
        /\ client[s] = "away" => tries[s] = 0
        /\ client[s] \in {"asking", "served"} => running

\* The lease of a request that is proxied, to a process that is there.
LeaseIsServed ==
    \A s \in Services :
        /\ client[s] = "served" => target[s] \in {"up", "exiting"}
        /\ inFlight[s] = (IF client[s] = "served" THEN 1 ELSE 0)

KickstartIsLaunching ==
    \A s \in Services : Kickstart(s) \in commands => launch[s] = "Launching"

EligibleWhileDown ==
    ~running => \A s \in Services : launch[s] = "Eligible"

TargetsAreTimed ==
    \A s \in Services :
        /\ target[s] = "starting" => targetIn[s] <= StartTime
        /\ target[s] = "exiting" => targetIn[s] <= ExitTime

\* Only a crash leaves a launchctl behind.
OrphansAreFaults ==
    \A s \in Services : OrphanKill(s) \in commands => faultsLeft < Faults

ClientInv ==
    /\ RestartIsTimed /\ ClientsRest /\ LeaseIsServed /\ KickstartIsLaunching
    /\ EligibleWhileDown /\ TargetsAreTimed /\ OrphansAreFaults

LEMMA RestartStep ==
  ASSUME GatewayTypes, RestartIsTimed, [Next]_vars PROVE RestartIsTimed'
<1> USE DEF RestartIsTimed
<1>1. CASE Crash \/ Replace
  BY <1>1 DEF Crash, Replace
<1>2. CASE Tick
  BY <1>2 DEF Tick, CountDown
<1>3. UNCHANGED <<running, restartIn>> \/ Crash \/ Replace \/ Tick
  <2>1. OutsideStep => UNCHANGED <<running, restartIn>>
    BY OutsideFrame DEF gatewayVars
  <2> QED
    BY <2>1, StepCases DEF Ask, Serve, AnswerCold, LaunchFinished, Exit,
       Complete, Scan, AttemptStep, gatewayVars
<1> QED BY <1>1, <1>2, <1>3

\* Who moves a client.
LEMMA ClientCases ==
  ASSUME [Next]_vars
  PROVE  \/ UNCHANGED <<client, clientIn, tries, running>>
         \/ \E s \in Services :
                Ask(s) \/ Serve(s) \/ AnswerCold(s) \/ Complete(s) \/ Refused(s)
         \/ \E s \in Services : Exit(s) /\ client[s] = "served"
         \/ Crash \/ Replace \/ Tick
<1> USE DEF clientVars, gatewayVars
<1>1. ASSUME NEW s \in Services, LaunchFinished(s) \/ Scan(s) \/ Listen(s)
      PROVE  UNCHANGED <<client, clientIn, tries, running>>
  BY <1>1 DEF LaunchFinished, Scan, Listen
<1>2. ASSUME NEW s \in Services, Exit(s), client[s] # "served"
      PROVE  UNCHANGED <<client, clientIn, tries, running>>
  BY <1>2 DEF Exit
<1>3. CASE \/ \E c \in commands : LaunchctlActs(c) \/ OrphanEnds(c)
           \/ \E a \in attempts : AttemptStep(a)
           \/ UNCHANGED vars
  BY <1>3 DEF LaunchctlActs, OrphanEnds, AttemptStep, vars
<1> QED BY <1>1, <1>2, <1>3 DEF Next, ServiceStep

LEMMA RestStep ==
  ASSUME ClientTypes, ClientsRest, [Next]_vars PROVE ClientsRest'
<1> USE TargetAssumption DEF ClientsRest, ClientTypes
<1>1. CASE UNCHANGED <<client, clientIn, tries, running>>
  BY <1>1
<1>2. ASSUME NEW s \in Services, Ask(s) PROVE ClientsRest'
  BY <1>2 DEF Ask, gatewayVars
<1>3. ASSUME NEW s \in Services, Serve(s) \/ Complete(s) PROVE ClientsRest'
  BY <1>3 DEF Serve, Complete, gatewayVars
<1>4. ASSUME NEW s \in Services, Failed({s}), UNCHANGED running
      PROVE  ClientsRest'
  BY <1>4 DEF Failed
<1>5. ASSUME NEW s \in Services,
             \/ AnswerCold(s) \/ Refused(s)
             \/ Exit(s) /\ client[s] = "served"
      PROVE  ClientsRest'
  BY <1>4, <1>5 DEF AnswerCold, Refused, Exit, gatewayVars
<1>6. CASE Crash
  BY <1>6 DEF Crash, Failed
<1>7. CASE Replace
  BY <1>7 DEF Replace, clientVars
<1>8. CASE Tick
  <2>1. \A s \in Services : clientIn'[s] = CountDown(clientIn[s])
    BY <1>8 DEF Tick
  <2> QED BY <1>8, <2>1 DEF Tick, CountDown
<1> QED BY <1>1, <1>2, <1>3, <1>5, <1>6, <1>7, <1>8, ClientCases

LEMMA LeaseStep ==
  ASSUME ClientTypes, TargetTypes, GatewayTypes, Life!TypeOK, LeaseIsServed,
         [Next]_vars
  PROVE  LeaseIsServed'
<1> USE DEF LeaseIsServed, ClientTypes, TargetTypes, Life!TypeOK
<1>1. CASE UNCHANGED <<client, target, inFlight>>
  BY <1>1
<1>2. ASSUME NEW s \in Services, Ask(s) PROVE LeaseIsServed'
  BY <1>2 DEF Ask, Life!NoteRequestArrival, targetVars
<1>3. ASSUME NEW s \in Services, Serve(s) PROVE LeaseIsServed'
  BY <1>3 DEF Serve, Life!Acquire, targetVars
<1>4. ASSUME NEW s \in Services, Complete(s) PROVE LeaseIsServed'
  BY <1>4 DEF Complete, Life!Release, targetVars
<1>5. ASSUME NEW s \in Services, AnswerCold(s) \/ Refused(s)
      PROVE  LeaseIsServed'
  BY <1>5 DEF AnswerCold, Refused, Failed, targetVars, lifeVars
<1>6. ASSUME NEW s \in Services, Exit(s) PROVE LeaseIsServed'
  <2>1. CASE client[s] = "served"
    BY <1>6, <2>1 DEF Exit, Become, Life!Release, Failed
  <2>2. CASE client[s] # "served"
    BY <1>6, <2>2 DEF Exit, Become, lifeVars, clientVars
  <2> QED BY <2>1, <2>2
<1>7. ASSUME NEW s \in Services, Listen(s) PROVE LeaseIsServed'
  BY <1>7 DEF Listen, Become, lifeVars, clientVars
<1>8. ASSUME NEW c \in commands, LaunchctlActs(c) \/ OrphanEnds(c)
      PROVE  LeaseIsServed'
  <2>1. c.service \in Services
    BY DEF GatewayTypes, Commands
  <2>2. CASE UNCHANGED targetVars
    BY <1>1, <1>8, <2>2 DEF LaunchctlActs, OrphanEnds, targetVars, lifeVars,
       clientVars
  <2>3. CASE LaunchctlActs(c) /\ ~UNCHANGED targetVars
    BY <1>8, <2>1, <2>3 DEF LaunchctlActs, Become, lifeVars, clientVars
  <2> QED BY <1>8, <2>2, <2>3 DEF OrphanEnds
<1>9. ASSUME NEW s \in Services, LaunchFinished(s) \/ Scan(s)
      PROVE  LeaseIsServed'
  BY <1>1, <1>9 DEF LaunchFinished, Scan, Life!BeginStopAttempt,
     Life!BeginAttempt, Life!activityVars, lifeVars, targetVars, clientVars
<1>10. ASSUME NEW a \in attempts, AttemptStep(a) PROVE LeaseIsServed'
  BY <1>1, <1>10 DEF AttemptStep, Life!CheckAllows, Life!CheckRefuses,
     Life!Discard, Life!Decide, Life!StartStop, Life!StopNotStarted,
     Life!FinishStop, Life!activityVars, targetVars, clientVars
<1>11. CASE Crash
  BY <1>11 DEF Crash, ForgetEverything, Failed, targetVars
<1>12. CASE Replace \/ Tick \/ UNCHANGED vars
  BY <1>1, <1>12 DEF Replace, Tick, Life!Tick, vars, lifeVars, targetVars,
     clientVars
<1> QED
  BY <1>2, <1>3, <1>4, <1>5, <1>6, <1>7, <1>8, <1>9, <1>10, <1>11, <1>12
     DEF Next, ServiceStep

LEMMA KickstartFlagStep ==
  ASSUME Wake!TypeOK, Life!TypeOK, GatewayTypes, LockedIsNotLaunching,
         KickstartIsLaunching, [Next]_vars
  PROVE  KickstartIsLaunching'
<1> SUFFICES ASSUME NEW t \in Services, Kickstart(t) \in commands'
             PROVE  launch'[t] = "Launching"
  BY DEF KickstartIsLaunching
<1> USE DEF Wake!TypeOK, wakeVars
<1>1. ASSUME UNCHANGED launch, Kickstart(t) \in commands
      PROVE  launch'[t] = "Launching"
  BY <1>1 DEF KickstartIsLaunching
<1>2. ASSUME NEW s \in Services,
             \/ Ask(s) \/ Serve(s) \/ Complete(s) \/ Refused(s) \/ Exit(s)
             \/ Listen(s) \/ Scan(s)
      PROVE  launch'[t] = "Launching"
  BY <1>1, <1>2 DEF Ask, Serve, Complete, Refused, Exit, Listen, Scan
<1>3. ASSUME NEW s \in Services, AnswerCold(s) PROVE launch'[t] = "Launching"
  <2>1. CASE Wake!MayLaunch(s)
    <3>1. commands' = commands \cup {Kickstart(s)}
      BY <1>3, <2>1 DEF AnswerCold, Kickstart
    <3>2. launch' = [launch EXCEPT ![s] = "Launching"]
      BY <1>3, <2>1 DEF AnswerCold, Wake!RequestLaunch
    <3>3. t = s \/ Kickstart(t) \in commands
      BY <3>1 DEF Kickstart
    <3> QED BY <3>2, <3>3 DEF KickstartIsLaunching
  <2>2. CASE ~Wake!MayLaunch(s)
    BY <1>1, <1>3, <2>2 DEF AnswerCold, Wake!RequestLaunch, Wake!vars
  <2> QED BY <2>1, <2>2
<1>4. ASSUME NEW s \in Services, LaunchFinished(s)
      PROVE  launch'[t] = "Launching"
  <2>1. commands' = commands \ {Kickstart(s)}
    BY <1>4 DEF LaunchFinished, Kickstart
  <2>2. launch' = [launch EXCEPT ![s] = "CoolingDown"]
    BY <1>4 DEF LaunchFinished, Wake!LaunchFinished
  <2> QED BY <2>1, <2>2 DEF KickstartIsLaunching, Kickstart
<1>5. ASSUME NEW c \in commands, LaunchctlActs(c) \/ OrphanEnds(c)
      PROVE  launch'[t] = "Launching"
  BY <1>1, <1>5 DEF LaunchctlActs, OrphanEnds
<1>6. ASSUME NEW a \in attempts, AttemptStep(a)
      PROVE  launch'[t] = "Launching"
  <2>1. a.service \in Services
    BY DEF Life!TypeOK, Life!StopAttempts
  <2>2. commands' \subseteq commands \cup {Kill(a.service)}
    BY <1>6 DEF AttemptStep, Kill
  <2>3. Kickstart(t) \in commands
    <3>1. Kickstart(t) # Kill(a.service)
      BY DEF Kickstart, Kill
    <3> QED BY <2>2, <3>1
  <2>4. launch[t] = "Launching"
    BY <2>3 DEF KickstartIsLaunching
  <2>5. CASE UNCHANGED launch
    BY <2>4, <2>5
  <2>6. CASE /\ a.phase = "locked" /\ Wake!AllowLaunchAfterStop(a.service)
    BY <2>1, <2>4, <2>6 DEF Wake!AllowLaunchAfterStop, LockedIsNotLaunching
  <2> QED BY <1>6, <2>5, <2>6 DEF AttemptStep, Life!StartStop
<1>7. CASE Crash
  <2>1. PICK c \in commands : Kickstart(t) = [c EXCEPT !.owned = FALSE]
    BY <1>7 DEF Crash
  <2>2. [c EXCEPT !.owned = FALSE].owned = FALSE
    BY DEF GatewayTypes, Commands
  <2>3. Kickstart(t).owned = TRUE
    BY DEF Kickstart
  <2> QED BY <2>1, <2>2, <2>3
<1>8. CASE Replace \/ Tick \/ UNCHANGED vars
  BY <1>1, <1>8 DEF Replace, Tick, Wake!Tick, vars
<1> QED BY <1>2, <1>3, <1>4, <1>5, <1>6, <1>7, <1>8 DEF Next, ServiceStep

LEMMA EligibleStep ==
  ASSUME ClientsRest, Wake!TypeOK, Life!TypeOK, AttemptsAreIdle, Wake!OneKickstart,
         EligibleWhileDown, [Next]_vars
  PROVE  EligibleWhileDown'
<1> USE DEF EligibleWhileDown
<1>1. CASE Crash
  BY <1>1 DEF Crash, ForgetEverything
<1>2. CASE Replace
  BY <1>2 DEF Replace
<1>3. CASE ~Crash /\ ~Replace
  <2>1. UNCHANGED running
    BY <1>3, LifeCases DEF ActivityStep, QuietStep, Scan, AttemptStep, Tick,
       gatewayVars
  <2>2. CASE UNCHANGED launch
    BY <2>1, <2>2
  <2>3. ASSUME NEW s \in Services, client[s] = "asking" PROVE running
    BY <2>3 DEF ClientsRest
  <2>4. ASSUME NEW s \in Services, Wake!LaunchFinished(s), ~running PROVE FALSE
    BY <2>4 DEF Wake!LaunchFinished, Wake!OneKickstart,
       Wake!LaunchInProgress
  <2> QED
    BY <1>3, <2>1, <2>2, <2>3, <2>4, WakeCases DEF AttemptsAreIdle
<1> QED BY <1>1, <1>2, <1>3

LEMMA TargetTimesStep ==
  ASSUME TargetTypes, GatewayTypes, TargetsAreTimed, [Next]_vars
  PROVE  TargetsAreTimed'
<1> USE TargetAssumption DEF TargetsAreTimed, TargetTypes
<1>1. CASE UNCHANGED targetVars
  BY <1>1 DEF targetVars
<1>2. ASSUME NEW s \in Services, Become(s, "up", 0) \/ Become(s, "down", 0)
                 \/ Become(s, "starting", StartTime)
                 \/ Become(s, "exiting", ExitTime)
      PROVE  TargetsAreTimed'
  BY <1>2 DEF Become
<1>3. CASE Tick
  <2>1. \A s \in Services : targetIn'[s] = CountDown(targetIn[s])
    BY <1>3 DEF Tick
  <2>2. UNCHANGED target
    BY <1>3 DEF Tick
  <2> QED BY <2>1, <2>2 DEF CountDown
<1>4. ASSUME NEW s \in Services, Exit(s) \/ Listen(s) PROVE TargetsAreTimed'
  BY <1>2, <1>4 DEF Exit, Listen
<1>5. ASSUME NEW c \in commands, LaunchctlActs(c) PROVE TargetsAreTimed'
  <2>1. c.service \in Services
    BY DEF GatewayTypes, Commands
  <2> QED BY <1>1, <1>2, <1>5, <2>1 DEF LaunchctlActs
<1>6. UNCHANGED targetVars \/ Tick
      \/ (\E s \in Services : Exit(s) \/ Listen(s))
      \/ (\E c \in commands : LaunchctlActs(c))
  BY DEF Next, ServiceStep, Ask, Serve, AnswerCold, Refused, Complete,
     LaunchFinished, Scan, OrphanEnds, AttemptStep, Crash, Replace, vars
<1> QED BY <1>1, <1>3, <1>4, <1>5, <1>6

LEMMA FaultsFall ==
  ASSUME faultsLeft \in 0 .. Faults, [Next]_vars
  PROVE  faultsLeft' \in 0 .. Faults /\ faultsLeft' <= faultsLeft
<1> USE TargetAssumption
<1>1. UNCHANGED faultsLeft \/ Fault
  BY DEF Next, ServiceStep, Ask, Serve, AnswerCold, Refused, Complete, Listen,
     Exit, LaunchctlActs, LaunchFinished, Scan, OrphanEnds, AttemptStep, Crash,
     Replace, Tick, vars
<1> QED BY <1>1 DEF Fault

LEMMA OrphansStep ==
  ASSUME GatewayTypes, faultsLeft \in 0 .. Faults, OrphansAreFaults,
         [Next]_vars
  PROVE  OrphansAreFaults'
<1> SUFFICES ASSUME NEW t \in Services, OrphanKill(t) \in commands'
             PROVE  faultsLeft' < Faults
  BY DEF OrphansAreFaults
<1> USE TargetAssumption
<1>1. CASE Crash
  BY <1>1 DEF Crash, Fault
<1>2. CASE ~Crash
  <2>1. \/ commands' \subseteq commands
        \/ \E s : \/ commands' = commands \cup {Kickstart(s)}
                  \/ commands' = commands \cup {Kill(s)}
    BY <1>2 DEF Next, ServiceStep, Ask, Serve, AnswerCold, Refused, Complete,
       Listen, Exit, LaunchctlActs, LaunchFinished, Scan, OrphanEnds,
       AttemptStep, Replace, Tick, vars, Kickstart, Kill
  <2>2. OrphanKill(t) \in commands
    <3>1. \A s : OrphanKill(t) # Kickstart(s) /\ OrphanKill(t) # Kill(s)
      BY DEF Kickstart, Kill, OrphanKill
    <3>2. CASE commands' \subseteq commands
      BY <3>2
    <3>3. ASSUME NEW s, \/ commands' = commands \cup {Kickstart(s)}
                        \/ commands' = commands \cup {Kill(s)}
          PROVE  OrphanKill(t) \in commands
      <4>1. OrphanKill(t) # Kickstart(s) /\ OrphanKill(t) # Kill(s)
        BY <3>1
      <4> QED BY <3>3, <4>1
    <3> QED BY <2>1, <3>2, <3>3
  <2>3. faultsLeft < Faults
    BY <2>2 DEF OrphansAreFaults
  <2> QED BY <2>3, FaultsFall
<1> QED BY <1>1, <1>2

LEMMA ClientInvInit == Init => ClientInv
<1> SUFFICES ASSUME Init PROVE ClientInv
  OBVIOUS
<1> QED
  BY DEF Init, Wake!Init, Life!Init, ClientInv, RestartIsTimed, ClientsRest,
     LeaseIsServed, KickstartIsLaunching, EligibleWhileDown, TargetsAreTimed,
     OrphansAreFaults

LEMMA ClientInvStep ==
  ASSUME IInv, ClientInv, [Next]_vars PROVE ClientInv'
<1>1. /\ Wake!TypeOK /\ Life!TypeOK /\ ClientTypes /\ TargetTypes /\ GatewayTypes
      /\ faultsLeft \in 0 .. Faults /\ AttemptsAreIdle /\ LockedIsNotLaunching
      /\ Wake!OneKickstart
  BY DEF IInv, TypeOK, ClientTypes, TargetTypes, GatewayTypes
<1>2. /\ RestartIsTimed /\ ClientsRest /\ LeaseIsServed /\ KickstartIsLaunching
      /\ EligibleWhileDown /\ TargetsAreTimed /\ OrphansAreFaults
  BY DEF ClientInv
<1>3. RestartIsTimed' /\ ClientsRest' /\ LeaseIsServed'
  BY <1>1, <1>2, RestartStep, RestStep, LeaseStep
<1>4. KickstartIsLaunching' /\ EligibleWhileDown'
  BY <1>1, <1>2, KickstartFlagStep, EligibleStep
<1>5. TargetsAreTimed' /\ OrphansAreFaults'
  BY <1>1, <1>2, TargetTimesStep, OrphansStep
<1> QED BY <1>3, <1>4, <1>5 DEF ClientInv

-----------------------------------------------------------------------------
(* The count: tries against the time a service needs.                      *)

\* Ticks from a try that may start the service until it listens and a client
\* that waits has come back.
Relaunch == LaunchTimeout + StartTime + RetryAfter

\* The same after a kickstart that met the old process while it was exiting.
Recovery == LaunchTimeout + RetryCooldown + RetryAfter + Relaunch

\* The longest time from a disruption until the client is served.
Outage == RestartTime + ExitTime + Recovery

UntilAsked(s) == IF running THEN clientIn[s] ELSE restartIn + RetryAfter

\* Ticks until the client is served, if nothing disrupts its service.
UntilServed(s) ==
    CASE target[s] = "up"       -> UntilAsked(s)
      [] target[s] = "starting" -> targetIn[s] + restartIn + RetryAfter
      [] target[s] = "exiting"  -> targetIn[s] + restartIn + Recovery
      [] target[s] = "down"     ->
             IF Kickstart(s) \in commands
             THEN kickIn[s] + StartTime + RetryAfter
             ELSE IF launch[s] = "Launching"
             THEN kickIn[s] + RetryCooldown + RetryAfter + Relaunch
             ELSE IF launch[s] = "CoolingDown" /\ coolIn[s] > 0
             THEN coolIn[s] + RetryAfter + Relaunch
             ELSE UntilAsked(s) + Relaunch

\* What can still disrupt it: faults, and kills on their way to launchd.
Count(c) == IF c \in commands THEN 1 ELSE 0
Disruptions(s) == faultsLeft + Count(Kill(s)) + Count(OrphanKill(s))

\* Ticks a client of s has waited for, each failed try being RetryAfter.
Waited(s) == RetryAfter * tries[s] - clientIn[s]

\* What a visit has cost and may cost yet is an outage for every disruption:
\* each fault, the kill that may be on its way when it begins, the cold start.
TriesArePaid ==
    \A s \in Services : client[s] # "away" =>
        Waited(s) + UntilServed(s) + Outage * Disruptions(s)
            <= Outage * (Faults + 2)

\* What these times range over.
OtherTypes ==
    /\ ClientTypes /\ TargetTypes /\ GatewayTypes /\ Wake!TypeOK
    /\ faultsLeft \in 0 .. Faults

LEMMA IInvTypes == ASSUME IInv PROVE OtherTypes
BY DEF IInv, TypeOK, OtherTypes, ClientTypes, TargetTypes, GatewayTypes

LEMMA Times ==
  /\ Relaunch \in Nat /\ Recovery \in Nat /\ Outage \in Nat
  /\ RetryAfter + Relaunch <= Recovery
  /\ RestartTime + Recovery <= Outage
BY TargetAssumption DEF Relaunch, Recovery, Outage

LEMMA Values ==
  ASSUME OtherTypes, NEW s \in Services
  PROVE  /\ clientIn[s] \in 0 .. RetryAfter /\ tries[s] \in Nat
         /\ target[s] \in {"down", "starting", "up", "exiting"}
         /\ targetIn[s] \in Nat
         /\ kickIn[s] \in 0 .. LaunchTimeout
         /\ coolIn[s] \in 0 .. RetryCooldown
         /\ launch[s] \in Wake!LaunchStates
         /\ restartIn \in 0 .. RestartTime
         /\ RetryAfter \in Nat /\ LaunchTimeout \in Nat /\ RetryCooldown \in Nat
         /\ RestartTime \in Nat /\ StartTime \in Nat /\ ExitTime \in Nat
BY TargetAssumption DEF OtherTypes, ClientTypes, TargetTypes, GatewayTypes,
   Wake!TypeOK

LEMMA WithinOutage ==
  ASSUME OtherTypes, TargetsAreTimed, NEW s \in Services
  PROVE  UntilServed(s) \in Nat /\ clientIn[s] <= UntilServed(s)
         /\ UntilServed(s) <= Outage
<1>1. UntilAsked(s) \in Nat /\ clientIn[s] <= UntilAsked(s)
      /\ UntilAsked(s) <= RestartTime + RetryAfter
  BY Values DEF UntilAsked
<1>2. target[s] = "starting" => targetIn[s] <= StartTime
  BY DEF TargetsAreTimed
<1>3. target[s] = "exiting" => targetIn[s] <= ExitTime
  BY DEF TargetsAreTimed
<1> HIDE DEF UntilAsked
<1> QED
  BY <1>1, <1>2, <1>3, Values DEF UntilServed, Outage, Recovery, Relaunch

LEMMA DisruptionsFew ==
  ASSUME OtherTypes, OrphansAreFaults, NEW s \in Services
  PROVE  Disruptions(s) \in Nat /\ Disruptions(s) <= Faults + 1
<1>1. faultsLeft \in 0 .. Faults /\ Faults \in Nat
  BY TargetAssumption DEF OtherTypes
<1>2. Count(Kill(s)) \in 0 .. 1
  BY DEF Count
<1>3. /\ Count(OrphanKill(s)) \in 0 .. 1
      /\ Count(OrphanKill(s)) = 1 => faultsLeft < Faults
  <2>1. OrphanKill(s) \in commands => faultsLeft < Faults
    BY DEF OrphansAreFaults
  <2> QED BY <2>1 DEF Count
<1> DEFINE k == Count(Kill(s))   o == Count(OrphanKill(s))
<1>4. Disruptions(s) = faultsLeft + k + o
  BY DEF Disruptions
<1> HIDE DEF k, o
<1>5. k \in 0 .. 1 /\ o \in 0 .. 1 /\ (o = 1 => faultsLeft < Faults)
  BY <1>2, <1>3 DEF k, o
<1> QED BY <1>1, <1>4, <1>5

\* A step that disrupts nothing: the client has waited for as long as its
\* service has come nearer.
Settles(s) ==
    /\ Disruptions(s)' <= Disruptions(s)
    /\ Waited(s)' + UntilServed(s)' <= Waited(s) + UntilServed(s)

\* A disruption is one less to come.
Disrupts(s) ==
    /\ Disruptions(s)' < Disruptions(s)
    /\ Waited(s)' <= Waited(s)

\* Wherever a client is, its service is at most an outage away.
Bounds ==
    \A s \in Services :
        /\ Waited(s) \in Int
        /\ UntilServed(s) \in Nat /\ UntilServed(s) <= Outage
        /\ clientIn[s] <= UntilServed(s)
        /\ Disruptions(s) \in Nat /\ Disruptions(s) <= Faults + 1

LEMMA BoundsHold == OtherTypes /\ ClientInv => Bounds
<1> SUFFICES ASSUME OtherTypes, ClientInv, NEW s \in Services
             PROVE  /\ Waited(s) \in Int
                    /\ UntilServed(s) \in Nat /\ UntilServed(s) <= Outage
                    /\ clientIn[s] <= UntilServed(s)
                    /\ Disruptions(s) \in Nat /\ Disruptions(s) <= Faults + 1
  BY DEF Bounds
<1>1. Waited(s) \in Int
  BY Values DEF Waited
<1> QED BY <1>1, WithinOutage, DisruptionsFew DEF ClientInv

LEMMA BoundsHoldNext == OtherTypes' /\ ClientInv' => Bounds'
BY BoundsHold, PTL

LEMMA PaidStep ==
  ASSUME Bounds, Bounds',
         NEW s \in Services, Settles(s) \/ Disrupts(s),
         Waited(s) + UntilServed(s) + Outage * Disruptions(s)
             <= Outage * (Faults + 2)
  PROVE  (Waited(s) + UntilServed(s) + Outage * Disruptions(s))'
             <= Outage * (Faults + 2)
<1> DEFINE w == Waited(s)         v == Waited(s)'
           u == UntilServed(s)    t == UntilServed(s)'
           d == Disruptions(s)    e == Disruptions(s)'
           paid == Outage * (Faults + 2)
<1>1. w \in Int /\ v \in Int /\ u \in Nat /\ t \in Nat /\ d \in Nat /\ e \in Nat
      /\ u <= Outage /\ t <= Outage /\ Outage \in Nat /\ paid \in Int
  BY Times, TargetAssumption DEF Bounds
<1>2. \/ e <= d /\ v + t <= w + u
      \/ e < d /\ v <= w
  BY DEF Settles, Disrupts
<1>3. w + u + Outage * d <= paid
  OBVIOUS
<1> HIDE DEF w, v, u, t, d, e, paid
<1>4. CASE e <= d /\ v + t <= w + u
  <2>1. Outage * e <= Outage * d
    BY <1>1, <1>4
  <2>2. Outage * e \in Int /\ Outage * d \in Int
    BY <1>1
  <2> QED BY <1>1, <1>3, <1>4, <2>1, <2>2 DEF w, v, u, t, d, e, paid
<1>5. CASE e < d /\ v <= w
  <2>1. Outage * e + Outage <= Outage * d
    <3>1. Outage * (e + 1) <= Outage * d
      BY <1>1, <1>5
    <3>2. Outage * (e + 1) = Outage * e + Outage
      BY <1>1
    <3> QED BY <3>1, <3>2
  <2>2. Outage * e \in Int /\ Outage * d \in Int
    BY <1>1
  <2>3. v + t + Outage * e <= paid
    BY <1>1, <1>3, <1>5, <2>1, <2>2
  <2> QED BY <2>3 DEF v, t, e, paid
<1> QED BY <1>2, <1>4, <1>5

-----------------------------------------------------------------------------
(* Stops and faults.                                                       *)

\* The gateway sends no stop between a client's arrival and its answer.
LEMMA StopsSpareVisits ==
  ASSUME IInv, LeaseIsServed, RetryAfter < IdleTimeout,
         NEW a \in attempts, a.phase = "locked"
  PROVE  client[a.service] = "away"
<1>1. /\ quietFor[a.service] = IdleTimeout /\ running /\ a.service \in Services
      /\ inFlight[a.service] = 0
  BY InvariantQuiet DEF IInv, Alone!IInv, Alone!StopOnlyWhenQuiet
<1>2. /\ clientIn[a.service] \in Nat
      /\ client[a.service] \in {"away", "asking", "served", "waiting"}
  BY <1>1, TargetAssumption DEF IInv, TypeOK
<1>3. client[a.service] \notin {"asking", "waiting"}
  BY <1>1, <1>2, TargetAssumption DEF IInv, ClientsComeBack
<1>4. client[a.service] # "served"
  BY <1>1 DEF LeaseIsServed
<1> QED BY <1>2, <1>3, <1>4

NoNewKills(s) ==
    /\ Kill(s) \in commands' => Kill(s) \in commands
    /\ OrphanKill(s) \in commands' => OrphanKill(s) \in commands

LEMMA KillsAreStops ==
  ASSUME Life!TypeOK, [Next]_vars, ~Crash, NEW s \in Services,
         \A a \in attempts : a.phase = "locked" => a.service # s
  PROVE  NoNewKills(s)
<1>1. \/ commands' \subseteq commands
      \/ \E t : commands' = commands \cup {Kickstart(t)}
      \/ \E a \in attempts : /\ a.phase = "locked"
                             /\ commands' = commands \cup {Kill(a.service)}
  BY DEF Next, ServiceStep, Ask, Serve, AnswerCold, Refused, Complete,
     Listen, Exit, LaunchctlActs, LaunchFinished, Scan, OrphanEnds,
     AttemptStep, Replace, Tick, vars, Kickstart, Kill, Life!StartStop
<1>2. CASE commands' \subseteq commands
  BY <1>2 DEF NoNewKills
<1>3. ASSUME NEW t, commands' = commands \cup {Kickstart(t)}
      PROVE  NoNewKills(s)
  <2>1. Kill(s) # Kickstart(t) /\ OrphanKill(s) # Kickstart(t)
    BY DEF Kickstart, Kill, OrphanKill
  <2> QED BY <1>3, <2>1 DEF NoNewKills
<1>4. ASSUME NEW a \in attempts, a.phase = "locked",
             commands' = commands \cup {Kill(a.service)}
      PROVE  NoNewKills(s)
  <2>1. Kill(s) # Kill(a.service) /\ OrphanKill(s) # Kill(a.service)
    BY <1>4 DEF Kill, OrphanKill
  <2> QED BY <1>4, <2>1 DEF NoNewKills
<1> QED BY <1>1, <1>2, <1>3, <1>4

\* What makes the disruptions fewer.
LEMMA DisruptionsFall ==
  ASSUME faultsLeft \in 0 .. Faults, faultsLeft' \in 0 .. Faults,
         faultsLeft' <= faultsLeft, NEW s \in Services, NoNewKills(s)
  PROVE  /\ Disruptions(s)' <= Disruptions(s)
         /\ \/ faultsLeft' < faultsLeft
            \/ Kill(s) \in commands /\ Kill(s) \notin commands'
            \/ OrphanKill(s) \in commands /\ OrphanKill(s) \notin commands'
            => Disruptions(s)' < Disruptions(s)
<1> DEFINE k == Count(Kill(s))         o == Count(OrphanKill(s))
           l == Count(Kill(s))'        p == Count(OrphanKill(s))'
<1>1. k \in 0 .. 1 /\ o \in 0 .. 1 /\ l \in 0 .. 1 /\ p \in 0 .. 1
  BY DEF Count
<1>2. l <= k /\ (Kill(s) \in commands /\ Kill(s) \notin commands' => l < k)
  BY DEF Count, NoNewKills
<1>3. p <= o
      /\ (OrphanKill(s) \in commands /\ OrphanKill(s) \notin commands' => p < o)
  BY DEF Count, NoNewKills
<1>4. /\ Disruptions(s) = faultsLeft + k + o
      /\ Disruptions(s)' = faultsLeft' + l + p
  BY DEF Disruptions
<1> HIDE DEF k, o, l, p
<1>5. Faults \in Nat
  BY TargetAssumption
<1> DEFINE f == faultsLeft   g == faultsLeft'
<1>6. /\ f \in Int /\ g \in Int /\ g <= f
      /\ k \in Int /\ o \in Int /\ l \in Int /\ p \in Int
  BY <1>1, <1>5
<1> HIDE DEF f, g
<1>7. g + l + p <= f + k + o /\ (g < f \/ l < k \/ p < o => g + l + p < f + k + o)
  BY <1>2, <1>3, <1>6
<1>8. Disruptions(s)' <= Disruptions(s)
  BY <1>4, <1>7 DEF f, g
<1>9. faultsLeft' < faultsLeft \/ l < k \/ p < o
      => Disruptions(s)' < Disruptions(s)
  BY <1>4, <1>7 DEF f, g
<1> QED BY <1>2, <1>3, <1>8, <1>9

\* A step that does not touch the service or its client.
Untouched(s) ==
    /\ UNCHANGED <<tries[s], clientIn[s], target[s], targetIn[s], kickIn[s],
                   launch[s], coolIn[s], running, restartIn>>
    /\ Kickstart(s) \in commands' <=> Kickstart(s) \in commands

LEMMA UntouchedServed ==
  ASSUME NEW s \in Services, Untouched(s)
  PROVE  Waited(s)' = Waited(s) /\ UntilServed(s)' = UntilServed(s)
<1>1. UntilAsked(s)' = UntilAsked(s)
  BY DEF UntilAsked, Untouched
<1> QED BY <1>1 DEF Untouched, UntilServed, Waited

LEMMA UntouchedSettles ==
  ASSUME Bounds, NEW s \in Services, Untouched(s),
         Disruptions(s)' <= Disruptions(s)
  PROVE  Settles(s)
BY UntouchedServed DEF Settles, Bounds

\* A failed try costs the client RetryAfter more, which it has yet to wait.
LEMMA FailedWaits ==
  ASSUME OtherTypes, NEW s \in Services, NEW clients \in SUBSET Services,
         Failed(clients), s \in clients => clientIn[s] = 0
  PROVE  Waited(s)' <= Waited(s)
<1> USE Values
<1>1. CASE s \notin clients
  <2>1. UNCHANGED <<tries[s], clientIn[s]>>
    BY <1>1 DEF Failed, OtherTypes, ClientTypes
  <2>2. Waited(s)' = Waited(s)
    BY <2>1 DEF Waited
  <2>3. RetryAfter * tries[s] \in Int
    OBVIOUS
  <2> QED BY <2>2, <2>3 DEF Waited
<1>2. CASE s \in clients
  <2>1. clientIn'[s] = RetryAfter /\ clientIn[s] = 0
        /\ tries'[s] \in {tries[s], tries[s] + 1}
    BY <1>2 DEF Failed, OtherTypes, ClientTypes
  <2>2. RetryAfter * (tries[s] + 1) = RetryAfter * tries[s] + RetryAfter
    OBVIOUS
  <2>3. RetryAfter * tries[s] \in Int
    OBVIOUS
  <2>4. RetryAfter * tries'[s] <= RetryAfter * tries[s] + RetryAfter
        /\ RetryAfter * tries'[s] \in Int
    BY <2>1, <2>2, <2>3
  <2> QED BY <2>1, <2>3, <2>4 DEF Waited
<1> QED BY <1>1, <1>2

-----------------------------------------------------------------------------
(* Every step brings the client's service nearer or is a disruption.       *)

Nearer(s) == Waited(s)' + UntilServed(s)' <= Waited(s) + UntilServed(s)

Struck(s) ==
    /\ Waited(s)' <= Waited(s)
    /\ \/ faultsLeft' < faultsLeft
       \/ Kill(s) \in commands /\ Kill(s) \notin commands'
       \/ OrphanKill(s) \in commands /\ OrphanKill(s) \notin commands'

LEMMA UntouchedIsNearer ==
  ASSUME Bounds, NEW s \in Services, Untouched(s) PROVE Nearer(s)
BY UntouchedServed DEF Nearer, Bounds

LEMMA FaultFalls ==
  ASSUME OtherTypes, Fault PROVE faultsLeft' < faultsLeft
BY TargetAssumption DEF OtherTypes, Fault

LEMMA RequestNearer ==
  ASSUME OtherTypes, Bounds, NEW s \in Services, client'[s] # "away",
         NEW t \in Services, Ask(t) \/ Serve(t) \/ Complete(t) \/ Scan(t)
  PROVE  Nearer(s)
<1>1. UNCHANGED <<target, targetIn, clientIn, kickIn, launch, coolIn, running,
                  restartIn, commands>>
  BY DEF Ask, Serve, Complete, Scan, wakeVars, targetVars, gatewayVars,
     clientVars
<1>2. UNCHANGED tries[s]
  BY DEF Ask, Serve, Complete, Scan, clientVars, OtherTypes, ClientTypes
<1>3. Untouched(s)
  BY <1>1, <1>2 DEF Untouched
<1> QED BY <1>3, UntouchedIsNearer

LEMMA RefusedNearer ==
  ASSUME OtherTypes, Bounds, Bounds', NEW s \in Services,
         NEW t \in Services, Refused(t)
  PROVE  Nearer(s)
<1>1. Waited(s)' <= Waited(s)
  BY FailedWaits DEF Refused
<1>2. UntilServed(s)' = UntilServed(s)
  <2>1. UNCHANGED <<target, targetIn, kickIn, launch, coolIn, running,
                    restartIn, commands>> /\ ~running
    BY DEF Refused, wakeVars, targetVars, gatewayVars
  <2> QED BY <2>1 DEF UntilServed, UntilAsked
<1> QED BY <1>1, <1>2 DEF Nearer, Bounds

LEMMA AnswerNearer ==
  ASSUME OtherTypes, Bounds, Bounds', ClientInv, Wake!OneKickstart,
         NEW s \in Services, NEW t \in Services, AnswerCold(t)
  PROVE  Nearer(s) \/ Struck(s)
<1>1. client[t] = "asking" /\ running /\ clientIn[t] = 0
  BY DEF AnswerCold, ClientInv, ClientsRest
<1>2. Waited(s)' <= Waited(s)
  BY <1>1, FailedWaits DEF AnswerCold
<1>3. UNCHANGED <<target, targetIn, running, restartIn>>
  BY DEF AnswerCold, targetVars
<1>4. CASE t # s
  <2>1. UNCHANGED <<tries[s], clientIn[s], kickIn[s], launch[s], coolIn[s]>>
    BY <1>4 DEF AnswerCold, Failed, OtherTypes, ClientTypes, GatewayTypes,
       Wake!TypeOK, Wake!RequestLaunch, Wake!vars
  <2>2. commands' \in {commands, commands \cup {Kickstart(t)}}
    BY DEF AnswerCold, Kickstart
  <2>3. Kickstart(s) # Kickstart(t)
    BY <1>4 DEF Kickstart
  <2>4. Untouched(s)
    BY <1>3, <2>1, <2>2, <2>3 DEF Untouched
  <2> QED BY <2>4, UntouchedIsNearer
<1>5. CASE t = s /\ target[s] = "up"
  BY <1>2, <1>5, FaultFalls DEF AnswerCold, Struck
<1>6. CASE t = s /\ target[s] \in {"starting", "exiting"}
  <2>1. UntilServed(s)' = UntilServed(s)
    BY <1>3, <1>6 DEF UntilServed
  <2> QED BY <1>2, <2>1 DEF Nearer, Bounds
<1>7. CASE t = s /\ target[s] = "down"
  <2>1. CASE ~Wake!MayLaunch(s)
    <3>1. UNCHANGED <<kickIn, launch, coolIn, commands>>
      BY <1>7, <2>1 DEF AnswerCold, Wake!RequestLaunch, Wake!vars
    <3>2. launch[s] = "Launching" \/ (launch[s] = "CoolingDown" /\ coolIn[s] > 0)
      BY <2>1, Values DEF Wake!MayLaunch, Wake!LaunchStates
    <3>3. UntilServed(s)' = UntilServed(s)
      BY <1>3, <1>7, <3>1, <3>2 DEF UntilServed
    <3> QED BY <1>2, <3>3 DEF Nearer, Bounds
  <2>2. CASE Wake!MayLaunch(s)
    <3>1. launch[s] # "Launching" /\ ~(launch[s] = "CoolingDown" /\ coolIn[s] > 0)
      BY <2>2 DEF Wake!MayLaunch
    <3>2. Kickstart(s) \notin commands
      BY <3>1 DEF ClientInv, KickstartIsLaunching
    <3>3. UntilServed(s) = Relaunch
      BY <1>1, <1>7, <3>1, <3>2, Times DEF UntilServed, UntilAsked
    <3>4. Kickstart(s) \in commands' /\ kickIn'[s] = LaunchTimeout
      BY <1>7, <2>2 DEF AnswerCold, Kickstart, OtherTypes, GatewayTypes
    <3>5. UntilServed(s)' = Relaunch
      BY <1>3, <1>7, <3>4 DEF UntilServed, Relaunch
    <3> QED BY <1>2, <3>3, <3>5, Times DEF Nearer, Bounds
  <2> QED BY <2>1, <2>2
<1> QED BY <1>4, <1>5, <1>6, <1>7, Values

LEMMA ListenNearer ==
  ASSUME OtherTypes, Bounds, ClientInv, NEW s \in Services,
         NEW t \in Services, Listen(t)
  PROVE  Nearer(s)
<1>1. UNCHANGED <<clientIn, tries, kickIn, launch, coolIn, running, restartIn,
                  commands>>
  BY DEF Listen, wakeVars, gatewayVars, clientVars
<1>2. CASE t # s
  <2>1. Untouched(s)
    BY <1>1, <1>2 DEF Listen, Become, Untouched, OtherTypes, TargetTypes
  <2> QED BY <2>1, UntouchedIsNearer
<1>3. CASE t = s
  <2>1. target[s] = "starting" /\ target'[s] = "up"
    BY <1>3 DEF Listen, Become, OtherTypes, TargetTypes
  <2>2. UntilServed(s) = targetIn[s] + restartIn + RetryAfter
    BY <2>1 DEF UntilServed
  <2>3. UntilServed(s)' = UntilAsked(s)
    BY <1>1, <2>1 DEF UntilServed, UntilAsked
  <2>4. UntilAsked(s) \in Int /\ UntilAsked(s) <= restartIn + RetryAfter
    BY Values DEF UntilAsked
  <2>5. Waited(s)' = Waited(s)
    BY <1>1 DEF Waited
  <2>6. UntilServed(s)' <= UntilServed(s) /\ UntilServed(s)' \in Int
    BY <2>2, <2>3, <2>4, Values
  <2> QED BY <2>5, <2>6 DEF Nearer, Bounds
<1> QED BY <1>2, <1>3

LEMMA FinishedNearer ==
  ASSUME OtherTypes, Bounds, ClientInv, NEW s \in Services,
         Wake!OneKickstart, NEW t \in Services, LaunchFinished(t)
  PROVE  Nearer(s) \/ Struck(s)
<1>1. UNCHANGED <<clientIn, tries, target, targetIn, running, restartIn>>
  BY DEF LaunchFinished, targetVars, clientVars
<1>2. Waited(s)' = Waited(s)
  BY <1>1 DEF Waited
<1>3. commands' = commands \ {Kickstart(t)}
  BY DEF LaunchFinished, Kickstart
<1>4. CASE t # s
  <2>1. UNCHANGED <<kickIn[s], launch[s], coolIn[s]>>
    BY <1>4 DEF LaunchFinished, OtherTypes, GatewayTypes,
       Wake!TypeOK, Wake!LaunchFinished
  <2>2. Kickstart(s) # Kickstart(t)
    BY <1>4 DEF Kickstart
  <2>3. Untouched(s)
    BY <1>1, <1>3, <2>1, <2>2 DEF Untouched
  <2> QED BY <2>3, UntouchedIsNearer
<1>5. CASE t = s /\ Kickstart(s) \in commands
  <2>1. Fault
    BY <1>5 DEF LaunchFinished, Kickstart
  <2> QED BY <1>2, <2>1, FaultFalls DEF Struck, Bounds
<1>6. CASE t = s /\ Kickstart(s) \notin commands /\ target[s] # "down"
  <2>1. UntilServed(s)' = UntilServed(s)
    BY <1>1, <1>6, Values DEF UntilServed, UntilAsked
  <2> QED BY <1>2, <2>1 DEF Nearer, Bounds
<1>7. CASE t = s /\ Kickstart(s) \notin commands /\ target[s] = "down"
  <2>1. launch[s] = "Launching"
    BY <1>7 DEF LaunchFinished, Wake!LaunchFinished, Wake!OneKickstart,
       Wake!LaunchInProgress
  <2>2. UntilServed(s) = kickIn[s] + RetryCooldown + RetryAfter + Relaunch
    BY <1>7, <2>1 DEF UntilServed
  <2>3. launch'[s] = "CoolingDown" /\ coolIn'[s] = RetryCooldown
        /\ Kickstart(s) \notin commands'
    BY <1>3, <1>7 DEF LaunchFinished, Wake!LaunchFinished, OtherTypes,
       Wake!TypeOK
  <2>4. UntilServed(s)' = RetryCooldown + RetryAfter + Relaunch
    BY <1>1, <1>7, <2>3, TargetAssumption DEF UntilServed
  <2>5. UntilServed(s)' <= UntilServed(s) /\ UntilServed(s)' \in Int
    BY <2>2, <2>4, Values, Times
  <2> QED BY <1>2, <2>5 DEF Nearer, Bounds
<1> QED BY <1>4, <1>5, <1>6, <1>7

\* A process that is gone leaves its service at most one recovery away.
DownIsNear ==
    \A s \in Services : target[s] = "down" =>
        UntilServed(s) \in Int /\ UntilServed(s) <= restartIn + Recovery

LEMMA DownWithinRecovery == OtherTypes /\ RestartIsTimed => DownIsNear
<1> SUFFICES ASSUME OtherTypes, RestartIsTimed, NEW s \in Services,
                    target[s] = "down"
             PROVE  /\ UntilServed(s) \in Int
                    /\ UntilServed(s) <= restartIn + Recovery
  BY DEF DownIsNear
<1>1. UntilAsked(s) \in Int /\ UntilAsked(s) <= restartIn + RetryAfter
  BY Values DEF UntilAsked
<1> HIDE DEF UntilAsked
<1> QED BY <1>1, Values DEF UntilServed, Recovery, Relaunch

LEMMA DownNext == OtherTypes' /\ RestartIsTimed' => DownIsNear'
BY DownWithinRecovery, PTL

LEMMA ExitNearer ==
  ASSUME OtherTypes, OtherTypes', Bounds, Bounds', ClientInv, NEW s \in Services,
         NEW t \in Services, Exit(t)
  PROVE  Nearer(s) \/ Struck(s)
<1>1. UNCHANGED <<kickIn, launch, coolIn, running, restartIn, commands>>
  BY DEF Exit, wakeVars, gatewayVars
<1>2. Waited(s)' <= Waited(s)
  <2>1. CASE client[t] = "served"
    <3>1. clientIn[t] = 0
      BY <2>1 DEF ClientInv, ClientsRest
    <3> QED BY <2>1, <3>1, FailedWaits DEF Exit
  <2>2. CASE client[t] # "served"
    <3>1. UNCHANGED <<tries, clientIn>>
      BY <2>2 DEF Exit, clientVars
    <3> QED BY <3>1 DEF Waited, Bounds
  <2> QED BY <2>1, <2>2
<1>3. CASE t # s
  <2>1. UNCHANGED <<tries[s], clientIn[s], target[s], targetIn[s]>>
    BY <1>3 DEF Exit, Become, Failed, clientVars, OtherTypes, ClientTypes,
       TargetTypes
  <2>2. Untouched(s)
    BY <1>1, <2>1 DEF Untouched
  <2> QED BY <2>2, UntouchedIsNearer
<1>4. CASE t = s /\ target[s] # "exiting"
  BY <1>2, <1>4, FaultFalls DEF Exit, Struck
<1>5. CASE t = s /\ target[s] = "exiting"
  <2>1. UntilServed(s) = targetIn[s] + restartIn + Recovery
    BY <1>5 DEF UntilServed
  <2>2. target'[s] = "down"
    BY <1>5 DEF Exit, Become, OtherTypes, TargetTypes
  <2>3. UntilServed(s)' \in Int /\ UntilServed(s)' <= restartIn + Recovery
    <3>1. RestartIsTimed'
      BY <1>1 DEF ClientInv, RestartIsTimed
    <3>2. DownIsNear'
      BY <3>1, DownNext
    <3> QED BY <1>1, <2>2, <3>2 DEF DownIsNear
  <2>4. UntilServed(s)' <= UntilServed(s)
    BY <2>1, <2>3, Values, Times
  <2> QED BY <1>2, <2>4 DEF Nearer, Bounds
<1> QED BY <1>3, <1>4, <1>5

LEMMA LaunchctlNearer ==
  ASSUME OtherTypes, Bounds, Bounds', ClientInv, NEW s \in Services,
         NEW c \in commands, LaunchctlActs(c) \/ OrphanEnds(c)
  PROVE  Nearer(s) \/ Struck(s)
<1>1. UNCHANGED <<kickIn, launch, coolIn, running, restartIn, tries, clientIn>>
      /\ commands' = commands \ {c} /\ c \in Commands /\ c.service \in Services
  BY DEF LaunchctlActs, OrphanEnds, wakeVars, gatewayVars, clientVars,
     OtherTypes, GatewayTypes, Commands
<1>2. Waited(s)' = Waited(s)
  BY <1>1 DEF Waited
<1>3. CASE UNCHANGED <<target[s], targetIn[s]>> /\ c # Kickstart(s)
  <2>1. Untouched(s)
    BY <1>1, <1>3 DEF Untouched
  <2> QED BY <2>1, UntouchedIsNearer
<1>4. CASE OrphanEnds(c)
  BY <1>3, <1>4 DEF OrphanEnds, Kickstart, targetVars
<1>5. CASE LaunchctlActs(c) /\ c.service # s
  <2>1. UNCHANGED <<target[s], targetIn[s]>>
    BY <1>5 DEF LaunchctlActs, Become, targetVars, OtherTypes, TargetTypes
  <2> QED BY <1>3, <1>5, <2>1 DEF Kickstart
<1>6. CASE LaunchctlActs(c) /\ c.service = s /\ c.verb = "kill"
  <2>1. CASE target[s] \in {"starting", "up"}
    <3>1. c \in {Kill(s), OrphanKill(s)}
      BY <1>1, <1>6 DEF Commands, Kill, OrphanKill
    <3> QED BY <1>1, <1>2, <3>1 DEF Struck, Bounds
  <2>2. CASE target[s] \notin {"starting", "up"}
    BY <1>3, <1>6, <2>2 DEF LaunchctlActs, targetVars, Kickstart
  <2> QED BY <2>1, <2>2
<1>7. CASE LaunchctlActs(c) /\ c.service = s /\ c.verb = "kickstart"
  <2>1. CASE target[s] = "down"
    <3>1. target'[s] = "starting" /\ targetIn'[s] = StartTime
      BY <1>1, <1>7, <2>1 DEF LaunchctlActs, Become, OtherTypes, TargetTypes
    <3>2. UntilServed(s)' = StartTime + restartIn + RetryAfter
      BY <1>1, <3>1 DEF UntilServed
    <3>3. StartTime + restartIn + RetryAfter <= UntilServed(s)
      <4>1. CASE Kickstart(s) \in commands
        <5>1. running /\ restartIn = 0
          BY <4>1 DEF ClientInv, KickstartIsLaunching, EligibleWhileDown,
             RestartIsTimed
        <5>2. UntilServed(s) = kickIn[s] + StartTime + RetryAfter
          BY <2>1, <4>1 DEF UntilServed
        <5> QED BY <5>1, <5>2, Values
      <4>2. CASE Kickstart(s) \notin commands
        <5>1. restartIn <= UntilAsked(s) /\ UntilAsked(s) \in Int
          BY Values DEF UntilAsked, ClientInv, RestartIsTimed
        <5>2. restartIn + Relaunch <= UntilServed(s)
          <6>1. CASE ~running
            <7>1. launch[s] = "Eligible"
              BY <6>1 DEF ClientInv, EligibleWhileDown
            <7> QED BY <2>1, <4>2, <5>1, <7>1, Values, Times DEF UntilServed
          <6>2. CASE running
            <7>1. restartIn = 0
              BY <6>2 DEF ClientInv, RestartIsTimed
            <7> QED BY <2>1, <4>2, <5>1, <7>1, Values, Times DEF UntilServed
          <6> QED BY <6>1, <6>2
        <5> QED BY <5>2, Values DEF Relaunch, Bounds
      <4> QED BY <4>1, <4>2
    <3> QED BY <1>2, <3>2, <3>3 DEF Nearer, Bounds
  <2>2. CASE target[s] # "down"
    <3>1. UNCHANGED <<target[s], targetIn[s]>>
      BY <1>7, <2>2 DEF LaunchctlActs, targetVars
    <3>2. UntilServed(s)' = UntilServed(s)
      BY <1>1, <2>2, <3>1, Values DEF UntilServed, UntilAsked
    <3> QED BY <1>2, <3>2 DEF Nearer, Bounds
  <2> QED BY <2>1, <2>2
<1> QED BY <1>1, <1>4, <1>5, <1>6, <1>7 DEF Commands

LEMMA AttemptNearer ==
  ASSUME OtherTypes, Life!TypeOK, Bounds, NEW s \in Services,
         NEW a \in attempts, AttemptStep(a), a.phase = "locked" => a.service # s
  PROVE  Nearer(s)
<1>1. UNCHANGED <<target, targetIn, clientIn, tries, kickIn, running,
                  restartIn>>
  BY DEF AttemptStep, targetVars, gatewayVars, clientVars
<1>2. UNCHANGED <<launch[s], coolIn[s]>>
  BY DEF AttemptStep, wakeVars, Wake!AllowLaunchAfterStop, Life!StartStop,
     Life!TypeOK, Life!StopAttempts, OtherTypes, Wake!TypeOK
<1>3. commands' \in {commands, commands \cup {Kill(a.service)},
                     commands \ {Kill(a.service)}}
  BY DEF AttemptStep, Kill
<1>4. Kickstart(s) # Kill(a.service)
  BY DEF Kickstart, Kill
<1>5. Untouched(s)
  BY <1>1, <1>2, <1>3, <1>4 DEF Untouched
<1> QED BY <1>5, UntouchedIsNearer

LEMMA ReplaceNearer ==
  ASSUME OtherTypes, OtherTypes', Bounds, Bounds', ClientInv,
         NEW s \in Services, Replace
  PROVE  Nearer(s)
<1>1. UNCHANGED <<target, targetIn, clientIn, tries, kickIn, launch, coolIn,
                  commands>>
      /\ ~running /\ running' /\ restartIn' = 0
  BY DEF Replace, wakeVars, targetVars, clientVars
<1>2. Waited(s)' = Waited(s)
  BY <1>1 DEF Waited
<1>3. UntilAsked(s) = restartIn + RetryAfter /\ UntilAsked(s)' = clientIn[s]
  BY <1>1 DEF UntilAsked
<1>4. launch[s] = "Eligible"
  BY <1>1 DEF ClientInv, EligibleWhileDown
<1>5. Kickstart(s) \notin commands
  BY <1>4 DEF ClientInv, KickstartIsLaunching
<1>6. UntilServed(s)' <= UntilServed(s)
  BY <1>1, <1>3, <1>4, <1>5, Values, Times DEF UntilServed
<1> QED BY <1>2, <1>6 DEF Nearer, Bounds

LEMMA CrashDisrupts ==
  ASSUME OtherTypes, OtherTypes', ClientInv, NEW s \in Services, Crash,
         client[s] # "away"
  PROVE  Disrupts(s)
<1>1. Waited(s)' <= Waited(s)
  <2>1. {u \in Services : client[u] \in {"asking", "served"}} \in SUBSET Services
    OBVIOUS
  <2>2. client[s] \in {"asking", "served"} => clientIn[s] = 0
    BY DEF ClientInv, ClientsRest
  <2> DEFINE clients == {u \in Services : client[u] \in {"asking", "served"}}
  <2>3. Failed(clients) /\ (s \in clients => clientIn[s] = 0)
    BY <2>2 DEF Crash
  <2> HIDE DEF clients
  <2>4. clients \in SUBSET Services
    BY DEF clients
  <2> QED BY <2>3, <2>4, FailedWaits
<1>2. faultsLeft \in Nat /\ faultsLeft' = faultsLeft - 1
  BY TargetAssumption DEF Crash, Fault, OtherTypes
<1>3. Kill(s) \notin commands'
  <2>1. \A c \in commands : [c EXCEPT !.owned = FALSE].owned = FALSE
    BY DEF OtherTypes, GatewayTypes, Commands
  <2>2. Kill(s).owned = TRUE
    BY DEF Kill
  <2> QED BY <2>1, <2>2 DEF Crash
<1>4. OrphanKill(s) \in commands' =>
          Kill(s) \in commands \/ OrphanKill(s) \in commands
  <2>1. ASSUME NEW c \in commands, OrphanKill(s) = [c EXCEPT !.owned = FALSE]
        PROVE  c = Kill(s) \/ c = OrphanKill(s)
    BY <2>1 DEF OtherTypes, GatewayTypes, Commands, Kill, OrphanKill
  <2> QED BY <2>1 DEF Crash
<1> DEFINE k == Count(Kill(s))         o == Count(OrphanKill(s))
           l == Count(Kill(s))'        p == Count(OrphanKill(s))'
           f == faultsLeft             g == faultsLeft'
<1>5. k \in Nat /\ o \in Nat /\ l = 0 /\ p \in Nat /\ p <= k + o
  BY <1>3, <1>4 DEF Count
<1>6. /\ Disruptions(s) = f + k + o
      /\ Disruptions(s)' = g + l + p
  BY DEF Disruptions
<1>7. f \in Nat /\ g = f - 1
  BY <1>2
<1> HIDE DEF k, o, l, p, f, g
<1>8. g + l + p < f + k + o
  BY <1>5, <1>7
<1> QED BY <1>1, <1>6, <1>8 DEF Disrupts

-----------------------------------------------------------------------------
(* Time and the count.                                                     *)

\* A tick that a client waits for brings its service nearer.
LEMMA TickNearer ==
  ASSUME OtherTypes, OtherTypes', Bounds, Bounds', ClientInv, Wake!OneKickstart,
         NEW s \in Services, client[s] # "away", Tick
  PROVE  Nearer(s)
<1>1. /\ UNCHANGED <<running, commands, target, tries>>
      /\ restartIn' = CountDown(restartIn)
      /\ kickIn'[s] = CountDown(kickIn[s])
      /\ targetIn'[s] = CountDown(targetIn[s])
      /\ clientIn'[s] = CountDown(clientIn[s])
      /\ ~Due(s) /\ (running \/ restartIn > 0)
  BY DEF Tick
<1>2. UNCHANGED launch
      /\ coolIn'[s] \in {coolIn[s], CountDown(coolIn[s])}
      /\ (running => coolIn'[s] = CountDown(coolIn[s]))
  BY DEF Tick, Wake!Tick, CountDown, wakeVars
<1>3. CASE client[s] = "served"
  <2>1. clientIn[s] = 0 /\ clientIn'[s] = 0 /\ running /\ restartIn = 0
        /\ restartIn' = 0 /\ target[s] \in {"up", "exiting"}
    BY <1>1, <1>3 DEF ClientInv, ClientsRest, RestartIsTimed, LeaseIsServed,
       CountDown
  <2>2. Waited(s)' = Waited(s)
    BY <1>1, <2>1 DEF Waited
  <2>3. targetIn'[s] <= targetIn[s]
    BY <1>1, Values DEF CountDown
  <2>4. UntilServed(s)' <= UntilServed(s)
    <3>1. CASE target[s] = "up"
      BY <1>1, <2>1, <3>1 DEF UntilServed, UntilAsked
    <3>2. CASE target[s] = "exiting"
      <4>1. UntilServed(s) = targetIn[s] + restartIn + Recovery
        BY <3>2 DEF UntilServed
      <4>2. UntilServed(s)' = targetIn'[s] + restartIn' + Recovery
        BY <1>1, <3>2 DEF UntilServed
      <4>3. targetIn'[s] \in Nat
        BY DEF OtherTypes, TargetTypes
      <4> QED BY <2>1, <2>3, <4>1, <4>2, <4>3, Values, Times
    <3> QED BY <2>1, <3>1, <3>2
  <2> QED BY <2>2, <2>4 DEF Nearer, Bounds
<1>4. CASE client[s] = "waiting"
  <2>1. clientIn[s] > 0 /\ clientIn'[s] = clientIn[s] - 1
    BY <1>1, <1>4, Values DEF Due, CountDown
  <2>2. Waited(s)' = Waited(s) + 1
    <3>1. RetryAfter * tries[s] \in Int
      BY Values
    <3> QED BY <1>1, <2>1, <3>1, Values DEF Waited
  <2>3. UntilAsked(s)' = UntilAsked(s) - 1
    <3>1. CASE running
      BY <1>1, <2>1, <3>1 DEF UntilAsked
    <3>2. CASE ~running
      BY <1>1, <3>2, Values DEF UntilAsked, CountDown
    <3> QED BY <3>1, <3>2
  <2>4. restartIn' <= restartIn /\ restartIn' \in Nat
    BY <1>1, Values DEF CountDown
  <2>5. UntilAsked(s) \in Int /\ UntilAsked(s)' <= RetryAfter + restartIn'
    BY <1>1, <2>1, Values DEF UntilAsked, CountDown
  <2>6. UntilServed(s)' <= UntilServed(s) - 1
    <3>1. CASE target[s] = "up"
      BY <1>1, <2>3, <2>5, <3>1 DEF UntilServed
    <3>2. CASE target[s] \in {"starting", "exiting"}
      <4>1. targetIn'[s] = targetIn[s] - 1
        BY <1>1, <3>2, Values DEF Due, CountDown
      <4>2. CASE target[s] = "starting"
        <5>1. /\ UntilServed(s) = targetIn[s] + restartIn + RetryAfter
              /\ UntilServed(s)' = targetIn'[s] + restartIn' + RetryAfter
          BY <1>1, <4>2 DEF UntilServed
        <5> QED BY <2>4, <4>1, <5>1, Values
      <4>3. CASE target[s] = "exiting"
        <5>1. /\ UntilServed(s) = targetIn[s] + restartIn + Recovery
              /\ UntilServed(s)' = targetIn'[s] + restartIn' + Recovery
          BY <1>1, <4>3 DEF UntilServed
        <5> QED BY <2>4, <4>1, <5>1, Values, Times
      <4> QED BY <3>2, <4>2, <4>3
    <3>3. CASE target[s] = "down" /\ launch[s] = "Launching"
      <4>1. kickIn'[s] = kickIn[s] - 1
        <5>1. kickstarts[s] = 1
          BY <3>3 DEF Wake!OneKickstart, Wake!LaunchInProgress
        <5> QED BY <1>1, <5>1, Values DEF Due, CountDown
      <4>2. CASE Kickstart(s) \in commands
        <5>1. /\ UntilServed(s) = kickIn[s] + StartTime + RetryAfter
              /\ UntilServed(s)' = kickIn'[s] + StartTime + RetryAfter
          BY <1>1, <3>3, <4>2 DEF UntilServed
        <5> QED BY <4>1, <5>1, Values
      <4>3. CASE Kickstart(s) \notin commands
        <5>1. /\ UntilServed(s) =
                     kickIn[s] + RetryCooldown + RetryAfter + Relaunch
              /\ UntilServed(s)' =
                     kickIn'[s] + RetryCooldown + RetryAfter + Relaunch
          BY <1>1, <1>2, <3>3, <4>3 DEF UntilServed
        <5> QED BY <4>1, <5>1, Values, Times
      <4> QED BY <4>2, <4>3
    <3>4. CASE target[s] = "down" /\ launch[s] # "Launching"
      <4>1. Kickstart(s) \notin commands
        BY <3>4 DEF ClientInv, KickstartIsLaunching
      <4>2. CASE launch[s] = "CoolingDown" /\ coolIn[s] > 0
        <5>1. running /\ coolIn'[s] = coolIn[s] - 1
          <6>1. running
            BY <4>2 DEF ClientInv, EligibleWhileDown
          <6> QED BY <1>2, <4>2, <6>1, Values DEF CountDown
        <5>2. UntilServed(s) = coolIn[s] + RetryAfter + Relaunch
          BY <3>4, <4>1, <4>2 DEF UntilServed
        <5>3. \/ UntilServed(s)' = coolIn'[s] + RetryAfter + Relaunch
              \/ coolIn'[s] = 0 /\ UntilServed(s)' = UntilAsked(s)' + Relaunch
          BY <1>1, <1>2, <3>4, <4>1, <4>2, <5>1, Values DEF UntilServed
        <5>4. restartIn' = 0
          BY <1>1, <5>1 DEF ClientInv, RestartIsTimed, CountDown
        <5> QED BY <2>3, <2>5, <5>1, <5>2, <5>3, <5>4, Values, Times
      <4>3. CASE ~(launch[s] = "CoolingDown" /\ coolIn[s] > 0)
        <5>1. UntilServed(s) = UntilAsked(s) + Relaunch
          BY <3>4, <4>1, <4>3 DEF UntilServed
        <5>2. ~(launch'[s] = "CoolingDown" /\ coolIn'[s] > 0)
          BY <1>2, <4>3, Values DEF CountDown
        <5>3. UntilServed(s)' = UntilAsked(s)' + Relaunch
          BY <1>1, <1>2, <3>4, <4>1, <5>2 DEF UntilServed
        <5> QED BY <2>3, <2>5, <5>1, <5>3, Times
      <4> QED BY <4>2, <4>3
    <3> QED BY <3>1, <3>2, <3>3, <3>4, Values
  <2> QED BY <2>2, <2>6 DEF Nearer, Bounds
<1>5. client[s] # "asking"
  BY <1>1 DEF Due
<1> QED BY <1>3, <1>4, <1>5 DEF OtherTypes, ClientTypes

\* A client that comes to visit has waited for nothing yet.
LEMMA ArrivalIsPaid ==
  ASSUME OtherTypes, OtherTypes', Bounds', ClientInv, ClientInv', [Next]_vars,
         NEW s \in Services, client[s] = "away", client'[s] # "away"
  PROVE  (Waited(s) + UntilServed(s) + Outage * Disruptions(s))'
             <= Outage * (Faults + 2)
<1>1. UNCHANGED <<tries[s], clientIn[s]>>
  <2>1. ASSUME NEW t \in Services, Ask(t) \/ Serve(t)
        PROVE  UNCHANGED <<tries[s], clientIn[s]>>
    BY <2>1 DEF Ask, Serve
  <2>2. ASSUME NEW t \in Services, AnswerCold(t) \/ Refused(t) \/ Complete(t)
        PROVE  FALSE
    BY <2>2 DEF AnswerCold, Refused, Complete, Failed, OtherTypes, ClientTypes
  <2>3. ASSUME NEW t \in Services, Exit(t), client[t] = "served" PROVE FALSE
    BY <2>3 DEF Exit, Failed
  <2>4. ~Crash /\ ~Replace /\ ~Tick
    BY DEF Crash, Failed, Replace, Tick, clientVars
  <2> QED BY <2>1, <2>2, <2>3, <2>4, ClientCases
<1>2. tries'[s] = 0
  BY <1>1 DEF ClientInv, ClientsRest
<1> DEFINE w == Waited(s)'   t == UntilServed(s)'   e == Disruptions(s)'
<1>3. w \in Int /\ w <= 0
  <2>1. clientIn'[s] \in Nat
    BY TargetAssumption DEF OtherTypes, ClientTypes
  <2> QED BY <1>2, <2>1, TargetAssumption DEF Waited
<1>4. t \in Nat /\ t <= Outage /\ e \in Nat /\ e <= Faults + 1
  BY DEF Bounds
<1> HIDE DEF w, t, e
<1>5. Outage * e <= Outage * (Faults + 1)
  BY <1>4, Times, TargetAssumption
<1>6. Outage * (Faults + 2) = Outage * (Faults + 1) + Outage
  BY Times, TargetAssumption
<1>7. Outage * e \in Int /\ Outage * (Faults + 1) \in Int
  BY <1>4, Times, TargetAssumption
<1>8. w + t + Outage * e <= Outage * (Faults + 2)
  BY <1>3, <1>4, <1>5, <1>6, <1>7, Times
<1> QED BY <1>8 DEF w, t, e

LEMMA PaidKept ==
  ASSUME IInv, IInv', ClientInv, ClientInv', RetryAfter < IdleTimeout,
         TriesArePaid, [Next]_vars
  PROVE  TriesArePaid'
<1>1. /\ OtherTypes /\ OtherTypes'
      /\ Life!TypeOK /\ Wake!OneKickstart
      /\ faultsLeft \in 0 .. Faults
  <2>1. OtherTypes /\ OtherTypes'
    BY DEF IInv, TypeOK, OtherTypes, ClientTypes, TargetTypes, GatewayTypes
  <2> QED BY <2>1 DEF IInv, TypeOK, OtherTypes
<1>2. Bounds /\ Bounds'
  BY <1>1, BoundsHold, BoundsHoldNext
<1> SUFFICES ASSUME NEW s \in Services, client'[s] # "away"
             PROVE  (Waited(s) + UntilServed(s) + Outage * Disruptions(s))'
                        <= Outage * (Faults + 2)
  BY DEF TriesArePaid
<1>3. CASE client[s] = "away"
  BY <1>1, <1>2, <1>3, ArrivalIsPaid
<1>4. CASE client[s] # "away"
  <2>1. Waited(s) + UntilServed(s) + Outage * Disruptions(s)
            <= Outage * (Faults + 2)
    BY <1>4 DEF TriesArePaid
  <2>2. \A a \in attempts : a.phase = "locked" => a.service # s
    BY <1>4, StopsSpareVisits DEF ClientInv
  <2>3. CASE Crash
    BY <1>1, <1>2, <1>4, <2>1, <2>3, CrashDisrupts, PaidStep
  <2>4. CASE ~Crash
    <3>1. NoNewKills(s)
      BY <1>1, <2>2, <2>4, KillsAreStops
    <3>2. faultsLeft' \in 0 .. Faults /\ faultsLeft' <= faultsLeft
      BY <1>1, FaultsFall
    <3>3. Nearer(s) \/ Struck(s)
      <4>1. ASSUME NEW t \in Services,
                   Ask(t) \/ Serve(t) \/ Complete(t) \/ Scan(t)
            PROVE  Nearer(s)
        BY <1>1, <1>2, <4>1, RequestNearer
      <4>2. ASSUME NEW t \in Services,
                   \/ AnswerCold(t) \/ Refused(t) \/ Exit(t)
                   \/ Listen(t) \/ LaunchFinished(t)
            PROVE  Nearer(s) \/ Struck(s)
        BY <1>1, <1>2, <4>2, AnswerNearer, RefusedNearer, ExitNearer,
           ListenNearer, FinishedNearer
      <4>3. ASSUME NEW c \in commands, LaunchctlActs(c) \/ OrphanEnds(c)
            PROVE  Nearer(s) \/ Struck(s)
        BY <1>1, <1>2, <4>3, LaunchctlNearer
      <4>4. ASSUME NEW a \in attempts, AttemptStep(a) PROVE Nearer(s)
        BY <1>1, <1>2, <2>2, <4>4, AttemptNearer
      <4>5. CASE Replace
        BY <1>1, <1>2, <4>5, ReplaceNearer
      <4>6. CASE Tick
        BY <1>1, <1>2, <1>4, <4>6, TickNearer
      <4>7. CASE UNCHANGED vars
        <5>1. Untouched(s)
          BY <4>7 DEF vars, wakeVars, gatewayVars, targetVars, clientVars,
             Untouched
        <5> QED BY <1>2, <5>1, UntouchedIsNearer
      <4> QED
        BY <2>4, <4>1, <4>2, <4>3, <4>4, <4>5, <4>6, <4>7
           DEF Next, ServiceStep
    <3>4. Settles(s) \/ Disrupts(s)
      <4>1. Disruptions(s)' <= Disruptions(s)
        BY <1>1, <3>1, <3>2, DisruptionsFall
      <4>2. Struck(s) => Disrupts(s)
        BY <1>1, <3>1, <3>2, DisruptionsFall DEF Struck, Disrupts
      <4> QED BY <3>3, <4>1, <4>2 DEF Nearer, Settles
    <3> QED BY <1>2, <2>1, <3>4, PaidStep
  <2> QED BY <2>3, <2>4
<1> QED BY <1>3, <1>4

-----------------------------------------------------------------------------
(* Theorems.                                                               *)

\* Types, for any services, times, visits and faults.
THEOREM TypeCorrect == Spec => []TypeOK
<1>1. IInv => TypeOK
  BY DEF IInv
<1> QED BY <1>1, Invariance, PTL

\* An idle stop has a whole idle timeout without activity behind it, in this
\* gateway (lifecycle.rs begin_stop_attempt_at, and new_at for the services
\* a replacement adopts).
THEOREM GraceIsWhole == Spec => []GraceIsFresh
<1>1. IInv => GraceIsFresh
  BY InvariantQuiet DEF GraceIsFresh
<1> QED BY <1>1, Invariance, PTL

\* Checks of one idle period are STOP_CHECK_RETRY apart, and a late refusal
\* delays none of the next (lifecycle.rs finish_vetoed_attempt_at).
THEOREM ChecksArePaced == Spec => []RefusalsArePaced
<1>1. ASSUME IInv, NEW a \in attempts, a.phase = "checking",
             ~disturbed[a.service]
      PROVE  refusedFor[a.service] = CheckRetry
  <2>1. a.service \in Services /\ retryIn[a.service] = 0
    BY <1>1 DEF IInv, CheckingIsDue, TypeOK, Life!TypeOK, Life!StopAttempts
  <2>2. refusedFor[a.service] \in Nat
    BY <1>1, <2>1, TargetAssumption DEF IInv, TypeOK
  <2> QED BY <1>1, <2>1, <2>2 DEF IInv, RetryTimeIsRefusal
<1>2. ASSUME IInv, NEW s \in Services, retryIn[s] > 0
      PROVE  refusedFor[s] < CheckRetry
  <2>1. refusedFor[s] \in Nat /\ retryIn[s] \in Nat
    BY <1>2, TargetAssumption DEF IInv, TypeOK, Life!TypeOK
  <2> QED BY <1>2, <2>1, TargetAssumption DEF IInv, RetryTimeIsRefusal
<1>3. IInv => RefusalsArePaced
  BY <1>1, <1>2 DEF RefusalsArePaced
<1> QED BY <1>3, Invariance, PTL

\* No client that was told to come back finds its service stopped meanwhile,
\* if it is told to come back within the idle timeout.
THEOREM RetriesFindTheirService ==
  ASSUME RetryAfter < IdleTimeout PROVE Spec => []NoStopBeforeRetry
<1>1. ASSUME IInv, NEW a \in attempts, a.phase = "locked",
             client[a.service] = "waiting"
      PROVE  FALSE
  <2>1. quietFor[a.service] = IdleTimeout /\ running /\ a.service \in Services
    BY <1>1, InvariantQuiet
  <2>2. clientIn[a.service] \in Nat
    BY <1>1, <2>1, TargetAssumption DEF IInv, TypeOK
  <2> QED BY <1>1, <2>1, <2>2, TargetAssumption DEF IInv, ClientsComeBack
<1>2. IInv => NoStopBeforeRetry
  BY <1>1 DEF NoStopBeforeRetry
<1> QED BY <1>2, Invariance, PTL

\* A gateway never has two kickstarts of a service under way, stops and the
\* exits of the target notwithstanding (wake.rs request_launch_at).
THEOREM OwnKickstartIsUnique == Spec => []Wake!OneKickstart
<1>1. IInv => Wake!OneKickstart
  BY DEF IInv
<1> QED BY <1>1, Invariance, PTL

\* A client that obeys Retry-After is served after a bounded number of tries
\* (proxy.rs, the loading response; wake.rs, the cooldown): MaxTries is enough
\* if its tries take as long as an outage for every fault, one for the stop
\* that may be on its way when the client comes, and one for the cold start.
THEOREM RetriesAreEnough ==
  ASSUME RetryAfter < IdleTimeout,
         Outage * (Faults + 2) <= RetryAfter * MaxTries
  PROVE  Spec => []RetriesReachTheService
<1> DEFINE Inv == IInv /\ ClientInv /\ TriesArePaid
<1>1. Init => Inv
  <2>1. Init => TriesArePaid
    BY DEF Init, TriesArePaid
  <2> QED BY <2>1, InitEstablishes, ClientInvInit
<1>2. Inv /\ [Next]_vars => Inv'
  <2> SUFFICES ASSUME Inv, [Next]_vars PROVE Inv'
    OBVIOUS
  <2>1. IInv' /\ ClientInv'
    BY StepKeeps, ClientInvStep
  <2> QED BY <2>1, PaidKept
<1>3. Inv => RetriesReachTheService
  <2> SUFFICES ASSUME Inv, NEW s \in Services PROVE tries[s] <= MaxTries
    BY DEF RetriesReachTheService
  <2>1. /\ OtherTypes /\ tries[s] \in 0 .. MaxTries + 1
        /\ RetryAfter \in Nat \ {0} /\ MaxTries \in Nat /\ Faults \in Nat
    BY IInvTypes, TargetAssumption DEF OtherTypes, ClientTypes
  <2>2. CASE client[s] = "away"
    BY <2>1, <2>2 DEF ClientInv, ClientsRest
  <2>3. CASE client[s] # "away"
    <3>1. Waited(s) + UntilServed(s) + Outage * Disruptions(s)
              <= Outage * (Faults + 2)
      BY <2>3 DEF TriesArePaid
    <3>2. Bounds
      BY <2>1, BoundsHold
    <3>3. /\ Waited(s) \in Int /\ UntilServed(s) \in Nat
          /\ clientIn[s] <= UntilServed(s) /\ Disruptions(s) \in Nat
          /\ clientIn[s] \in Nat
      BY <2>1, <3>2, Values DEF Bounds
    <3> DEFINE owed == Outage * Disruptions(s)
               paid == Outage * (Faults + 2)
               spent == RetryAfter * tries[s]
               allowed == RetryAfter * MaxTries
    <3>4. owed \in Nat
      BY <3>3, Times
    <3>5. spent \in Int /\ paid \in Int /\ allowed \in Int
      BY <2>1, Times
    <3>6. Waited(s) = spent - clientIn[s]
      BY DEF Waited
    <3>7. Waited(s) + UntilServed(s) + owed <= paid /\ paid <= allowed
      BY <3>1
    <3> HIDE DEF owed, paid, spent, allowed
    <3>8. spent <= allowed
      BY <3>3, <3>4, <3>5, <3>6, <3>7
    <3>9. ASSUME tries[s] = MaxTries + 1 PROVE FALSE
      <4>1. spent = allowed + RetryAfter
        BY <2>1, <3>9 DEF spent, allowed
      <4> QED BY <2>1, <3>5, <3>8, <4>1
    <3> QED BY <2>1, <3>9
  <2> QED BY <2>2, <2>3
<1> HIDE DEF Inv
<1> QED BY <1>1, <1>2, <1>3, PTL DEF Spec
=============================================================================
