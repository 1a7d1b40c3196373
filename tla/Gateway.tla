------------------------------- MODULE Gateway ------------------------------
(***************************************************************************)
(* The running gateway: the requests of src/src/proxy.rs, the idle monitor *)
(* and the shutdown coordination of src/src/lifecycle.rs, and the signal   *)
(* task of src/src/main.rs, over the components                            *)
(*   Gate   the request gate, as DrainBarrier promises it,                 *)
(*   Wake   the launch state of every service, WakeTarget,                 *)
(*   Life   the lifecycle of every service, ServiceLifecycle.              *)
(* Requests, monitor, stop tasks and signal task run on different threads: *)
(* a step is one critical section of one of them, and a step of Gateway is *)
(* a step of the components it touches, the others unchanged.              *)
(***************************************************************************)
EXTENDS Integers, FiniteSets

CONSTANTS Services, Checked, Requests, NoService,
          IdleTimeout, CheckRetry, RetryCooldown,
          ProbeTimeout,     \* READINESS_TIMEOUT, in ticks
          DrainTimeout,     \* SHUTDOWN_DRAIN_TIMEOUT, in ticks
          Timely            \* runnable request code runs within a tick

\* idle_timeout_seconds is at least 1 and READINESS_TIMEOUT is 100 ms.
ASSUME GatewayAssumption ==
    /\ NoService \notin Services /\ Checked \subseteq Services
    /\ IdleTimeout \in Nat /\ CheckRetry \in Nat \ {0}
    /\ RetryCooldown \in Nat \ {0}
    /\ ProbeTimeout \in Nat /\ ProbeTimeout < IdleTimeout
    /\ DrainTimeout \in Nat /\ ProbeTimeout < DrainTimeout
    /\ Timely \in BOOLEAN

VARIABLES
    accepting, held, drain, expired,                          \* Gate
    launch, coolIn, kickstarts,                               \* Wake
    inFlight, generation, idleIn, retryIn, attemptInProgress, \* Life
    stopAttempted, attempts, disturbed, stopsSent,
    stage,        \* stage[r]: how far request r has come
    route,        \* route[r]: the service it was routed to
    probeIn,      \* ticks until its readiness probe times out
    phase,        \* ShutdownPhase
    signalTask,   \* program counter of coordinate_cleanup
    monitor,      \* program counter of IdleMonitor::start
    drainIn,      \* ticks until the cleanup deadline
    toPrepare,    \* services the cleanup has not prepared yet
    polling,      \* services whose cleanup task waits for them
    excused,      \* history: services left running for a documented reason
    overtaken     \* history: services whose awaited stop was sent too early

gateVars == <<accepting, held, drain, expired>>
wakeVars == <<launch, coolIn, kickstarts>>
lifeVars == <<inFlight, generation, idleIn, retryIn, attemptInProgress,
              stopAttempted, attempts, disturbed, stopsSent>>
requestVars == <<stage, route, probeIn>>
shutdownVars == <<phase, signalTask, monitor, drainIn, toPrepare, polling,
                  excused, overtaken>>
vars == <<gateVars, wakeVars, lifeVars, requestVars, shutdownVars>>

Gate == INSTANCE DrainBarrier WITH
            Contexts <- Requests,
            outcome <- drain

Wake == INSTANCE WakeTarget

Life == INSTANCE ServiceLifecycle WITH
            launchInProgress <- [s \in Services |-> launch[s] = "Launching"],
            MaxGeneration <- 0

Stages == {"new", "admitted", "probing", "ready", "cold", "launched",
           "leased", "proxying", "answered"}

TypeOK ==
    /\ Gate!TypeOK /\ Wake!TypeOK /\ Life!TypeOK
    /\ stage \in [Requests -> Stages]
    /\ route \in [Requests -> Services \cup {NoService}]
    /\ probeIn \in [Requests -> 0 .. ProbeTimeout]
    /\ phase \in {"Running", "Requested", "Completed"}
    /\ signalTask \in {"serving", "closed", "waiting", "handedOff"}
    /\ monitor \in {"scanning", "draining", "preparing", "joining", "finished"}
    /\ drainIn \in 0 .. DrainTimeout
    /\ toPrepare \subseteq Services
    /\ polling \subseteq Services
    /\ excused \subseteq Services
    /\ overtaken \subseteq Services

Init ==
    /\ Gate!Init /\ Wake!Init /\ Life!Init
    /\ stage = [r \in Requests |-> "new"]
    /\ route = [r \in Requests |-> NoService]
    /\ probeIn = [r \in Requests |-> 0]
    /\ phase = "Running"
    /\ signalTask = "serving"
    /\ monitor = "scanning"
    /\ drainIn = 0
    /\ toPrepare = Services
    /\ polling = {}
    /\ excused = {}
    /\ overtaken = {}

-----------------------------------------------------------------------------
(* Requests: RousedProxy's ProxyHttp callbacks, in the order Pingora calls *)
(* them.  max_retries is 1, so each is called once.                        *)

Move(r, from, to) ==
    /\ stage[r] = from
    /\ stage' = [stage EXCEPT ![r] = to]

\* Mutant: a request that crosses the closed gate is served without admission.
NewContextUngated(r) ==
    /\ Move(r, "new", "admitted")
    /\ IF accepting THEN Gate!Admit(r) ELSE UNCHANGED gateVars
    /\ UNCHANGED <<route, probeIn, wakeVars, lifeVars, shutdownVars>>

\* new_ctx: the request is admitted, or will be answered 503.
NewContext(r) ==
    \/ /\ Move(r, "new", "admitted")
       /\ Gate!Admit(r)
       /\ UNCHANGED <<route, probeIn, wakeVars, lifeVars, shutdownVars>>
    \/ /\ ~accepting
       /\ Move(r, "new", "answered")
       /\ UNCHANGED <<gateVars, route, probeIn, wakeVars, lifeVars,
                      shutdownVars>>

\* The admission is dropped on the way to the next stage.
DropAdmission(r, from, to) ==
    /\ Move(r, from, to)
    /\ Gate!Release(r)
    /\ UNCHANGED <<probeIn, wakeVars, lifeVars, shutdownVars>>

Forget(r) == route' = [route EXCEPT ![r] = NoService]

UnknownHost(r) == DropAdmission(r, "admitted", "answered") /\ UNCHANGED route

\* request_filter notes the arrival, then awaits the readiness probe.
NoteArrival(r, s) ==
    /\ Move(r, "admitted", "probing")
    /\ route' = [route EXCEPT ![r] = s]
    /\ probeIn' = [probeIn EXCEPT ![r] = ProbeTimeout]
    /\ UNCHANGED wakeVars
    /\ Life!NoteRequestArrival(s)
    /\ UNCHANGED <<gateVars, shutdownVars>>

\* Mutant: the admission is dropped before the lease is taken.
ProbeEndsUncovered(r) ==
    /\ Move(r, "probing", "ready")
    /\ Gate!Release(r)
    /\ probeIn' = [probeIn EXCEPT ![r] = 0]
    /\ UNCHANGED <<route, wakeVars, lifeVars, shutdownVars>>

\* The connect succeeds or not; the target's own state is not modelled.
ProbeEnds(r) ==
    /\ Move(r, "probing", "ready") \/ Move(r, "probing", "cold")
    /\ probeIn' = [probeIn EXCEPT ![r] = 0]
    /\ UNCHANGED <<route, gateVars, wakeVars, lifeVars, shutdownVars>>

\* Not ready: the launch is requested before the admission is dropped.
RequestLaunch(r) ==
    /\ Move(r, "cold", "launched")
    /\ Wake!RequestLaunch(route[r])
    /\ UNCHANGED <<route, probeIn, gateVars, lifeVars, shutdownVars>>

FinishCold(r) == DropAdmission(r, "launched", "answered") /\ Forget(r)

\* proxy_upstream_filter: the lease is taken before the admission is dropped.
AcquireLease(r) ==
    /\ Move(r, "ready", "leased")
    /\ UNCHANGED wakeVars
    /\ Life!Acquire(route[r])
    /\ UNCHANGED <<route, probeIn, gateVars, shutdownVars>>

\* Pingora fails the request between the two callbacks: logging drops the
\* admission of a context that has no lease yet.
FailBeforeProxying(r) == DropAdmission(r, "ready", "answered") /\ Forget(r)

\* Mutant: the admission is kept until the request ends.
StartProxyingAdmitted(r) ==
    /\ Move(r, "leased", "proxying")
    /\ UNCHANGED <<route, probeIn, gateVars, wakeVars, lifeVars, shutdownVars>>

StartProxying(r) == DropAdmission(r, "leased", "proxying") /\ UNCHANGED route

\* Mutant: a request that ends badly leaves its lease behind.
EndRequestLeaking(r) ==
    /\ Move(r, "proxying", "answered")
    /\ Forget(r)
    /\ UNCHANGED <<probeIn, gateVars, wakeVars, lifeVars, shutdownVars>>

\* logging, or the drop of the context: the request ended, well or not.
EndRequest(r) ==
    /\ Move(r, "proxying", "answered")
    /\ Forget(r)
    /\ UNCHANGED wakeVars
    /\ Life!Release(route[r])
    /\ UNCHANGED <<probeIn, gateVars, shutdownVars>>

-----------------------------------------------------------------------------
(* Commands: kickstarts and stop attempts.                                 *)

LaunchFinished(s) ==
    /\ Wake!LaunchFinished(s)
    /\ UNCHANGED <<gateVars, lifeVars, requestVars, shutdownVars>>

\* A service already prepared by the cleanup is left running for a reason.
Excuse(s) == excused' = IF s \in toPrepare THEN excused ELSE excused \cup {s}

ContinueAttempt(a) ==
    /\ UNCHANGED wakeVars
    /\ Life!CheckAllows(a) \/ Life!Decide(a)
    /\ UNCHANGED <<gateVars, requestVars, shutdownVars>>

\* launchctl was spawned: under the lifecycle's mutex, the wake target's is
\* taken to allow the next launch.
StartStop(a) ==
    /\ Wake!AllowLaunchAfterStop(a.service)
    /\ Life!StartStop(a)
    /\ UNCHANGED <<gateVars, requestVars, shutdownVars>>

RefuseStop(a) ==
    /\ UNCHANGED wakeVars
    /\ Life!CheckRefuses(a) \/ Life!StopNotStarted(a)
    /\ Excuse(a.service)
    /\ UNCHANGED <<gateVars, requestVars, phase, signalTask, monitor, drainIn,
                   toPrepare, polling, overtaken>>

\* An existing idle attempt that activity invalidated is a reason to leave
\* the service running; an obsolete shutdown decision would be none.
DiscardStop(a) ==
    /\ UNCHANGED wakeVars
    /\ Life!Discard(a)
    /\ IF a.requiresIdle THEN Excuse(a.service) ELSE UNCHANGED excused
    /\ UNCHANGED <<gateVars, requestVars, phase, signalTask, monitor, drainIn,
                   toPrepare, polling, overtaken>>

\* launchctl ended.  If activity came after it was started, the stop was one
\* of an earlier generation than the one the cleanup found.
FinishStop(a) ==
    LET s == a.service IN
    /\ UNCHANGED wakeVars
    /\ Life!FinishStop(a)
    /\ overtaken' = IF s \notin toPrepare /\ generation[s] # a.generation
                    THEN overtaken \cup {s} ELSE overtaken
    /\ UNCHANGED <<gateVars, requestVars, phase, signalTask, monitor, drainIn,
                   toPrepare, polling, excused>>

AttemptStep(a) ==
    \/ ContinueAttempt(a)
    \/ StartStop(a) \/ RefuseStop(a) \/ DiscardStop(a)
    \/ FinishStop(a)

-----------------------------------------------------------------------------
(* The idle monitor.                                                       *)

\* scan_at takes the services one after the other.  select! is not biased:
\* a scan may still be chosen when shutdown has already been requested.
Scan(s) ==
    /\ monitor = "scanning"
    /\ UNCHANGED wakeVars
    /\ Life!BeginStopAttempt(s)
    /\ UNCHANGED <<gateVars, requestVars, shutdownVars>>

\* Both shutdown arms of select!: the requested future, and Pingora's watch,
\* which requests the shutdown itself if nobody has.
StartCleanup ==
    /\ monitor = "scanning"
    /\ phase # "Running" \/ signalTask = "handedOff"
    /\ monitor' = "draining"
    /\ drainIn' = DrainTimeout
    /\ phase' = IF phase = "Running" THEN "Requested" ELSE phase
    /\ Gate!StartDrain
    /\ UNCHANGED <<wakeVars, lifeVars, requestVars, signalTask, toPrepare,
                   polling, excused, overtaken>>

\* wait_for_drain_until returns: on a drain the services are prepared, on a
\* timeout they are all left running.
FinishDrain ==
    /\ monitor = "draining"
    /\ \/ Gate!Drained /\ monitor' = "preparing"
       \/ Gate!GaveUp /\ monitor' = "joining"
    /\ UNCHANGED <<wakeVars, lifeVars, requestVars, phase, signalTask, drainIn,
                   toPrepare, polling, excused, overtaken>>

\* Mutant: only services that are quiet when the drain ends are cleaned up.
PrepareQuietOnly(s) ==
    /\ monitor = "preparing"
    /\ s \in toPrepare
    /\ Life!Unlocked(s)
    /\ toPrepare' = toPrepare \ {s}
    /\ polling' = IF Life!Occupied(s) \/ Life!AlreadySignalled(s)
                  THEN polling ELSE polling \cup {s}
    /\ monitor' = IF toPrepare' = {} THEN "joining" ELSE monitor
    /\ UNCHANGED <<gateVars, wakeVars, lifeVars, requestVars, phase,
                   signalTask, drainIn, excused, overtaken>>

\* prepare_shutdown: an attempt under way is awaited and an accepted stop is
\* not repeated; otherwise a cleanup task is spawned.
Prepare(s) ==
    /\ monitor = "preparing"
    /\ s \in toPrepare
    /\ Life!Unlocked(s)
    /\ toPrepare' = toPrepare \ {s}
    /\ polling' = IF attemptInProgress[s] \/ Life!AlreadySignalled(s)
                  THEN polling ELSE polling \cup {s}
    /\ monitor' = IF toPrepare' = {} THEN "joining" ELSE monitor
    /\ UNCHANGED <<gateVars, wakeVars, lifeVars, requestVars, phase,
                   signalTask, drainIn, excused, overtaken>>

\* cleanup_service_at_shutdown, one pass of its loop, cases Ready and Busy.
\* AlreadySignalled has no action: only attempts signal, and between Prepare
\* and this decision nobody else begins one.
CleanupDecides(s) ==
    /\ s \in polling
    /\ polling' = polling \ {s}
    /\ UNCHANGED wakeVars
    /\ Life!BeginShutdownAttempt(s)
    /\ UNCHANGED <<gateVars, requestVars, phase, signalTask, monitor, drainIn,
                   toPrepare, excused, overtaken>>

\* Mutant: the cleanup waits for a busy service without a deadline.
CleanupWaits(s) == s \in polling /\ Life!Occupied(s) /\ UNCHANGED vars

\* Busy at the deadline: the service is left running.
CleanupGivesUp(s) ==
    /\ s \in polling
    /\ Life!Unlocked(s)
    /\ ~Life!AlreadySignalled(s)
    /\ Life!Occupied(s)
    /\ expired
    /\ polling' = polling \ {s}
    /\ Excuse(s)
    /\ UNCHANGED <<gateVars, wakeVars, lifeVars, requestVars, phase,
                   signalTask, monitor, drainIn, toPrepare, overtaken>>

\* join_next until no task is left, then complete().
FinishCleanup ==
    /\ monitor = "joining"
    /\ polling = {}
    /\ attempts = {}
    /\ monitor' = "finished"
    /\ phase' = "Completed"
    /\ UNCHANGED <<gateVars, wakeVars, lifeVars, requestVars, signalTask,
                   drainIn, toPrepare, polling, excused, overtaken>>

-----------------------------------------------------------------------------
(* The signal task: coordinate_cleanup.                                    *)

CloseGate ==
    /\ signalTask = "serving"
    /\ signalTask' = "closed"
    /\ Gate!Close
    /\ UNCHANGED <<wakeVars, lifeVars, requestVars, phase, monitor, drainIn,
                   toPrepare, polling, excused, overtaken>>

RequestShutdown ==
    /\ signalTask = "closed"
    /\ signalTask' = "waiting"
    /\ phase' = IF phase = "Running" THEN "Requested" ELSE phase
    /\ UNCHANGED <<gateVars, wakeVars, lifeVars, requestVars, monitor, drainIn,
                   toPrepare, polling, excused, overtaken>>

\* wait_for_completion returns, on completion or at its ceiling.  When the
\* ceiling comes is left open.
HandOff ==
    /\ signalTask = "waiting"
    /\ signalTask' = "handedOff"
    /\ UNCHANGED <<gateVars, wakeVars, lifeVars, requestVars, phase, monitor,
                   drainIn, toPrepare, polling, excused, overtaken>>

-----------------------------------------------------------------------------
(* Time.                                                                   *)

CountDown(n) == IF n > 0 THEN n - 1 ELSE 0

\* Code that is runnable without waiting for anything but a mutex.
Due(r) ==
    \/ stage[r] \in {"admitted", "ready", "cold", "launched", "leased"}
    \/ stage[r] = "probing" /\ probeIn[r] = 0

DrainDue == drain = "waiting" /\ (held = {} \/ expired)

Tick ==
    /\ Timely => ~DrainDue /\ \A r \in Requests : ~Due(r)
    /\ probeIn' = [r \in Requests |-> CountDown(probeIn[r])]
    /\ drainIn' = CountDown(drainIn)
    /\ expired' = (drain # "none" /\ drainIn' = 0)
    /\ Wake!Tick
    /\ Life!Tick
    /\ UNCHANGED <<accepting, held, drain, stage, route, phase, signalTask,
                   monitor, toPrepare, polling, excused, overtaken>>

-----------------------------------------------------------------------------

RequestStep(r) ==
    \/ UnknownHost(r)
    \/ \E s \in Services : NoteArrival(r, s)
    \/ ProbeEnds(r)
    \/ RequestLaunch(r)
    \/ FinishCold(r)
    \/ AcquireLease(r)
    \/ FailBeforeProxying(r)
    \/ StartProxying(r)

CleanupStep ==
    \/ StartCleanup
    \/ FinishDrain
    \/ \E s \in Services : Prepare(s) \/ CleanupDecides(s) \/ CleanupGivesUp(s)
    \/ FinishCleanup

Next ==
    \/ \E r \in Requests : NewContext(r) \/ RequestStep(r) \/ EndRequest(r)
    \/ \E s \in Services : LaunchFinished(s) \/ Scan(s)
    \/ \E a \in attempts : AttemptStep(a)
    \/ CleanupStep
    \/ CloseGate \/ RequestShutdown \/ HandOff
    \/ Tick

Spec == Init /\ [][Next]_vars

\* Runnable code runs, commands end by their timeouts, time passes.  Nothing
\* is assumed of the signal, of new requests or of the end of a request.
Fairness ==
    /\ \A r \in Requests : WF_vars(RequestStep(r))
    /\ \A s \in Services :
           /\ WF_vars(LaunchFinished(s))
           /\ WF_vars(Scan(s))
           /\ WF_vars(\E a \in attempts : a.service = s /\ AttemptStep(a))
           /\ WF_vars(Prepare(s))
           /\ WF_vars(CleanupDecides(s) \/ CleanupGivesUp(s))
    /\ WF_vars(StartCleanup) /\ WF_vars(FinishDrain) /\ WF_vars(FinishCleanup)
    /\ WF_vars(RequestShutdown)
    /\ WF_vars(Tick)

FairSpec == Spec /\ Fairness

-----------------------------------------------------------------------------
(* Properties.                                                             *)

\* No stop is sent to a service between a request's arrival and its end, or
\* its kickstart: whichever thread is between two critical sections, the stop
\* decision sees it through the generation, the lease, the launch state or
\* the admission that covers the handover from one to the next.  For the idle
\* stop this rests on the probe being shorter than the idle timeout and on
\* timely scheduling; for the shutdown's on the gate alone.
NoStopUnderRequest ==
    \A a \in attempts : a.phase = "locked" /\ (Timely \/ ~a.requiresIdle) =>
        /\ launch[a.service] # "Launching"
        /\ \A r \in Requests : route[r] # a.service

\* The requests proxied to a service are exactly the leases it counts, so its
\* release never underflows and an ended request never pins it as busy.
LeasesMatchRequests ==
    \A s \in Services :
        inFlight[s] = Cardinality({r \in Requests :
            route[r] = s /\ stage[r] \in {"leased", "proxying"}})

\* After the drain no request reaches a service: activity is then only the
\* end of a lease, and no kickstart starts.
NothingArrivesAfterDrain ==
    [][drain = "drained" =>
          \A s \in Services :
              /\ kickstarts'[s] <= kickstarts[s]
              /\ generation'[s] # generation[s] => inFlight'[s] < inFlight[s]
      ]_vars

\* After a drain the cleanup ends with every service stopped once, or left
\* running for a reason the README gives (refused by its checker or by
\* launchctl, busy until the deadline, an idle stop already under way that a
\* request invalidated) or because that idle stop was sent before the request
\* came.  No service falls through otherwise, and no decision of the shutdown
\* itself is lost to a late request.
CleanupDecidesEveryService ==
    phase = "Completed" /\ drain = "drained" =>
        \A s \in Services : stopsSent[s] = 1 \/ s \in excused \cup overtaken

Quiescent(s) == inFlight[s] = 0 /\ launch[s] # "Launching"

\* README.md, "Gateway shutdown and restart": each configured service that
\* becomes quiescent within the drain window gets one shutdown stop decision.
\* With the reasons for which a target remains running, this leaves no room
\* for a quiescent, unrefused service that is undecided before the deadline.
QuiescentServicesAreDecided ==
    phase = "Completed" /\ drain = "drained" /\ ~expired =>
        \A s \in Services :
            Quiescent(s) => stopsSent[s] = 1 \/ s \in excused

\* An admission lasts no longer than a readiness probe, so with timely
\* scheduling the cleanup never finds the gate undrained at its deadline.
AdmissionsDrainInTime == drain # "undrained"

\* A stop attempt never reports its stop to a wake target that is launching,
\* although another thread may request a launch between its two critical
\* sections: the gateway keeps the contract that makes kickstarts unique.
KeepsWakeContract == Wake!Spec

\* Hence, with timely scheduling, launchctl kickstart is deduplicated whatever
\* requests, stops and shutdown do: a service is Launching exactly while one
\* kickstart of it runs.
OneKickstart == Wake!OneKickstart

\* Shutdown ends: no request, kickstart, checker or launchctl that is itself
\* bounded keeps the cleanup waiting, and neither does a request that never
\* ends.
ShutdownCompletes == (phase = "Requested") ~> (phase = "Completed")
=============================================================================
