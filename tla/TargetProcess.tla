---------------------------- MODULE TargetProcess ----------------------------
(***************************************************************************)
(* The gateway beside the processes it wakes and stops: the LaunchAgents   *)
(* themselves, the launchctl commands on their way to launchd, a client of *)
(* each service that obeys Retry-After, and a gateway that crashes and is  *)
(* replaced by one that knows nothing.                                     *)
(*                                                                         *)
(* Wake and Life are the gateway's own state, over WakeTarget and          *)
(* ServiceLifecycle.  What launchd, launchctl, the targets and the client  *)
(* do is not in src/ and is modelled from how src/ uses them.  launchctl   *)
(* acts at any moment between its spawn and its end, and a launchctl of a  *)
(* crashed gateway (kill_on_drop does not run on SIGKILL) acts later or    *)
(* never.                                                                  *)
(***************************************************************************)
EXTENDS Integers

CONSTANTS Services, Checked, IdleTimeout, CheckRetry, RetryCooldown,
          LaunchTimeout,    \* LAUNCH_TIMEOUT, in ticks
          RetryAfter,       \* Retry-After of the loading response, in ticks
          StartTime,        \* longest time a target takes to listen
          ExitTime,         \* longest time it takes to exit
          RestartTime,      \* longest time until the gateway is replaced
          MaxTries,         \* failed tries a client may need, see below
          Visits, Faults    \* bounds on visits of a client and on faults

\* idle_timeout_seconds is at least 1, and the other times are constants of
\* several seconds.
ASSUME TargetAssumption ==
    /\ Checked \subseteq Services
    /\ IdleTimeout \in Nat \ {0} /\ CheckRetry \in Nat \ {0}
    /\ RetryCooldown \in Nat \ {0}
    /\ LaunchTimeout \in Nat \ {0} /\ RetryAfter \in Nat \ {0}
    /\ StartTime \in Nat \ {0} /\ ExitTime \in Nat \ {0}
    /\ RestartTime \in Nat \ {0}
    /\ MaxTries \in Nat /\ Visits \in Nat /\ Faults \in Nat

VARIABLES
    launch, coolIn, kickstarts,                               \* Wake
    inFlight, generation, idleIn, retryIn, attemptInProgress, \* Life
    stopAttempted, attempts, disturbed, stopsSent,
    running,      \* the gateway runs
    restartIn,    \* ticks until it is replaced at the latest
    kickIn,       \* ticks until the gateway's kickstart times out
    commands,     \* launchctl commands launchd has not acted on
    target,       \* target[s]: the LaunchAgent's process
    targetIn,     \* ticks it may spend starting or exiting
    client,       \* client[s]: what the client of s is doing
    clientIn,     \* ticks until it retries
    tries,        \* history: failed tries of its visit, up to MaxTries + 1
    visitsLeft, faultsLeft,
    quietFor,     \* history: ticks since the last activity, up to IdleTimeout
    refusedFor    \* history: ticks since a check was refused in the present
                  \* idle period, up to CheckRetry

wakeVars == <<launch, coolIn, kickstarts>>
lifeVars == <<inFlight, generation, idleIn, retryIn, attemptInProgress,
              stopAttempted, attempts, disturbed, stopsSent>>
gatewayVars == <<running, restartIn, kickIn>>
targetVars == <<target, targetIn>>
clientVars == <<client, clientIn, tries, visitsLeft>>
historyVars == <<quietFor, refusedFor>>
vars == <<wakeVars, lifeVars, gatewayVars, commands, targetVars, clientVars,
          historyVars, faultsLeft>>

Wake == INSTANCE WakeTarget

Life == INSTANCE ServiceLifecycle WITH
            launchInProgress <- [s \in Services |-> launch[s] = "Launching"],
            MaxGeneration <- 0

Commands == [service : Services, verb : {"kickstart", "kill"}, owned : BOOLEAN]

TypeOK ==
    /\ Wake!TypeOK /\ Life!TypeOK
    /\ running \in BOOLEAN
    /\ restartIn \in 0 .. RestartTime
    /\ kickIn \in [Services -> 0 .. LaunchTimeout]
    /\ commands \subseteq Commands
    /\ target \in [Services -> {"down", "starting", "up", "exiting"}]
    /\ targetIn \in [Services -> Nat]
    /\ client \in [Services -> {"away", "asking", "served", "waiting"}]
    /\ clientIn \in [Services -> 0 .. RetryAfter]
    /\ tries \in [Services -> 0 .. MaxTries + 1]
    /\ visitsLeft \in 0 .. Visits
    /\ faultsLeft \in 0 .. Faults
    /\ quietFor \in [Services -> 0 .. IdleTimeout]
    /\ refusedFor \in [Services -> 0 .. CheckRetry]

\* A first gateway, or one that adopts what an earlier one left running.
Init ==
    /\ Wake!Init /\ Life!Init
    /\ running = TRUE
    /\ restartIn = 0
    /\ kickIn = [s \in Services |-> 0]
    /\ commands = {}
    /\ target \in [Services -> {"down", "up"}]
    /\ targetIn = [s \in Services |-> 0]
    /\ client = [s \in Services |-> "away"]
    /\ clientIn = [s \in Services |-> 0]
    /\ tries = [s \in Services |-> 0]
    /\ visitsLeft = Visits
    /\ faultsLeft = Faults
    /\ quietFor = [s \in Services |-> 0]
    /\ refusedFor = [s \in Services |-> CheckRetry]

Fault == faultsLeft > 0 /\ faultsLeft' = faultsLeft - 1

Activity(s) ==
    /\ quietFor' = [quietFor EXCEPT ![s] = 0]
    /\ refusedFor' = [refusedFor EXCEPT ![s] = CheckRetry]

-----------------------------------------------------------------------------
(* The client and the request path.                                        *)

Failed(clients) ==
    /\ client' = [s \in Services |->
                     IF s \in clients THEN "waiting" ELSE client[s]]
    /\ clientIn' = [s \in Services |->
                       IF s \in clients THEN RetryAfter ELSE clientIn[s]]
    /\ tries' = [s \in Services |->
                    IF s \in clients /\ tries[s] <= MaxTries
                    THEN tries[s] + 1 ELSE tries[s]]
    /\ UNCHANGED visitsLeft

Ask(s) ==
    /\ \/ /\ client[s] = "away"
          /\ visitsLeft > 0
          /\ visitsLeft' = visitsLeft - 1
       \/ /\ client[s] = "waiting"
          /\ clientIn[s] = 0
          /\ UNCHANGED visitsLeft
    /\ running
    /\ client' = [client EXCEPT ![s] = "asking"]
    /\ UNCHANGED <<clientIn, tries, wakeVars>>
    /\ Life!NoteRequestArrival(s)
    /\ Activity(s)
    /\ UNCHANGED <<gatewayVars, commands, targetVars, faultsLeft>>

\* No gateway listens: the client comes back as if it had been told to.
Refused(s) ==
    /\ ~running
    /\ client[s] = "waiting" /\ clientIn[s] = 0
    /\ Failed({s})
    /\ UNCHANGED <<wakeVars, lifeVars, gatewayVars, commands, targetVars,
                   faultsLeft, historyVars>>

\* The readiness connect succeeds, on a target that is exiting too as long as
\* its socket is open, and the request is proxied.
Serve(s) ==
    /\ client[s] = "asking"
    /\ target[s] \in {"up", "exiting"}
    /\ client' = [client EXCEPT ![s] = "served"]
    /\ UNCHANGED wakeVars
    /\ Life!Acquire(s)
    /\ Activity(s)
    /\ UNCHANGED <<clientIn, tries, visitsLeft, gatewayVars, commands,
                   targetVars, faultsLeft>>

\* Not ready: the launch is requested and the client told to come back.  A
\* target that is up misses the connect only by a fault.
AnswerCold(s) ==
    /\ client[s] = "asking"
    /\ IF target[s] = "up" THEN Fault ELSE UNCHANGED faultsLeft
    /\ Failed({s})
    /\ Wake!RequestLaunch(s)
    /\ IF Wake!MayLaunch(s)
       THEN /\ commands' = commands \cup
                   {[service |-> s, verb |-> "kickstart", owned |-> TRUE]}
            /\ kickIn' = [kickIn EXCEPT ![s] = LaunchTimeout]
       ELSE UNCHANGED <<commands, kickIn>>
    /\ UNCHANGED <<lifeVars, running, restartIn, targetVars, historyVars>>

Complete(s) ==
    /\ client[s] = "served"
    /\ client' = [client EXCEPT ![s] = "away"]
    /\ tries' = [tries EXCEPT ![s] = 0]
    /\ UNCHANGED wakeVars
    /\ Life!Release(s)
    /\ Activity(s)
    /\ UNCHANGED <<clientIn, visitsLeft, gatewayVars, commands, targetVars,
                   faultsLeft>>

-----------------------------------------------------------------------------
(* launchd, launchctl and the targets.                                     *)

Become(s, state, time) ==
    /\ target' = [target EXCEPT ![s] = state]
    /\ targetIn' = [targetIn EXCEPT ![s] = time]

\* kickstart starts a job that has no process, kill SIGTERM begins the exit
\* of one that has; neither does anything else.
LaunchctlActs(c) ==
    LET s == c.service IN
    /\ commands' = commands \ {c}
    /\ IF c.verb = "kickstart" /\ target[s] = "down"
       THEN Become(s, "starting", StartTime)
       ELSE IF c.verb = "kill" /\ target[s] \in {"starting", "up"}
       THEN Become(s, "exiting", ExitTime)
       ELSE UNCHANGED targetVars
    /\ UNCHANGED <<wakeVars, lifeVars, gatewayVars, clientVars, historyVars,
                   faultsLeft>>

OrphanEnds(c) ==
    /\ ~c.owned
    /\ commands' = commands \ {c}
    /\ UNCHANGED <<wakeVars, lifeVars, gatewayVars, targetVars, clientVars,
                   historyVars, faultsLeft>>

Listen(s) ==
    /\ target[s] = "starting"
    /\ Become(s, "up", 0)
    /\ UNCHANGED <<wakeVars, lifeVars, gatewayVars, commands, clientVars,
                   historyVars, faultsLeft>>

\* The process is gone, by its own fault or not, and with it the response of
\* a client that was being served.
Exit(s) ==
    /\ target[s] # "down"
    /\ IF target[s] = "exiting" THEN UNCHANGED faultsLeft ELSE Fault
    /\ Become(s, "down", 0)
    /\ UNCHANGED wakeVars
    /\ IF client[s] = "served"
       THEN Life!Release(s) /\ Failed({s}) /\ Activity(s)
       ELSE UNCHANGED <<lifeVars, clientVars, historyVars>>
    /\ UNCHANGED <<gatewayVars, commands>>

-----------------------------------------------------------------------------
(* The gateway's commands.                                                 *)

\* The kickstart ends or is killed at its timeout; ending before it acted is
\* a fault.
LaunchFinished(s) ==
    LET own == [service |-> s, verb |-> "kickstart", owned |-> TRUE] IN
    /\ Wake!LaunchFinished(s)
    /\ commands' = commands \ {own}
    /\ IF own \in commands THEN Fault ELSE UNCHANGED faultsLeft
    /\ kickIn' = [kickIn EXCEPT ![s] = 0]
    /\ UNCHANGED <<lifeVars, running, restartIn, targetVars, clientVars,
                   historyVars>>

Scan(s) ==
    /\ running
    /\ UNCHANGED wakeVars
    /\ Life!BeginStopAttempt(s)
    /\ UNCHANGED <<gatewayVars, commands, targetVars, clientVars, historyVars,
                   faultsLeft>>

\* launchctl kill is spawned, and killed at its timeout if it is still there.
AttemptStep(a) ==
    LET kill == [service |-> a.service, verb |-> "kill", owned |-> TRUE] IN
    /\ \/ /\ Wake!AllowLaunchAfterStop(a.service)
          /\ Life!StartStop(a)
          /\ commands' = commands \cup {kill}
          /\ UNCHANGED refusedFor
       \/ /\ UNCHANGED wakeVars
          /\ Life!FinishStop(a)
          /\ commands' = commands \ {kill}
          /\ UNCHANGED refusedFor
       \/ /\ UNCHANGED <<wakeVars, commands, refusedFor>>
          /\ Life!CheckAllows(a) \/ Life!Discard(a) \/ Life!Decide(a)
       \/ /\ UNCHANGED <<wakeVars, commands>>
          /\ Life!CheckRefuses(a) \/ Life!StopNotStarted(a)
          /\ refusedFor' = IF disturbed[a.service] THEN refusedFor
                           ELSE [refusedFor EXCEPT ![a.service] = 0]
    /\ UNCHANGED <<gatewayVars, targetVars, clientVars, quietFor, faultsLeft>>

-----------------------------------------------------------------------------
(* Crash and replacement.                                                  *)

\* Wake!Init and Life!Init, but for the idle times.
ForgetEverything ==
    /\ launch' = [s \in Services |-> "Eligible"]
    /\ coolIn' = [s \in Services |-> 0]
    /\ kickstarts' = [s \in Services |-> 0]
    /\ inFlight' = [s \in Services |-> 0]
    /\ generation' = [s \in Services |-> 0]
    /\ retryIn' = [s \in Services |-> 0]
    /\ attemptInProgress' = [s \in Services |-> FALSE]
    /\ stopAttempted' = [s \in Services |-> {}]
    /\ attempts' = {}
    /\ disturbed' = [s \in Services |-> FALSE]
    /\ stopsSent' = [s \in Services |-> 0]

Crash ==
    /\ running
    /\ Fault
    /\ running' = FALSE
    /\ restartIn' = RestartTime
    /\ kickIn' = [s \in Services |-> 0]
    /\ ForgetEverything
    /\ UNCHANGED idleIn   \* until Replace
    /\ commands' = {[c EXCEPT !.owned = FALSE] : c \in commands}
    /\ Failed({s \in Services : client[s] \in {"asking", "served"}})
    /\ refusedFor' = [s \in Services |-> CheckRetry]
    /\ UNCHANGED <<targetVars, quietFor>>

\* Mutant: the replacement goes on with the idle times of its predecessor.
ReplaceRemembering ==
    /\ ~running
    /\ running' = TRUE
    /\ restartIn' = 0
    /\ quietFor' = [s \in Services |-> 0]
    /\ UNCHANGED <<wakeVars, lifeVars, kickIn, commands, targetVars, clientVars,
                   refusedFor, faultsLeft>>

\* A new process: every service is idle since now.
Replace ==
    /\ ~running
    /\ running' = TRUE
    /\ restartIn' = 0
    /\ idleIn' = [s \in Services |-> IdleTimeout]
    /\ quietFor' = [s \in Services |-> 0]
    /\ UNCHANGED <<wakeVars, inFlight, generation, retryIn, attemptInProgress,
                   stopAttempted, attempts, disturbed, stopsSent, kickIn,
                   commands, targetVars, clientVars, refusedFor, faultsLeft>>

-----------------------------------------------------------------------------
(* Time.                                                                   *)

CountDown(n) == IF n > 0 THEN n - 1 ELSE 0

\* What may not wait for the next tick: code that is runnable, a client whose
\* time has come, and whatever has used up its time.
Due(s) ==
    \/ client[s] = "asking"
    \/ client[s] = "waiting" /\ clientIn[s] = 0
    \/ kickstarts[s] > 0 /\ kickIn[s] = 0
    \/ target[s] \in {"starting", "exiting"} /\ targetIn[s] = 0

Tick ==
    /\ \A s \in Services : ~Due(s)
    /\ running \/ restartIn > 0
    /\ restartIn' = CountDown(restartIn)
    /\ kickIn' = [s \in Services |-> CountDown(kickIn[s])]
    /\ targetIn' = [s \in Services |-> CountDown(targetIn[s])]
    /\ clientIn' = [s \in Services |-> CountDown(clientIn[s])]
    /\ quietFor' = [s \in Services |->
                       IF quietFor[s] < IdleTimeout /\ inFlight[s] = 0
                       THEN quietFor[s] + 1 ELSE quietFor[s]]
    /\ refusedFor' = [s \in Services |->
                         IF refusedFor[s] < CheckRetry
                         THEN refusedFor[s] + 1 ELSE CheckRetry]
    /\ IF running THEN Wake!Tick /\ Life!Tick
                  ELSE UNCHANGED <<wakeVars, lifeVars>>
    /\ UNCHANGED <<running, commands, target, client, tries, visitsLeft,
                   faultsLeft>>

-----------------------------------------------------------------------------

ServiceStep(s) ==
    \/ Serve(s) \/ AnswerCold(s) \/ Refused(s)
    \/ Listen(s) \/ LaunchFinished(s)

Next ==
    \/ \E s \in Services :
           Ask(s) \/ ServiceStep(s) \/ Exit(s) \/ Complete(s) \/ Scan(s)
    \/ \E c \in commands : LaunchctlActs(c) \/ OrphanEnds(c)
    \/ \E a \in attempts : AttemptStep(a)
    \/ Crash \/ Replace
    \/ Tick

Spec == Init /\ [][Next]_vars

\* Bounded things end, clients that were told to retry do, time passes.
\* Nothing is assumed of visits, faults and the end of a response.
Fairness ==
    /\ \A s \in Services :
           /\ WF_vars(ServiceStep(s))
           /\ WF_vars(client[s] = "waiting" /\ Ask(s))
           /\ WF_vars(target[s] = "exiting" /\ Exit(s))
           /\ WF_vars(Scan(s))
           /\ WF_vars(\E a \in attempts : a.service = s /\ AttemptStep(a))
           /\ WF_vars(\E c \in commands : c.service = s /\ LaunchctlActs(c))
    /\ WF_vars(Replace)
    /\ WF_vars(Tick)

FairSpec == Spec /\ Fairness

-----------------------------------------------------------------------------
(* Properties.                                                             *)

\* An idle stop is decided only after a whole idle timeout without an arrival,
\* a response or a start of the gateway: activity restarts the grace period,
\* and a replacement gives every service it adopts a whole one.
GraceIsFresh ==
    \A a \in attempts :
        a.phase = "locked" /\ a.requiresIdle => quietFor[a.service] = IdleTimeout

\* README.md: while a target whose check was refused remains idle, "another check
\* runs no sooner than 30 seconds later", whatever else ended in between; and a
\* refusal, however late it comes, delays no check of an idle period after the
\* one it was given in.
RefusalsArePaced ==
    /\ \A a \in attempts : a.phase = "checking" /\ ~disturbed[a.service] =>
           refusedFor[a.service] = CheckRetry
    /\ \A s \in Services : retryIn[s] > 0 => refusedFor[s] < CheckRetry

\* The gateway does not stop a target while a client waits that it, or its
\* predecessor, has told to come back, provided RetryAfter < IdleTimeout.
NoStopBeforeRetry ==
    \A a \in attempts : a.phase = "locked" => client[a.service] # "waiting"

\* A client that obeys Retry-After is served after a bounded number of tries:
\* neither the kickstart cooldown, nor a kickstart of a process that is just
\* exiting, nor a stop on its way, nor a crash between two steps keeps it
\* out.  The least MaxTries depends on the times and the bounds alone.
\* README.md: "Retry after the target begins listening; the later request
\* should reach the service".  config.rs does not ask for an IdleTimeout above
\* RetryAfter; without, no number of tries is enough (run short_idle).
RetriesReachTheService == \A s \in Services : tries[s] <= MaxTries

\* A target that survives, a crash of the gateway included, is stopped in the
\* end: while it is up and nobody uses it, attempts to stop it keep coming
\* until one is accepted.
SurvivorsAreStopped ==
    \A s \in Services :
        []<>(\/ target[s] # "up" \/ client[s] # "away"
             \/ Life!AlreadySignalled(s)
             \/ Life!Undecided(s))
=============================================================================
