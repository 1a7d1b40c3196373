----------------------------- MODULE StopPolicy -----------------------------
(***************************************************************************)
(* When the gateway may tell launchd to stop a service, stated over the    *)
(* requests alone: an idle period of a service starts with each arrival,   *)
(* lease or release, a stop belongs to an idle period that was considered  *)
(* as a whole, and no idle period sees a second stop.  Generations, locks, *)
(* flags and checkers are how ServiceLifecycle gets there.                 *)
(***************************************************************************)
EXTENDS Naturals

CONSTANTS Services

VARIABLES leases,       \* leases[s]: requests being proxied to s
          considered,   \* services undisturbed since a stop was considered
          stopsSent     \* stopsSent[s]: stops sent in the present idle period

vars == <<leases, considered, stopsSent>>

TypeOK ==
    /\ leases \in [Services -> Nat]
    /\ considered \subseteq Services
    /\ stopsSent \in [Services -> Nat]

Init ==
    /\ leases = [s \in Services |-> 0]
    /\ considered = {}
    /\ stopsSent = [s \in Services |-> 0]

\* An arrival leaves the leases alone, a lease adds one, a release drops one.
Activity(s) ==
    /\ \/ UNCHANGED leases
       \/ leases' = [leases EXCEPT ![s] = @ + 1]
       \/ leases[s] > 0 /\ leases' = [leases EXCEPT ![s] = @ - 1]
    /\ considered' = considered \ {s}
    /\ stopsSent' = [stopsSent EXCEPT ![s] = 0]

Consider(s) ==
    /\ leases[s] = 0
    /\ considered' = considered \cup {s}
    /\ UNCHANGED <<leases, stopsSent>>

Withdraw(s) ==
    /\ considered' = considered \ {s}
    /\ UNCHANGED <<leases, stopsSent>>

Stop(s) ==
    /\ s \in considered
    /\ leases[s] = 0
    /\ stopsSent[s] = 0
    /\ considered' = considered \ {s}
    /\ stopsSent' = [stopsSent EXCEPT ![s] = 1]
    /\ UNCHANGED leases

Next ==
    \E s \in Services : Activity(s) \/ Consider(s) \/ Withdraw(s) \/ Stop(s)

Spec == Init /\ [][Next]_vars
=============================================================================
