---------------------------- MODULE DrainBarrier ----------------------------
(***************************************************************************)
(* What the request gate promises to the rest of the gateway, without the  *)
(* mutex, the counter and the tokio Notify it is built from: requests are  *)
(* admitted until the gate closes, never again after that, and the         *)
(* shutdown cleanup that waits for the admitted ones learns either that    *)
(* all of them are gone or that the drain deadline came first.             *)
(***************************************************************************)
CONSTANTS Contexts      \* request contexts, one per downstream request

VARIABLES accepting,    \* the gate admits new requests
          held,         \* contexts that hold an unreleased admission
          outcome,      \* what the cleanup knows: see Outcomes
          expired       \* the drain deadline has passed

vars == <<accepting, held, outcome, expired>>

Outcomes == {"none", "waiting", "drained", "undrained"}

TypeOK ==
    /\ accepting \in BOOLEAN
    /\ held \subseteq Contexts
    /\ outcome \in Outcomes
    /\ expired \in BOOLEAN

Init ==
    /\ accepting = TRUE
    /\ held = {}
    /\ outcome = "none"
    /\ expired = FALSE

Admit(c) ==
    /\ accepting
    /\ c \notin held
    /\ held' = held \cup {c}
    /\ UNCHANGED <<accepting, outcome, expired>>

Release(c) ==
    /\ c \in held
    /\ held' = held \ {c}
    /\ UNCHANGED <<accepting, outcome, expired>>

Close ==
    /\ accepting' = FALSE
    /\ UNCHANGED <<held, outcome, expired>>

\* The cleanup closes the gate itself before it waits.
StartDrain ==
    /\ outcome = "none"
    /\ accepting' = FALSE
    /\ outcome' = "waiting"
    /\ UNCHANGED <<held, expired>>

Expire ==
    /\ outcome # "none"
    /\ expired' = TRUE
    /\ UNCHANGED <<accepting, held, outcome>>

\* The cleanup goes on to the services: nobody is between arrival and lease.
Drained ==
    /\ outcome = "waiting"
    /\ held = {}
    /\ outcome' = "drained"
    /\ UNCHANGED <<accepting, held, expired>>

\* The cleanup leaves every service running.
GaveUp ==
    /\ outcome = "waiting"
    /\ expired
    /\ held # {}
    /\ outcome' = "undrained"
    /\ UNCHANGED <<accepting, held, expired>>

Next ==
    \/ \E c \in Contexts : Admit(c) \/ Release(c)
    \/ Close \/ StartDrain \/ Expire \/ Drained \/ GaveUp

Spec == Init /\ [][Next]_vars

\* The cleanup is told: a drained gate is noticed whether or not the deadline
\* ever comes, and so is a deadline that finds requests still admitted.
FairSpec == Spec /\ WF_vars(Drained) /\ WF_vars(GaveUp)
=============================================================================
