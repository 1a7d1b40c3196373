----------------------------- MODULE MCGateway ------------------------------
(***************************************************************************)
(* Small gateways.  The probe takes up to one tick, and every other time   *)
(* is the least the assumptions allow.                                     *)
(***************************************************************************)
EXTENDS Gateway, TLC

CONSTANTS app, worker, r1, r2, none

MCSymmetry == Permutations(Requests)
=============================================================================
