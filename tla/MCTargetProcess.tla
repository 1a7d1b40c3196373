-------------------------- MODULE MCTargetProcess ---------------------------
(***************************************************************************)
(* One service with a checker.  A tick stands for 2.5 s, so that the three *)
(* times of five seconds are two ticks each.  One visit meets every state  *)
(* of the target, the stop of one that was adopted included, and up to     *)
(* three faults, which is a crash between a failed kickstart and a target  *)
(* that dies.  MaxTries is the least for which the run passes.             *)
(***************************************************************************)
EXTENDS TargetProcess

CONSTANT app
=============================================================================
