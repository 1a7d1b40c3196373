---------------------------- MODULE MCWakeTarget ----------------------------
(***************************************************************************)
(* Three services in every combination of states; a cooldown of three      *)
(* ticks has a first, a middle and a last one.                             *)
(***************************************************************************)
EXTENDS WakeTarget

CONSTANTS s1, s2, s3

MCServices == {s1, s2, s3}
=============================================================================
