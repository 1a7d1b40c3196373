-------------------------- MODULE MCShutdownTiming --------------------------
(***************************************************************************)
(* Two services, one with a checker.  The ceiling is one tick above the    *)
(* bound, so that any path longer than the documented one meets it.        *)
(***************************************************************************)
EXTENDS ShutdownTiming

CONSTANTS app, worker

MCServices == {app, worker}
MCCeiling == 3 + 1 + 3 + 2 + 2 + 1
=============================================================================
