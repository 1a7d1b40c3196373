------------------------- MODULE MCServiceLifecycle -------------------------
(***************************************************************************)
(* One service with a checker and one without.  Three generations are an   *)
(* arrival, a lease and its release, one after the other in any order the  *)
(* counts allow, against attempts of both kinds.                           *)
(***************************************************************************)
EXTENDS ServiceLifecycle

CONSTANTS app, worker

MCServices == {app, worker}
MCChecked == {app}
=============================================================================
