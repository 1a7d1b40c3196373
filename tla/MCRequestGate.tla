--------------------------- MODULE MCRequestGate ----------------------------
(***************************************************************************)
(* Three contexts and two closers: enough for a release, a close and an    *)
(* admission to be under way while the waiter is anywhere in its loop.     *)
(***************************************************************************)
EXTENDS RequestGate

CONSTANTS c1, c2, c3, signal, monitor

MCContexts == {c1, c2, c3}
MCClosers == {signal, monitor}
=============================================================================
