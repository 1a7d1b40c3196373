--------------------------- MODULE MCHeaderFilters --------------------------
(***************************************************************************)
(* One end-to-end field, one bounded one and the proxy's credentials in    *)
(* every message; the framing fields and a forwarded field in some; and    *)
(* Connection fields that name any of them, or themselves.                 *)
(***************************************************************************)
EXTENDS HeaderFilters
=============================================================================
