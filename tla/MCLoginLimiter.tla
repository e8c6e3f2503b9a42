--------------------------- MODULE MCLoginLimiter ---------------------------
(***************************************************************************)
(* LoginLimiter, for TLC: two addresses.  Attempts suffice for what the    *)
(* limiter remembers of both and one more.                                 *)
(***************************************************************************)
EXTENDS LoginLimiter

Attempts == 1..7

=============================================================================
