------------------------- MODULE MCSessionLifetime -------------------------
(***************************************************************************)
(* SessionLifetime, for TLC.                                               *)
(***************************************************************************)
EXTENDS SessionLifetime, TLC

Symmetry == Permutations(Request)

=============================================================================
