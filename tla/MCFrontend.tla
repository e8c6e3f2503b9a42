----------------------------- MODULE MCFrontend -----------------------------
(***************************************************************************)
(* Frontend, for TLC.                                                      *)
(***************************************************************************)
EXTENDS Frontend, TLC

Symmetry == Permutations(Account) \cup Permutations(Session) \cup
            Permutations(Request) \cup Permutations(Socket)

=============================================================================
