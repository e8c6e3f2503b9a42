---------------------------- MODULE MCCertificate ----------------------------
(***************************************************************************)
(* Certificate, for TLC: a time unit stands for about ten days.  A month   *)
(* may be longer than the margin, as 31 days are longer than 30.           *)
(***************************************************************************)
EXTENDS Certificate

Pairs == 1..6
Months == {2, 3}

=============================================================================
