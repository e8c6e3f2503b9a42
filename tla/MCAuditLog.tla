----------------------------- MODULE MCAuditLog -----------------------------
(***************************************************************************)
(* AuditLog, for TLC: a time unit is half the pruner's interval.           *)
(***************************************************************************)
EXTENDS AuditLog
=============================================================================
