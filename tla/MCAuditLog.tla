----------------------------- MODULE MCAuditLog -----------------------------
(***************************************************************************)
(* Instances of AuditLog for TLC: two objects of one process, and one of   *)
(* another.                                                                *)
(***************************************************************************)
EXTENDS AuditLog

MCHome == [i \in Instance |-> IF i = "c" THEN "q" ELSE "p"]
=============================================================================
