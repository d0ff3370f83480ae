------------------------------ MODULE MCSiding ------------------------------
(***************************************************************************)
(* Instances of Siding for TLC: two runs of one class, one that outranks   *)
(* them, one above it, and one without a class.                            *)
(***************************************************************************)
EXTENDS Siding

MCClass == [r \in Run |-> CASE r = "escalation" -> 1 [] r = "freight" -> 2
                            [] r = "draft" -> 0      [] OTHER -> 3]
=============================================================================
