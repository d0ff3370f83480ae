------------------------------ MODULE MCTurns ------------------------------
(***************************************************************************)
(* Instances of Turns for TLC: two threads of one process, and one of      *)
(* another.                                                                *)
(***************************************************************************)
EXTENDS Turns

MCCalls == [t \in Threads |-> CASE t = "a" -> {"send"}
                                [] t = "b" -> {"escalate", "holding"}
                                [] t = "c" -> {"holding", "read", "escalate"}]
MCNested == [t \in Threads |-> IF t = "a" THEN {"send", "record"} ELSE {"send while holding"}]

MCHome == [t \in Threads |-> IF t = "c" THEN "p2" ELSE "p1"]
=============================================================================
