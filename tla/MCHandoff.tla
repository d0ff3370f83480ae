----------------------------- MODULE MCHandoff -----------------------------
(***************************************************************************)
(* Instances of Handoff for TLC: every context begins at the north hub.    *)
(***************************************************************************)
EXTENDS Handoff

MCHome == [c \in Ctx |-> "north"]
=============================================================================
