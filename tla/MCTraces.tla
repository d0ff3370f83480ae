------------------------------ MODULE MCTraces ------------------------------
(***************************************************************************)
(* Instances of Traces for TLC: the bounds are in the configuration.       *)
(***************************************************************************)
EXTENDS Traces
=============================================================================
