----------------------------- MODULE MCHandles -----------------------------
(* The handles with a run, steps and decisions, calls nested once. *)
EXTENDS Handles

MCInputs == {"sound", "throwing"}
=============================================================================
