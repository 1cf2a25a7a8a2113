----------------------------- MODULE MCFftwPlan -----------------------------
(* FftwPlan and its refinement of SerialPlan, for TLC.                      *)
EXTENDS FftwPlanSerial, TLC

Symmetry == Permutations(Threads)
=============================================================================
