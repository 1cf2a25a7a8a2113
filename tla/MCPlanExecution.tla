-------------------------- MODULE MCPlanExecution --------------------------
(* Values for the constants of PlanExecution that a .cfg cannot write.      *)
EXTENDS PlanExecutionInv, TLC

CONSTANTS b1, b2

\* A prime, then a composite, then a length of one.
BluesteinThenMixed ==
    <<[kind |-> "bluestein", stages |-> 1], [kind |-> "mixed_radix", stages |-> 2],
      [kind |-> "radix2", stages |-> 0]>>

OneAxis == <<[kind |-> "mixed_radix", stages |-> 1]>>

\* The program fills b1 with a kernel of its own.
FillsFirst == <<b1>>
NothingPending == <<>>

Symmetry == Permutations(Threads)
=============================================================================
