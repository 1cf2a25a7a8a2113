--------------------------- MODULE MCBlockingPlan ---------------------------
(* Values for the constants of BlockingPlan that a .cfg cannot write.       *)
EXTENDS BlockingPlan

CONSTANTS b1, b2

\* One command on the plan's queue, and one on another queue.
FillsBoth == <<b1, b2>>
=============================================================================
