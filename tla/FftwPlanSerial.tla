--------------------------- MODULE FftwPlanSerial ---------------------------
(***************************************************************************)
(* What the one plan of a program promises to the threads that share it:   *)
(* FftwPlan with a single plan implements SerialPlan.  The log is the      *)
(* order in which executions choose a native plan, under the plan's mutex; *)
(* an execution takes effect when FFTW has written the output.             *)
(***************************************************************************)
EXTENDS FftwPlan

CONSTANTS ThePlan   \* the plan that the log is about

ASSUME ThePlanAssumption == ThePlan \in Plans

\* A buffer as the program sees it once it is scaled.
Seen == [b \in Buffers |-> [origin |-> content[b].origin, times |-> content[b].times]]

Serial == INSTANCE SerialPlan WITH
    Produced <- <<>>,
    accepted <- log[ThePlan],
    applied <- applied[ThePlan],
    content <- Seen,
    pending <- {}

\* A host plan that several threads share applies their executions one after
\* the other, each to the result of the ones before (host.cpp:97-137).
ImplementsSerialPlan == Serial!Spec

-----------------------------------------------------------------------------
(* Why it does.                                                             *)

\* Where a thread has arguments to execute, before and after their checks.
Checked == {"locked", "lacks_plan", "plan_unaligned", "selected"}

\* The arguments a thread works on are arguments the program may pass, and the
\* checks have accepted them.
ArgsInv == \A t \in Threads :
    /\ pc[t] \in {"called"} \union Checked =>
         /\ job[t].onePointer => job[t].in = job[t].out
         /\ Distinct => job[t].onePointer \/ job[t].in # job[t].out
    /\ pc[t] \in Checked => Valid(job[t])

\* The thread chose the native plan of the execution it is about to run.
Chose(t, p) == pc[t] = "selected" /\ job[t].plan = p
LogEntries == [in : Buffers, out : Buffers]

\* The executions of a plan take effect in the order of its log, and only the
\* last one, whose thread is between the choice and the transform, is due.
LogInv ==
    /\ log \in [Plans -> Seq(LogEntries)] /\ applied \in [Plans -> SUBSET Nat]
    /\ \A p \in Plans :
         /\ (\A t \in Threads : ~ Chose(t, p)) => applied[p] = 1..Len(log[p])
         /\ \A t \in Threads : Chose(t, p) =>
              /\ Len(log[p]) > 0
              /\ log[p][Len(log[p])] = [in |-> job[t].in, out |-> job[t].out]
              /\ applied[p] = 1..(Len(log[p]) - 1)
=============================================================================
