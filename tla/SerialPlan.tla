----------------------------- MODULE SerialPlan -----------------------------
(***************************************************************************)
(* What a plan promises to a program that shares it: "a plan serializes    *)
(* executions which share its internal scratch" (README.md:45-46).  The    *)
(* executions a plan has accepted form a log; they take effect one at a    *)
(* time, in the order of the log, each one atomically replacing its output *)
(* buffer by the transform of its input buffer.  Scratch memory, kernels,  *)
(* events and locks do not exist at this level.                            *)
(*                                                                         *)
(* The contents of a buffer are abstracted to where they came from and how *)
(* many transforms they went through.                                      *)
(***************************************************************************)
EXTENDS Naturals, Sequences

CONSTANTS
    Buffers,    \* the USM allocations the program passes to execute
    Produced    \* the buffers the program's own pending kernels will fill

VARIABLES
    accepted,   \* the log of accepted executions, each [in, out]
    applied,    \* the positions of the log that have taken effect
    content,    \* the contents of each buffer
    pending     \* the program's kernels that have not run yet

vars == <<accepted, applied, content, pending>>

Fresh(b) == [origin |-> b, times |-> 0]
Garbage == [origin |-> "garbage", times |-> 0]

Transformed(d) == IF d = Garbage THEN d ELSE [d EXCEPT !.times = @ + 1]

Init ==
    /\ accepted = <<>>
    /\ applied = {}
    /\ pending = 1..Len(Produced)
    /\ content = [b \in Buffers |->
                    IF \E p \in pending : Produced[p] = b THEN Garbage ELSE Fresh(b)]

\* A kernel of the program fills its buffer.
Produce(p) ==
    /\ p \in pending
    /\ pending' = pending \ {p}
    /\ content' = [content EXCEPT ![Produced[p]] = Fresh(Produced[p])]
    /\ UNCHANGED <<accepted, applied>>

\* The plan accepts an execution: its place in the order is now fixed.
Accept(in, out) ==
    /\ accepted' = Append(accepted, [in |-> in, out |-> out])
    /\ UNCHANGED <<applied, content, pending>>

\* The oldest execution that has not taken effect does so, once the kernels
\* that fill its buffers have run.
Apply(i) ==
    /\ applied = 1..(i - 1)
    /\ \A p \in pending : Produced[p] \notin {accepted[i].in, accepted[i].out}
    /\ applied' = applied \union {i}
    /\ content' = [content EXCEPT ![accepted[i].out] = Transformed(content[accepted[i].in])]
    /\ UNCHANGED <<accepted, pending>>

TakeEffect ==
    \/ \E p \in pending : Produce(p)
    \/ \E i \in DOMAIN accepted : Apply(i)

Next ==
    \/ TakeEffect
    \/ \E in, out \in Buffers : Accept(in, out)

\* What the plan does, and that it goes on doing it.
Safety == Init /\ [][Next]_vars
Fairness == WF_vars(TakeEffect)

Spec == Safety /\ Fairness
=============================================================================
