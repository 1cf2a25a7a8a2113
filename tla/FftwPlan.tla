------------------------------ MODULE FftwPlan ------------------------------
(***************************************************************************)
(* host::plan (src/host/host.cpp) on the FFTW provider                     *)
(* (src/providers/fftw/fftw_provider.cpp): threads that create, execute    *)
(* and destroy plans.  Every plan has a mutex of its own; FFTW's planner,  *)
(* which is not thread-safe, is guarded by one mutex for the process.  A   *)
(* plan makes the native plan for unaligned buffers when it first needs it.*)
(*                                                                         *)
(* FFTW itself is modelled by what the provider relies on: a call of the   *)
(* planner (make or destroy a native plan) takes time and excludes every   *)
(* other one, and may fail; executing a native plan is thread-safe.        *)
(***************************************************************************)
EXTENDS Naturals, Sequences, FiniteSets

CONSTANTS
    Threads,        \* host threads
    NoThread,       \* the owner of a free mutex
    Plans,          \* host::plan objects
    Buffers,        \* the arrays the program transforms
    Null,           \* the null pointer
    Aligned,        \* the buffers aligned like the planning buffers
    Placement,      \* options_.placement
    Scaled,         \* whether the normalization scale differs from 1
    Distinct,       \* whether the program passes two different arrays to the
                    \* overload with two pointers
    MaxCalls,       \* bound: calls of execute
    MaxFailures     \* bound: native plans that FFTW fails to make

ASSUME ConstantsAssumption ==
    /\ NoThread \notin Threads
    /\ Null \notin Buffers
    /\ Aligned \subseteq Buffers
    /\ "garbage" \notin Buffers
    /\ Placement \in {"in_place", "out_of_place"}
    /\ Scaled \in BOOLEAN /\ Distinct \in BOOLEAN
    /\ MaxCalls \in Nat /\ MaxFailures \in Nat

VARIABLES
    pc,         \* per thread: where it is
    job,        \* per thread: the plan it works on and the arguments of execute
    life,       \* per plan: "none", "creating", "live", "destroying", "destroyed"
    planned,    \* per plan: which of aligned_ and unaligned_ is set
    native,     \* per plan and kind: the native plans FFTW keeps for it
    hostMutex,  \* per plan: the owner of plan::impl::mutex_
    planner,    \* the owner of fftw_planner_mutex()
    content,    \* the contents of the buffers
    log,        \* per plan: the executions whose native plan is selected, in order
    applied,    \* per plan: the positions of the log whose transform is done
    issued,     \* calls of execute so far
    failures    \* failed calls of the planner so far

vars == <<pc, job, life, planned, native, hostMutex, planner, content, log, applied,
          issued, failures>>

Kinds == {"aligned", "unaligned"}
NoJob == <<>>

\* Contents: origin, complete transforms, and whether the scaling is due.
Fresh(b) == [origin |-> b, times |-> 0, unscaled |-> FALSE]
Garbage == [origin |-> "garbage", times |-> 0, unscaled |-> FALSE]

\* What FFTW writes; a source another thread has yet to scale is no input, and
\* a native plan for two arrays must not be given one.
Transformed(j) ==
    LET d == content[j.in]
    IN  IF d = Garbage \/ d.unscaled \/ (Placement = "out_of_place" /\ j.in = j.out)
        THEN Garbage
        ELSE [origin |-> d.origin, times |-> d.times + 1, unscaled |-> Scaled]

\* Everything but the contents of the buffers, which a program may start with
\* as it likes.
InitPlans ==
    /\ pc = [t \in Threads |-> "idle"]
    /\ job = [t \in Threads |-> NoJob]
    /\ life = [p \in Plans |-> "none"]
    /\ planned = [p \in Plans |-> {}]
    /\ native = [p \in Plans |-> [k \in Kinds |-> 0]]
    /\ hostMutex = [p \in Plans |-> NoThread]
    /\ planner = NoThread
    /\ log = [p \in Plans |-> <<>>]
    /\ applied = [p \in Plans |-> {}]
    /\ issued = 0
    /\ failures = 0

Init == InitPlans /\ content = [b \in Buffers |-> Fresh(b)]

Goto(t, place) == pc' = [pc EXCEPT ![t] = place]

-----------------------------------------------------------------------------
(* The planner: one lock around every call that makes or destroys plans.    *)

LockPlannerFree(t) == UNCHANGED planner
LockPlanner(t) == planner = NoThread /\ planner' = t

\* Three places wait for that lock: the constructor of fftw_plan_holder for the
\* first native plan, execute for the unaligned one, and the destructor to give
\* them back.
PlanFirst(t) == pc[t] = "creating" /\ Goto(t, "plan_aligned")
PlanLate(t) == pc[t] = "lacks_plan" /\ Goto(t, "plan_unaligned")
GiveBack(t) == pc[t] = "destroying" /\ Goto(t, "destroy_native")

EnterPlanner(t) ==
    /\ PlanFirst(t) \/ PlanLate(t) \/ GiveBack(t)
    /\ LockPlanner(t)
    /\ UNCHANGED <<job, life, planned, native, hostMutex, content, log, applied, issued, failures>>

Planning == {"plan_aligned", "plan_unaligned", "destroy_native"}

\* FFTW makes a native plan and the holder keeps it.
Made(p, kind) ==
    /\ native' = [native EXCEPT ![p][kind] = @ + 1]
    /\ planned' = [planned EXCEPT ![p] = @ \union {kind}]

-----------------------------------------------------------------------------
(* Creating and destroying a plan.                                          *)

\* The constructor has loaded the provider and allocated planning buffers.
Create(t, p) ==
    /\ pc[t] = "idle" /\ life[p] = "none"
    /\ life' = [life EXCEPT ![p] = "creating"]
    /\ job' = [job EXCEPT ![t] = [plan |-> p]]
    /\ Goto(t, "creating")
    /\ UNCHANGED <<planned, native, hostMutex, planner, content, log, applied, issued, failures>>

Created(t) ==
    /\ pc[t] = "plan_aligned"
    /\ Made(job[t].plan, "aligned")
    /\ life' = [life EXCEPT ![job[t].plan] = "live"]
    /\ planner' = NoThread
    /\ job' = [job EXCEPT ![t] = NoJob]
    /\ Goto(t, "idle")
    /\ UNCHANGED <<hostMutex, content, log, applied, issued, failures>>

\* FFTW returns null: the constructor throws and the plan never existed.
CreateFails(t) ==
    /\ pc[t] = "plan_aligned"
    /\ failures < MaxFailures
    /\ failures' = failures + 1
    /\ life' = [life EXCEPT ![job[t].plan] = "none"]
    /\ planner' = NoThread
    /\ job' = [job EXCEPT ![t] = NoJob]
    /\ Goto(t, "idle")
    /\ UNCHANGED <<planned, native, hostMutex, content, log, applied, issued>>

Users(p) == {t \in Threads : job[t] # NoJob /\ job[t].plan = p}

\* The program destroys a plan that no thread uses.
Destroy(t, p) ==
    /\ pc[t] = "idle" /\ life[p] = "live" /\ Users(p) = {}
    /\ life' = [life EXCEPT ![p] = "destroying"]
    /\ job' = [job EXCEPT ![t] = [plan |-> p]]
    /\ Goto(t, "destroying")
    /\ UNCHANGED <<planned, native, hostMutex, planner, content, log, applied, issued, failures>>

DestroyedBothKinds(t) ==
    /\ pc[t] = "destroy_native"
    /\ native' = [native EXCEPT ![job[t].plan] = [k \in Kinds |-> @[k] - 1]]
    /\ planned' = [planned EXCEPT ![job[t].plan] = {}]
    /\ life' = [life EXCEPT ![job[t].plan] = "destroyed"]
    /\ planner' = NoThread
    /\ job' = [job EXCEPT ![t] = NoJob]
    /\ Goto(t, "idle")
    /\ UNCHANGED <<hostMutex, content, log, applied, issued, failures>>
Destroyed(t) ==
    /\ pc[t] = "destroy_native"
    /\ LET p == job[t].plan
       IN  /\ native' = [native EXCEPT ![p] =
                           [k \in Kinds |-> IF k \in planned[p] THEN @[k] - 1 ELSE @[k]]]
           /\ planned' = [planned EXCEPT ![p] = {}]
           /\ life' = [life EXCEPT ![p] = "destroyed"]
    /\ planner' = NoThread
    /\ job' = [job EXCEPT ![t] = NoJob]
    /\ Goto(t, "idle")
    /\ UNCHANGED <<hostMutex, content, log, applied, issued, failures>>

-----------------------------------------------------------------------------
(* execute.                                                                 *)

\* The program calls execute on a live plan.  It may share a plan and its
\* buffers among threads, but not buffers among executions of two plans.
Call(t, p, in, out, onePointer) ==
    /\ pc[t] = "idle" /\ life[p] = "live" /\ issued < MaxCalls
    /\ onePointer => in = out
    /\ Distinct => onePointer \/ in # out
    /\ \A u \in Threads : pc[u] # "idle" /\ "in" \in DOMAIN job[u] /\ job[u].plan # p =>
          {in, out} \intersect {job[u].in, job[u].out} = {}
    /\ issued' = issued + 1
    /\ job' = [job EXCEPT ![t] = [plan |-> p, in |-> in, out |-> out, onePointer |-> onePointer]]
    /\ Goto(t, "called")
    /\ UNCHANGED <<life, planned, native, hostMutex, planner, content, log, applied, failures>>

Valid(j) ==
    /\ Null \notin {j.in, j.out}
    /\ Placement = "in_place" => j.onePointer
    /\ Placement = "out_of_place" => ~ j.onePointer

\* execute throws before it locks anything.
Reject(t) ==
    /\ pc[t] = "called" /\ ~ Valid(job[t])
    /\ job' = [job EXCEPT ![t] = NoJob]
    /\ Goto(t, "idle")
    /\ UNCHANGED <<life, planned, native, hostMutex, planner, content, log, applied, issued,
                   failures>>

LockHostFree(t) == UNCHANGED hostMutex
LockHost(t) ==
    /\ hostMutex[job[t].plan] = NoThread
    /\ hostMutex' = [hostMutex EXCEPT ![job[t].plan] = t]

Enter(t) ==
    /\ pc[t] = "called" /\ Valid(job[t])
    /\ LockHost(t)
    /\ Goto(t, "locked")
    /\ UNCHANGED <<job, life, planned, native, planner, content, log, applied, issued, failures>>

\* The native plan the buffers call for.
KindNeeded(j) == IF {j.in, j.out} \subseteq Aligned THEN "aligned" ELSE "unaligned"

Logged(t) == log' = [log EXCEPT ![job[t].plan] =
                       Append(@, [in |-> job[t].in, out |-> job[t].out])]

\* fftw_plan_holder::execute has the plan it needs, or has to make it.  The
\* test of unaligned_ is not repeated under the planner's lock.
Select(t) ==
    /\ pc[t] = "locked"
    /\ IF KindNeeded(job[t]) \in planned[job[t].plan]
       THEN Goto(t, "selected") /\ Logged(t)
       ELSE Goto(t, "lacks_plan") /\ UNCHANGED log
    /\ UNCHANGED <<job, life, planned, native, hostMutex, planner, content, applied, issued,
                   failures>>

PlannedUnaligned(t) ==
    /\ pc[t] = "plan_unaligned"
    /\ Made(job[t].plan, "unaligned")
    /\ planner' = NoThread
    /\ Logged(t)
    /\ Goto(t, "selected")
    /\ UNCHANGED <<job, life, hostMutex, content, applied, issued, failures>>

UnlockHost(t) ==
    /\ hostMutex' = [p \in Plans |-> IF hostMutex[p] = t THEN NoThread ELSE hostMutex[p]]
    /\ job' = [job EXCEPT ![t] = NoJob]
    /\ Goto(t, "idle")

\* FFTW returns null: the exception crosses the C interface as an error code,
\* execute throws, both locks are released.
UnalignedFailsKeepingPlanner(t) ==
    /\ pc[t] = "plan_unaligned" /\ failures < MaxFailures
    /\ failures' = failures + 1
    /\ UnlockHost(t)
    /\ UNCHANGED <<planner, life, planned, native, content, log, applied, issued>>
UnalignedFails(t) ==
    /\ pc[t] = "plan_unaligned" /\ failures < MaxFailures
    /\ failures' = failures + 1
    /\ planner' = NoThread
    /\ UnlockHost(t)
    /\ UNCHANGED <<life, planned, native, content, log, applied, issued>>

\* The transform: the log entry of this call takes effect.
TransformAndUnlock(t) ==
    /\ pc[t] = "selected"
    /\ content' = [content EXCEPT ![job[t].out] = Transformed(job[t])]
    /\ LET p == job[t].plan
       IN  /\ applied' = [applied EXCEPT ![p] = @ \union {Cardinality(@) + 1}]
           /\ hostMutex' = [hostMutex EXCEPT ![p] = NoThread]
    /\ Goto(t, "transformed")
    /\ UNCHANGED <<job, life, planned, native, planner, log, issued, failures>>
Transform(t) ==
    /\ pc[t] = "selected"
    /\ content' = [content EXCEPT ![job[t].out] = Transformed(job[t])]
    /\ LET p == job[t].plan
       IN  applied' = [applied EXCEPT ![p] = @ \union {Cardinality(@) + 1}]
    /\ Goto(t, "transformed")
    /\ UNCHANGED <<job, life, planned, native, hostMutex, planner, log, issued, failures>>

\* The normalization loop, and the return.
Normalized(d) == IF Scaled THEN [d EXCEPT !.unscaled = FALSE] ELSE d

Finish(t) ==
    /\ pc[t] = "transformed"
    /\ content' = [content EXCEPT ![job[t].out] = Normalized(@)]
    /\ UnlockHost(t)
    /\ UNCHANGED <<life, planned, native, planner, log, applied, issued, failures>>

-----------------------------------------------------------------------------
\* Steps a thread takes once it is inside the library.
LibraryStep(t) ==
    \/ EnterPlanner(t) \/ Created(t) \/ Destroyed(t)
    \/ Reject(t) \/ Enter(t) \/ Select(t) \/ PlannedUnaligned(t) \/ Transform(t) \/ Finish(t)

Failure(t) == CreateFails(t) \/ UnalignedFails(t)

Terminated ==
    /\ \A t \in Threads : pc[t] = "idle"
    /\ \A p \in Plans : life[p] = "destroyed"
    /\ UNCHANGED vars

Next ==
    \/ \E t \in Threads :
         \/ \E p \in Plans :
              \/ Create(t, p)
              \/ Destroy(t, p)
              \/ \E in, out \in Buffers \union {Null}, onePointer \in BOOLEAN :
                    Call(t, p, in, out, onePointer)
         \/ LibraryStep(t)
         \/ Failure(t)
    \/ Terminated

\* A thread inside the library keeps running and FFTW's planner returns.
Fairness == \A t \in Threads : WF_vars(LibraryStep(t))

Spec == Init /\ [][Next]_vars /\ Fairness

-----------------------------------------------------------------------------
(* Properties.                                                              *)

\* Every variable has the type of the member it stands for (host.cpp:139-149,
\* fftw_provider.cpp:268-281), and only a thread inside the library has a job.
TypeOK ==
    /\ pc \in [Threads -> {"idle", "creating", "destroying", "called", "locked", "lacks_plan",
                           "selected", "transformed"} \union Planning]
    /\ \A t \in Threads : pc[t] = "idle" <=> job[t] = NoJob
    /\ life \in [Plans -> {"none", "creating", "live", "destroying", "destroyed"}]
    /\ planned \in [Plans -> SUBSET Kinds]
    /\ native \in [Plans -> [Kinds -> Nat]]
    /\ hostMutex \in [Plans -> Threads \union {NoThread}]
    /\ planner \in Threads \union {NoThread}
    /\ issued \in Nat /\ failures \in Nat

\* FFTW's planner is not thread-safe: whatever plans they work on, two threads
\* are never inside it at once (fftw_planner_mutex, fftw_provider.cpp:20-24,
\* 197, 216, 235).
PlannerExclusive ==
    \A t, u \in Threads : pc[t] \in Planning /\ pc[u] \in Planning => t = u

\* The native plans FFTW keeps for a plan are the ones the plan knows, so that
\* its destructor gives all of them back; threads that need the unaligned plan
\* at the same time do not make it twice; and a transform finds one that suits
\* the alignment of its buffers and is not destroyed (fftw_provider.cpp:214-243,
\* where only the mutex of host.cpp:114 orders the threads).
NoNativePlanLost ==
    /\ \A p \in Plans, k \in Kinds : native[p][k] = IF k \in planned[p] THEN 1 ELSE 0
    /\ \A t \in Threads : pc[t] = "selected" =>
         /\ life[job[t].plan] = "live"
         /\ {job[t].in, job[t].out} \subseteq Aligned \/ "unaligned" \in planned[job[t].plan]

\* A buffer that FFTW has written and that is still to be scaled belongs to one
\* thread, which is about to scale it: no other one, of this plan or of another,
\* has a transform or a normalization under way that reads or writes it.  The
\* mutex of host.cpp:114 must be held over both, to the end of the loop at
\* host.cpp:133-135.
UnscaledIsPrivate ==
    \A b \in Buffers : content[b].unscaled =>
        \E t \in Threads :
            /\ pc[t] = "transformed" /\ job[t].out = b
            /\ \A u \in Threads \ {t} :
                 pc[u] \in {"selected", "transformed"} => b \notin {job[u].in, job[u].out}

\* host.cpp:108-112, "Out-of-place plan requires distinct input and output
\* arguments": no out-of-place transform runs on a single array.
OutOfPlaceDistinct ==
    \A t \in Threads :
        pc[t] = "selected" /\ Placement = "out_of_place" => job[t].in # job[t].out

\* Every call of the library returns, whichever locks the other threads hold
\* and whatever FFTW fails to make (host.cpp:97-137, fftw_provider.cpp:195-244).
CallsReturn == \A t \in Threads : pc[t] # "idle" ~> pc[t] = "idle"
=============================================================================
