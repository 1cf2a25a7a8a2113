--------------------------- MODULE PlanExecution ---------------------------
(***************************************************************************)
(* sycl::plan::impl::execute (src/sycl/sycl.cpp) for the two asynchronous  *)
(* providers, portable_sycl and cufft: threads that share one plan, the    *)
(* plan's mutex and last_event_, the kernels each execution submits to an  *)
(* out-of-order queue, the plan's two scratch allocations, exceptions      *)
(* raised half way through a submission, and the destructor.               *)
(*                                                                         *)
(* A task is one kernel (or one native cuFFT call); its event is its       *)
(* position in the submission order, and 0 stands for "no event".  The     *)
(* device may start any task whose dependencies are done and may run any   *)
(* number of tasks at once: order comes from events only.                  *)
(***************************************************************************)
EXTENDS Integers, Sequences, SequencesExt

CONSTANTS
    Threads,    \* the host threads that share the plan
    NoThread,   \* the owner of a mutex that nobody holds
    Buffers,    \* the USM allocations the program passes to execute
    Invalid,    \* a null pointer or one that is not USM of the plan's context
    Produced,   \* Produced[p] is the buffer the program's own kernel p fills
    Provider,   \* selected_provider_
    Placement,  \* options_.placement
    Scaled,     \* whether the normalization scale differs from 1
    Axes,       \* for each axis, the algorithm and its number of stages
    MaxCalls,   \* bound: calls of execute
    MaxFaults   \* bound: exceptions thrown by a submission

Scratch == {"scratch_a", "scratch_b"}
Locations == Buffers \union Scratch
AxisKinds == {"radix2", "mixed_radix", "bluestein"}

ASSUME ThreadsAssumption == NoThread \notin Threads
ASSUME BuffersAssumption ==
    /\ Buffers \intersect (Scratch \union {"garbage"}) = {}
    /\ Invalid \notin Buffers
ASSUME ProducedAssumption == Produced \in Seq(Buffers)
ASSUME PlanAssumption ==
    /\ Provider \in {"portable_sycl", "cufft"}
    /\ Placement \in {"in_place", "out_of_place"}
    /\ Scaled \in BOOLEAN
    /\ Axes \in Seq([kind : AxisKinds, stages : Nat])
    /\ Axes # <<>>
ASSUME BoundsAssumption == MaxCalls \in Nat /\ MaxFaults \in Nat

VARIABLES
    pc,         \* per thread: "idle", "called" (waiting for mutex_), "submitting"
    request,    \* per thread: the arguments of its call
    mutex,      \* the thread that holds mutex_
    frame,      \* the local variables of the call that holds mutex_
    lastEvent,  \* last_event_, 0 when empty
    tasks,      \* every task submitted to the queue, in order
    running,    \* events of the tasks that are executing
    done,       \* events of the tasks that are complete
    mem,        \* contents of the user buffers and of the scratch allocations
    calls,      \* the executions that returned, with the event each returned
    lifetime,   \* of the plan: "live", "destroying", "freed"
    issued,     \* calls of execute so far
    faults      \* exceptions thrown by submissions so far

vars == <<pc, request, mutex, frame, lastEvent, tasks, running, done, mem,
          calls, lifetime, issued, faults>>

-----------------------------------------------------------------------------
(* Kernels.  The contents of a location are where they came from, how many  *)
(* complete transforms they went through, and how many kernels of the       *)
(* transform in progress (0: none is in progress).                          *)

Garbage == [origin |-> "garbage", times |-> 0, stage |-> 0]
Fresh(b) == [origin |-> b, times |-> 0, stage |-> 0]

\* A gather reads elements other than the one it writes; the other kernels
\* write only elements that the same work item has read.
Gather(src, dst) == [src |-> src, dst |-> dst, kind |-> "gather"]
InPlace(loc) == [src |-> loc, dst |-> loc, kind |-> "pointwise"]
CopyScaled(src, dst) == [src |-> src, dst |-> dst, kind |-> "pointwise"]
Native(src, dst) == [src |-> src, dst |-> dst, kind |-> "native"]

\* x == scratch_a_ ? scratch_b_ : scratch_a_
OtherInverted(loc) == IF loc = "scratch_b" THEN "scratch_b" ELSE "scratch_a"
Other(loc) == IF loc = "scratch_a" THEN "scratch_b" ELSE "scratch_a"

\* enqueue_radix2_axis and enqueue_mixed_axis: a permuting gather, then one
\* in-place kernel per stage.
StagedFft(src, dst, stages) ==
    <<Gather(src, dst)>> \o [s \in 1..stages |-> InPlace(dst)]

\* enqueue_bluestein_axis: expand with the chirp, transform, multiply by the
\* kernel's spectrum, transform back, and gather with the chirp.
BluesteinKernels(src, first, second, stages) ==
    <<Gather(src, first)>>
      \o StagedFft(first, second, stages)
      \o <<InPlace(second)>>
      \o StagedFft(second, first, stages)
      \o <<Gather(first, second)>>

AxisOutputOfFirstStage(axis, src) == Other(src)
AxisOutput(axis, src) ==
    IF axis.kind = "bluestein" THEN Other(Other(src)) ELSE Other(src)

AxisKernels(axis, src) ==
    IF axis.kind = "bluestein"
    THEN BluesteinKernels(src, Other(src), Other(Other(src)), axis.stages)
    ELSE StagedFft(src, Other(src), axis.stages)

\* A kernel that finds in its source what the kernel before it left.
Sound(t) == /\ mem[t.src] # Garbage
            /\ mem[t.src].stage = t.step - 1
            /\ t.kind = "gather" => t.src # t.dst

\* What a complete run of task t leaves in its destination.
Written(t) ==
    IF t.call = 0 THEN Fresh(t.dst)
    ELSE IF ~ Sound(t) THEN Garbage
    ELSE IF t.last THEN [origin |-> mem[t.src].origin, times |-> mem[t.src].times + 1, stage |-> 0]
    ELSE [mem[t.src] EXCEPT !.stage = t.step]

\* Two tasks that must not overlap: one writes what the other one touches, or
\* both use the work area of the one cuFFT handle.
Conflict(t, u) ==
    \/ t.dst \in {u.src, u.dst}
    \/ u.dst \in {t.src, t.dst}
    \/ t.kind = "native" /\ u.kind = "native"

\* Tasks that touch memory the destructor frees.
UsesPlan(t) == t.kind = "native" \/ {t.src, t.dst} \intersect Scratch # {}

-----------------------------------------------------------------------------
Events == 1..Len(tasks)
Producers == 1..Len(Produced)
Unfinished == Events \ done

NoRequest == <<>>
NoFrame == [step |-> 0, axis |-> 0, event |-> 0, deps |-> {}, src |-> Invalid, work |-> <<>>]

Init ==
    /\ pc = [t \in Threads |-> "idle"]
    /\ request = [t \in Threads |-> NoRequest]
    /\ mutex = NoThread
    /\ frame = NoFrame
    /\ lastEvent = 0
    /\ tasks = [p \in Producers |->
                  [call |-> 0, step |-> 0, last |-> FALSE, deps |-> {}, kind |-> "user",
                   src |-> Produced[p], dst |-> Produced[p]]]
    /\ running = {}
    /\ done = {}
    /\ mem = [l \in Locations |->
                IF l \in Scratch \/ \E p \in Producers : Produced[p] = l
                THEN Garbage ELSE Fresh(l)]
    /\ calls = <<>>
    /\ lifetime = "live"
    /\ issued = 0
    /\ faults = 0

-----------------------------------------------------------------------------
(* The host threads.                                                        *)

\* The events the program may hold: those of its own kernels and those that
\* execute returned.
KnownEvents == Producers \union {calls[i].last : i \in DOMAIN calls}

\* A thread calls one of the overloads of execute.  The program must name the
\* pending kernels of its own that fill the buffers it passes; it may name any
\* other event it holds.
Call(t, in, out, onePointer, deps) ==
    /\ lifetime = "live"
    /\ pc[t] = "idle"
    /\ issued < MaxCalls
    /\ onePointer => in = out
    /\ \A p \in Producers \ done : Produced[p] \in {in, out} => p \in deps
    /\ pc' = [pc EXCEPT ![t] = "called"]
    /\ issued' = issued + 1
    /\ request' = [request EXCEPT ![t] =
                     [id |-> issued + 1, in |-> in, out |-> out,
                      onePointer |-> onePointer, deps |-> deps]]
    /\ UNCHANGED <<mutex, frame, lastEvent, tasks, running, done, mem, calls, lifetime, faults>>

\* The checks execute makes before it locks.
Valid(r) ==
    /\ Invalid \notin {r.in, r.out}
    /\ Placement = "in_place" => r.onePointer
    /\ Placement = "out_of_place" => ~ r.onePointer /\ r.in # r.out

\* An invalid argument: execute throws and nothing has changed.
Reject(t) ==
    /\ pc[t] = "called"
    /\ ~ Valid(request[t])
    /\ pc' = [pc EXCEPT ![t] = "idle"]
    /\ request' = [request EXCEPT ![t] = NoRequest]
    /\ UNCHANGED <<mutex, frame, lastEvent, tasks, running, done, mem, calls, lifetime,
                   issued, faults>>

AllDependenciesUserOnly(deps) == deps
AllDependenciesLastOnly(deps) == {lastEvent} \ {0}
AllDependencies(deps) == deps \union ({lastEvent} \ {0})

\* Lock mutex_ and collect all_dependencies.  The cuFFT branch then has one
\* native task to submit; the portable branch starts its loop over the axes.
Enter(t) ==
    /\ pc[t] = "called"
    /\ Valid(request[t])
    /\ mutex = NoThread
    /\ mutex' = t
    /\ pc' = [pc EXCEPT ![t] = "submitting"]
    /\ frame' = [step |-> 0, axis |-> 0, event |-> 0,
                 deps |-> AllDependencies(request[t].deps),
                 src |-> request[t].in, work |-> <<>>]
    /\ UNCHANGED <<request, lastEvent, tasks, running, done, mem, calls, lifetime, issued, faults>>

\* The next axis of the portable branch: choose its source and destinations.
BeginAxis(t) ==
    /\ pc[t] = "submitting"
    /\ Provider = "portable_sycl"
    /\ frame.work = <<>>
    /\ frame.axis < Len(Axes)
    /\ LET axis == Axes[frame.axis + 1]
       IN  frame' = [frame EXCEPT !.axis = @ + 1,
                                  !.work = AxisKernels(axis, frame.src),
                                  !.src = AxisOutput(axis, frame.src)]
    /\ UNCHANGED <<pc, request, mutex, lastEvent, tasks, running, done, mem, calls, lifetime,
                   issued, faults>>

\* depends_on: the first task of a call waits for all_dependencies, each later
\* one for the task before it.
KernelDepsOfCall == frame.deps
KernelDeps == IF frame.event = 0 THEN frame.deps ELSE {frame.event}

Task(t, kernel, last) ==
    [call |-> request[t].id, step |-> frame.step + 1, last |-> last, deps |-> KernelDeps,
     kind |-> kernel.kind, src |-> kernel.src, dst |-> kernel.dst]

\* Submit a task that is not the last one of the call.
Submit(t, kernel) ==
    /\ tasks' = Append(tasks, Task(t, kernel, FALSE))
    /\ frame' = [frame EXCEPT !.step = @ + 1, !.event = Len(tasks) + 1,
                              !.work = IF @ = <<>> THEN @ ELSE Tail(@)]
    /\ UNCHANGED <<pc, request, mutex, lastEvent, running, done, mem, calls, lifetime,
                   issued, faults>>

\* Unlock and go back to the caller.
Release(t) ==
    /\ mutex' = NoThread
    /\ frame' = NoFrame
    /\ pc' = [pc EXCEPT ![t] = "idle"]
    /\ request' = [request EXCEPT ![t] = NoRequest]

\* Submit the last task, store its event in last_event_ and return it.
SubmitLastReturningEarlierEvent(t, kernel) ==
    /\ tasks' = Append(tasks, Task(t, kernel, TRUE))
    /\ lastEvent' = Len(tasks) + 1
    /\ calls' = Append(calls, [id |-> request[t].id, in |-> request[t].in,
                               out |-> request[t].out, last |-> Len(tasks)])
    /\ Release(t)
    /\ UNCHANGED <<running, done, mem, lifetime, issued, faults>>
SubmitLast(t, kernel) ==
    /\ tasks' = Append(tasks, Task(t, kernel, TRUE))
    /\ lastEvent' = Len(tasks) + 1
    /\ calls' = Append(calls, [id |-> request[t].id, in |-> request[t].in,
                               out |-> request[t].out, last |-> Len(tasks) + 1])
    /\ Release(t)
    /\ UNCHANGED <<running, done, mem, lifetime, issued, faults>>

\* The kernels of the current axis, one queue.submit each.
SubmitKernel(t) ==
    /\ pc[t] = "submitting"
    /\ Provider = "portable_sycl"
    /\ frame.work # <<>>
    /\ Submit(t, Head(frame.work))

\* After the last axis: the scaled copy from scratch to the output.
SubmitFinalCopy(t) ==
    /\ pc[t] = "submitting"
    /\ Provider = "portable_sycl"
    /\ frame.work = <<>>
    /\ frame.axis = Len(Axes)
    /\ SubmitLast(t, CopyScaled(frame.src, request[t].out))

\* The cuFFT branch: the native transform, which is the last task unless the
\* output has to be scaled.
SubmitNative(t) ==
    /\ pc[t] = "submitting"
    /\ Provider = "cufft"
    /\ frame.step = 0
    /\ LET kernel == Native(request[t].in, request[t].out)
       IN  IF Scaled THEN Submit(t, kernel) ELSE SubmitLast(t, kernel)

SubmitScale(t) ==
    /\ pc[t] = "submitting"
    /\ Provider = "cufft"
    /\ frame.step = 1
    /\ SubmitLast(t, CopyScaled(request[t].out, request[t].out))

\* A submission throws: the lock is released on unwinding, last_event_ keeps
\* its old value, and the tasks submitted before stay in the queue.
ThrowKeepingLock(t) ==
    /\ pc[t] = "submitting"
    /\ faults < MaxFaults
    /\ faults' = faults + 1
    /\ frame' = NoFrame
    /\ pc' = [pc EXCEPT ![t] = "idle"]
    /\ request' = [request EXCEPT ![t] = NoRequest]
    /\ UNCHANGED <<mutex, lastEvent, tasks, running, done, mem, calls, lifetime, issued>>
Throw(t) ==
    /\ pc[t] = "submitting"
    /\ faults < MaxFaults
    /\ faults' = faults + 1
    /\ Release(t)
    /\ UNCHANGED <<lastEvent, tasks, running, done, mem, calls, lifetime, issued>>

\* The destructor: the program must not destroy a plan that is executing.
\* It waits for last_event_, then frees the scratch, the tables and the handle.
DestroyBegin ==
    /\ lifetime = "live"
    /\ \A t \in Threads : pc[t] = "idle"
    /\ lifetime' = "destroying"
    /\ UNCHANGED <<pc, request, mutex, frame, lastEvent, tasks, running, done, mem, calls,
                   issued, faults>>

FreeAllWithoutWait ==
    /\ lifetime = "destroying"
    /\ lifetime' = "freed"
    /\ UNCHANGED <<pc, request, mutex, frame, lastEvent, tasks, running, done, mem, calls,
                   issued, faults>>
FreeAllWithoutTest ==
    /\ lifetime = "destroying"
    /\ lastEvent \in done
    /\ lifetime' = "freed"
    /\ UNCHANGED <<pc, request, mutex, frame, lastEvent, tasks, running, done, mem, calls,
                   issued, faults>>
FreeAll ==
    /\ lifetime = "destroying"
    /\ lastEvent # 0 => lastEvent \in done
    /\ lifetime' = "freed"
    /\ UNCHANGED <<pc, request, mutex, frame, lastEvent, tasks, running, done, mem, calls,
                   issued, faults>>

-----------------------------------------------------------------------------
(* The out-of-order queue and its device.                                   *)

Start(e) ==
    /\ e \in Unfinished \ running
    /\ tasks[e].deps \subseteq done
    /\ running' = running \union {e}
    /\ UNCHANGED <<pc, request, mutex, frame, lastEvent, tasks, done, mem, calls, lifetime,
                   issued, faults>>

\* A task that overlapped a conflicting one leaves anything in its destination.
Finish(e) ==
    /\ e \in running
    /\ running' = running \ {e}
    /\ done' = done \union {e}
    /\ mem' = [mem EXCEPT ![tasks[e].dst] =
                 IF \E f \in running \ {e} : Conflict(tasks[e], tasks[f])
                 THEN Garbage ELSE Written(tasks[e])]
    /\ UNCHANGED <<pc, request, mutex, frame, lastEvent, tasks, calls, lifetime, issued, faults>>

-----------------------------------------------------------------------------
Submission(t) ==
    BeginAxis(t) \/ SubmitKernel(t) \/ SubmitFinalCopy(t) \/ SubmitNative(t) \/ SubmitScale(t)

HostStep(t) == Reject(t) \/ Enter(t) \/ Submission(t)

Device == \E e \in Events : Start(e) \/ Finish(e)

\* Everything is over: the plan is freed and the queue is empty.
Terminated == lifetime = "freed" /\ Unfinished = {} /\ UNCHANGED vars

Next ==
    \/ \E t \in Threads :
         \/ \E in, out \in Buffers \union {Invalid}, onePointer \in BOOLEAN,
               deps \in SUBSET KnownEvents : Call(t, in, out, onePointer, deps)
         \/ HostStep(t)
         \/ Throw(t)
    \/ DestroyBegin
    \/ FreeAll
    \/ Device
    \/ Terminated

\* The device makes progress on whatever it may run, a thread inside execute
\* keeps running, and the destructor returns once its wait is over.  Nothing
\* makes the program call execute or destroy the plan, nor makes a submission
\* throw.
Fairness ==
    /\ WF_vars(Device)
    /\ \A t \in Threads : WF_vars(HostStep(t))
    /\ WF_vars(FreeAll)

Spec == Init /\ [][Next]_vars /\ Fairness

-----------------------------------------------------------------------------
(* Properties.                                                              *)

Kinds == {"user", "gather", "pointwise", "native"}
TaskType == [call : Nat, step : Nat, last : BOOLEAN, deps : SUBSET Nat, kind : Kinds,
             src : Locations, dst : Locations]
KernelType == [src : Locations, dst : Locations, kind : Kinds]
RequestType == [id : Nat \ {0}, in : Buffers \union {Invalid}, out : Buffers \union {Invalid},
                onePointer : BOOLEAN, deps : SUBSET Nat]
FrameType == [step : Nat, axis : Nat, event : Nat, deps : SUBSET Nat,
              src : Locations \union {Invalid}, work : Seq(KernelType)]
CallType == [id : Nat \ {0}, in : Buffers, out : Buffers, last : Nat \ {0}]
Contents == [origin : Buffers \union {"garbage"}, times : Nat, stage : Nat]

\* Every variable has the type of the C++ object it stands for (sycl.cpp:615-798).
TypeOK ==
    /\ pc \in [Threads -> {"idle", "called", "submitting"}]
    /\ request \in [Threads -> RequestType \union {NoRequest}]
    /\ \A t \in Threads : pc[t] # "idle" => request[t] \in RequestType
    /\ mutex \in Threads \union {NoThread}
    /\ frame \in FrameType
    /\ tasks \in Seq(TaskType)
    /\ lastEvent \in Nat
    /\ running \subseteq Events
    /\ done \subseteq Events
    /\ mem \in [Locations -> Contents]
    /\ calls \in Seq(CallType)
    /\ lifetime \in {"live", "destroying", "freed"}
    /\ issued \in Nat
    /\ faults \in Nat

PlanTask(e) == tasks[e].call # 0
Begun == running \union done

\* README.md:45-46, "a plan serializes executions which share its internal
\* scratch": no kernel of one execution begins before every kernel of every
\* execution submitted earlier is complete (last_event_, sycl.cpp:637-641, 774).
SerialExecution ==
    \A e, f \in Events :
        /\ PlanTask(e) /\ PlanTask(f)
        /\ e < f /\ tasks[e].call # tasks[f].call
        /\ f \in Begun
        => e \in done

\* Two kernels that overlap on the device never touch the same memory when one
\* of them writes it: neither kernels of one execution, nor of two, nor a
\* kernel of the plan and one of the program that execute was told to wait for
\* (the depends_on calls of sycl.cpp:87-339 and 688-775).
NoRace ==
    \A e, f \in running :
        e # f /\ (PlanTask(e) \/ PlanTask(f)) => ~ Conflict(tasks[e], tasks[f])

\* ~impl (sycl.cpp:593-613) frees the scratch and the cuFFT handle only when no
\* kernel that touches them is left in the queue.
NoUseAfterFree ==
    lifetime = "freed" => \A e \in Unfinished : PlanTask(e) => ~ UsesPlan(tasks[e])

\* The event execute returns is complete only when every kernel of that
\* execution is, so the output and the scratch are at rest (sycl.cpp:772-775).
EventCoversExecution ==
    \A i \in DOMAIN calls : calls[i].last \in done =>
        \A e \in Events : tasks[e].call = calls[i].id => e \in done

\* When the queue is empty and no call is in progress the user's buffers hold
\* what the returned executions produce one after the other, in the order in
\* which they locked mutex_ (sycl.cpp:670-686 for cuFFT, 688-775).
Effect(content, c) ==
    [content EXCEPT ![c.out] =
       IF content[c.in] = Garbage THEN Garbage
       ELSE [content[c.in] EXCEPT !.times = @ + 1]]
QuiescentMemory ==
    (mutex = NoThread /\ Unfinished = {}) =>
        FoldLeft(Effect, [b \in Buffers |-> Fresh(b)], calls)
            = [b \in Buffers |-> mem[b]]

\* A call of execute comes back, also when another thread's submission throws
\* while it waits for mutex_ (the scoped_lock of sycl.cpp:637).
CallsReturn == \A t \in Threads : pc[t] = "called" ~> pc[t] = "idle"

\* The destructor comes back, also for a plan that was never executed
\* (the test of last_event_ at sycl.cpp:596).
DestructorReturns == lifetime = "destroying" ~> lifetime = "freed"

-----------------------------------------------------------------------------
(* The promise of the portable provider: what the user's buffers hold is    *)
(* what SerialPlan says, although several kernels and scratch allocations   *)
(* work on them.                                                            *)

Serial == INSTANCE SerialPlan WITH
    accepted <- [i \in DOMAIN calls |-> [in |-> calls[i].in, out |-> calls[i].out]],
    applied <- {i \in DOMAIN calls : calls[i].last \in done},
    content <- [b \in Buffers |-> [origin |-> mem[b].origin, times |-> mem[b].times]],
    pending <- Producers \ done

\* execute of the portable provider (sycl.cpp:688-775) implements the serial
\* log of executions: each one takes effect at once, in the order of the log,
\* and every accepted one does take effect.
ImplementsSerialPlan == Serial!Spec
=============================================================================
