-------------------------- MODULE PlanExecutionInv --------------------------
(***************************************************************************)
(* The inductive invariant of PlanExecution.  TLC checks it on small       *)
(* instances, PlanExecutionProofs proves it for all of them.               *)
(***************************************************************************)
EXTENDS PlanExecution

PlanEvents == Events \ Producers

\* The program's kernels come first in the queue and wait for nothing.
ProducersFirst ==
    /\ Len(Produced) <= Len(tasks)
    /\ \A e \in Events : tasks[e].call = 0 <=> e \in Producers
    /\ \A p \in Producers :
          tasks[p].src = Produced[p] /\ tasks[p].dst = Produced[p] /\ tasks[p].kind = "user"

\* One thread at a time is between the lock and the unlock, and none is once
\* the destructor runs.
LockHeld ==
    /\ \A t \in Threads : pc[t] = "submitting" <=> mutex = t
    /\ mutex = NoThread => frame = NoFrame
    /\ lifetime # "live" => \A t \in Threads : pc[t] = "idle"

\* Everything refers to events of submitted tasks, and a task to earlier ones.
EventsExist ==
    /\ lastEvent \in Events \union {0}
    /\ frame.deps \subseteq Events
    /\ \A t \in Threads : pc[t] # "idle" => request[t].deps \subseteq Events
    /\ \A i \in DOMAIN calls : calls[i].last \in Events
    /\ \A e \in Events : tasks[e].deps \subseteq 1..(e - 1)

\* Whoever waits for deps knows that the program has filled these locations.
Awaited(deps, locations) ==
    \A p \in Producers \ done : Produced[p] \in locations => p \in deps

RequestsAwait ==
    \A t \in Threads :
        pc[t] # "idle" => Awaited(request[t].deps, {request[t].in, request[t].out})

\* The call that holds the lock: its tasks so far are the last ones of the
\* queue, the first of them waits for all_dependencies, and those include
\* last_event_.
FrameFollows(r) ==
    /\ Valid(r)
    /\ frame.src \in Scratch \union {r.in}
    /\ \A i \in DOMAIN frame.work :
          {frame.work[i].src, frame.work[i].dst} \subseteq Scratch \union {r.in}
    /\ Awaited(frame.deps, {r.in, r.out})
    /\ lastEvent # 0 => lastEvent \in frame.deps
    /\ frame.step = 0 => frame.event = 0
    /\ frame.step > 0 =>
          /\ frame.event = Len(tasks)
          /\ Len(Produced) + frame.step <= Len(tasks)
          /\ tasks[Len(tasks) - frame.step + 1].deps = frame.deps
FrameInv == \A t \in Threads : mutex = t => FrameFollows(request[t])

\* The first task of the call that made task the e-th one.
First(e, task) == e - task.step + 1

\* The first task of a call waits for the program's kernels on behalf of all.
FirstAwaits ==
    \A e \in PlanEvents :
        /\ tasks[e].step > 0
        /\ First(e, tasks[e]) \in PlanEvents
        /\ Awaited(tasks[First(e, tasks[e])].deps, {tasks[e].src, tasks[e].dst})

\* Without exceptions the tasks of the plan form one chain.
Chained ==
    faults = 0 => \A e \in PlanEvents : e - 1 \in PlanEvents => e - 1 \in tasks[e].deps

\* The device runs what is ready, so the chain is executed from the front.
DeviceOrder ==
    /\ running \intersect done = {}
    /\ \A e \in Begun : tasks[e].deps \subseteq done
    /\ faults = 0 => \A e \in Begun \ Producers : \A f \in PlanEvents : f < e => f \in done

\* Without exceptions last_event_ is the end of the chain whenever a call reads it.
LastIsEnd ==
    /\ faults = 0 /\ frame.step = 0 =>
          lastEvent = IF PlanEvents = {} THEN 0 ELSE Len(tasks)
    /\ lifetime = "freed" /\ lastEvent # 0 => lastEvent \in done

\* The inductive invariant: why the tasks of a plan (sycl.cpp:637-776) run as
\* one chain behind the program's kernels, when no submission throws.
IInv ==
    /\ TypeOK
    /\ ProducersFirst
    /\ LockHeld
    /\ EventsExist
    /\ RequestsAwait
    /\ FrameInv
    /\ FirstAwaits
    /\ Chained
    /\ DeviceOrder
    /\ LastIsEnd

-----------------------------------------------------------------------------
(* What holds of one call even when submissions throw.                      *)

\* Every call has an identity of its own.
IdsUnique ==
    /\ \A t \in Threads : pc[t] # "idle" => request[t].id \in 1..issued
    /\ \A t, u \in Threads :
          pc[t] # "idle" /\ pc[u] # "idle" /\ request[t].id = request[u].id => t = u
    /\ \A e \in Events : tasks[e].call \in 0..issued
    /\ \A i \in DOMAIN calls :
          /\ calls[i].id \in 1..issued
          /\ \A t \in Threads : pc[t] # "idle" => request[t].id # calls[i].id

\* The tasks of a call in progress are the last ones of the queue.
OwnTasks ==
    \A t \in Threads, e \in Events :
        pc[t] # "idle" =>
            (tasks[e].call = request[t].id <=> mutex = t /\ e > Len(tasks) - frame.step)

SameCall(e, f) == tasks[e].call = tasks[f].call

\* The tasks of one call follow each other in the queue and form a chain, which
\* the device runs from the front.
CallChained ==
    \A e, f \in PlanEvents :
        f < e /\ SameCall(e, f) => SameCall(e, e - 1) /\ e - 1 \in tasks[e].deps
CallOrder ==
    \A e \in Begun, f \in PlanEvents : f < e /\ SameCall(e, f) => f \in done

\* The event a call returned is that of its last task.
LastOfCall ==
    \A i \in DOMAIN calls :
        /\ tasks[calls[i].last].call = calls[i].id
        /\ \A e \in Events : tasks[e].call = calls[i].id => e <= calls[i].last

\* Why the event that execute returns covers the whole execution
\* (sycl.cpp:137-775), also after submissions of other calls have thrown.
CallInvariant == IdsUnique /\ OwnTasks /\ CallChained /\ CallOrder /\ LastOfCall

-----------------------------------------------------------------------------
(* Why a plan implements SerialPlan when no submission throws: what its      *)
(* kernels find in memory.                                                   *)

\* A call begins at a buffer of the user and ends at one; in between each kernel
\* writes scratch, and reads what the kernel before it wrote.
HandOver ==
    \A e \in PlanEvents :
        /\ tasks[e].kind = "gather" => tasks[e].src # tasks[e].dst
        /\ tasks[e].dst \in (IF tasks[e].last THEN Buffers ELSE Scratch)
        /\ tasks[First(e, tasks[e])].src \in Buffers
        /\ tasks[e].step > 1 =>
              /\ e - 1 \in PlanEvents
              /\ ~ tasks[e - 1].last
              /\ tasks[e - 1].step = tasks[e].step - 1
              /\ tasks[e - 1].dst = tasks[e].src

\* The calls that returned are in the order of their last kernels, and their
\* kernels lead from their input to their output.
CallsInOrder ==
    /\ \A i \in DOMAIN calls :
          /\ calls[i].last \in PlanEvents
          /\ tasks[calls[i].last].last
          /\ tasks[calls[i].last].dst = calls[i].out
          /\ tasks[First(calls[i].last, tasks[calls[i].last])].src = calls[i].in
    /\ \A i, j \in DOMAIN calls : i < j => calls[i].last < calls[j].last
    /\ \A e \in PlanEvents : tasks[e].last => \E i \in DOMAIN calls : calls[i].last = e

\* Kernels that take data from one location to another through scratch.
Leads(kernels, from, to) ==
    /\ \A i \in DOMAIN kernels :
          /\ kernels[i].src = IF i = 1 THEN from ELSE kernels[i - 1].dst
          /\ kernels[i].dst \in Scratch
          /\ kernels[i].kind = "gather" => kernels[i].src # kernels[i].dst
    /\ to = IF kernels = <<>> THEN from ELSE kernels[Len(kernels)].dst

\* The data of the call that holds the lock are where its next kernel reads.
FrameLeads(r) ==
    /\ frame.step = 0 => Leads(frame.work, r.in, frame.src)
    /\ frame.step > 0 =>
          /\ Leads(frame.work, tasks[Len(tasks)].dst, frame.src)
          /\ tasks[Len(tasks)].step = frame.step
          /\ ~ tasks[Len(tasks)].last
          /\ tasks[Len(tasks) - frame.step + 1].src = r.in
    /\ Provider = "cufft" => frame.step = 0
FrameLeadsOn == \A t \in Threads : mutex = t => FrameLeads(request[t])

\* Between two calls' effects a buffer of the user holds whole transforms, and
\* the last kernel that is complete has left in its destination the input of
\* its call, so many kernels further.
Partial(d, n) == IF d = Garbage THEN Garbage ELSE [d EXCEPT !.stage = n]
BuffersWhole == \A b \in Buffers : mem[b].stage = 0
FrontHolds ==
    \A e \in PlanEvents \intersect done :
        ~ tasks[e].last /\ e + 1 \notin done =>
            mem[tasks[e].dst] = Partial(mem[tasks[First(e, tasks[e])].src], tasks[e].step)

\* The plans of which this holds: no submission throws, and only the last kernel
\* of a call writes a buffer of the user.
WritesOnce == Provider = "portable_sycl" \/ ~ Scaled

\* Two kernels of the program do not race to fill the same buffer.
OwnKernelsApart == \A p, q \in Producers : Produced[p] = Produced[q] => p = q

\* Where the data of an execution are while its kernels run (sycl.cpp:688-775).
DataInv ==
    /\ faults = 0
    /\ HandOver
    /\ CallsInOrder
    /\ FrameLeadsOn
    /\ BuffersWhole
    /\ FrontHolds

-----------------------------------------------------------------------------
(* What the user finds in memory when the queue is empty, of every plan,     *)
(* also of those that write the user's output twice (cuFFT with a scale).    *)

\* The kernels of a call follow each other, from its input to its output, and
\* one that another call's kernels follow is the last of its call.
Flow ==
    \A e \in PlanEvents :
        /\ tasks[e].kind = "gather" => tasks[e].src # tasks[e].dst
        /\ tasks[First(e, tasks[e])].src \in Buffers
        /\ tasks[e].last => tasks[e].dst \in Buffers
        /\ tasks[e].step > 1 =>
              /\ e - 1 \in PlanEvents
              /\ ~ tasks[e - 1].last
              /\ tasks[e - 1].step = tasks[e].step - 1
              /\ tasks[e - 1].dst = tasks[e].src
        /\ e - 1 \in PlanEvents /\ ~ tasks[e - 1].last /\ tasks[e - 1].dst \in Buffers =>
              tasks[e].step > 1 /\ tasks[e].dst = tasks[e - 1].dst
        /\ e = Len(tasks) /\ frame.step = 0 /\ tasks[e].dst \in Buffers => tasks[e].last
FlowInv == faults = 0 /\ Flow /\ CallsInOrder

\* A scaled cuFFT call submits two tasks, the native one and the scaling in place.
Pairs ==
    \A e \in PlanEvents :
        /\ tasks[e].kind # "gather" /\ tasks[e].src \in Buffers /\ tasks[e].dst \in Buffers
        /\ tasks[e].step = IF tasks[e].last THEN 2 ELSE 1
        /\ tasks[e].last <=> e - 1 \in PlanEvents /\ ~ tasks[e - 1].last
        /\ tasks[e].last => tasks[e - 1].dst = tasks[e].src /\ tasks[e].dst = tasks[e].src
PairBegun(r) ==
    frame.step # 0 =>
        /\ frame.step = 1
        /\ Len(tasks) \in PlanEvents
        /\ ~ tasks[Len(tasks)].last
        /\ tasks[Len(tasks)].dst = r.out
        /\ tasks[Len(tasks)].src = r.in
FramePairs ==
    /\ frame.step = 0 => \A e \in PlanEvents : e = Len(tasks) => tasks[e].last
    /\ \A t \in Threads : mutex = t => PairBegun(request[t])
PairsInv == faults = 0 /\ Pairs /\ CallsInOrder /\ FramePairs

\* Nobody else is still to fill the buffer.
Filled(b) == \A p \in Producers \ done : Produced[p] # b

\* The last kernel that is complete, if its call is not.
AtFront(e) == e \in done /\ ~ tasks[e].last /\ e + 1 \notin done

\* F[n] is what n calls leave in the buffers, and n calls are complete: that is
\* what the buffers hold, apart from the one a call has begun to write.
Shows(F, n) ==
    /\ \A i \in DOMAIN calls : calls[i].last \in done <=> i <= n
    /\ \A b \in Buffers : ~ Filled(b) => F[n][b] = Fresh(b)
    /\ \A b \in Buffers :
          Filled(b) /\ (\A e \in PlanEvents : AtFront(e) => tasks[e].dst # b) => mem[b] = F[n][b]
    /\ \A e \in PlanEvents :
          AtFront(e) => mem[tasks[e].dst]
                        = Partial(F[n][tasks[First(e, tasks[e])].src], tasks[e].step)
=============================================================================
