------------------------ MODULE PlanExecutionProofs ------------------------
(***************************************************************************)
(* Proofs about PlanExecution: its inductive invariant, and what follows   *)
(* from it for any number of threads, buffers, axes and stages, and for    *)
(* either provider.                                                        *)
(***************************************************************************)
EXTENDS PlanExecutionInv, SequenceTheorems, TLAPS

LEMMA Appended ==
    ASSUME NEW S, NEW s \in Seq(S), NEW x \in S
    PROVE  /\ Append(s, x) \in Seq(S)
           /\ Len(Append(s, x)) = Len(s) + 1
           /\ \A i \in 1..Len(s) : Append(s, x)[i] = s[i]
           /\ Append(s, x)[Len(s) + 1] = x
  BY AppendProperties

LEMMA OtherScratch == ASSUME NEW l PROVE Other(l) \in Scratch
  BY DEF Other, Scratch

\* The contents a task leaves are contents.
LEMMA WrittenType ==
    ASSUME mem \in [Locations -> Contents], NEW t \in TaskType,
           t.call = 0 => t.dst \in Buffers
    PROVE  Written(t) \in Contents
  <1>1. mem[t.src] \in Contents
    BY DEF TaskType
  <1>2. Fresh(t.dst) \in Contents \/ t.call # 0
    BY DEF Fresh, Contents
  <1>3. Garbage \in Contents
    BY DEF Garbage, Contents
  <1>4. QED
    BY <1>1, <1>2, <1>3 DEF Written, Sound, Contents, TaskType

-----------------------------------------------------------------------------
(* The kernels of an axis touch the axis' source and the scratch only.      *)

Stays(kernels, src) ==
    /\ kernels \in Seq(KernelType)
    /\ \A i \in DOMAIN kernels : {kernels[i].src, kernels[i].dst} \subseteq Scratch \union {src}

LEMMA ConcatStays ==
    ASSUME NEW src, NEW k1, NEW k2, Stays(k1, src), Stays(k2, src)
    PROVE  Stays(k1 \o k2, src)
  <1>1. /\ k1 \in Seq(KernelType) /\ k2 \in Seq(KernelType)
        /\ \A i \in 1..Len(k1) : {k1[i].src, k1[i].dst} \subseteq Scratch \union {src}
        /\ \A i \in 1..Len(k2) : {k2[i].src, k2[i].dst} \subseteq Scratch \union {src}
    BY LenProperties DEF Stays
  <1>2. /\ k1 \o k2 \in Seq(KernelType)
        /\ Len(k1 \o k2) = Len(k1) + Len(k2)
        /\ \A i \in 1..(Len(k1) + Len(k2)) :
              (k1 \o k2)[i] = IF i <= Len(k1) THEN k1[i] ELSE k2[i - Len(k1)]
    BY <1>1, ConcatProperties
  <1>3. ASSUME NEW i \in DOMAIN (k1 \o k2)
        PROVE  {(k1 \o k2)[i].src, (k1 \o k2)[i].dst} \subseteq Scratch \union {src}
    <2>1. i \in 1..(Len(k1) + Len(k2))
      BY <1>2, LenProperties
    <2>2. Len(k1) \in Nat /\ Len(k2) \in Nat
      BY <1>1, LenProperties
    <2>3. CASE i <= Len(k1)
      BY <1>1, <1>2, <2>1, <2>2, <2>3
    <2>4. CASE i > Len(k1)
      <3>1. i - Len(k1) \in 1..Len(k2)
        BY <2>1, <2>2, <2>4
      <3>2. (k1 \o k2)[i] = k2[i - Len(k1)]
        BY <1>2, <2>1, <2>2, <2>4
      <3>3. QED
        BY <1>1, <3>1, <3>2
    <2>5. QED
      BY <2>1, <2>2, <2>3, <2>4
  <1>4. QED
    BY <1>2, <1>3 DEF Stays

LEMMA OneStays ==
    ASSUME NEW src, NEW k \in KernelType, {k.src, k.dst} \subseteq Scratch \union {src}
    PROVE  Stays(<<k>>, src)
  BY DEF Stays

LEMMA StagedStays ==
    ASSUME NEW src \in Locations, NEW from \in Scratch \union {src}, NEW to \in Scratch,
           NEW stages \in Nat
    PROVE  Stays(StagedFft(from, to, stages), src)
  <1>1. Gather(from, to) \in KernelType /\ InPlace(to) \in KernelType
    BY DEF Gather, InPlace, KernelType, Kinds, Locations
  <1>2. Stays(<<Gather(from, to)>>, src)
    BY <1>1, OneStays DEF Gather
  <1>3. Stays([s \in 1..stages |-> InPlace(to)], src)
    <2>1. [s \in 1..stages |-> InPlace(to)] \in Seq(KernelType)
      BY <1>1, IsASeq
    <2>2. QED
      BY <2>1 DEF Stays, InPlace
  <1>4. QED
    BY <1>2, <1>3, ConcatStays DEF StagedFft

\* Whatever the algorithm of the axis, it reads its source, works in scratch
\* and leaves its result in scratch.
LEMMA AxisStays ==
    ASSUME NEW axis \in [kind : AxisKinds, stages : Nat], NEW src \in Locations
    PROVE  Stays(AxisKernels(axis, src), src) /\ AxisOutput(axis, src) \in Scratch
  <1> DEFINE first == Other(src)
             second == Other(first)
  <1>1. first \in Scratch /\ second \in Scratch
    BY OtherScratch
  <1>2. Stays(StagedFft(src, first, axis.stages), src)
    BY <1>1, StagedStays
  <1>3. Stays(BluesteinKernels(src, first, second, axis.stages), src)
    <2>1. /\ Gather(src, first) \in KernelType /\ Gather(first, second) \in KernelType
          /\ InPlace(second) \in KernelType
      BY <1>1 DEF Gather, InPlace, KernelType, Kinds, Locations
    <2>2. /\ Stays(<<Gather(src, first)>>, src)
          /\ Stays(<<Gather(first, second)>>, src)
          /\ Stays(<<InPlace(second)>>, src)
      <3>1. {Gather(src, first).src, Gather(src, first).dst} \subseteq Scratch \union {src}
        BY <1>1 DEF Gather
      <3>2. {Gather(first, second).src, Gather(first, second).dst} \subseteq Scratch \union {src}
        BY <1>1 DEF Gather
      <3>3. {InPlace(second).src, InPlace(second).dst} \subseteq Scratch \union {src}
        BY <1>1 DEF InPlace
      <3> HIDE DEF first, second
      <3>4. QED
        BY <2>1, <3>1, <3>2, <3>3, OneStays
    <2>3. /\ Stays(StagedFft(first, second, axis.stages), src)
          /\ Stays(StagedFft(second, first, axis.stages), src)
      BY <1>1, StagedStays
    <2> HIDE DEF first, second
    <2>4. QED
      BY <2>2, <2>3, ConcatStays DEF BluesteinKernels
  <1>4. QED
    BY <1>1, <1>2, <1>3 DEF AxisKernels, AxisOutput

-----------------------------------------------------------------------------
(* The effect of one submission, whichever kernel it is.                    *)

LEMMA OneMoreTask ==
    ASSUME IInv, NEW t \in Threads, mutex = t,
           NEW k \in KernelType,
           {k.src, k.dst} \subseteq Scratch \union {request[t].in, request[t].out},
           NEW last \in BOOLEAN,
           tasks' = Append(tasks, Task(t, k, last)),
           UNCHANGED <<running, done, faults>>
    PROVE  /\ tasks' \in Seq(TaskType)
           /\ Len(tasks') = Len(tasks) + 1
           /\ tasks'[Len(tasks) + 1] = Task(t, k, last)
           /\ \A e \in Events : tasks'[e] = tasks[e]
           /\ ProducersFirst'
           /\ \A e \in Events' : tasks'[e].deps \subseteq 1..(e - 1)
           /\ FirstAwaits'
           /\ Chained'
           /\ DeviceOrder'
  <1>0. PICK N : N = Len(tasks)
    OBVIOUS
  <1> DEFINE P == Len(Produced)
             new == Task(t, k, last)
  <1>1. /\ N \in Nat /\ P \in Nat /\ P <= N
        /\ Events = 1..N /\ Producers = 1..P
        /\ tasks \in Seq(TaskType)
    BY <1>0, ProducedAssumption, LenProperties DEF IInv, TypeOK, ProducersFirst, Events, Producers
  <1>2. /\ pc[t] = "submitting" /\ request[t] \in RequestType
        /\ FrameFollows(request[t])
        /\ frame \in FrameType
        /\ frame.deps \subseteq Events /\ lastEvent \in Events \union {0}
    BY DEF IInv, LockHeld, FrameInv, TypeOK, EventsExist
  <1>3. frame.event = IF frame.step = 0 THEN 0 ELSE N
    BY <1>0, <1>2 DEF FrameFollows, FrameType
  <1>4. KernelDeps \subseteq Events
    <2>1. CASE frame.step = 0
      BY <1>2, <1>3, <2>1 DEF KernelDeps
    <2>2. CASE frame.step # 0
      <3>1. N >= 1
        BY <1>0, <1>1, <1>2, <2>2 DEF FrameFollows, FrameType
      <3>2. KernelDeps = {N}
        BY <1>3, <2>2, <3>1 DEF KernelDeps
      <3>3. QED
        BY <1>1, <3>1, <3>2
    <2>3. QED
      BY <2>1, <2>2
  <1>5. /\ request[t].in \in Buffers /\ request[t].out \in Buffers
        /\ request[t].id \in Nat \ {0}
    BY <1>2 DEF FrameFollows, Valid, RequestType
  <1>6. /\ new \in TaskType
        /\ new.call # 0 /\ new.step = frame.step + 1
        /\ new.deps = KernelDeps /\ new.src = k.src /\ new.dst = k.dst
    <2>1. KernelDeps \subseteq Nat
      BY <1>1, <1>4
    <2>2. frame.step \in Nat
      BY <1>2 DEF FrameType
    <2>3. k.src \in Locations /\ k.dst \in Locations /\ k.kind \in Kinds
      BY DEF KernelType
    <2> HIDE DEF P
    <2>4. QED
      BY <1>5, <2>1, <2>2, <2>3 DEF Task, TaskType
  <1>7. /\ tasks' \in Seq(TaskType)
        /\ Len(tasks') = N + 1
        /\ tasks'[N + 1] = new
        /\ \A e \in Events : tasks'[e] = tasks[e]
    BY <1>0, <1>1, <1>6, Appended
  <1> HIDE DEF new
  <1>8. Events' = Events \union {N + 1} /\ N + 1 \notin Events
    BY <1>1, <1>7 DEF Events
  <1>9. /\ PlanEvents' = PlanEvents \union {N + 1}
        /\ N + 1 \notin Producers
        /\ Producers \subseteq Events /\ Producers' = Producers
    BY <1>1, <1>8 DEF PlanEvents, Producers
  <1>10. ProducersFirst'
    <2>1. Len(Produced) <= Len(tasks')
      BY <1>1, <1>7
    <2>2. \A e \in Events' : tasks'[e].call = 0 <=> e \in Producers
      BY <1>6, <1>7, <1>8, <1>9 DEF IInv, ProducersFirst
    <2>3. \A p \in Producers :
            tasks'[p].src = Produced[p] /\ tasks'[p].dst = Produced[p] /\ tasks'[p].kind = "user"
      BY <1>7, <1>9 DEF IInv, ProducersFirst
    <2>4. QED
      BY <1>9, <2>1, <2>2, <2>3 DEF ProducersFirst
  <1>11. \A e \in Events' : tasks'[e].deps \subseteq 1..(e - 1)
    <2>1. new.deps \subseteq 1..((N + 1) - 1)
      BY <1>1, <1>4, <1>6
    <2>2. QED
      BY <1>7, <1>8, <2>1 DEF IInv, EventsExist
  <1>12. Awaited(frame.deps, {k.src, k.dst})
    <2>1. Awaited(frame.deps, {request[t].in, request[t].out})
      BY <1>2 DEF FrameFollows
    <2>2. \A p \in Producers : Produced[p] \in Buffers
      BY <1>1, ProducedAssumption, ElementOfSeq
    <2>3. QED
      BY <2>1, <2>2, BuffersAssumption DEF Awaited
  <1>13. FirstAwaits'
    <2>1. ASSUME NEW e \in PlanEvents
          PROVE  /\ tasks'[e].step > 0
                 /\ First(e, tasks'[e]) \in PlanEvents'
                 /\ Awaited(tasks[First(e, tasks[e])].deps, {tasks[e].src, tasks[e].dst})'
      <3>1. e \in Events /\ tasks'[e] = tasks[e]
        BY <1>7 DEF PlanEvents
      <3>2. /\ tasks[e].step > 0 /\ First(e, tasks[e]) \in PlanEvents
            /\ Awaited(tasks[First(e, tasks[e])].deps, {tasks[e].src, tasks[e].dst})
        BY DEF IInv, FirstAwaits
      <3>3. tasks'[First(e, tasks[e])] = tasks[First(e, tasks[e])]
        BY <1>7, <3>2 DEF PlanEvents
      <3>4. QED
        BY <1>9, <3>1, <3>2, <3>3 DEF Awaited
    <2>2. new.step > 0
      BY <1>2, <1>6 DEF FrameType
    <2>3. /\ First(N + 1, new) \in PlanEvents'
          /\ tasks'[First(N + 1, new)].deps = frame.deps
      <3>1. First(N + 1, new) = N - frame.step + 1
        <4>1. First(N + 1, new) = N + 1 - (frame.step + 1) + 1
          BY <1>1, <1>2, <1>6 DEF First, FrameType
        <4>2. frame.step \in Nat
          BY <1>2 DEF FrameType
        <4>3. QED
          BY <1>1, <4>1, <4>2
      <3>2. CASE frame.step = 0
        <4>1. First(N + 1, new) = N + 1
          BY <1>1, <3>1, <3>2
        <4>2. new.deps = frame.deps
          BY <1>3, <1>6, <3>2 DEF KernelDeps
        <4>3. QED
          BY <1>7, <1>9, <4>1, <4>2
      <3>3. CASE frame.step # 0
        <4>1. frame.step \in Nat \ {0}
          BY <1>2, <3>3 DEF FrameType
        <4>2. P + frame.step <= N /\ tasks[N - frame.step + 1].deps = frame.deps
          BY <1>0, <1>2, <4>1 DEF FrameFollows
        <4>3. N - frame.step + 1 \in P + 1..N
          BY <1>1, <4>1, <4>2
        <4>4. N - frame.step + 1 \in PlanEvents
          BY <1>1, <4>3 DEF PlanEvents
        <4>5. QED
          BY <1>7, <1>9, <3>1, <4>2, <4>4 DEF PlanEvents
      <3>4. QED
        BY <3>2, <3>3
    <2>4. Awaited(tasks[First(N + 1, tasks[N + 1])].deps, {tasks[N + 1].src, tasks[N + 1].dst})'
      BY <1>6, <1>7, <1>12, <2>3 DEF Awaited, Producers
    <2>5. tasks'[N + 1].step > 0
      BY <1>7, <2>2
    <2>6. QED
      BY <1>7, <1>9, <2>1, <2>3, <2>4, <2>5 DEF FirstAwaits
  <1>14. Chained'
    <2>1. ASSUME faults = 0, NEW e \in PlanEvents, e - 1 \in PlanEvents'
          PROVE  e - 1 \in tasks'[e].deps
      <3>1. e - 1 \in PlanEvents
        BY <1>1, <1>9, <2>1 DEF PlanEvents
      <3>2. QED
        BY <1>7, <2>1, <3>1 DEF IInv, Chained, PlanEvents
    <2>2. ASSUME faults = 0, N \in PlanEvents'
          PROVE  N \in new.deps
      <3>1. N \in PlanEvents /\ N # 0
        BY <1>1, <1>9, <2>2 DEF PlanEvents
      <3>2. CASE frame.step = 0
        <4>1. lastEvent = N
          BY <1>0, <2>2, <3>1, <3>2 DEF IInv, LastIsEnd
        <4>2. N \in frame.deps
          BY <1>2, <3>1, <4>1 DEF FrameFollows
        <4>3. QED
          BY <1>3, <1>6, <3>2, <4>2 DEF KernelDeps
      <3>3. CASE frame.step # 0
        BY <1>3, <1>6, <3>1, <3>3 DEF KernelDeps
      <3>4. QED
        BY <3>2, <3>3
    <2>3. ASSUME faults' = 0, NEW e \in PlanEvents', e - 1 \in PlanEvents'
          PROVE  e - 1 \in tasks'[e].deps
      <3>1. CASE e \in PlanEvents
        BY <2>1, <2>3, <3>1
      <3>2. CASE e = N + 1
        <4>1. e - 1 = N
          BY <1>1, <3>2
        <4>2. QED
          BY <1>7, <2>2, <2>3, <3>2, <4>1
      <3>3. QED
        BY <1>9, <3>1, <3>2
    <2>4. QED
      BY <2>3 DEF Chained
  <1>15. DeviceOrder'
    <2>1. Begun \subseteq Events /\ Begun' = Begun
      BY DEF IInv, TypeOK, Begun
    <2>2. \A e \in Begun' : tasks'[e].deps \subseteq done'
      BY <1>7, <2>1 DEF IInv, DeviceOrder
    <2>3. ASSUME faults = 0, NEW e \in Begun \ Producers, NEW f \in PlanEvents', f < e
          PROVE  f \in done
      <3>1. f \in PlanEvents
        BY <1>1, <1>9, <2>1, <2>3
      <3>2. QED
        BY <2>3, <3>1 DEF IInv, DeviceOrder
    <2>4. running' \intersect done' = {}
      BY DEF IInv, DeviceOrder
    <2>5. QED
      BY <1>9, <2>1, <2>2, <2>3, <2>4 DEF DeviceOrder
  <1>16. QED
    BY <1>0, <1>7, <1>10, <1>11, <1>13, <1>14, <1>15 DEF new

-----------------------------------------------------------------------------
(* The steps of the host threads and of the destructor.                     *)

\* A step that leaves the queue alone leaves what the invariant says about it.
LEMMA QueueUnchanged ==
    ASSUME IInv, UNCHANGED <<tasks, running, done, faults>>
    PROVE  ProducersFirst' /\ FirstAwaits' /\ Chained' /\ DeviceOrder'
  <1>1. Events' = Events /\ Producers' = Producers /\ PlanEvents' = PlanEvents /\ Begun' = Begun
    BY DEF Events, Producers, PlanEvents, Begun
  <1>2. ProducersFirst'
    BY <1>1 DEF IInv, ProducersFirst
  <1>3. FirstAwaits'
    BY <1>1 DEF IInv, FirstAwaits, Awaited
  <1>4. Chained'
    BY <1>1 DEF IInv, Chained
  <1>5. DeviceOrder'
    BY <1>1 DEF IInv, DeviceOrder
  <1>6. QED
    BY <1>2, <1>3, <1>4, <1>5

LEMMA KnownEventsExist == ASSUME IInv PROVE KnownEvents \subseteq Events
  <1>1. Producers \subseteq Events
    <2>1. Len(tasks) \in Nat /\ Len(Produced) \in Nat
      BY ProducedAssumption, LenProperties DEF IInv, TypeOK
    <2>2. Len(Produced) <= Len(tasks)
      BY DEF IInv, ProducersFirst
    <2>3. QED
      BY <2>1, <2>2 DEF Producers, Events
  <1>2. QED
    BY <1>1 DEF KnownEvents, IInv, EventsExist

LEMMA CallInv ==
    ASSUME IInv, NEW t \in Threads, NEW in \in Buffers \union {Invalid},
           NEW out \in Buffers \union {Invalid}, NEW onePointer \in BOOLEAN,
           NEW deps \in SUBSET KnownEvents, Call(t, in, out, onePointer, deps)
    PROVE  IInv'
  <1>1. deps \subseteq Events /\ Events \subseteq Nat
    BY KnownEventsExist DEF Events
  <1> DEFINE r == [id |-> issued + 1, in |-> in, out |-> out,
                   onePointer |-> onePointer, deps |-> deps]
  <1>2. r \in RequestType
    <2>1. issued + 1 \in Nat \ {0}
      BY DEF IInv, TypeOK
    <2>2. deps \in SUBSET Nat
      BY <1>1
    <2>3. QED
      BY <2>1, <2>2 DEF RequestType
  <1>3. /\ request' = [request EXCEPT ![t] = r] /\ pc' = [pc EXCEPT ![t] = "called"]
        /\ request'[t] = r /\ pc'[t] = "called" /\ pc[t] = "idle"
        /\ \A u \in Threads : u # t => request'[u] = request[u] /\ pc'[u] = pc[u]
    BY DEF Call, IInv, TypeOK
  <1>4. TypeOK'
    <2> HIDE DEF r
    <2>1. /\ request' \in [Threads -> RequestType \union {NoRequest}]
          /\ pc' \in [Threads -> {"idle", "called", "submitting"}]
      BY <1>2, <1>3 DEF IInv, TypeOK
    <2>2. \A u \in Threads : pc'[u] # "idle" => request'[u] \in RequestType
      BY <1>2, <1>3 DEF IInv, TypeOK
    <2>3. issued' \in Nat
      BY DEF Call, IInv, TypeOK
    <2>4. Events' = Events
      BY DEF Call, Events
    <2>5. QED
      BY <2>1, <2>2, <2>3, <2>4 DEF Call, IInv, TypeOK
  <1>5. ProducersFirst' /\ FirstAwaits' /\ Chained' /\ DeviceOrder'
    BY QueueUnchanged DEF Call
  <1>6. LockHeld'
    <2>1. pc[t] # "submitting" /\ mutex # t /\ lifetime' = "live"
      BY <1>3 DEF Call, IInv, LockHeld
    <2>2. \A u \in Threads : pc'[u] = "submitting" <=> mutex' = u
      BY <1>3, <2>1 DEF Call, IInv, LockHeld
    <2>3. QED
      BY <2>1, <2>2 DEF Call, IInv, LockHeld
  <1>7. EventsExist'
    <2>1. Events' = Events
      BY DEF Call, Events
    <2>2. r.deps \subseteq Events
      BY <1>1
    <2>3. \A u \in Threads : pc'[u] # "idle" => request'[u].deps \subseteq Events
      BY <1>3, <2>2 DEF IInv, EventsExist
    <2>4. QED
      BY <2>1, <2>3 DEF Call, IInv, EventsExist
  <1>8. RequestsAwait'
    <2>1. Producers' = Producers
      BY DEF Producers
    <2>2. Awaited(r.deps, {r.in, r.out})
      BY DEF Call, Awaited
    <2>3. QED
      BY <1>3, <2>1, <2>2 DEF Call, IInv, RequestsAwait, Awaited
  <1>9. FrameInv'
    <2>1. ASSUME NEW u \in Threads, mutex' = u
          PROVE  FrameFollows(request[u])'
      <3>1. u # t /\ request'[u] = request[u]
        BY <1>3, <2>1 DEF Call, IInv, LockHeld
      <3>2. FrameFollows(request[u])
        BY <2>1 DEF Call, IInv, FrameInv
      <3>3. QED
        BY <3>1, <3>2 DEF Call, FrameFollows, Awaited, Producers, Valid
    <2>2. QED
      BY <2>1 DEF FrameInv
  <1>10. LastIsEnd'
    BY DEF Call, IInv, LastIsEnd, PlanEvents, Events, Producers
  <1>11. QED
    BY <1>4, <1>5, <1>6, <1>7, <1>8, <1>9, <1>10 DEF IInv

LEMMA RejectInv == ASSUME IInv, NEW t \in Threads, Reject(t) PROVE IInv'
  <1>1. /\ pc'[t] = "idle" /\ pc[t] = "called"
        /\ \A u \in Threads : u # t => request'[u] = request[u] /\ pc'[u] = pc[u]
        /\ Events' = Events
    BY DEF Reject, IInv, TypeOK, Events
  <1>2. TypeOK'
    BY <1>1 DEF Reject, IInv, TypeOK
  <1>3. ProducersFirst' /\ FirstAwaits' /\ Chained' /\ DeviceOrder'
    BY QueueUnchanged DEF Reject
  <1>4. LockHeld'
    BY <1>1 DEF Reject, IInv, LockHeld
  <1>5. EventsExist'
    BY <1>1 DEF Reject, IInv, EventsExist
  <1>6. RequestsAwait'
    BY <1>1 DEF Reject, IInv, RequestsAwait, Awaited, Producers
  <1>7. FrameInv'
    <2>1. ASSUME NEW u \in Threads, mutex' = u
          PROVE  FrameFollows(request[u])'
      <3>1. request'[u] = request[u]
        BY <1>1, <2>1 DEF Reject, IInv, LockHeld
      <3>2. FrameFollows(request[u])
        BY <2>1 DEF Reject, IInv, FrameInv
      <3>3. QED
        BY <3>1, <3>2 DEF Reject, FrameFollows, Awaited, Producers, Valid
    <2>2. QED
      BY <2>1 DEF FrameInv
  <1>8. LastIsEnd'
    BY DEF Reject, IInv, LastIsEnd, PlanEvents, Events, Producers
  <1>9. QED
    BY <1>2, <1>3, <1>4, <1>5, <1>6, <1>7, <1>8 DEF IInv

LEMMA EnterInv == ASSUME IInv, NEW t \in Threads, Enter(t) PROVE IInv'
  <1> DEFINE r == request[t]
  <1>1. /\ pc'[t] = "submitting" /\ pc[t] = "called" /\ mutex' = t /\ mutex = NoThread
        /\ \A u \in Threads : u # t => pc'[u] = pc[u] /\ pc[u] # "submitting"
        /\ Events' = Events /\ request' = request /\ Producers' = Producers
        /\ frame = NoFrame
    BY ThreadsAssumption DEF Enter, IInv, TypeOK, LockHeld, Events, Producers
  <1>2. r \in RequestType /\ Valid(r) /\ r.in \in Buffers /\ r.out \in Buffers
    BY <1>1 DEF Enter, IInv, TypeOK, RequestType, Valid
  <1>3. /\ frame'.step = 0 /\ frame'.axis = 0 /\ frame'.event = 0 /\ frame'.work = <<>>
        /\ frame'.src = r.in /\ frame'.deps = AllDependencies(r.deps)
    BY DEF Enter
  <1>4. AllDependencies(r.deps) \subseteq Events /\ Events \subseteq Nat
    BY <1>1 DEF AllDependencies, IInv, EventsExist, Events
  <1>5. frame' \in FrameType
    <2>1. AllDependencies(r.deps) \in SUBSET Nat
      BY <1>4
    <2>2. <<>> \in Seq(KernelType)
      OBVIOUS
    <2>3. r.in \in Locations \union {Invalid}
      BY <1>2 DEF Locations
    <2> HIDE DEF r
    <2>4. QED
      BY <2>1, <2>2, <2>3 DEF Enter, FrameType, r
  <1>6. TypeOK'
    BY <1>1, <1>2, <1>5 DEF Enter, IInv, TypeOK
  <1>7. ProducersFirst' /\ FirstAwaits' /\ Chained' /\ DeviceOrder'
    BY QueueUnchanged DEF Enter
  <1>8. LockHeld'
    <2>1. lifetime' = "live"
      BY <1>1 DEF Enter, IInv, LockHeld, TypeOK
    <2>2. \A u \in Threads : pc'[u] = "submitting" <=> mutex' = u
      BY <1>1
    <2>3. QED
      BY <1>1, <2>1, <2>2, ThreadsAssumption DEF LockHeld
  <1>9. EventsExist'
    BY <1>1, <1>3, <1>4 DEF Enter, IInv, EventsExist
  <1>10. RequestsAwait'
    BY <1>1 DEF Enter, IInv, RequestsAwait, Awaited
  <1>11. FrameInv'
    <2>1. Awaited(AllDependencies(r.deps), {r.in, r.out})
      BY <1>1 DEF IInv, RequestsAwait, Awaited, AllDependencies
    <2>2. lastEvent # 0 => lastEvent \in AllDependencies(r.deps)
      BY DEF AllDependencies
    <2>3. FrameFollows(request[t])'
      BY <1>1, <1>2, <1>3, <2>1, <2>2 DEF FrameFollows, Enter, Valid, Awaited
    <2>4. QED
      BY <1>1, <2>3 DEF FrameInv
  <1>12. LastIsEnd'
    <2>1. frame.step = 0
      BY <1>1 DEF NoFrame
    <2>2. QED
      BY <1>1, <2>1 DEF Enter, IInv, LastIsEnd, PlanEvents
  <1>13. QED
    BY <1>6, <1>7, <1>8, <1>9, <1>10, <1>11, <1>12 DEF IInv

LEMMA BeginAxisInv == ASSUME IInv, NEW t \in Threads, BeginAxis(t) PROVE IInv'
  <1>1. /\ mutex = t /\ FrameFollows(request[t]) /\ frame \in FrameType
        /\ Events' = Events /\ Producers' = Producers
        /\ request[t] \in RequestType
    BY DEF BeginAxis, IInv, TypeOK, LockHeld, FrameInv, Events, Producers
  <1>2. PICK axis \in [kind : AxisKinds, stages : Nat] :
          frame' = [frame EXCEPT !.axis = @ + 1, !.work = AxisKernels(axis, frame.src),
                                 !.src = AxisOutput(axis, frame.src)]
    <2>1. frame.axis \in Nat /\ Len(Axes) \in Nat /\ frame.axis < Len(Axes)
      BY <1>1, PlanAssumption, LenProperties DEF BeginAxis, FrameType
    <2>2. frame.axis + 1 \in 1..Len(Axes)
      BY <2>1
    <2>3. Axes[frame.axis + 1] \in [kind : AxisKinds, stages : Nat]
      BY <2>2, PlanAssumption, ElementOfSeq
    <2>4. QED
      BY <2>3 DEF BeginAxis
  <1>3. frame.src \in Scratch \union {request[t].in} /\ frame.src \in Locations
    BY <1>1 DEF FrameFollows, Valid, RequestType, Locations
  <1>4. /\ Stays(AxisKernels(axis, frame.src), frame.src)
        /\ AxisOutput(axis, frame.src) \in Scratch
    BY <1>3, AxisStays
  <1>5. /\ frame'.step = frame.step /\ frame'.event = frame.event /\ frame'.deps = frame.deps
        /\ frame'.work = AxisKernels(axis, frame.src)
        /\ frame'.src = AxisOutput(axis, frame.src)
        /\ frame' \in FrameType
    <2>1. ASSUME NEW kernels \in Seq(KernelType), NEW src \in Scratch,
                 frame' = [frame EXCEPT !.axis = @ + 1, !.work = kernels, !.src = src]
          PROVE  /\ frame'.step = frame.step /\ frame'.event = frame.event
                 /\ frame'.deps = frame.deps /\ frame'.work = kernels /\ frame'.src = src
                 /\ frame' \in FrameType
      <3>1. frame = [step |-> frame.step, axis |-> frame.axis, event |-> frame.event,
                     deps |-> frame.deps, src |-> frame.src, work |-> frame.work]
        BY <1>1 DEF FrameType
      <3>2. frame' = [step |-> frame.step, axis |-> frame.axis + 1, event |-> frame.event,
                      deps |-> frame.deps, src |-> src, work |-> kernels]
        BY <2>1, <3>1
      <3>3. src \in Locations \union {Invalid} /\ frame.axis + 1 \in Nat
        BY <1>1 DEF FrameType, Locations
      <3>4. QED
        BY <1>1, <3>2, <3>3 DEF FrameType
    <2>2. AxisKernels(axis, frame.src) \in Seq(KernelType)
      BY <1>4 DEF Stays
    <2>3. QED
      BY <1>2, <1>4, <2>1, <2>2
  <1>6. TypeOK'
    BY <1>1, <1>5 DEF BeginAxis, IInv, TypeOK
  <1>7. ProducersFirst' /\ FirstAwaits' /\ Chained' /\ DeviceOrder'
    BY QueueUnchanged DEF BeginAxis
  <1>8. LockHeld'
    BY <1>1, ThreadsAssumption DEF BeginAxis, IInv, LockHeld
  <1>9. EventsExist'
    BY <1>1, <1>5 DEF BeginAxis, IInv, EventsExist
  <1>10. RequestsAwait'
    BY <1>1 DEF BeginAxis, IInv, RequestsAwait, Awaited
  <1>11. FrameInv'
    <2>1. \A i \in DOMAIN frame'.work :
            {frame'.work[i].src, frame'.work[i].dst} \subseteq Scratch \union {request[t].in}
      BY <1>3, <1>4, <1>5 DEF Stays
    <2>2. FrameFollows(request[t])'
      BY <1>1, <1>4, <1>5, <2>1 DEF FrameFollows, BeginAxis, Valid, Awaited
    <2>3. QED
      BY <1>1, <2>2 DEF FrameInv, BeginAxis
  <1>12. LastIsEnd'
    BY <1>1, <1>5 DEF BeginAxis, IInv, LastIsEnd, PlanEvents
  <1>13. QED
    BY <1>6, <1>7, <1>8, <1>9, <1>10, <1>11, <1>12 DEF IInv

\* Fits(t, k): a kernel that the call of t may submit.
Fits(t, k) ==
    /\ k \in KernelType
    /\ {k.src, k.dst} \subseteq Scratch \union {request[t].in, request[t].out}

LEMMA SubmitInv ==
    ASSUME IInv, NEW t \in Threads, pc[t] = "submitting", NEW k, Fits(t, k), Submit(t, k)
    PROVE  IInv'
  <1>0. PICK N : N = Len(tasks)
    OBVIOUS
  <1> DEFINE P == Len(Produced)
  <1>1. /\ mutex = t /\ FrameFollows(request[t]) /\ frame \in FrameType
        /\ P \in Nat /\ N \in Nat /\ P <= N /\ Events = 1..N /\ frame.deps \subseteq Events
        /\ frame.step \in Nat /\ tasks \in Seq(TaskType)
    BY <1>0, ProducedAssumption, LenProperties
    DEF IInv, TypeOK, LockHeld, FrameInv, FrameType, ProducersFirst, EventsExist, Events
  <1>2. /\ tasks' \in Seq(TaskType)
        /\ Len(tasks') = N + 1
        /\ tasks'[N + 1] = Task(t, k, FALSE)
        /\ \A e \in Events : tasks'[e] = tasks[e]
        /\ ProducersFirst'
        /\ \A e \in Events' : tasks'[e].deps \subseteq 1..(e - 1)
        /\ FirstAwaits' /\ Chained' /\ DeviceOrder'
    BY <1>0, <1>1, OneMoreTask DEF Submit, Fits
  <1>3. Events' = 1..(N + 1) /\ Events \subseteq Events'
    BY <1>1, <1>2 DEF Events
  <1> DEFINE work == IF frame.work = <<>> THEN frame.work ELSE Tail(frame.work)
  <1>4. /\ work \in Seq(KernelType)
        /\ \A i \in DOMAIN work :
              {work[i].src, work[i].dst} \subseteq Scratch \union {request[t].in}
    <2>1. frame.work \in Seq(KernelType)
      BY <1>1 DEF FrameType
    <2>2. \A i \in 1..Len(frame.work) :
            {frame.work[i].src, frame.work[i].dst} \subseteq Scratch \union {request[t].in}
      BY <1>1, <2>1, LenProperties DEF FrameFollows
    <2>3. CASE frame.work = <<>>
      BY <1>1, <2>1, <2>3 DEF FrameFollows
    <2>4. CASE frame.work # <<>>
      <3>1. /\ work \in Seq(KernelType)
            /\ Len(work) = Len(frame.work) - 1
            /\ \A i \in 1..Len(work) : work[i] = frame.work[i + 1]
        BY <2>1, <2>4, HeadTailProperties
      <3>2. Len(work) \in Nat /\ Len(frame.work) \in Nat /\ DOMAIN work = 1..Len(work)
        BY <2>1, <3>1, LenProperties
      <3> HIDE DEF work
      <3>3. ASSUME NEW i \in DOMAIN work
            PROVE  {work[i].src, work[i].dst} \subseteq Scratch \union {request[t].in}
        <4>1. i + 1 \in 1..Len(frame.work) /\ work[i] = frame.work[i + 1]
          BY <3>1, <3>2
        <4>2. QED
          BY <2>2, <4>1
      <3>4. QED
        BY <3>1, <3>3
    <2>5. QED
      BY <2>3, <2>4
  <1>5. /\ frame'.step = frame.step + 1 /\ frame'.event = N + 1 /\ frame'.deps = frame.deps
        /\ frame'.src = frame.src /\ frame'.axis = frame.axis /\ frame'.work = work
        /\ frame' \in FrameType
    <2>1. frame = [step |-> frame.step, axis |-> frame.axis, event |-> frame.event,
                   deps |-> frame.deps, src |-> frame.src, work |-> frame.work]
      BY <1>1 DEF FrameType
    <2>2. frame' = [step |-> frame.step + 1, axis |-> frame.axis, event |-> N + 1,
                    deps |-> frame.deps, src |-> frame.src, work |-> work]
      BY <1>0, <2>1 DEF Submit
    <2>3. frame.step + 1 \in Nat /\ N + 1 \in Nat
      BY <1>1
    <2> HIDE DEF work
    <2>4. QED
      BY <1>1, <1>4, <2>2, <2>3 DEF FrameType
  <1> HIDE DEF work
  <1>6. TypeOK'
    <2>1. running' \subseteq Events' /\ done' \subseteq Events'
      BY <1>3 DEF Submit, IInv, TypeOK
    <2>2. QED
      BY <1>2, <1>5, <2>1 DEF Submit, IInv, TypeOK
  <1>7. LockHeld'
    BY <1>1, ThreadsAssumption DEF Submit, IInv, LockHeld
  <1>8. EventsExist'
    <2>1. lastEvent \in Events' \union {0} /\ frame'.deps \subseteq Events'
      BY <1>1, <1>3, <1>5 DEF IInv, EventsExist
    <2>2. \A u \in Threads : pc[u] # "idle" => request[u].deps \subseteq Events'
      BY <1>3 DEF IInv, EventsExist
    <2>3. \A i \in DOMAIN calls : calls[i].last \in Events'
      BY <1>3 DEF IInv, EventsExist
    <2>4. QED
      BY <1>2, <2>1, <2>2, <2>3 DEF Submit, EventsExist
  <1>9. RequestsAwait'
    BY DEF Submit, IInv, RequestsAwait, Awaited, Producers
  <1>10. FrameInv'
    <2>1. tasks'[Len(tasks') - frame'.step + 1].deps = frame'.deps
      <3>1. Len(tasks') - frame'.step + 1 = N - frame.step + 1
        BY <1>1, <1>2, <1>5
      <3>2. CASE frame.step = 0
        <4>1. Task(t, k, FALSE).deps = frame.deps
          BY <1>1, <3>2 DEF Task, KernelDeps, FrameFollows
        <4>2. N - frame.step + 1 = N + 1
          BY <1>1, <3>2
        <4>3. QED
          BY <1>2, <1>5, <3>1, <4>1, <4>2
      <3>3. CASE frame.step # 0
        <4>1. P + frame.step <= N /\ tasks[N - frame.step + 1].deps = frame.deps
          BY <1>0, <1>1, <3>3 DEF FrameFollows
        <4>2. N - frame.step + 1 \in 1..N
          BY <1>1, <3>3, <4>1
        <4>3. QED
          BY <1>1, <1>2, <1>5, <3>1, <4>1, <4>2
      <3>4. QED
        BY <3>2, <3>3
    <2>2. P + frame'.step <= Len(tasks') /\ frame'.step > 0 /\ frame'.event = Len(tasks')
      <3>1. P + frame.step <= N
        BY <1>0, <1>1 DEF FrameFollows
      <3>2. QED
        BY <1>1, <1>2, <1>5, <3>1
    <2>3. frame'.step # 0
      BY <2>2
    <2>4. /\ Valid(request[t]) /\ frame'.src \in Scratch \union {request[t].in}
          /\ Awaited(frame'.deps, {request[t].in, request[t].out})
          /\ lastEvent # 0 => lastEvent \in frame'.deps
          /\ \A i \in DOMAIN frame'.work :
              {frame'.work[i].src, frame'.work[i].dst} \subseteq Scratch \union {request[t].in}
      BY <1>1, <1>4, <1>5 DEF FrameFollows
    <2>5. FrameFollows(request[t])'
      BY <2>1, <2>2, <2>3, <2>4 DEF FrameFollows, Submit, Valid, Awaited, Producers
    <2>6. QED
      BY <1>1, <2>5 DEF FrameInv, Submit
  <1>11. LastIsEnd'
    <2>1. frame'.step # 0
      BY <1>1, <1>5
    <2>2. QED
      BY <2>1 DEF Submit, IInv, LastIsEnd
  <1>12. QED
    BY <1>2, <1>6, <1>7, <1>8, <1>9, <1>10, <1>11 DEF IInv

\* What leaving execute does, whether by a return or by an exception.
LEMMA ReleaseInv ==
    ASSUME IInv, NEW t \in Threads, pc[t] = "submitting", Release(t), UNCHANGED lifetime
    PROVE  /\ pc' \in [Threads -> {"idle", "called", "submitting"}]
           /\ request' \in [Threads -> RequestType \union {NoRequest}]
           /\ frame' = NoFrame /\ NoFrame \in FrameType
           /\ \A u \in Threads : pc'[u] # "idle" => pc'[u] = pc[u] /\ request'[u] = request[u]
           /\ LockHeld' /\ FrameInv' /\ lifetime = "live"
  <1>1. /\ mutex = t /\ mutex' = NoThread /\ frame' = NoFrame /\ pc'[t] = "idle"
        /\ \A u \in Threads : u # t => pc'[u] = pc[u] /\ request'[u] = request[u]
    BY DEF Release, IInv, TypeOK, LockHeld
  <1>2. /\ pc' \in [Threads -> {"idle", "called", "submitting"}]
        /\ request' \in [Threads -> RequestType \union {NoRequest}]
    BY DEF Release, IInv, TypeOK
  <1>3. lifetime = "live"
    BY DEF IInv, LockHeld, TypeOK
  <1>4. LockHeld'
    BY <1>1, <1>3, ThreadsAssumption DEF IInv, LockHeld
  <1>5. FrameInv'
    BY <1>1, ThreadsAssumption DEF FrameInv
  <1>6. NoFrame \in FrameType
    <2>1. <<>> \in Seq(KernelType)
      OBVIOUS
    <2>2. QED
      BY <2>1 DEF NoFrame, FrameType
  <1>7. QED
    BY <1>1, <1>2, <1>3, <1>4, <1>5, <1>6

LEMMA SubmitLastInv ==
    ASSUME IInv, NEW t \in Threads, pc[t] = "submitting", NEW k, Fits(t, k), SubmitLast(t, k)
    PROVE  IInv'
  <1>0. PICK N : N = Len(tasks)
    OBVIOUS
  <1>1. /\ mutex = t /\ FrameFollows(request[t]) /\ N \in Nat /\ Events = 1..N
        /\ Producers \subseteq Events
        /\ request[t] \in RequestType
    BY <1>0, ProducedAssumption, LenProperties
    DEF IInv, TypeOK, LockHeld, FrameInv, ProducersFirst, Events, Producers
  <1>2. /\ tasks' \in Seq(TaskType)
        /\ Len(tasks') = N + 1
        /\ \A e \in Events' : tasks'[e].deps \subseteq 1..(e - 1)
        /\ ProducersFirst' /\ FirstAwaits' /\ Chained' /\ DeviceOrder'
    BY <1>0, <1>1, OneMoreTask DEF SubmitLast, Fits
  <1>3. Events' = 1..(N + 1) /\ Events \subseteq Events' /\ N + 1 \in PlanEvents'
    BY <1>1, <1>2 DEF Events, PlanEvents, Producers
  <1>4. /\ pc' \in [Threads -> {"idle", "called", "submitting"}]
        /\ request' \in [Threads -> RequestType \union {NoRequest}]
        /\ frame' = NoFrame /\ NoFrame \in FrameType
        /\ \A u \in Threads : pc'[u] # "idle" => pc'[u] = pc[u] /\ request'[u] = request[u]
        /\ LockHeld' /\ FrameInv' /\ lifetime = "live"
    BY ReleaseInv DEF SubmitLast
  <1> DEFINE c == [id |-> request[t].id, in |-> request[t].in, out |-> request[t].out,
                   last |-> N + 1]
  <1>5. c \in CallType
    BY <1>1 DEF CallType, RequestType, FrameFollows, Valid
  <1>6. /\ calls' \in Seq(CallType)
        /\ \A i \in DOMAIN calls' :
             (i \in DOMAIN calls /\ calls'[i] = calls[i]) \/ calls'[i] = c
    <2>1. calls \in Seq(CallType) /\ calls' = Append(calls, c)
      BY <1>0 DEF IInv, TypeOK, SubmitLast
    <2> HIDE DEF c
    <2>2. /\ calls' \in Seq(CallType) /\ Len(calls') = Len(calls) + 1
          /\ \A i \in 1..Len(calls) : calls'[i] = calls[i]
          /\ calls'[Len(calls) + 1] = c
      BY <1>5, <2>1, Appended
    <2>3. /\ DOMAIN calls = 1..Len(calls) /\ DOMAIN calls' = 1..(Len(calls) + 1)
          /\ Len(calls) \in Nat
      BY <2>1, <2>2, LenProperties
    <2>4. QED
      BY <2>2, <2>3
  <1>7. TypeOK'
    <2>1. running' \subseteq Events' /\ done' \subseteq Events'
      BY <1>3 DEF SubmitLast, IInv, TypeOK
    <2>2. mutex' = NoThread /\ lastEvent' \in Nat
      BY <1>0, <1>1 DEF SubmitLast, Release
    <2>3. \A u \in Threads : pc'[u] # "idle" => request'[u] \in RequestType
      BY <1>4 DEF IInv, TypeOK
    <2>4. /\ mem' \in [Locations -> Contents] /\ issued' \in Nat /\ faults' \in Nat
          /\ lifetime' \in {"live", "destroying", "freed"}
      BY DEF SubmitLast, IInv, TypeOK
    <2>5. QED
      BY <1>2, <1>4, <1>6, <2>1, <2>2, <2>3, <2>4 DEF TypeOK
  <1>8. EventsExist'
    <2>1. lastEvent' \in Events' \union {0} /\ frame'.deps \subseteq Events'
      BY <1>0, <1>1, <1>3, <1>4 DEF SubmitLast, NoFrame
    <2>2. \A u \in Threads : pc'[u] # "idle" => request'[u].deps \subseteq Events'
      BY <1>3, <1>4 DEF IInv, EventsExist
    <2>3. c.last \in Events'
      BY <1>1, <1>3
    <2>4. \A i \in DOMAIN calls' : calls'[i].last \in Events'
      BY <1>3, <1>6, <2>3 DEF IInv, EventsExist
    <2>5. QED
      BY <1>2, <2>1, <2>2, <2>4 DEF EventsExist
  <1>9. RequestsAwait'
    BY <1>4 DEF SubmitLast, IInv, RequestsAwait, Awaited, Producers
  <1>10. LastIsEnd'
    <2>1. lastEvent' = Len(tasks') /\ lifetime' = "live" /\ PlanEvents' # {}
      BY <1>0, <1>2, <1>3, <1>4 DEF SubmitLast
    <2>2. QED
      BY <2>1 DEF LastIsEnd
  <1>11. QED
    BY <1>2, <1>4, <1>7, <1>8, <1>9, <1>10 DEF IInv

LEMMA ThrowInv == ASSUME IInv, NEW t \in Threads, Throw(t) PROVE IInv'
  <1>1. /\ pc' \in [Threads -> {"idle", "called", "submitting"}]
        /\ request' \in [Threads -> RequestType \union {NoRequest}]
        /\ frame' = NoFrame /\ NoFrame \in FrameType
        /\ \A u \in Threads : pc'[u] # "idle" => pc'[u] = pc[u] /\ request'[u] = request[u]
        /\ LockHeld' /\ FrameInv' /\ lifetime = "live"
    BY ReleaseInv DEF Throw
  <1>2. /\ Events' = Events /\ Producers' = Producers /\ PlanEvents' = PlanEvents
        /\ Begun' = Begun /\ faults' # 0 /\ faults' \in Nat
    BY DEF Throw, Events, Producers, PlanEvents, Begun, IInv, TypeOK
  <1>3. TypeOK'
    BY <1>1, <1>2 DEF Throw, Release, IInv, TypeOK
  <1>4. ProducersFirst'
    BY <1>2 DEF Throw, IInv, ProducersFirst
  <1>5. FirstAwaits'
    BY <1>2 DEF Throw, IInv, FirstAwaits, Awaited
  <1>6. Chained'
    BY <1>2 DEF Chained
  <1>7. DeviceOrder'
    BY <1>2 DEF Throw, IInv, DeviceOrder
  <1>8. EventsExist'
    BY <1>1, <1>2 DEF Throw, IInv, EventsExist, NoFrame
  <1>9. RequestsAwait'
    BY <1>1, <1>2 DEF Throw, IInv, RequestsAwait, Awaited
  <1>10. LastIsEnd'
    BY <1>1, <1>2 DEF Throw, LastIsEnd
  <1>11. QED
    BY <1>1, <1>3, <1>4, <1>5, <1>6, <1>7, <1>8, <1>9, <1>10 DEF IInv

LEMMA DestroyBeginInv == ASSUME IInv, DestroyBegin PROVE IInv'
  <1>1. Events' = Events /\ Producers' = Producers /\ PlanEvents' = PlanEvents
    BY DEF DestroyBegin, Events, Producers, PlanEvents
  <1>2. TypeOK' /\ LockHeld' /\ EventsExist' /\ RequestsAwait' /\ LastIsEnd'
    BY <1>1
    DEF DestroyBegin, IInv, TypeOK, LockHeld, EventsExist, RequestsAwait, Awaited, LastIsEnd
  <1>3. FrameInv'
    BY <1>1 DEF DestroyBegin, IInv, FrameInv, FrameFollows, Awaited, Valid
  <1>4. QED
    BY <1>2, <1>3, QueueUnchanged DEF DestroyBegin, IInv

LEMMA FreeAllInv == ASSUME IInv, FreeAll PROVE IInv'
  <1>1. Events' = Events /\ Producers' = Producers /\ PlanEvents' = PlanEvents
    BY DEF FreeAll, Events, Producers, PlanEvents
  <1>2. TypeOK' /\ LockHeld' /\ EventsExist' /\ RequestsAwait' /\ LastIsEnd'
    BY <1>1
    DEF FreeAll, IInv, TypeOK, LockHeld, EventsExist, RequestsAwait, Awaited, LastIsEnd
  <1>3. FrameInv'
    BY <1>1 DEF FreeAll, IInv, FrameInv, FrameFollows, Awaited, Valid
  <1>4. QED
    BY <1>2, <1>3, QueueUnchanged DEF FreeAll, IInv

-----------------------------------------------------------------------------
(* The steps of the device.                                                 *)

\* When a task of the plan may start, so has everything before it finished.
LEMMA ReadyIsNext ==
    ASSUME IInv, faults = 0, NEW e \in PlanEvents, tasks[e].deps \subseteq done
    PROVE  \A f \in PlanEvents : f < e => f \in done
  <1>1. SUFFICES ASSUME NEW f \in PlanEvents, f < e
                 PROVE  f \in done
    OBVIOUS
  <1>2. /\ e \in Nat /\ f \in Nat /\ Len(tasks) \in Nat /\ Len(Produced) \in Nat
        /\ f > Len(Produced) /\ e <= Len(tasks)
    BY ProducedAssumption, LenProperties
    DEF IInv, TypeOK, PlanEvents, Events, Producers
  <1>3. e - 1 \in PlanEvents
    BY <1>1, <1>2 DEF PlanEvents, Events, Producers
  <1>4. e - 1 \in done
    BY <1>3 DEF IInv, Chained
  <1>5. CASE f = e - 1
    BY <1>4, <1>5
  <1>6. CASE f < e - 1
    BY <1>3, <1>4, <1>6 DEF IInv, DeviceOrder, Begun, PlanEvents
  <1>7. QED
    BY <1>1, <1>2, <1>5, <1>6

LEMMA StartInv == ASSUME IInv, NEW e \in Events, Start(e) PROVE IInv'
  <1>1. /\ Events' = Events /\ Producers' = Producers /\ PlanEvents' = PlanEvents
        /\ Begun' = Begun \union {e} /\ e \notin done /\ tasks[e].deps \subseteq done
    BY DEF Start, Events, Producers, PlanEvents, Begun, Unfinished
  <1>2. TypeOK'
    BY <1>1 DEF Start, IInv, TypeOK
  <1>3. ProducersFirst' /\ LockHeld' /\ EventsExist' /\ RequestsAwait' /\ Chained' /\ LastIsEnd'
    BY <1>1 DEF Start, IInv, ProducersFirst, LockHeld, EventsExist, RequestsAwait, Awaited,
                Chained, LastIsEnd
  <1>4. FrameInv' /\ FirstAwaits'
    BY <1>1 DEF Start, IInv, FrameInv, FrameFollows, FirstAwaits, Awaited, Valid
  <1>5. DeviceOrder'
    <2>1. \A g \in Begun' : tasks[g].deps \subseteq done
      BY <1>1 DEF IInv, DeviceOrder
    <2>2. running' \intersect done = {}
      BY <1>1 DEF Start, IInv, DeviceOrder
    <2>3. ASSUME faults = 0, NEW g \in Begun' \ Producers, NEW f \in PlanEvents, f < g
          PROVE  f \in done
      <3>1. CASE g = e
        <4>1. e \in PlanEvents
          BY <2>3, <3>1 DEF PlanEvents
        <4>2. QED
          BY <1>1, <2>3, <3>1, <4>1, ReadyIsNext
      <3>2. CASE g \in Begun
        BY <2>3, <3>2 DEF IInv, DeviceOrder
      <3>3. QED
        BY <1>1, <3>1, <3>2
    <2>4. QED
      BY <1>1, <2>1, <2>2, <2>3 DEF Start, DeviceOrder
  <1>6. QED
    BY <1>2, <1>3, <1>4, <1>5 DEF IInv

LEMMA FinishInv == ASSUME IInv, NEW e \in Events, Finish(e) PROVE IInv'
  <1>1. /\ Events' = Events /\ Producers' = Producers /\ PlanEvents' = PlanEvents
        /\ Begun' = Begun /\ e \in running /\ done' = done \union {e}
    BY DEF Finish, Events, Producers, PlanEvents, Begun
  <1>2. TypeOK'
    <2>1. tasks[e] \in TaskType
      BY ElementOfSeq DEF IInv, TypeOK, Events
    <2>2. tasks[e].call = 0 => tasks[e].dst \in Buffers
      <3>1. \A p \in Producers : Produced[p] \in Buffers
        BY ProducedAssumption, ElementOfSeq DEF Producers
      <3>2. QED
        BY <3>1 DEF IInv, ProducersFirst
    <2>3. Written(tasks[e]) \in Contents
      BY <2>1, <2>2, WrittenType DEF IInv, TypeOK
    <2>4. Garbage \in Contents
      BY DEF Garbage, Contents
    <2>5. mem' \in [Locations -> Contents]
      BY <2>3, <2>4 DEF Finish, IInv, TypeOK
    <2>6. QED
      BY <1>1, <2>5 DEF Finish, IInv, TypeOK
  <1>3. ProducersFirst' /\ LockHeld' /\ EventsExist' /\ RequestsAwait' /\ Chained' /\ LastIsEnd'
    BY <1>1 DEF Finish, IInv, ProducersFirst, LockHeld, EventsExist, RequestsAwait, Awaited,
                Chained, LastIsEnd
  <1>4. FrameInv' /\ FirstAwaits'
    BY <1>1 DEF Finish, IInv, FrameInv, FrameFollows, FirstAwaits, Awaited, Valid
  <1>5. DeviceOrder'
    BY <1>1 DEF Finish, IInv, DeviceOrder
  <1>6. QED
    BY <1>2, <1>3, <1>4, <1>5 DEF IInv

-----------------------------------------------------------------------------
(* The invariant holds in every reachable state.                            *)

LEMMA InitInv == Init => IInv
  <1> SUFFICES ASSUME Init PROVE IInv
    OBVIOUS
  <1> DEFINE P == Len(Produced)
             user(p) == [call |-> 0, step |-> 0, last |-> FALSE, deps |-> {}, kind |-> "user",
                         src |-> Produced[p], dst |-> Produced[p]]
  <1>1. P \in Nat /\ Producers = 1..P
    BY ProducedAssumption, LenProperties DEF Producers
  <1>2. \A p \in 1..P : user(p) \in TaskType /\ Produced[p] \in Buffers
    <2>1. \A p \in 1..P : Produced[p] \in Buffers
      BY ProducedAssumption, ElementOfSeq
    <2>2. QED
      BY <2>1 DEF TaskType, Kinds, Locations
  <1>3. tasks = [p \in 1..P |-> user(p)]
    BY <1>1 DEF Init
  <1> HIDE DEF user
  <1>4. tasks \in Seq(TaskType) /\ Len(tasks) = P
    BY <1>1, <1>2, <1>3, IsASeq
  <1>5. Events = 1..P /\ PlanEvents = {}
    BY <1>1, <1>4 DEF Events, PlanEvents
  <1>6. NoFrame \in FrameType
    <2>1. <<>> \in Seq(KernelType)
      OBVIOUS
    <2>2. QED
      BY <2>1 DEF NoFrame, FrameType
  <1>7. TypeOK
    <2>1. mem \in [Locations -> Contents]
      <3>1. \A l \in Locations : l \notin Scratch => l \in Buffers
        BY DEF Locations
      <3>2. Garbage \in Contents /\ \A b \in Buffers : Fresh(b) \in Contents
        BY DEF Garbage, Fresh, Contents
      <3>3. QED
        BY <3>1, <3>2 DEF Init
    <2>2. calls \in Seq(CallType)
      BY DEF Init
    <2>3. QED
      BY <1>4, <1>6, <2>1, <2>2 DEF Init, TypeOK
  <1>8. ProducersFirst
    <2>1. \A p \in 1..P : tasks[p] = user(p)
      BY <1>3
    <2>2. \A p \in 1..P : /\ user(p).call = 0 /\ user(p).kind = "user"
                          /\ user(p).src = Produced[p] /\ user(p).dst = Produced[p]
      BY DEF user
    <2>3. Len(Produced) <= Len(tasks)
      BY <1>1, <1>4
    <2>4. QED
      BY <1>1, <1>5, <2>1, <2>2, <2>3 DEF ProducersFirst
  <1>9. LockHeld
    BY ThreadsAssumption DEF Init, LockHeld
  <1>10. EventsExist
    <2>1. \A e \in Events : tasks[e].deps = {}
      BY <1>3, <1>5 DEF user
    <2>2. calls = <<>>
      BY DEF Init
    <2>3. DOMAIN calls = {}
      BY <2>2
    <2>4. QED
      BY <2>1, <2>3 DEF Init, EventsExist, NoFrame
  <1>11. RequestsAwait /\ FrameInv
    BY ThreadsAssumption DEF Init, RequestsAwait, FrameInv
  <1>12. FirstAwaits /\ Chained
    BY <1>5 DEF FirstAwaits, Chained
  <1>13. DeviceOrder
    BY DEF Init, DeviceOrder, Begun
  <1>14. LastIsEnd
    BY <1>5 DEF Init, LastIsEnd
  <1>15. QED
    BY <1>7, <1>8, <1>9, <1>10, <1>11, <1>12, <1>13, <1>14 DEF IInv

\* Each step of a submission begins an axis or submits one kernel on the
\* locations of the request and the scratch.
LEMMA SubmissionShape ==
    ASSUME IInv, NEW t \in Threads, Submission(t)
    PROVE  \/ BeginAxis(t)
           \/ pc[t] = "submitting" /\ \E k : Fits(t, k) /\ (Submit(t, k) \/ SubmitLast(t, k))
  <1> DEFINE r == request[t]
  <1>1. ASSUME pc[t] = "submitting"
        PROVE  r.in \in Locations /\ r.out \in Locations /\ FrameFollows(r) /\ frame \in FrameType
    <2>1. r \in RequestType /\ FrameFollows(r) /\ frame \in FrameType
      BY <1>1 DEF IInv, TypeOK, LockHeld, FrameInv
    <2>2. QED
      BY <2>1 DEF RequestType, FrameFollows, Valid, Locations
  <1>2. CASE SubmitKernel(t)
    <2>1. pc[t] = "submitting" /\ frame.work # <<>> /\ Submit(t, Head(frame.work))
      BY <1>2 DEF SubmitKernel
    <2>2. frame.work \in Seq(KernelType)
      BY <1>1, <2>1 DEF FrameType
    <2>3. Head(frame.work) = frame.work[1] /\ 1 \in DOMAIN frame.work
          /\ Head(frame.work) \in KernelType
      BY <2>1, <2>2, HeadTailProperties, LenProperties
    <2>4. Fits(t, Head(frame.work))
      BY <1>1, <2>1, <2>3 DEF Fits, FrameFollows
    <2>5. QED
      BY <2>1, <2>4
  <1>3. CASE SubmitFinalCopy(t)
    <2>1. pc[t] = "submitting" /\ SubmitLast(t, CopyScaled(frame.src, r.out))
      BY <1>3 DEF SubmitFinalCopy
    <2>2. Fits(t, CopyScaled(frame.src, r.out))
      BY <1>1, <2>1 DEF Fits, FrameFollows, CopyScaled, KernelType, Kinds, Locations
    <2>3. QED
      BY <2>1, <2>2
  <1>4. CASE SubmitNative(t)
    <2>1. pc[t] = "submitting"
          /\ (Submit(t, Native(r.in, r.out)) \/ SubmitLast(t, Native(r.in, r.out)))
      BY <1>4 DEF SubmitNative
    <2>2. Fits(t, Native(r.in, r.out))
      BY <1>1, <2>1 DEF Fits, Native, KernelType, Kinds
    <2>3. QED
      BY <2>1, <2>2
  <1>5. CASE SubmitScale(t)
    <2>1. pc[t] = "submitting" /\ SubmitLast(t, CopyScaled(r.out, r.out))
      BY <1>5 DEF SubmitScale
    <2>2. Fits(t, CopyScaled(r.out, r.out))
      BY <1>1, <2>1 DEF Fits, CopyScaled, KernelType, Kinds
    <2>3. QED
      BY <2>1, <2>2
  <1>6. QED
    BY <1>2, <1>3, <1>4, <1>5 DEF Submission

LEMMA SubmissionInv == ASSUME IInv, NEW t \in Threads, Submission(t) PROVE IInv'
  BY SubmissionShape, BeginAxisInv, SubmitInv, SubmitLastInv

LEMMA StutterInv == ASSUME IInv, UNCHANGED vars PROVE IInv'
  <1>1. TypeOK' /\ LockHeld' /\ EventsExist' /\ RequestsAwait' /\ LastIsEnd'
    BY DEF vars, IInv, TypeOK, LockHeld, EventsExist, RequestsAwait, Awaited, LastIsEnd,
           PlanEvents, Events, Producers
  <1>2. FrameInv'
    BY DEF vars, IInv, FrameInv, FrameFollows, Awaited, Valid, Producers
  <1>3. QED
    BY <1>1, <1>2, QueueUnchanged DEF vars, IInv

LEMMA NextInv == IInv /\ [Next]_vars => IInv'
  <1> SUFFICES ASSUME IInv, [Next]_vars PROVE IInv'
    OBVIOUS
  <1>1. ASSUME NEW t \in Threads, NEW in \in Buffers \union {Invalid},
               NEW out \in Buffers \union {Invalid}, NEW onePointer \in BOOLEAN,
               NEW deps \in SUBSET KnownEvents, Call(t, in, out, onePointer, deps)
        PROVE  IInv'
    BY <1>1, CallInv
  <1>2. ASSUME NEW t \in Threads, HostStep(t) PROVE IInv'
    BY <1>2, RejectInv, EnterInv, SubmissionInv DEF HostStep
  <1>3. ASSUME NEW t \in Threads, Throw(t) PROVE IInv'
    BY <1>3, ThrowInv
  <1>4. CASE DestroyBegin \/ FreeAll
    BY <1>4, DestroyBeginInv, FreeAllInv
  <1>5. CASE Device
    BY <1>5, StartInv, FinishInv DEF Device
  <1>6. CASE Terminated \/ UNCHANGED vars
    BY <1>6, StutterInv DEF Terminated
  <1>7. QED
    BY <1>1, <1>2, <1>3, <1>4, <1>5, <1>6 DEF Next

\* The inductive invariant holds of every plan: any number of threads and
\* buffers, any axes, either provider (sycl.cpp:615-776).
THEOREM Invariance == Spec => []IInv
  <1>1. Init => IInv
    BY InitInv
  <1>2. IInv /\ [Next]_vars => IInv'
    BY NextInv
  <1>3. QED
    BY <1>1, <1>2, PTL DEF Spec

\* Every variable of a plan keeps the type of the object it stands for.
THEOREM TypeCorrect == Spec => []TypeOK
  <1>1. IInv => TypeOK
    BY DEF IInv
  <1>2. QED
    BY <1>1, Invariance, PTL

\* As long as no submission throws, a plan serializes its executions
\* (README.md:45-46): no kernel of one begins before the earlier ones are over.
THEOREM Serialization == Spec => [](faults = 0 => SerialExecution)
  <1>1. IInv => (faults = 0 => SerialExecution)
    <2> SUFFICES ASSUME IInv, faults = 0,
                        NEW e \in Events, NEW f \in Events, PlanTask(e), PlanTask(f), e < f,
                        f \in Begun
                 PROVE  e \in done
      BY DEF SerialExecution
    <2>1. e \in PlanEvents /\ f \in Begun \ Producers
      BY DEF PlanTask, IInv, ProducersFirst, PlanEvents
    <2>2. QED
      BY <2>1 DEF IInv, DeviceOrder
  <1>2. QED
    BY <1>1, Invariance, PTL

\* A kernel of the plan that may run touches no buffer the program has yet to fill.
LEMMA ProducersDone ==
    ASSUME IInv, faults = 0, NEW e \in PlanEvents, e \in Begun, NEW p \in Producers,
           Produced[p] \in {tasks[e].src, tasks[e].dst}
    PROVE  p \in done
  <1> DEFINE g == First(e, tasks[e])
  <1>1. g \in PlanEvents /\ tasks[e].step > 0
        /\ Awaited(tasks[g].deps, {tasks[e].src, tasks[e].dst})
    BY DEF IInv, FirstAwaits
  <1>2. g \in Begun
    <2>1. tasks[e] \in TaskType
      BY ElementOfSeq DEF IInv, TypeOK, PlanEvents, Events
    <2>2. tasks[e].step \in Nat /\ e \in Nat
      BY <2>1 DEF TaskType, PlanEvents, Events
    <2>3. g <= e /\ g \in Nat
      BY <1>1, <2>2 DEF First, PlanEvents, Events
    <2>4. CASE g = e
      BY <2>4
    <2>5. CASE g < e
      BY <1>1, <2>5 DEF IInv, DeviceOrder, Begun, PlanEvents
    <2> HIDE DEF g
    <2>6. QED
      BY <2>2, <2>3, <2>4, <2>5
  <1>3. tasks[g].deps \subseteq done
    BY <1>2 DEF IInv, DeviceOrder
  <1>4. QED
    BY <1>1, <1>3 DEF Awaited

\* Why kernels that overlap never conflict when no submission throws.
LEMMA NoOverlap == ASSUME IInv, faults = 0 PROVE NoRace
  <1> SUFFICES ASSUME NEW e \in running, NEW f \in running, e # f,
                      PlanTask(e) \/ PlanTask(f)
               PROVE  ~ Conflict(tasks[e], tasks[f])
    BY DEF NoRace
  <1>1. /\ e \in Events /\ f \in Events /\ e \in Begun /\ f \in Begun
        /\ e \notin done /\ f \notin done /\ e \in Nat /\ f \in Nat
    BY DEF IInv, TypeOK, DeviceOrder, Begun, Events
  <1>2. \A x \in Events : PlanTask(x) <=> x \in PlanEvents
    BY DEF PlanTask, PlanEvents, IInv, ProducersFirst
  <1>3. CASE PlanTask(e) /\ PlanTask(f)
    <2>1. e < f \/ f < e
      BY <1>1
    <2>2. e \in done \/ f \in done
      BY <1>1, <1>2, <1>3, <2>1 DEF IInv, DeviceOrder, PlanEvents
    <2>3. QED
      BY <1>1, <2>2
  <1>4. ASSUME NEW x \in PlanEvents, NEW p \in Producers, x \in Begun, p \notin done
        PROVE  ~ Conflict(tasks[x], tasks[p]) /\ ~ Conflict(tasks[p], tasks[x])
    <2>1. Produced[p] \notin {tasks[x].src, tasks[x].dst}
      BY <1>4, ProducersDone
    <2>2. tasks[p].src = Produced[p] /\ tasks[p].dst = Produced[p]
      BY DEF IInv, ProducersFirst
    <2>3. tasks[p].kind # "native"
      BY DEF IInv, ProducersFirst
    <2>4. QED
      BY <2>1, <2>2, <2>3 DEF Conflict
  <1>5. CASE ~ PlanTask(e) \/ ~ PlanTask(f)
    BY <1>1, <1>2, <1>4, <1>5 DEF PlanEvents
  <1>6. QED
    BY <1>3, <1>5

\* As long as no submission throws, kernels that overlap never conflict
\* (the depends_on calls of sycl.cpp:87-339 and 688-775).
THEOREM RaceFreedom == Spec => [](faults = 0 => NoRace)
  <1>1. IInv => (faults = 0 => NoRace)
    BY NoOverlap
  <1>2. QED
    BY <1>1, Invariance, PTL

\* As long as no submission throws, the destructor frees the scratch and the
\* cuFFT handle only after the last kernel that uses them (sycl.cpp:593-613).
THEOREM SafeDestruction == Spec => [](faults = 0 => NoUseAfterFree)
  <1>1. IInv => (faults = 0 => NoUseAfterFree)
    <2> SUFFICES ASSUME IInv, faults = 0, lifetime = "freed",
                        NEW e \in Unfinished, PlanTask(e)
                 PROVE  FALSE
      BY DEF NoUseAfterFree
    <2>1. e \in PlanEvents /\ e \in Events /\ e \notin done
      BY DEF PlanTask, PlanEvents, IInv, ProducersFirst, Unfinished
    <2>2. frame.step = 0
      <3>1. \A t \in Threads : mutex # t
        BY DEF IInv, LockHeld
      <3>2. QED
        BY <3>1 DEF IInv, LockHeld, TypeOK, NoFrame
    <2>3. lastEvent = Len(tasks)
      BY <2>1, <2>2 DEF IInv, LastIsEnd
    <2>4. /\ Len(tasks) \in Nat /\ Len(Produced) \in Nat
          /\ e \in Nat /\ e <= Len(tasks) /\ e > Len(Produced)
      BY <2>1, ProducedAssumption, LenProperties
      DEF IInv, TypeOK, PlanEvents, Events, Producers
    <2>5. Len(tasks) \in done /\ Len(tasks) \in Begun \ Producers
      BY <2>3, <2>4 DEF IInv, LastIsEnd, Begun, Producers
    <2>6. CASE e = Len(tasks)
      BY <2>1, <2>5, <2>6
    <2>7. CASE e < Len(tasks)
      BY <2>1, <2>5, <2>7 DEF IInv, DeviceOrder
    <2>8. QED
      BY <2>4, <2>6, <2>7
  <1>2. QED
    BY <1>1, Invariance, PTL

-----------------------------------------------------------------------------
(* What needs no assumption on exceptions: the kernels of one call form a   *)
(* chain whatever happens to the other calls, so the event the call returns *)
(* covers all of them.                                                      *)

LEMMA QueueFacts ==
    ASSUME IInv
    PROVE  /\ Len(tasks) \in Nat /\ Events = 1..Len(tasks) /\ issued \in Nat
           /\ PlanEvents \subseteq Events /\ Begun \subseteq Events
           /\ \A e \in Events : e \in PlanEvents <=> tasks[e].call # 0
  BY LenProperties DEF IInv, TypeOK, Events, PlanEvents, Begun, ProducersFirst

-----------------------------------------------------------------------------
(* Steps that submit nothing.                                               *)

\* A step that leaves the queue and the log of calls alone.
LEMMA QueueKept ==
    ASSUME IInv, CallInvariant, UNCHANGED <<tasks, running, done, calls>>
    PROVE  CallChained' /\ CallOrder' /\ LastOfCall'
  <1>1. Events' = Events /\ PlanEvents' = PlanEvents /\ Begun' = Begun
    BY DEF Events, PlanEvents, Producers, Begun
  <1>2. QED
    BY <1>1 DEF CallInvariant, CallChained, CallOrder, LastOfCall, SameCall

\* A step after which the threads in a call are among those before it, with the
\* same request.
LEMMA RequestsKept ==
    ASSUME IInv, CallInvariant, UNCHANGED <<tasks, running, done, calls, issued>>,
           \A u \in Threads : pc'[u] # "idle" => pc[u] # "idle" /\ request'[u] = request[u],
           \A u \in Threads : pc'[u] # "idle" =>
               ((mutex' = u /\ frame'.step # 0) <=> (mutex = u /\ frame.step # 0)),
           frame'.step # 0 => frame'.step = frame.step,
           frame.step \in Nat, frame'.step \in Nat
    PROVE  CallInvariant'
  <1>1. Events' = Events /\ Len(tasks) \in Nat /\ Events = 1..Len(tasks)
    BY QueueFacts DEF Events
  <1>2. IdsUnique'
    BY <1>1 DEF CallInvariant, IdsUnique
  <1>3. OwnTasks'
    <2>1. SUFFICES ASSUME NEW u \in Threads, NEW e \in Events, pc'[u] # "idle"
                   PROVE  tasks[e].call = request[u].id
                            <=> mutex' = u /\ e > Len(tasks) - frame'.step
      BY <1>1 DEF OwnTasks
    <2>2. tasks[e].call = request[u].id <=> mutex = u /\ e > Len(tasks) - frame.step
      BY <2>1 DEF CallInvariant, OwnTasks
    <2>3. e \in Nat /\ e <= Len(tasks)
      BY <1>1
    <2>4. QED
      BY <1>1, <2>1, <2>2, <2>3
  <1>4. QED
    BY <1>2, <1>3, QueueKept DEF CallInvariant

LEMMA CallIds ==
    ASSUME IInv, CallInvariant, NEW t \in Threads, NEW in, NEW out, NEW onePointer, NEW deps,
           Call(t, in, out, onePointer, deps)
    PROVE  CallInvariant'
  <1>1. /\ request'[t].id = issued + 1 /\ issued' = issued + 1 /\ issued \in Nat
        /\ pc[t] = "idle" /\ mutex # t /\ mutex' = mutex /\ frame' = frame
        /\ \A u \in Threads : u # t => request'[u] = request[u] /\ pc'[u] = pc[u]
        /\ Events' = Events /\ Events = 1..Len(tasks)
        /\ tasks' = tasks /\ calls' = calls
    BY DEF Call, IInv, TypeOK, LockHeld, Events
  <1>2. IdsUnique'
    <2>1. ASSUME NEW u \in Threads, pc'[u] # "idle"
          PROVE  /\ request'[u].id \in 1..issued'
                 /\ \A v \in Threads :
                       pc'[v] # "idle" /\ request'[u].id = request'[v].id => u = v
                 /\ \A i \in DOMAIN calls : request'[u].id # calls[i].id
      <3>1. \A v \in Threads : v # t /\ pc[v] # "idle" => request[v].id \in 1..issued
        BY DEF CallInvariant, IdsUnique
      <3>2. \A i \in DOMAIN calls : calls[i].id \in 1..issued
        BY DEF CallInvariant, IdsUnique
      <3>3. CASE u = t
        BY <1>1, <3>1, <3>2, <3>3
      <3>4. CASE u # t
        <4>1. request'[u].id = request[u].id /\ pc[u] # "idle" /\ request[u].id \in 1..issued
          BY <1>1, <2>1, <3>1, <3>4
        <4>2. \A v \in Threads :
                 v # t /\ pc'[v] # "idle" /\ request'[u].id = request'[v].id => u = v
          BY <1>1, <4>1 DEF CallInvariant, IdsUnique
        <4>3. \A i \in DOMAIN calls : request[u].id # calls[i].id
          BY <4>1 DEF CallInvariant, IdsUnique
        <4>4. QED
          BY <1>1, <4>1, <4>2, <4>3
      <3>5. QED
        BY <3>3, <3>4
    <2>2. /\ \A e \in Events : tasks[e].call \in 0..issued'
          /\ \A i \in DOMAIN calls : calls[i].id \in 1..issued'
      BY <1>1 DEF CallInvariant, IdsUnique
    <2>3. QED
      BY <1>1, <2>1, <2>2 DEF IdsUnique
  <1>3. OwnTasks'
    <2>1. ASSUME NEW e \in Events PROVE tasks[e].call # request'[t].id
      BY <1>1 DEF CallInvariant, IdsUnique
    <2>2. QED
      BY <1>1, <2>1 DEF CallInvariant, OwnTasks
  <1>4. QED
    BY <1>2, <1>3, QueueKept DEF Call, CallInvariant

LEMMA HostIds ==
    ASSUME IInv, CallInvariant, NEW t \in Threads,
           Reject(t) \/ Enter(t) \/ BeginAxis(t) \/ Throw(t)
    PROVE  CallInvariant'
  <1>1. frame \in FrameType /\ frame.step \in Nat
    BY DEF IInv, TypeOK, FrameType
  <1>2. \A u \in Threads : pc[u] = "submitting" <=> mutex = u
    BY DEF IInv, LockHeld
  <1>3. CASE Reject(t)
    <2>1. \A u \in Threads : pc'[u] # "idle" => pc[u] # "idle" /\ request'[u] = request[u]
      BY <1>3 DEF Reject, IInv, TypeOK
    <2>2. QED
      BY <1>1, <1>3, <2>1, RequestsKept DEF Reject
  <1>4. CASE Enter(t)
    <2>1. /\ \A u \in Threads : pc'[u] # "idle" => pc[u] # "idle" /\ request'[u] = request[u]
          /\ frame'.step = 0 /\ frame.step = 0
      BY <1>4 DEF Enter, IInv, TypeOK, LockHeld, NoFrame
    <2>2. QED
      BY <1>4, <2>1, RequestsKept DEF Enter
  <1>5. CASE BeginAxis(t)
    <2>1. frame'.step = frame.step
      BY <1>1, <1>5 DEF BeginAxis, FrameType
    <2>2. QED
      BY <1>1, <1>5, <2>1, RequestsKept DEF BeginAxis
  <1>6. CASE Throw(t)
    <2>1. /\ mutex = t /\ mutex' = NoThread /\ frame'.step = 0 /\ pc'[t] = "idle"
          /\ \A u \in Threads : u # t => pc'[u] = pc[u] /\ request'[u] = request[u]
      BY <1>2, <1>6 DEF Throw, Release, NoFrame, IInv, TypeOK
    <2>2. \A u \in Threads : pc'[u] # "idle" => mutex # u /\ mutex' # u
      BY <2>1, ThreadsAssumption
    <2>3. QED
      BY <1>1, <1>6, <2>1, <2>2, RequestsKept DEF Throw
  <1>7. QED
    BY <1>3, <1>4, <1>5, <1>6

-----------------------------------------------------------------------------
(* Submissions.                                                             *)

LEMMA SubmissionIds ==
    ASSUME IInv, CallInvariant, NEW t \in Threads, pc[t] = "submitting", NEW k, Fits(t, k),
           Submit(t, k) \/ SubmitLast(t, k)
    PROVE  CallInvariant'
  <1>0. PICK N : N = Len(tasks)
    OBVIOUS
  <1> DEFINE r == request[t]
             s == frame.step
  <1>1. /\ mutex = t /\ s \in Nat /\ N \in Nat /\ Events = 1..N
        /\ r.id \in 1..issued /\ issued \in Nat /\ r.id # 0
        /\ PlanEvents \subseteq Events /\ Begun \subseteq Events
        /\ \A e \in Events : tasks[e].call = r.id <=> e > N - s
    <2>1. r.id \in 1..issued /\ issued \in Nat
      BY QueueFacts DEF CallInvariant, IdsUnique
    <2>2. mutex = t /\ s \in Nat
      BY DEF IInv, TypeOK, LockHeld, FrameType
    <2>3. N \in Nat /\ Events = 1..N /\ PlanEvents \subseteq Events /\ Begun \subseteq Events
      BY <1>0, QueueFacts
    <2>4. \A e \in Events : tasks[e].call = r.id <=> e > N - s
      BY <1>0, <2>2 DEF CallInvariant, OwnTasks
    <2>5. QED
      BY <2>1, <2>2, <2>3, <2>4
  <1>2. PICK last \in BOOLEAN : tasks' = Append(tasks, Task(t, k, last))
    BY DEF Submit, SubmitLast
  <1>3. /\ Len(tasks') = N + 1 /\ tasks'[N + 1] = Task(t, k, last)
        /\ \A e \in Events : tasks'[e] = tasks[e]
    BY <1>0, <1>1, <1>2, OneMoreTask DEF Submit, SubmitLast, Fits
  <1>4. /\ tasks'[N + 1].call = r.id
        /\ s > 0 => tasks'[N + 1].deps = {N}
    <2>1. Task(t, k, last).call = r.id /\ Task(t, k, last).deps = KernelDeps
      BY DEF Task
    <2>2. s > 0 => frame.event = N /\ N > 0
      <3>1. FrameFollows(r)
        BY <1>1 DEF IInv, FrameInv
      <3>2. Len(Produced) \in Nat
        BY ProducedAssumption, LenProperties
      <3>3. s > 0 => frame.event = N /\ Len(Produced) + s <= N
        BY <1>0, <3>1 DEF FrameFollows
      <3>4. QED
        BY <1>1, <3>2, <3>3
    <2>3. QED
      BY <1>3, <2>1, <2>2, <1>1 DEF KernelDeps
  <1>5. Events' = 1..(N + 1) /\ PlanEvents' \subseteq PlanEvents \union {N + 1}
        /\ Events' = Events \union {N + 1}
    <2>1. Events' = 1..(N + 1)
      BY <1>3 DEF Events
    <2>2. QED
      BY <1>1, <2>1 DEF PlanEvents, Producers
  <1>6. \A e \in Events : tasks'[e].call = tasks[e].call /\ tasks'[e].deps = tasks[e].deps
    BY <1>3
  <1>7. CallChained'
    <2>1. SUFFICES ASSUME NEW e \in PlanEvents', NEW f \in PlanEvents', f < e,
                          tasks'[e].call = tasks'[f].call
                   PROVE  tasks'[e].call = tasks'[e - 1].call /\ e - 1 \in tasks'[e].deps
      BY DEF CallChained, SameCall
    <2>2. f \in PlanEvents /\ f \in Events /\ f \in 1..N
      BY <1>1, <1>5, <2>1
    <2>3. CASE e \in PlanEvents
      <3>1. tasks[e].call = tasks[f].call
        BY <1>1, <1>6, <2>1, <2>2, <2>3
      <3>2. tasks[e].call = tasks[e - 1].call /\ e - 1 \in tasks[e].deps
        BY <2>1, <2>2, <2>3, <3>1 DEF CallInvariant, CallChained, SameCall
      <3>3. e - 1 \in Events
        BY <1>1, <2>1, <2>2, <2>3
      <3>4. QED
        BY <1>1, <1>6, <2>3, <3>2, <3>3
    <2>4. CASE e = N + 1
      <3>1. tasks[f].call = r.id
        BY <1>4, <1>6, <2>1, <2>2, <2>4
      <3>2. f > N - s
        BY <1>1, <2>2, <3>1
      <3>3. s > 0 /\ N \in Events /\ e - 1 = N
        BY <1>1, <2>2, <2>4, <3>2
      <3>4. tasks[N].call = r.id
        BY <1>1, <3>3
      <3>5. QED
        BY <1>4, <1>6, <2>4, <3>3, <3>4
    <2>5. QED
      BY <1>5, <2>3, <2>4
  <1>8. CallOrder'
    <2>1. Begun' = Begun /\ done' = done
      BY DEF Begun, Submit, SubmitLast
    <2>2. SUFFICES ASSUME NEW e \in Begun, NEW f \in PlanEvents', f < e,
                          tasks'[e].call = tasks'[f].call
                   PROVE  f \in done
      BY <2>1 DEF CallOrder, SameCall
    <2>3. f \in PlanEvents /\ e \in Events /\ f \in Events
      BY <1>1, <1>5, <2>2
    <2>4. QED
      BY <1>6, <2>2, <2>3 DEF CallInvariant, CallOrder, SameCall
  <1>9. CASE Submit(t, k)
    <2>1. /\ pc' = pc /\ request' = request /\ mutex' = mutex /\ calls' = calls
          /\ issued' = issued /\ frame'.step = s + 1
      BY <1>9 DEF Submit, IInv, TypeOK, FrameType
    <2>2. IdsUnique'
      <3>1. \A e \in Events' : tasks'[e].call \in 0..issued
        BY <1>1, <1>4, <1>5, <1>6 DEF CallInvariant, IdsUnique
      <3>2. QED
        BY <2>1, <3>1 DEF CallInvariant, IdsUnique
    <2>3. OwnTasks'
      <3>1. SUFFICES ASSUME NEW u \in Threads, NEW e \in Events', pc[u] # "idle"
                     PROVE  tasks'[e].call = request[u].id
                              <=> mutex = u /\ e > (N + 1) - (s + 1)
        BY <1>3, <2>1 DEF OwnTasks
      <3>2. CASE e \in Events
        <4>1. tasks[e].call = request[u].id <=> mutex = u /\ e > N - s
          BY <1>0, <3>1, <3>2 DEF CallInvariant, OwnTasks
        <4>2. QED
          BY <1>1, <1>6, <3>2, <4>1
      <3>3. CASE e = N + 1
        <4>1. request[u].id = r.id <=> u = t
          BY <3>1 DEF CallInvariant, IdsUnique
        <4>2. QED
          BY <1>1, <1>4, <3>3, <4>1
      <3>4. QED
        BY <1>5, <3>2, <3>3
    <2>4. LastOfCall'
      <3>1. SUFFICES ASSUME NEW i \in DOMAIN calls
                     PROVE  /\ tasks'[calls[i].last].call = calls[i].id
                            /\ \A e \in Events' :
                                  tasks'[e].call = calls[i].id => e <= calls[i].last
        BY <2>1 DEF LastOfCall
      <3>2. calls[i].last \in Events /\ calls[i].id # r.id
        BY DEF IInv, EventsExist, CallInvariant, IdsUnique
      <3>3. QED
        BY <1>4, <1>5, <1>6, <3>2 DEF CallInvariant, LastOfCall
    <2>5. QED
      BY <1>7, <1>8, <2>2, <2>3, <2>4 DEF CallInvariant
  <1>10. CASE SubmitLast(t, k)
    <2> DEFINE c == [id |-> r.id, in |-> r.in, out |-> r.out, last |-> N + 1]
    <2>1. /\ calls' = Append(calls, c) /\ issued' = issued
          /\ mutex' = NoThread /\ pc'[t] = "idle"
          /\ \A u \in Threads : u # t => pc'[u] = pc[u] /\ request'[u] = request[u]
      BY <1>0, <1>10 DEF SubmitLast, Release, IInv, TypeOK
    <2>2. \A i \in DOMAIN calls' : (i \in DOMAIN calls /\ calls'[i] = calls[i]) \/ calls'[i] = c
      <3>1. calls \in Seq(CallType) /\ c \in CallType
        <4>1. r \in RequestType /\ Valid(r)
          BY <1>1 DEF IInv, TypeOK, FrameInv, FrameFollows
        <4>2. QED
          BY <1>1, <4>1 DEF IInv, TypeOK, CallType, RequestType, Valid
      <3> HIDE DEF c
      <3>2. /\ calls' \in Seq(CallType) /\ Len(calls') = Len(calls) + 1
            /\ \A i \in 1..Len(calls) : calls'[i] = calls[i]
            /\ calls'[Len(calls) + 1] = c
        BY <2>1, <3>1, Appended
      <3>3. /\ DOMAIN calls = 1..Len(calls) /\ DOMAIN calls' = 1..(Len(calls) + 1)
            /\ Len(calls) \in Nat
        BY <3>1, <3>2, LenProperties
      <3>4. QED
        BY <3>2, <3>3
    <2>3. c.id = r.id /\ c.last = N + 1
      OBVIOUS
    <2> HIDE DEF c
    <2>4. \A u \in Threads : pc'[u] # "idle" =>
             u # t /\ pc[u] # "idle" /\ request'[u] = request[u] /\ request[u].id # r.id
      BY <2>1 DEF CallInvariant, IdsUnique
    <2>5. IdsUnique'
      <3>1. \A e \in Events' : tasks'[e].call \in 0..issued
        BY <1>1, <1>4, <1>5, <1>6 DEF CallInvariant, IdsUnique
      <3>2. ASSUME NEW i \in DOMAIN calls'
            PROVE  /\ calls'[i].id \in 1..issued
                   /\ \A u \in Threads : pc'[u] # "idle" => request'[u].id # calls'[i].id
        <4>1. CASE i \in DOMAIN calls /\ calls'[i] = calls[i]
          BY <2>4, <4>1 DEF CallInvariant, IdsUnique
        <4>2. CASE calls'[i] = c
          BY <1>1, <2>3, <2>4, <4>2
        <4>3. QED
          BY <2>2, <3>2, <4>1, <4>2
      <3>3. \A u, v \in Threads :
               pc'[u] # "idle" /\ pc'[v] # "idle" /\ request'[u].id = request'[v].id => u = v
        BY <2>4 DEF CallInvariant, IdsUnique
      <3>4. \A u \in Threads : pc'[u] # "idle" => request'[u].id \in 1..issued
        BY <2>4 DEF CallInvariant, IdsUnique
      <3>5. QED
        BY <2>1, <3>1, <3>2, <3>3, <3>4 DEF IdsUnique
    <2>6. OwnTasks'
      <3>1. SUFFICES ASSUME NEW u \in Threads, NEW e \in Events', pc'[u] # "idle"
                     PROVE  tasks'[e].call # request'[u].id
        BY <2>1, ThreadsAssumption DEF OwnTasks
      <3>2. CASE e \in Events
        BY <1>1, <1>6, <2>4, <3>1, <3>2 DEF CallInvariant, OwnTasks
      <3>3. CASE e = N + 1
        BY <1>4, <2>4, <3>1, <3>3
      <3>4. QED
        BY <1>5, <3>2, <3>3
    <2>7. LastOfCall'
      <3>1. SUFFICES ASSUME NEW i \in DOMAIN calls'
                     PROVE  /\ tasks'[calls'[i].last].call = calls'[i].id
                            /\ \A e \in Events' :
                                  tasks'[e].call = calls'[i].id => e <= calls'[i].last
        BY DEF LastOfCall
      <3>2. CASE i \in DOMAIN calls /\ calls'[i] = calls[i]
        <4>1. calls[i].last \in Events /\ calls[i].id # r.id
          BY <3>2 DEF IInv, EventsExist, CallInvariant, IdsUnique
        <4>2. QED
          BY <1>4, <1>5, <1>6, <3>2, <4>1 DEF CallInvariant, LastOfCall
      <3>3. CASE calls'[i] = c
        BY <1>1, <1>4, <1>5, <2>3, <3>3
      <3>4. QED
        BY <2>2, <3>1, <3>2, <3>3
    <2>8. QED
      BY <1>7, <1>8, <2>5, <2>6, <2>7 DEF CallInvariant
  <1>11. QED
    BY <1>9, <1>10

-----------------------------------------------------------------------------
(* The device.                                                              *)

LEMMA DeviceIds ==
    ASSUME IInv, CallInvariant, NEW e \in Events, Start(e) \/ Finish(e)
    PROVE  CallInvariant'
  <1>1. /\ Events' = Events /\ PlanEvents' = PlanEvents /\ done \subseteq done'
        /\ Begun' = Begun \union {e} /\ PlanEvents \subseteq Events
        /\ tasks' = tasks /\ calls' = calls
    BY QueueFacts DEF Start, Finish, Events, PlanEvents, Producers, Begun
  <1>2. IdsUnique' /\ OwnTasks' /\ CallChained' /\ LastOfCall'
    BY <1>1 DEF Start, Finish, CallInvariant, IdsUnique, OwnTasks, CallChained, LastOfCall,
                SameCall
  <1>3. CallOrder'
    <2>1. SUFFICES ASSUME NEW g \in Begun', NEW f \in PlanEvents, f < g, SameCall(g, f)
                   PROVE  f \in done
      BY <1>1 DEF CallOrder, SameCall
    <2>2. CASE g \in Begun
      BY <2>1, <2>2 DEF CallInvariant, CallOrder
    <2>3. CASE g = e /\ g \notin Begun
      <3>1. tasks[e].deps \subseteq done
        BY <2>3, <1>1 DEF Start, Finish, Begun
      <3>2. e \in PlanEvents
        <4>1. tasks[f].call # 0
          BY <1>1, QueueFacts
        <4>2. QED
          BY <2>1, <2>3, <4>1, QueueFacts DEF SameCall
      <3>3. SameCall(e, e - 1) /\ e - 1 \in done
        BY <2>1, <2>3, <3>1, <3>2 DEF CallInvariant, CallChained
      <3>4. CASE f = e - 1
        BY <3>3, <3>4
      <3>5. CASE f < e - 1
        <4>1. e - 1 \in Begun /\ SameCall(e - 1, f)
          BY <2>1, <2>3, <3>3 DEF Begun, SameCall
        <4>2. QED
          BY <3>5, <4>1 DEF CallInvariant, CallOrder
      <3>6. e \in Nat /\ f \in Nat
        BY <1>1 DEF Events
      <3>7. QED
        BY <2>1, <2>3, <3>4, <3>5, <3>6
    <2>4. QED
      BY <1>1, <2>2, <2>3
  <1>4. QED
    BY <1>2, <1>3 DEF CallInvariant

-----------------------------------------------------------------------------
LEMMA InitIds == Init => CallInvariant
  <1> SUFFICES ASSUME Init PROVE CallInvariant
    OBVIOUS
  <1>1. IInv
    BY InitInv
  <1>2. Len(Produced) \in Nat /\ Producers = 1..Len(Produced)
    BY ProducedAssumption, LenProperties DEF Producers
  <1>3. DOMAIN tasks = Producers /\ \A p \in Producers : tasks[p].call = 0
    BY DEF Init
  <1>4. Events = Producers
    <2>1. tasks \in Seq(TaskType)
      BY <1>1 DEF IInv, TypeOK
    <2>2. DOMAIN tasks = 1..Len(tasks)
      BY <2>1, LenProperties
    <2>3. QED
      BY <1>3, <2>2 DEF Events
  <1>5. calls = <<>> /\ DOMAIN calls = {}
    BY DEF Init
  <1>6. IdsUnique /\ OwnTasks
    BY <1>3, <1>4, <1>5 DEF Init, IdsUnique, OwnTasks
  <1>7. CallChained /\ CallOrder /\ LastOfCall
    BY <1>4, <1>5 DEF CallChained, CallOrder, LastOfCall, PlanEvents
  <1>8. QED
    BY <1>6, <1>7 DEF CallInvariant

LEMMA OtherIds ==
    ASSUME IInv, CallInvariant, DestroyBegin \/ FreeAll \/ UNCHANGED vars
    PROVE  CallInvariant'
  <1>1. UNCHANGED <<tasks, running, done, calls, issued, pc, request, mutex, frame>>
    BY DEF DestroyBegin, FreeAll, vars
  <1>2. frame.step \in Nat
    BY DEF IInv, TypeOK, FrameType
  <1>3. QED
    BY <1>1, <1>2, RequestsKept

LEMMA NextIds == IInv /\ CallInvariant /\ [Next]_vars => CallInvariant'
  <1> SUFFICES ASSUME IInv, CallInvariant, [Next]_vars PROVE CallInvariant'
    OBVIOUS
  <1>1. ASSUME NEW t \in Threads, Submission(t) PROVE CallInvariant'
    <2>1. BeginAxis(t) \/
            (pc[t] = "submitting" /\ \E k : Fits(t, k) /\ (Submit(t, k) \/ SubmitLast(t, k)))
      BY <1>1, SubmissionShape
    <2>2. QED
      BY <2>1, HostIds, SubmissionIds
  <1>2. ASSUME NEW t \in Threads, HostStep(t) \/ Throw(t) PROVE CallInvariant'
    BY <1>1, <1>2, HostIds DEF HostStep
  <1>3. ASSUME NEW t \in Threads, NEW in \in Buffers \union {Invalid},
               NEW out \in Buffers \union {Invalid}, NEW onePointer \in BOOLEAN,
               NEW deps \in SUBSET KnownEvents, Call(t, in, out, onePointer, deps)
        PROVE  CallInvariant'
    BY <1>3, CallIds
  <1>4. CASE DestroyBegin \/ FreeAll \/ Terminated \/ UNCHANGED vars
    BY <1>4, OtherIds DEF Terminated
  <1>5. CASE Device
    BY <1>5, DeviceIds DEF Device
  <1>6. QED
    BY <1>2, <1>3, <1>4, <1>5 DEF Next

\* The invariant behind EventCoversExecution holds of every plan, whatever
\* submissions throw (sycl.cpp:637-776).
THEOREM CallInvariance == Spec => []CallInvariant
  <1>1. Init => CallInvariant
    BY InitIds
  <1>2. IInv /\ CallInvariant /\ [Next]_vars => CallInvariant'
    BY NextIds
  <1>3. QED
    BY <1>1, <1>2, Invariance, PTL DEF Spec

\* When the event that execute returned is complete, so is every kernel of that
\* execution, also after submissions of other executions have thrown
\* (sycl.cpp:772-775).
THEOREM EventCoverage == Spec => []EventCoversExecution
  <1>1. IInv /\ CallInvariant => EventCoversExecution
    <2> SUFFICES ASSUME IInv, CallInvariant, NEW i \in DOMAIN calls, calls[i].last \in done,
                        NEW e \in Events, tasks[e].call = calls[i].id
                 PROVE  e \in done
      BY DEF EventCoversExecution
    <2>1. e <= calls[i].last /\ tasks[calls[i].last].call = calls[i].id
      BY DEF CallInvariant, LastOfCall
    <2>2. calls[i].last \in Begun /\ calls[i].last \in Nat /\ e \in Nat
      BY QueueFacts DEF Begun
    <2>3. e \in PlanEvents
      <3>1. calls[i].id # 0
        BY DEF CallInvariant, IdsUnique
      <3>2. QED
        BY <3>1, QueueFacts
    <2>4. CASE e < calls[i].last
      BY <2>1, <2>2, <2>3, <2>4 DEF CallInvariant, CallOrder, SameCall
    <2>5. QED
      BY <2>1, <2>2, <2>4
  <1>2. QED
    BY <1>1, CallInvariance, Invariance, PTL
=============================================================================
