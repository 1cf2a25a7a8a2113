--------------------- MODULE PlanExecutionSerialProofs ---------------------
(***************************************************************************)
(* What the users of a plan see in their buffers, as long as no submission *)
(* throws.  The plans whose calls write the output with their last kernel  *)
(* only implement SerialPlan: a log of executions that take effect one at  *)
(* a time, each of them at once.  Of all plans, also of a scaled cuFFT     *)
(* plan, the buffers hold what that log leaves once the queue is empty.    *)
(***************************************************************************)
EXTENDS PlanExecutionProofs, Induction

-----------------------------------------------------------------------------
(* The kernels of an axis take the data from its source to its output.      *)

LEMMA ConcatLeads ==
    ASSUME NEW k1 \in Seq(KernelType), NEW k2 \in Seq(KernelType), NEW a, NEW b, NEW c,
           Leads(k1, a, b), Leads(k2, b, c)
    PROVE  k1 \o k2 \in Seq(KernelType) /\ Leads(k1 \o k2, a, c)
  <1>1. PICK m \in Nat, n \in Nat : m = Len(k1) /\ n = Len(k2)
    BY LenProperties
  <1>2. DOMAIN k1 = 1..m /\ DOMAIN k2 = 1..n
    BY <1>1, LenProperties
  <1>3. /\ k1 \o k2 \in Seq(KernelType)
        /\ Len(k1 \o k2) = m + n
        /\ \A i \in 1..(m + n) : (k1 \o k2)[i] = IF i <= m THEN k1[i] ELSE k2[i - m]
    BY <1>1, ConcatProperties
  <1>4. DOMAIN (k1 \o k2) = 1..(m + n)
    BY <1>3, LenProperties
  <1>5. /\ k1 = <<>> <=> m = 0
        /\ k2 = <<>> <=> n = 0
        /\ k1 \o k2 = <<>> <=> m + n = 0
    BY <1>1, <1>3, EmptySeq
  <1> DEFINE k == k1 \o k2
  <1>6. b = IF m = 0 THEN a ELSE k1[m].dst
    BY <1>1, <1>5 DEF Leads
  <1>7. ASSUME NEW i \in 1..(m + n)
        PROVE  /\ k[i].src = IF i = 1 THEN a ELSE k[i - 1].dst
               /\ k[i].dst \in Scratch
               /\ k[i].kind = "gather" => k[i].src # k[i].dst
    <2>1. CASE i <= m
      <3>1. i \in 1..m /\ (i # 1 => i - 1 \in 1..(m + n) /\ i - 1 <= m)
        BY <1>1, <2>1
      <3>2. k[i] = k1[i] /\ (i # 1 => k[i - 1] = k1[i - 1])
        BY <1>3, <3>1
      <3>3. QED
        BY <1>2, <3>1, <3>2 DEF Leads
    <2>2. CASE i > m
      <3>0. i - m \in 1..n
        BY <1>1, <2>2
      <3>1. PICK j \in 1..n : j = i - m
        BY <3>0
      <3>2. k[i] = k2[j]
        BY <1>1, <1>3, <2>2, <3>1
      <3>3. /\ k2[j].src = IF j = 1 THEN b ELSE k2[j - 1].dst
            /\ k2[j].dst \in Scratch
            /\ k2[j].kind = "gather" => k2[j].src # k2[j].dst
        BY <1>2, <3>1 DEF Leads
      <3>4. CASE j # 1
        <4>1. i - 1 \in 1..(m + n) /\ ~ (i - 1 <= m) /\ i - 1 - m = j - 1 /\ i # 1
          BY <1>1, <3>1, <3>4
        <4>2. k[i - 1] = k2[j - 1]
          BY <1>3, <4>1
        <4>3. QED
          BY <3>2, <3>3, <3>4, <4>1, <4>2
      <3>5. CASE j = 1 /\ m = 0
        <4>1. i = 1
          BY <3>1, <3>5
        <4>2. QED
          BY <1>6, <3>2, <3>3, <3>5, <4>1
      <3>6. CASE j = 1 /\ m # 0
        <4>1. i - 1 \in 1..(m + n) /\ i - 1 = m /\ i # 1 /\ i - 1 <= m
          BY <1>1, <3>1, <3>6
        <4>2. k[i - 1] = k1[m]
          BY <1>3, <4>1
        <4>3. QED
          BY <1>6, <3>2, <3>3, <3>6, <4>1, <4>2
      <3>7. QED
        BY <3>4, <3>5, <3>6
    <2>3. QED
      BY <1>1, <2>1, <2>2
  <1>8. c = IF m + n = 0 THEN a ELSE k[m + n].dst
    <2>1. c = IF n = 0 THEN b ELSE k2[n].dst
      BY <1>1, <1>5 DEF Leads
    <2>2. CASE n = 0
      <3>1. m + n = m /\ (m # 0 => m \in 1..(m + n) /\ m <= m)
        BY <1>1, <2>2
      <3>2. m # 0 => k[m] = k1[m]
        BY <1>3, <3>1
      <3>3. QED
        BY <1>6, <2>1, <2>2, <3>1, <3>2
    <2>3. CASE n # 0
      <3>1. m + n # 0 /\ m + n \in 1..(m + n) /\ ~ (m + n <= m) /\ m + n - m = n
        BY <1>1, <2>3
      <3>2. k[m + n] = k2[n]
        BY <1>3, <3>1
      <3>3. QED
        BY <2>1, <2>3, <3>1, <3>2
    <2>4. QED
      BY <2>2, <2>3
  <1> HIDE DEF k
  <1>9. Leads(k, a, c)
    BY <1>3, <1>4, <1>5, <1>7, <1>8 DEF Leads, k
  <1>10. QED
    BY <1>3, <1>9 DEF k

\* One kernel leads from its source to its destination.
LEMMA OneLeads ==
    ASSUME NEW k \in KernelType, k.dst \in Scratch, k.kind = "gather" => k.src # k.dst
    PROVE  <<k>> \in Seq(KernelType) /\ Leads(<<k>>, k.src, k.dst)
  BY DEF Leads

LEMMA StagedLeads ==
    ASSUME NEW from \in Locations, NEW to \in Scratch, from # to, NEW stages \in Nat
    PROVE  /\ StagedFft(from, to, stages) \in Seq(KernelType)
           /\ Leads(StagedFft(from, to, stages), from, to)
  <1>1. Gather(from, to) \in KernelType /\ InPlace(to) \in KernelType
    BY DEF Gather, InPlace, KernelType, Kinds, Locations
  <1>2. <<Gather(from, to)>> \in Seq(KernelType) /\ Leads(<<Gather(from, to)>>, from, to)
    <2>1. Gather(from, to).src = from /\ Gather(from, to).dst = to
      BY DEF Gather
    <2>2. QED
      BY <1>1, <2>1, OneLeads
  <1> DEFINE rest == [s \in 1..stages |-> InPlace(to)]
  <1>3. rest \in Seq(KernelType)
    BY <1>1, IsASeq
  <1>4. Leads(rest, to, to)
    <2>1. DOMAIN rest = 1..stages /\ \A s \in 1..stages : rest[s] = InPlace(to)
      OBVIOUS
    <2>2. Len(rest) = stages
      BY <1>3, <2>1, LenProperties
    <2>3. InPlace(to).src = to /\ InPlace(to).dst = to /\ InPlace(to).kind # "gather"
      BY DEF InPlace
    <2> HIDE DEF rest
    <2>4. rest # <<>> => stages \in 1..stages
      BY <1>3, <2>2, EmptySeq
    <2>5. QED
      BY <2>1, <2>2, <2>3, <2>4 DEF Leads
  <1> HIDE DEF rest
  <1>5. QED
    BY <1>2, <1>3, <1>4, ConcatLeads DEF StagedFft, rest

LEMMA AxisLeads ==
    ASSUME NEW axis \in [kind : AxisKinds, stages : Nat], NEW src \in Locations
    PROVE  Leads(AxisKernels(axis, src), src, AxisOutput(axis, src))
  <1>1. PICK first, second : first = Other(src) /\ second = Other(first)
    OBVIOUS
  <1>2. /\ first \in Scratch /\ second \in Scratch /\ first # src /\ second # first
        /\ first \in Locations /\ second \in Locations
    BY <1>1 DEF Other, Scratch, Locations
  <1>3. PICK n \in Nat : n = axis.stages
    OBVIOUS
  <1>4. Leads(StagedFft(src, first, n), src, first)
    BY <1>2, StagedLeads
  <1>5. Leads(BluesteinKernels(src, first, second, n), src, second)
    <2>1. PICK k1, k2, k3, k4, k5 :
            /\ k1 = <<Gather(src, first)>> /\ k2 = StagedFft(first, second, n)
            /\ k3 = <<InPlace(second)>> /\ k4 = StagedFft(second, first, n)
            /\ k5 = <<Gather(first, second)>>
      OBVIOUS
    <2>2. k1 \in Seq(KernelType) /\ Leads(k1, src, first)
      <3>1. /\ Gather(src, first) \in KernelType
            /\ Gather(src, first).src = src /\ Gather(src, first).dst = first
        BY <1>2 DEF Gather, KernelType, Kinds
      <3>2. QED
        BY <1>2, <2>1, <3>1, OneLeads
    <2>3. k2 \in Seq(KernelType) /\ Leads(k2, first, second)
      BY <1>2, <2>1, StagedLeads
    <2>4. k3 \in Seq(KernelType) /\ Leads(k3, second, second)
      <3>1. /\ InPlace(second) \in KernelType /\ InPlace(second).kind # "gather"
            /\ InPlace(second).src = second /\ InPlace(second).dst = second
        BY <1>2 DEF InPlace, KernelType, Kinds
      <3>2. QED
        BY <1>2, <2>1, <3>1, OneLeads
    <2>5. k4 \in Seq(KernelType) /\ Leads(k4, second, first)
      BY <1>2, <2>1, StagedLeads
    <2>6. k5 \in Seq(KernelType) /\ Leads(k5, first, second)
      <3>1. /\ Gather(first, second) \in KernelType
            /\ Gather(first, second).src = first /\ Gather(first, second).dst = second
        BY <1>2 DEF Gather, KernelType, Kinds
      <3>2. QED
        BY <1>2, <2>1, <3>1, OneLeads
    <2>7. k1 \o k2 \in Seq(KernelType) /\ Leads(k1 \o k2, src, second)
      BY <2>2, <2>3, ConcatLeads
    <2>8. (k1 \o k2) \o k3 \in Seq(KernelType) /\ Leads((k1 \o k2) \o k3, src, second)
      BY <2>4, <2>7, ConcatLeads
    <2>9. ((k1 \o k2) \o k3) \o k4 \in Seq(KernelType)
          /\ Leads(((k1 \o k2) \o k3) \o k4, src, first)
      BY <2>5, <2>8, ConcatLeads
    <2>10. Leads((((k1 \o k2) \o k3) \o k4) \o k5, src, second)
      BY <2>6, <2>9, ConcatLeads
    <2>11. QED
      BY <2>1, <2>10 DEF BluesteinKernels
  <1>6. QED
    BY <1>1, <1>3, <1>4, <1>5 DEF AxisKernels, AxisOutput

\* Kernels that lead somewhere still do when the first one is submitted.
LEMMA TailLeads ==
    ASSUME NEW k \in Seq(KernelType), k # <<>>, NEW a, NEW b, Leads(k, a, b)
    PROVE  /\ Head(k) \in KernelType
           /\ Head(k).src = a /\ Head(k).dst \in Scratch
           /\ Head(k).kind = "gather" => Head(k).src # Head(k).dst
           /\ Leads(Tail(k), Head(k).dst, b)
  <1>1. PICK n \in Nat : Len(k) = n + 1
    <2>1. Len(k) \in Nat \ {0}
      BY EmptySeq
    <2>2. Len(k) - 1 \in Nat /\ Len(k) = (Len(k) - 1) + 1
      BY <2>1
    <2>3. QED
      BY <2>2
  <1>2. /\ DOMAIN k = 1..(n + 1) /\ Head(k) = k[1] /\ 1 \in DOMAIN k
        /\ Tail(k) \in Seq(KernelType) /\ Len(Tail(k)) = n /\ DOMAIN Tail(k) = 1..n
        /\ \A i \in 1..n : Tail(k)[i] = k[i + 1]
        /\ Head(k) \in KernelType
    BY <1>1, HeadTailProperties, LenProperties
  <1>3. Tail(k) = <<>> <=> n = 0
    BY <1>2, EmptySeq
  <1>4. PICK h, r : h = Head(k) /\ r = Tail(k)
    OBVIOUS
  <1>5. h.src = a /\ h.dst \in Scratch /\ (h.kind = "gather" => h.src # h.dst)
    BY <1>2, <1>4 DEF Leads
  <1>6. ASSUME NEW i \in 1..n
        PROVE  /\ r[i].src = IF i = 1 THEN h.dst ELSE r[i - 1].dst
               /\ r[i].dst \in Scratch
               /\ r[i].kind = "gather" => r[i].src # r[i].dst
    <2>1. i + 1 \in DOMAIN k /\ i + 1 # 1 /\ (i + 1) - 1 = i
      BY <1>2
    <2>2. k[i + 1].src = k[i].dst /\ k[i + 1].dst \in Scratch
          /\ (k[i + 1].kind = "gather" => k[i + 1].src # k[i + 1].dst)
      BY <2>1 DEF Leads
    <2>3. i # 1 => i - 1 \in 1..n /\ (i - 1) + 1 = i
      OBVIOUS
    <2>4. i # 1 => r[i - 1] = k[i]
      BY <1>2, <1>4, <2>3
    <2>5. QED
      BY <1>2, <1>4, <2>2, <2>4
  <1>7. b = IF n = 0 THEN h.dst ELSE r[n].dst
    <2>1. b = k[n + 1].dst
      BY <1>1 DEF Leads
    <2>2. n # 0 => r[n] = k[n + 1]
      BY <1>2, <1>4
    <2>3. QED
      BY <1>2, <1>4, <2>1, <2>2
  <1>8. Leads(r, h.dst, b)
    BY <1>2, <1>3, <1>4, <1>6, <1>7 DEF Leads
  <1>9. QED
    BY <1>2, <1>4, <1>5, <1>8

-----------------------------------------------------------------------------
(* Facts about the queue.                                                   *)

LEMMA TheQueue ==
    ASSUME IInv
    PROVE  /\ Len(tasks) \in Nat /\ Events = 1..Len(tasks)
           /\ Len(Produced) \in Nat /\ Len(Produced) <= Len(tasks)
           /\ Producers = 1..Len(Produced) /\ Producers \subseteq Events
           /\ PlanEvents = (Len(Produced) + 1)..Len(tasks)
           /\ running \subseteq Events /\ done \subseteq Events
           /\ \A e \in Events : tasks[e] \in TaskType
           /\ mem \in [Locations -> Contents]
           /\ Scratch \intersect Buffers = {}
  <1>1. /\ tasks \in Seq(TaskType) /\ running \subseteq Events /\ done \subseteq Events
        /\ mem \in [Locations -> Contents]
    BY DEF IInv, TypeOK
  <1>2. /\ Len(tasks) \in Nat /\ Events = 1..Len(tasks)
        /\ Len(Produced) \in Nat /\ Producers = 1..Len(Produced)
    BY <1>1, ProducedAssumption, LenProperties DEF Events, Producers
  <1>3. Len(Produced) <= Len(tasks)
    BY DEF IInv, ProducersFirst
  <1>4. PlanEvents = (Len(Produced) + 1)..Len(tasks) /\ Producers \subseteq Events
    BY <1>2, <1>3 DEF PlanEvents
  <1>5. \A e \in Events : tasks[e] \in TaskType
    BY <1>1, <1>2, ElementOfSeq
  <1>6. QED
    BY <1>1, <1>2, <1>3, <1>4, <1>5, BuffersAssumption

LEMMA TheFirst ==
    ASSUME IInv, NEW e \in PlanEvents
    PROVE  /\ First(e, tasks[e]) \in PlanEvents /\ First(e, tasks[e]) <= e
           /\ tasks[e].step \in Nat \ {0} /\ First(e, tasks[e]) = e - tasks[e].step + 1
           /\ tasks[e].call # 0
  <1>1. e \in Events /\ e \in Nat /\ tasks[e] \in TaskType
    BY TheQueue
  <1>2. tasks[e].step \in Nat /\ tasks[e].step > 0 /\ First(e, tasks[e]) \in PlanEvents
    BY <1>1 DEF TaskType, IInv, FirstAwaits
  <1>3. tasks[e].call # 0
    BY <1>1 DEF PlanEvents, IInv, ProducersFirst
  <1>4. QED
    BY <1>1, <1>2, <1>3 DEF First

\* The plan's kernels are complete up to the one that is running.
LEMMA TheFront ==
    ASSUME IInv, faults = 0, NEW e \in PlanEvents, e \in running
    PROVE  /\ e \notin done
           /\ \A f \in PlanEvents : f \in done <=> f < e
  <1>1. e \notin done /\ e \in Begun \ Producers /\ e \in Nat
    BY TheQueue DEF IInv, DeviceOrder, Begun, PlanEvents
  <1>2. ASSUME NEW f \in PlanEvents, f < e PROVE f \in done
    BY <1>1, <1>2 DEF IInv, DeviceOrder
  <1>3. ASSUME NEW f \in PlanEvents, f \in done PROVE f < e
    <2>1. f \in Nat /\ f \in Begun \ Producers /\ f # e
      BY <1>1, <1>3, TheQueue DEF Begun, PlanEvents
    <2>2. ~ (e < f)
      BY <1>1, <2>1 DEF IInv, DeviceOrder
    <2>3. QED
      BY <1>1, <2>1, <2>2
  <1>4. QED
    BY <1>1, <1>2, <1>3

\* One more task, of which nothing else depends.
LEMMA TheNextTask ==
    ASSUME IInv, NEW t \in Threads, NEW k, NEW last \in BOOLEAN, mutex = t,
           tasks' = Append(tasks, Task(t, k, last))
    PROVE  /\ Len(tasks') = Len(tasks) + 1
           /\ Events' = Events \union {Len(tasks) + 1} /\ Len(tasks) + 1 \notin Events
           /\ PlanEvents' = PlanEvents \union {Len(tasks) + 1}
           /\ \A e \in Events : tasks'[e] = tasks[e]
           /\ tasks'[Len(tasks) + 1].step = frame.step + 1
           /\ tasks'[Len(tasks) + 1].last = last
           /\ tasks'[Len(tasks) + 1].kind = k.kind
           /\ tasks'[Len(tasks) + 1].src = k.src
           /\ tasks'[Len(tasks) + 1].dst = k.dst
           /\ \A e \in PlanEvents : First(e, tasks'[e]) = First(e, tasks[e])
  <1>1. PICK n \in Nat : n = Len(tasks)
    BY TheQueue
  <1>2. PICK x : x = Task(t, k, last)
    OBVIOUS
  <1>3. tasks \in Seq(TaskType \union {x}) /\ x \in TaskType \union {x}
    BY SeqMonotonic DEF IInv, TypeOK
  <1>4. /\ Len(tasks') = n + 1
        /\ \A e \in 1..n : tasks'[e] = tasks[e]
        /\ tasks'[n + 1] = x
    BY <1>1, <1>2, <1>3, Appended
  <1>5. /\ Events = 1..n /\ Events' = 1..(n + 1) /\ n + 1 \notin Events
        /\ Events' = Events \union {n + 1}
    BY <1>1, <1>4 DEF Events
  <1>6. PlanEvents' = PlanEvents \union {n + 1}
    <2>1. n + 1 \notin Producers
      BY <1>1, TheQueue
    <2>2. QED
      BY <1>5, <2>1 DEF PlanEvents, Producers
  <1>7. /\ x.step = frame.step + 1 /\ x.last = last /\ x.kind = k.kind
        /\ x.src = k.src /\ x.dst = k.dst
    BY <1>2 DEF Task
  <1>8. \A e \in PlanEvents : First(e, tasks'[e]) = First(e, tasks[e])
    BY <1>4, <1>5 DEF PlanEvents
  <1>9. QED
    BY <1>1, <1>4, <1>5, <1>6, <1>7, <1>8

-----------------------------------------------------------------------------
(* Steps that submit nothing and complete nothing.                          *)

LEMMA DataKept ==
    ASSUME DataInv, UNCHANGED <<tasks, calls, done, mem, faults>>, FrameLeadsOn'
    PROVE  DataInv'
  <1>1. PlanEvents' = PlanEvents
    BY DEF PlanEvents, Events, Producers
  <1>2. HandOver'
    BY <1>1 DEF DataInv, HandOver
  <1>3. CallsInOrder'
    BY <1>1 DEF DataInv, CallsInOrder
  <1>4. BuffersWhole' /\ FrontHolds'
    BY <1>1 DEF DataInv, BuffersWhole, FrontHolds
  <1>5. QED
    BY <1>2, <1>3, <1>4 DEF DataInv

\* The call that holds the lock is not concerned by what other threads do.
LEMMA FrameKept ==
    ASSUME DataInv, UNCHANGED <<tasks, frame>>,
           \A u \in Threads : mutex' = u => mutex = u /\ request'[u] = request[u]
    PROVE  FrameLeadsOn'
  <1> SUFFICES ASSUME NEW u \in Threads, mutex' = u
               PROVE  FrameLeads(request[u])'
    BY DEF FrameLeadsOn
  <1>1. FrameLeads(request[u]) /\ request'[u] = request[u]
    BY DEF DataInv, FrameLeadsOn
  <1>2. QED
    BY <1>1 DEF FrameLeads

LEMMA QuietData ==
    ASSUME IInv, DataInv, NEW t \in Threads, NEW in, NEW out, NEW onePointer, NEW deps,
           Call(t, in, out, onePointer, deps) \/ Reject(t)
    PROVE  DataInv'
  <1>1. pc[t] # "submitting" /\ mutex # t
    BY DEF Call, Reject, IInv, LockHeld
  <1>2. \A u \in Threads : u # t => request'[u] = request[u]
    BY DEF Call, Reject, IInv, TypeOK
  <1>3. UNCHANGED <<tasks, calls, done, mem, faults, frame, mutex>>
    BY DEF Call, Reject
  <1>4. QED
    BY <1>1, <1>2, <1>3, DataKept, FrameKept

LEMMA EnterData == ASSUME IInv, DataInv, NEW t \in Threads, Enter(t) PROVE DataInv'
  <1>1. /\ mutex' = t /\ frame'.step = 0 /\ frame'.work = <<>> /\ frame'.src = request[t].in
        /\ request' = request /\ UNCHANGED <<tasks, calls, done, mem, faults>>
    BY DEF Enter
  <1>2. Leads(<<>>, request[t].in, request[t].in)
    BY DEF Leads
  <1>3. FrameLeads(request[t])'
    BY <1>1, <1>2 DEF FrameLeads
  <1>4. FrameLeadsOn'
    BY <1>1, <1>3 DEF FrameLeadsOn
  <1>5. QED
    BY <1>1, <1>4, DataKept

\* What the call that holds the lock knows of its data.
LEMMA TheFrame ==
    ASSUME IInv, DataInv, NEW t \in Threads, pc[t] = "submitting"
    PROVE  /\ mutex = t /\ FrameLeads(request[t]) /\ frame \in FrameType /\ frame.step \in Nat
           /\ request[t] \in RequestType /\ Valid(request[t])
           /\ request[t].in \in Buffers /\ request[t].out \in Buffers
           /\ frame.src \in Locations /\ frame.work \in Seq(KernelType)
  <1>1. /\ mutex = t /\ frame \in FrameType /\ request[t] \in RequestType
        /\ FrameFollows(request[t])
    BY DEF IInv, TypeOK, LockHeld, FrameInv
  <1>2. FrameLeads(request[t])
    BY <1>1 DEF DataInv, FrameLeadsOn
  <1>3. Valid(request[t]) /\ request[t].in \in Buffers /\ request[t].out \in Buffers
    BY <1>1 DEF FrameFollows, Valid, RequestType
  <1>4. frame.src \in Locations
    BY <1>1, <1>3 DEF FrameFollows, Locations
  <1>5. frame.step \in Nat /\ frame.work \in Seq(KernelType)
    BY <1>1 DEF FrameType
  <1>6. QED
    BY <1>1, <1>2, <1>3, <1>4, <1>5

LEMMA BeginAxisData == ASSUME IInv, DataInv, NEW t \in Threads, BeginAxis(t) PROVE DataInv'
  <1>1. pc[t] = "submitting" /\ mutex' = mutex /\ request' = request /\ frame.work = <<>>
        /\ UNCHANGED <<tasks, calls, done, mem, faults>>
    BY DEF BeginAxis
  <1>2. /\ mutex = t /\ FrameLeads(request[t]) /\ frame \in FrameType
        /\ frame.src \in Locations
    BY <1>1, TheFrame
  <1>3. PICK axis \in [kind : AxisKinds, stages : Nat] :
          frame' = [frame EXCEPT !.axis = @ + 1, !.work = AxisKernels(axis, frame.src),
                                 !.src = AxisOutput(axis, frame.src)]
    <2>1. frame.axis + 1 \in 1..Len(Axes)
      <3>1. frame.axis \in Nat /\ Len(Axes) \in Nat
        BY <1>2, PlanAssumption, LenProperties DEF FrameType
      <3>2. QED
        BY <3>1 DEF BeginAxis
    <2>2. Axes[frame.axis + 1] \in [kind : AxisKinds, stages : Nat]
      BY <2>1, PlanAssumption, ElementOfSeq
    <2>3. QED
      BY <2>2 DEF BeginAxis
  <1>4. /\ frame'.work = AxisKernels(axis, frame.src) /\ frame'.src = AxisOutput(axis, frame.src)
        /\ frame'.step = frame.step
    BY <1>2, <1>3 DEF FrameType
  <1>5. Leads(frame'.work, frame.src, frame'.src)
    BY <1>2, <1>4, AxisLeads
  <1>6. FrameLeads(request[t])'
    <2>1. frame.step = 0 => frame.src = request[t].in
      BY <1>1, <1>2 DEF FrameLeads, Leads
    <2>2. frame.step > 0 => frame.src = tasks[Len(tasks)].dst
      BY <1>1, <1>2 DEF FrameLeads, Leads
    <2>3. QED
      BY <1>1, <1>2, <1>4, <1>5, <2>1, <2>2 DEF FrameLeads
  <1>7. FrameLeadsOn'
    BY <1>1, <1>2, <1>6 DEF FrameLeadsOn
  <1>8. QED
    BY <1>1, <1>7, DataKept

-----------------------------------------------------------------------------
(* Submissions.                                                             *)

\* The location the next kernel of the call reads.
Here(t) == IF frame.step = 0 THEN request[t].in ELSE tasks[Len(tasks)].dst

LEMMA Handed ==
    ASSUME IInv, DataInv, NEW t \in Threads, pc[t] = "submitting",
           NEW k, NEW last \in BOOLEAN,
           k.src = Here(t), k.kind = "gather" => k.src # k.dst,
           k.dst \in (IF last THEN Buffers ELSE Scratch),
           tasks' = Append(tasks, Task(t, k, last)), UNCHANGED <<done, mem>>
    PROVE  /\ HandOver' /\ BuffersWhole' /\ FrontHolds'
           /\ tasks'[First(Len(tasks) + 1, tasks'[Len(tasks) + 1])].src = request[t].in
           /\ First(Len(tasks) + 1, tasks'[Len(tasks) + 1]) = Len(tasks) + 1 - frame.step
  <1>1. PICK n \in Nat : n = Len(tasks)
    BY TheQueue
  <1>2. /\ mutex = t /\ FrameLeads(request[t]) /\ frame.step \in Nat
        /\ request[t].in \in Buffers
    BY TheFrame
  <1>3. /\ Len(tasks') = n + 1
        /\ Events' = Events \union {n + 1} /\ n + 1 \notin Events
        /\ PlanEvents' = PlanEvents \union {n + 1}
        /\ \A e \in Events : tasks'[e] = tasks[e]
        /\ tasks'[n + 1].step = frame.step + 1 /\ tasks'[n + 1].last = last
        /\ tasks'[n + 1].kind = k.kind /\ tasks'[n + 1].src = k.src
        /\ tasks'[n + 1].dst = k.dst
        /\ \A e \in PlanEvents : First(e, tasks'[e]) = First(e, tasks[e])
    BY <1>1, <1>2, TheNextTask
  <1>4. frame.step > 0 => n \in PlanEvents /\ n - frame.step + 1 \in PlanEvents
    <2>1. FrameFollows(request[t])
      BY <1>2 DEF IInv, FrameInv
    <2>2. frame.step > 0 => Len(Produced) + frame.step <= n
      BY <1>1, <2>1 DEF FrameFollows
    <2>3. Len(Produced) \in Nat /\ PlanEvents = (Len(Produced) + 1)..n
      BY <1>1, TheQueue
    <2>4. QED
      BY <1>1, <1>2, <2>2, <2>3
  <1>5. First(n + 1, tasks'[n + 1]) = n + 1 - frame.step
    <2>1. PICK m \in Nat : m = frame.step
      BY <1>2
    <2>2. First(n + 1, tasks'[n + 1]) = (n + 1) - (m + 1) + 1
      BY <1>3, <2>1 DEF First
    <2>3. (n + 1) - (m + 1) + 1 = n + 1 - m
      BY <1>1, <2>1
    <2>4. QED
      BY <2>1, <2>2, <2>3
  <1>6. tasks'[First(n + 1, tasks'[n + 1])].src = request[t].in
    <2>1. CASE frame.step = 0
      <3>1. First(n + 1, tasks'[n + 1]) = n + 1
        BY <1>1, <1>5, <2>1
      <3>2. tasks'[n + 1].src = k.src /\ k.src = request[t].in
        BY <1>3, <2>1 DEF Here
      <3>3. QED
        BY <3>1, <3>2
    <2>2. CASE frame.step > 0
      <3>1. PICK f : f = n - frame.step + 1
        OBVIOUS
      <3>2. First(n + 1, tasks'[n + 1]) = f
        BY <1>1, <1>2, <1>5, <3>1
      <3>3. f \in Events
        BY <1>4, <2>2, <3>1 DEF PlanEvents
      <3>4. tasks[f].src = request[t].in
        BY <1>1, <1>2, <2>2, <3>1 DEF FrameLeads
      <3>5. tasks'[f] = tasks[f]
        BY <1>3, <3>3
      <3>6. QED
        BY <3>2, <3>4, <3>5
    <2>3. frame.step = 0 \/ frame.step > 0
      BY <1>2
    <2>4. QED
      BY <2>1, <2>2, <2>3
  <1>7. HandOver'
    <2>1. ASSUME NEW e \in PlanEvents
          PROVE  /\ tasks'[e].kind = "gather" => tasks'[e].src # tasks'[e].dst
                 /\ tasks'[e].dst \in (IF tasks'[e].last THEN Buffers ELSE Scratch)
                 /\ tasks'[First(e, tasks'[e])].src \in Buffers
                 /\ tasks'[e].step > 1 =>
                       /\ e - 1 \in PlanEvents'
                       /\ ~ tasks'[e - 1].last
                       /\ tasks'[e - 1].step = tasks'[e].step - 1
                       /\ tasks'[e - 1].dst = tasks'[e].src
      <3>1. tasks'[e] = tasks[e] /\ First(e, tasks'[e]) = First(e, tasks[e])
        BY <1>3 DEF PlanEvents
      <3>2. First(e, tasks[e]) \in Events
        BY TheFirst DEF PlanEvents
      <3>3. tasks'[First(e, tasks'[e])] = tasks[First(e, tasks[e])]
        BY <1>3, <3>1, <3>2
      <3>4. e - 1 \in PlanEvents => tasks'[e - 1] = tasks[e - 1]
        BY <1>3 DEF PlanEvents
      <3>5. tasks[e].step > 1 => e - 1 \in PlanEvents
        BY DEF DataInv, HandOver
      <3>6. /\ tasks[e].kind = "gather" => tasks[e].src # tasks[e].dst
            /\ tasks[e].dst \in (IF tasks[e].last THEN Buffers ELSE Scratch)
            /\ tasks[First(e, tasks[e])].src \in Buffers
        BY DEF DataInv, HandOver
      <3>7. ASSUME tasks[e].step > 1
            PROVE  /\ e - 1 \in PlanEvents'
                   /\ ~ tasks'[e - 1].last
                   /\ tasks'[e - 1].step = tasks[e].step - 1
                   /\ tasks'[e - 1].dst = tasks[e].src
        <4>1. PICK d : d = e - 1
          OBVIOUS
        <4>2. /\ d \in PlanEvents /\ tasks'[d] = tasks[d]
              /\ ~ tasks[d].last /\ tasks[d].step = tasks[e].step - 1
              /\ tasks[d].dst = tasks[e].src
          BY <3>4, <3>5, <3>7, <4>1 DEF DataInv, HandOver
        <4>3. d \in PlanEvents'
          BY <1>3, <4>2
        <4>4. QED
          BY <4>1, <4>2, <4>3
      <3>8. QED
        BY <3>1, <3>3, <3>6, <3>7
    <2>2. tasks'[n + 1].step > 1 =>
             /\ (n + 1) - 1 \in PlanEvents'
             /\ ~ tasks'[(n + 1) - 1].last
             /\ tasks'[(n + 1) - 1].step = tasks'[n + 1].step - 1
             /\ tasks'[(n + 1) - 1].dst = tasks'[n + 1].src
      <3>1. SUFFICES ASSUME frame.step > 0
                     PROVE  /\ n \in PlanEvents'
                            /\ ~ tasks'[n].last
                            /\ tasks'[n].step = frame.step
                            /\ tasks'[n].dst = k.src
        <4>1. PICK m \in Nat : m = frame.step
          BY <1>2
        <4>2. (n + 1) - 1 = n /\ (m + 1) - 1 = m /\ (m + 1 > 1 <=> m > 0)
          BY <1>1, <4>1
        <4>3. tasks'[n + 1].step = m + 1 /\ tasks'[n + 1].src = k.src
          BY <1>3, <4>1
        <4>4. QED
          BY <4>1, <4>2, <4>3
      <3>2. n \in PlanEvents /\ tasks'[n] = tasks[n]
        BY <1>3, <1>4, <3>1 DEF PlanEvents
      <3>3. tasks[n].step = frame.step /\ ~ tasks[n].last
        BY <1>1, <1>2, <3>1 DEF FrameLeads
      <3>4. k.src = tasks[n].dst
        BY <1>1, <3>1 DEF Here
      <3>5. QED
        BY <1>3, <3>2, <3>3, <3>4
    <2>3. /\ tasks'[n + 1].kind = "gather" => tasks'[n + 1].src # tasks'[n + 1].dst
          /\ tasks'[n + 1].dst \in (IF tasks'[n + 1].last THEN Buffers ELSE Scratch)
          /\ tasks'[First(n + 1, tasks'[n + 1])].src \in Buffers
      BY <1>2, <1>3, <1>6
    <2>4. PlanEvents' = PlanEvents \union {n + 1}
      BY <1>3
    <2>5. QED
      BY <2>1, <2>2, <2>3, <2>4 DEF HandOver
  <1>8. BuffersWhole'
    BY DEF DataInv, BuffersWhole
  <1>9. FrontHolds'
    <2>1. SUFFICES ASSUME NEW e \in PlanEvents', e \in done, ~ tasks'[e].last, e + 1 \notin done
                   PROVE  mem[tasks'[e].dst]
                            = Partial(mem[tasks'[First(e, tasks'[e])].src], tasks'[e].step)
      BY DEF FrontHolds, Partial, Garbage
    <2>2. e \in PlanEvents /\ e \in Events
      BY <1>3, <2>1, TheQueue DEF PlanEvents
    <2>3. First(e, tasks[e]) \in Events
      BY <2>2, TheFirst DEF PlanEvents
    <2>4. /\ tasks'[e] = tasks[e] /\ First(e, tasks'[e]) = First(e, tasks[e])
          /\ tasks'[First(e, tasks[e])] = tasks[First(e, tasks[e])]
      BY <1>3, <2>2, <2>3
    <2>5. QED
      BY <2>1, <2>2, <2>4 DEF DataInv, FrontHolds
  <1>10. QED
    BY <1>1, <1>5, <1>6, <1>7, <1>8, <1>9

\* The calls that returned stay in order when one in progress submits a task.
LEMMA CallsKeepOrder ==
    ASSUME IInv, CallsInOrder, NEW t \in Threads, mutex = t, NEW k,
           tasks' = Append(tasks, Task(t, k, FALSE)), calls' = calls
    PROVE  CallsInOrder'
  <1>0. /\ PlanEvents' = PlanEvents \union {Len(tasks) + 1}
        /\ \A e \in Events : tasks'[e] = tasks[e]
        /\ ~ tasks'[Len(tasks) + 1].last
        /\ \A e \in PlanEvents : First(e, tasks'[e]) = First(e, tasks[e])
    BY TheNextTask
  <1>1. ASSUME NEW i \in DOMAIN calls
        PROVE  /\ calls[i].last \in PlanEvents'
               /\ tasks'[calls[i].last].last
               /\ tasks'[calls[i].last].dst = calls[i].out
               /\ tasks'[First(calls[i].last, tasks'[calls[i].last])].src = calls[i].in
    <2>1. /\ calls[i].last \in PlanEvents
          /\ tasks[calls[i].last].last
          /\ tasks[calls[i].last].dst = calls[i].out
          /\ tasks[First(calls[i].last, tasks[calls[i].last])].src = calls[i].in
      BY DEF CallsInOrder
    <2>2. First(calls[i].last, tasks[calls[i].last]) \in PlanEvents
      BY <2>1, TheFirst
    <2>3. QED
      BY <1>0, <2>1, <2>2 DEF PlanEvents
  <1>2. ASSUME NEW e \in PlanEvents', tasks'[e].last
        PROVE  \E i \in DOMAIN calls : calls[i].last = e
    <2>1. e \in PlanEvents /\ tasks[e].last
      BY <1>0, <1>2 DEF PlanEvents
    <2>2. QED
      BY <2>1 DEF CallsInOrder
  <1>3. \A i, j \in DOMAIN calls : i < j => calls[i].last < calls[j].last
    BY DEF CallsInOrder
  <1>4. QED
    BY <1>1, <1>2, <1>3 DEF CallsInOrder

\* And when it returns.
LEMMA CallsGrowInOrder ==
    ASSUME IInv, CallsInOrder, NEW t \in Threads, mutex = t, NEW k, k.dst = request[t].out,
           SubmitLast(t, k),
           tasks'[First(Len(tasks) + 1, tasks'[Len(tasks) + 1])].src = request[t].in
    PROVE  CallsInOrder'
  <1>1. PICK n \in Nat : n = Len(tasks)
    BY TheQueue
  <1>2. tasks' = Append(tasks, Task(t, k, TRUE))
    BY DEF SubmitLast
  <1>4. tasks'[First(n + 1, tasks'[n + 1])].src = request[t].in
    BY <1>1
  <1>5. /\ PlanEvents' = PlanEvents \union {n + 1}
        /\ \A e \in Events : tasks'[e] = tasks[e]
        /\ tasks'[n + 1].last
        /\ tasks'[n + 1].dst = request[t].out
        /\ \A e \in PlanEvents : First(e, tasks'[e]) = First(e, tasks[e])
    BY <1>1, <1>2, TheNextTask
  <1>6. PICK c : c = [id |-> request[t].id, in |-> request[t].in, out |-> request[t].out,
                      last |-> n + 1]
    OBVIOUS
  <1>7. PICK m \in Nat :
          /\ DOMAIN calls = 1..m /\ DOMAIN calls' = 1..(m + 1)
          /\ \A i \in 1..m : calls'[i] = calls[i]
          /\ calls'[m + 1] = c
    <2>1. calls \in Seq(CallType) /\ calls' = Append(calls, c)
      BY <1>1, <1>6 DEF IInv, TypeOK, SubmitLast
    <2>2. calls \in Seq(CallType \union {c}) /\ c \in CallType \union {c}
      BY <2>1, SeqMonotonic
    <2>3. /\ calls' \in Seq(CallType \union {c}) /\ Len(calls') = Len(calls) + 1
          /\ \A i \in 1..Len(calls) : calls'[i] = calls[i]
          /\ calls'[Len(calls) + 1] = c
      BY <2>1, <2>2, Appended
    <2>4. Len(calls) \in Nat /\ DOMAIN calls = 1..Len(calls) /\ DOMAIN calls' = 1..(Len(calls) + 1)
      BY <2>1, <2>3, LenProperties
    <2>5. QED
      BY <2>3, <2>4
  <1>11. ASSUME NEW i \in 1..m
        PROVE  /\ calls[i].last \in PlanEvents' /\ calls[i].last < n + 1
               /\ tasks'[calls[i].last].last
               /\ tasks'[calls[i].last].dst = calls[i].out
               /\ tasks'[First(calls[i].last, tasks'[calls[i].last])].src = calls[i].in
    <2>1. /\ calls[i].last \in PlanEvents
          /\ tasks[calls[i].last].last
          /\ tasks[calls[i].last].dst = calls[i].out
          /\ tasks[First(calls[i].last, tasks[calls[i].last])].src = calls[i].in
      BY <1>7 DEF CallsInOrder
    <2>2. First(calls[i].last, tasks[calls[i].last]) \in PlanEvents
      BY <2>1, TheFirst
    <2>3. calls[i].last < n + 1
      BY <1>1, <2>1, TheQueue
    <2>4. QED
      BY <1>5, <2>1, <2>2, <2>3 DEF PlanEvents
  <1>12. /\ c.last \in PlanEvents'
        /\ tasks'[c.last].last
        /\ tasks'[c.last].dst = c.out
        /\ tasks'[First(c.last, tasks'[c.last])].src = c.in
        /\ c.last = n + 1
    BY <1>4, <1>5, <1>6
  <1>13. ASSUME NEW i \in 1..(m + 1)
        PROVE  /\ calls'[i].last \in PlanEvents'
               /\ tasks'[calls'[i].last].last
               /\ tasks'[calls'[i].last].dst = calls'[i].out
               /\ tasks'[First(calls'[i].last, tasks'[calls'[i].last])].src = calls'[i].in
    <2>1. i \in 1..m \/ i = m + 1
      OBVIOUS
    <2>2. QED
      BY <1>7, <1>11, <1>12, <2>1
  <1>14. ASSUME NEW i \in 1..(m + 1), NEW j \in 1..(m + 1), i < j
        PROVE  calls'[i].last < calls'[j].last
    <2>1. i \in 1..m /\ (j \in 1..m \/ j = m + 1)
      BY <1>14
    <2>2. CASE j \in 1..m
      <3>1. calls'[i] = calls[i] /\ calls'[j] = calls[j]
        BY <1>7, <2>1, <2>2
      <3>2. QED
        BY <1>7, <1>14, <2>1, <2>2, <3>1 DEF CallsInOrder
    <2>3. CASE j = m + 1
      BY <1>7, <1>11, <1>12, <2>1, <2>3
    <2>4. QED
      BY <2>1, <2>2, <2>3
  <1>15. ASSUME NEW e \in PlanEvents', tasks'[e].last
        PROVE  \E i \in 1..(m + 1) : calls'[i].last = e
    <2>1. CASE e = n + 1
      BY <1>7, <1>12, <2>1
    <2>2. CASE e \in PlanEvents
      <3>1. tasks[e].last
        BY <1>5, <1>15, <2>2 DEF PlanEvents
      <3>2. PICK i \in 1..m : calls[i].last = e
        BY <1>7, <2>2, <3>1 DEF CallsInOrder
      <3>3. i \in 1..(m + 1) /\ calls'[i].last = e
        BY <1>7, <3>2
      <3>4. QED
        BY <3>3
    <2>3. QED
      BY <1>5, <1>15, <2>1, <2>2
  <1>16. QED
    BY <1>7, <1>13, <1>14, <1>15 DEF CallsInOrder

LEMMA SubmitKernelData == ASSUME IInv, DataInv, NEW t \in Threads, SubmitKernel(t) PROVE DataInv'
  <1>1. PICK k : k = Head(frame.work)
    OBVIOUS
  <1>2. PICK n \in Nat : n = Len(tasks)
    BY TheQueue
  <1>3. /\ pc[t] = "submitting" /\ frame.work # <<>> /\ Submit(t, k)
        /\ tasks' = Append(tasks, Task(t, k, FALSE))
        /\ UNCHANGED <<calls, done, mem, faults, mutex, request>>
    BY <1>1 DEF SubmitKernel, Submit
  <1>4. /\ mutex = t /\ FrameLeads(request[t]) /\ frame \in FrameType /\ frame.step \in Nat
        /\ frame.work \in Seq(KernelType)
    BY <1>3, TheFrame
  <1>5. Leads(frame.work, Here(t), frame.src)
    BY <1>4 DEF FrameLeads, Here
  <1>6. /\ k.src = Here(t) /\ k.dst \in Scratch
        /\ k.kind = "gather" => k.src # k.dst
        /\ Leads(Tail(frame.work), k.dst, frame.src)
    BY <1>1, <1>3, <1>4, <1>5, TailLeads
  <1>7. /\ HandOver' /\ BuffersWhole' /\ FrontHolds'
        /\ tasks'[First(n + 1, tasks'[n + 1])].src = request[t].in
        /\ First(n + 1, tasks'[n + 1]) = n + 1 - frame.step
    BY <1>2, <1>3, <1>6, Handed
  <1>8. /\ Len(tasks') = n + 1
        /\ PlanEvents' = PlanEvents \union {n + 1}
        /\ \A e \in Events : tasks'[e] = tasks[e]
        /\ tasks'[n + 1].step = frame.step + 1 /\ ~ tasks'[n + 1].last
        /\ tasks'[n + 1].dst = k.dst
        /\ \A e \in PlanEvents : First(e, tasks'[e]) = First(e, tasks[e])
    BY <1>2, <1>3, <1>4, TheNextTask
  <1>9. CallsInOrder'
    BY <1>3, <1>4, CallsKeepOrder DEF DataInv
  <1>10. /\ frame'.step = frame.step + 1 /\ frame'.work = Tail(frame.work)
         /\ frame'.src = frame.src
    <2>1. PICK w : w = Tail(frame.work)
      OBVIOUS
    <2>2. frame' = [frame EXCEPT !.step = @ + 1, !.event = Len(tasks) + 1, !.work = w]
      BY <1>3, <2>1 DEF Submit
    <2>3. QED
      BY <1>4, <2>1, <2>2 DEF FrameType
  <1>11. FrameLeads(request[t])'
    <2>1. Provider # "cufft"
      BY DEF SubmitKernel
    <2>2. Len(tasks') - frame'.step + 1 = n + 1 - frame.step
      BY <1>2, <1>4, <1>8, <1>10
    <2>3. tasks'[Len(tasks') - frame'.step + 1].src = request[t].in
      BY <1>7, <2>2
    <2>4. frame'.step > 0 /\ frame'.step # 0
      BY <1>4, <1>10
    <2>5. Leads(frame'.work, tasks'[Len(tasks')].dst, frame'.src)
      BY <1>6, <1>8, <1>10
    <2>6. QED
      BY <1>3, <1>8, <1>10, <2>1, <2>3, <2>4, <2>5 DEF FrameLeads
  <1>12. FrameLeadsOn'
    BY <1>3, <1>4, <1>11 DEF FrameLeadsOn
  <1>13. QED
    BY <1>3, <1>7, <1>9, <1>12 DEF DataInv

LEMMA SubmitLastData ==
    ASSUME IInv, DataInv, NEW t \in Threads, pc[t] = "submitting", NEW k,
           k.src = Here(t), k.dst = request[t].out, k.kind # "gather", SubmitLast(t, k)
    PROVE  DataInv'
  <1>1. PICK n \in Nat : n = Len(tasks)
    BY TheQueue
  <1>2. /\ tasks' = Append(tasks, Task(t, k, TRUE))
        /\ UNCHANGED <<done, mem, faults>> /\ mutex' = NoThread
    BY DEF SubmitLast, Release
  <1>3. mutex = t /\ request[t] \in RequestType /\ request[t].out \in Buffers
    BY TheFrame
  <1>4. /\ HandOver' /\ BuffersWhole' /\ FrontHolds'
        /\ tasks'[First(n + 1, tasks'[n + 1])].src = request[t].in
    BY <1>1, <1>2, <1>3, Handed
  <1>8. CallsInOrder'
    BY <1>1, <1>3, <1>4, CallsGrowInOrder DEF DataInv
  <1>9. FrameLeadsOn'
    BY <1>2, ThreadsAssumption DEF FrameLeadsOn
  <1>10. QED
    BY <1>2, <1>4, <1>8, <1>9 DEF DataInv

LEMMA SubmissionData ==
    ASSUME WritesOnce, IInv, DataInv, NEW t \in Threads, Submission(t)
    PROVE  DataInv'
  <1> DEFINE r == request[t]
  <1>1. CASE SubmitFinalCopy(t)
    <2>1. pc[t] = "submitting" /\ frame.work = <<>> /\ SubmitLast(t, CopyScaled(frame.src, r.out))
      BY <1>1 DEF SubmitFinalCopy
    <2>2. frame.src = Here(t)
      BY <2>1, TheFrame DEF FrameLeads, Leads, Here
    <2>3. /\ CopyScaled(frame.src, r.out).src = frame.src
          /\ CopyScaled(frame.src, r.out).dst = r.out
          /\ CopyScaled(frame.src, r.out).kind # "gather"
      BY DEF CopyScaled
    <2>4. QED
      BY <2>1, <2>2, <2>3, SubmitLastData
  <1>2. CASE SubmitNative(t)
    <2>1. /\ pc[t] = "submitting" /\ frame.step = 0 /\ Provider = "cufft"
          /\ IF Scaled THEN Submit(t, Native(r.in, r.out)) ELSE SubmitLast(t, Native(r.in, r.out))
      BY <1>2 DEF SubmitNative
    <2>2. SubmitLast(t, Native(r.in, r.out))
      BY <2>1 DEF WritesOnce
    <2>3. /\ Native(r.in, r.out).src = Here(t)
          /\ Native(r.in, r.out).dst = r.out
          /\ Native(r.in, r.out).kind # "gather"
      BY <2>1 DEF Native, Here
    <2>4. QED
      BY <2>1, <2>2, <2>3, SubmitLastData
  <1>3. CASE SubmitScale(t)
    <2>1. pc[t] = "submitting" /\ frame.step = 1 /\ Provider = "cufft"
      BY <1>3 DEF SubmitScale
    <2>2. QED
      BY <2>1, TheFrame DEF FrameLeads
  <1>4. QED
    BY <1>1, <1>2, <1>3, BeginAxisData, SubmitKernelData DEF Submission

-----------------------------------------------------------------------------
(* Kernels that complete.                                                   *)

\* The location of the input of the call that made task e, and what task e
\* leaves in its destination.
Input(e) == tasks[First(e, tasks[e])].src
Whole(d) == [origin |-> d.origin, times |-> d.times + 1, stage |-> 0]
Result(e) ==
    IF mem[Input(e)] = Garbage THEN Garbage
    ELSE IF tasks[e].last THEN Whole(mem[Input(e)])
    ELSE [mem[Input(e)] EXCEPT !.stage = tasks[e].step]

LEMMA PartialFacts ==
    ASSUME NEW d \in Contents, d.stage = 0, NEW n \in Nat
    PROVE  /\ n = 0 => Partial(d, n) = d
           /\ Partial(d, n) = Garbage <=> d = Garbage
           /\ d # Garbage => /\ Partial(d, n).stage = n
                             /\ Partial(d, n).origin = d.origin
                             /\ Partial(d, n).times = d.times
                             /\ \A m \in Nat : [Partial(d, n) EXCEPT !.stage = m]
                                                 = [d EXCEPT !.stage = m]
  <1>1. d = [origin |-> d.origin, times |-> d.times, stage |-> 0]
    BY DEF Contents
  <1> DEFINE p == [origin |-> d.origin, times |-> d.times, stage |-> n]
  <1>2. d # Garbage => Partial(d, n) = p
    BY <1>1 DEF Partial
  <1>3. d # Garbage => p # Garbage
    <2>1. p = Garbage => d.origin = "garbage" /\ d.times = 0
      BY DEF Garbage
    <2>2. QED
      BY <1>1, <2>1 DEF Garbage
  <1>4. n = 0 => p = d
    BY <1>1
  <1>5. \A m \in Nat : [p EXCEPT !.stage = m] = [d EXCEPT !.stage = m]
    BY <1>1
  <1>6. p.stage = n /\ p.origin = d.origin /\ p.times = d.times
    OBVIOUS
  <1> HIDE DEF p
  <1>7. CASE d = Garbage
    BY <1>7 DEF Partial
  <1>8. CASE d # Garbage
    BY <1>2, <1>3, <1>4, <1>5, <1>6, <1>8
  <1>9. QED
    BY <1>7, <1>8

\* The kernels of a call lead from its input to its output.
LEMMA DataFlows == ASSUME IInv, DataInv PROVE FlowInv
  <1>1. SUFFICES ASSUME NEW e \in PlanEvents
                 PROVE  /\ tasks[e].last => tasks[e].dst \in Buffers
                        /\ e - 1 \in PlanEvents /\ ~ tasks[e - 1].last =>
                              tasks[e - 1].dst \notin Buffers
                        /\ tasks[e].dst \in Buffers => tasks[e].last
    BY DEF FlowInv, Flow, DataInv, HandOver
  <1>2. \A f \in PlanEvents : ~ tasks[f].last => tasks[f].dst \notin Buffers
    BY TheQueue DEF DataInv, HandOver
  <1>3. QED
    BY <1>2 DEF DataInv, HandOver

\* The kernels of one call have the same input.
LEMMA TheInput ==
    ASSUME IInv, FlowInv, NEW e \in PlanEvents
    PROVE  /\ Input(e) \in Buffers /\ Input(e) \in Locations
           /\ tasks[e].dst \in Locations
           /\ tasks[e].step = 1 => tasks[e].src = Input(e)
           /\ tasks[e].step > 1 => Input(e - 1) = Input(e)
  <1>1. Input(e) \in Buffers
    BY DEF FlowInv, Flow, Input
  <1>2. Input(e) \in Locations /\ tasks[e].dst \in Locations
    BY <1>1, TheQueue DEF Locations, TaskType, PlanEvents
  <1>3. e \in Nat /\ tasks[e].step \in Nat /\ First(e, tasks[e]) = e - tasks[e].step + 1
    BY TheFirst, TheQueue
  <1>4. tasks[e].step = 1 => First(e, tasks[e]) = e
    BY <1>3
  <1>5. tasks[e].step > 1 => First(e - 1, tasks[e - 1]) = First(e, tasks[e])
    <2>1. SUFFICES ASSUME tasks[e].step > 1
                   PROVE  First(e - 1, tasks[e - 1]) = First(e, tasks[e])
      OBVIOUS
    <2>2. PICK m \in Nat : m = tasks[e].step
      BY <1>3
    <2>3. tasks[e - 1].step = m - 1
      BY <2>1, <2>2 DEF FlowInv, Flow
    <2>4. First(e - 1, tasks[e - 1]) = (e - 1) - (m - 1) + 1
      BY <2>3 DEF First
    <2>5. (e - 1) - (m - 1) + 1 = e - m + 1
      BY <1>3, <2>2
    <2>6. QED
      BY <1>3, <2>2, <2>4, <2>5
  <1>6. QED
    BY <1>1, <1>2, <1>4, <1>5 DEF Input

\* What a kernel makes of the input of its call, which it finds in its source
\* so many kernels further.
Left(d, e) ==
    IF d = Garbage THEN Garbage
    ELSE IF tasks[e].last THEN Whole(d)
    ELSE [d EXCEPT !.stage = tasks[e].step]

LEMMA KernelLeaves ==
    ASSUME IInv, faults = 0, NEW e \in PlanEvents, Finish(e), NEW d \in Contents, d.stage = 0,
           mem[tasks[e].src] = Partial(d, tasks[e].step - 1),
           tasks[e].kind = "gather" => tasks[e].src # tasks[e].dst
    PROVE  mem' = [mem EXCEPT ![tasks[e].dst] = Left(d, e)]
  <1>1. e \in running /\ tasks[e].call # 0 /\ tasks[e].step \in Nat /\ tasks[e].step - 1 \in Nat
    BY TheFirst DEF Finish
  <1>2. ~ \E f \in running \ {e} : Conflict(tasks[e], tasks[f])
    BY <1>1, NoOverlap DEF NoRace, PlanTask
  <1>3. mem' = [mem EXCEPT ![tasks[e].dst] = Written(tasks[e])]
    BY <1>2 DEF Finish
  <1>4. PICK n \in Nat : n = tasks[e].step - 1
    BY <1>1
  <1>5. mem[tasks[e].src] = Partial(d, n)
    BY <1>4
  <1>6. /\ Partial(d, n) = Garbage <=> d = Garbage
        /\ d # Garbage => /\ Partial(d, n).stage = n
                          /\ Partial(d, n).origin = d.origin
                          /\ Partial(d, n).times = d.times
                          /\ \A m \in Nat : [Partial(d, n) EXCEPT !.stage = m]
                                              = [d EXCEPT !.stage = m]
    BY <1>4, PartialFacts
  <1>7. Sound(tasks[e]) <=> d # Garbage
    BY <1>4, <1>5, <1>6 DEF Sound
  <1>8. Written(tasks[e]) = Left(d, e)
    <2>1. CASE d = Garbage
      BY <1>1, <1>7, <2>1 DEF Written, Left
    <2>2. CASE d # Garbage /\ tasks[e].last
      <3>1. Written(tasks[e]) = Whole(d)
        BY <1>1, <1>5, <1>6, <1>7, <2>2 DEF Written, Whole
      <3>2. QED
        BY <2>2, <3>1 DEF Left
    <2>3. CASE d # Garbage /\ ~ tasks[e].last
      <3>1. Written(tasks[e]) = [Partial(d, n) EXCEPT !.stage = tasks[e].step]
        BY <1>1, <1>5, <1>7, <2>3 DEF Written
      <3>2. QED
        BY <1>1, <1>6, <2>3, <3>1 DEF Left
    <2>4. QED
      BY <2>1, <2>2, <2>3
  <1>9. QED
    BY <1>3, <1>8

\* While only the last kernel of a call writes the user's buffers, the input of
\* the call stays what it was.
LEMMA InputOf ==
    ASSUME IInv, DataInv, NEW e \in PlanEvents
    PROVE  /\ Input(e) \in Buffers /\ Input(e) \in Locations
           /\ mem[Input(e)] \in Contents /\ mem[Input(e)].stage = 0
           /\ tasks[e].step = 1 => tasks[e].src = Input(e)
           /\ tasks[e].step > 1 => Input(e - 1) = Input(e)
  <1>1. /\ Input(e) \in Buffers /\ Input(e) \in Locations
        /\ tasks[e].step = 1 => tasks[e].src = Input(e)
        /\ tasks[e].step > 1 => Input(e - 1) = Input(e)
    BY DataFlows, TheInput
  <1>2. mem[Input(e)] \in Contents /\ mem[Input(e)].stage = 0
    BY <1>1, TheQueue DEF DataInv, BuffersWhole
  <1>3. QED
    BY <1>1, <1>2

\* A kernel finds in its source the input of its call, so many kernels further.
LEMMA SourceOf ==
    ASSUME IInv, DataInv, NEW e \in PlanEvents, e \in running
    PROVE  /\ mem[tasks[e].src] = Partial(mem[Input(e)], tasks[e].step - 1)
           /\ tasks[e].step - 1 \in Nat
  <1>1. tasks[e].step \in Nat \ {0} /\ e \in Nat
    BY TheFirst, TheQueue
  <1>2. tasks[e].step - 1 \in Nat
    BY <1>1
  <1>3. CASE tasks[e].step = 1
    <2>1. tasks[e].src = Input(e) /\ tasks[e].step - 1 = 0
      BY <1>3, InputOf
    <2>2. QED
      BY <2>1, InputOf, PartialFacts
  <1>4. CASE tasks[e].step > 1
    <2>1. PICK d : d = e - 1
      OBVIOUS
    <2>2. /\ d \in PlanEvents /\ ~ tasks[d].last /\ tasks[d].dst = tasks[e].src
          /\ tasks[d].step = tasks[e].step - 1
      BY <1>4, <2>1 DEF DataInv, HandOver
    <2>3. d < e /\ d + 1 = e
      BY <1>1, <2>1
    <2>4. d \in done /\ d + 1 \notin done
      BY <2>2, <2>3, TheFront DEF DataInv
    <2>5. mem[tasks[d].dst] = Partial(mem[Input(d)], tasks[d].step)
      BY <2>2, <2>4 DEF DataInv, FrontHolds, Input
    <2>6. Input(d) = Input(e)
      BY <1>4, <2>1, InputOf
    <2>7. QED
      BY <1>2, <2>2, <2>5, <2>6
  <1>5. QED
    BY <1>1, <1>2, <1>3, <1>4

LEMMA FinishLeaves ==
    ASSUME IInv, DataInv, NEW e \in PlanEvents, Finish(e)
    PROVE  mem' = [mem EXCEPT ![tasks[e].dst] = Result(e)]
  <1>1. e \in running /\ faults = 0
    BY DEF Finish, DataInv
  <1>2. PICK d \in Contents : d = mem[Input(e)] /\ d.stage = 0
    BY InputOf
  <1>3. mem[tasks[e].src] = Partial(d, tasks[e].step - 1)
    BY <1>1, <1>2, SourceOf
  <1>4. tasks[e].kind = "gather" => tasks[e].src # tasks[e].dst
    BY DEF DataInv, HandOver
  <1>5. mem' = [mem EXCEPT ![tasks[e].dst] = Left(d, e)]
    BY <1>1, <1>2, <1>3, <1>4, KernelLeaves
  <1>6. QED
    BY <1>2, <1>5 DEF Left, Result

\* The kernels that fill the buffers of a call have run when it begins.
LEMMA InputFilled ==
    ASSUME IInv, faults = 0, NEW e \in PlanEvents, e \in Begun,
           NEW p \in Producers, Produced[p] = Input(e) \/ Produced[p] = tasks[e].dst
    PROVE  p \in done
  <1>1. CASE Produced[p] = tasks[e].dst
    BY <1>1, ProducersDone
  <1>2. CASE Produced[p] = Input(e)
    <2>1. PICK g \in PlanEvents : g = First(e, tasks[e]) /\ g <= e
      BY TheFirst
    <2>2. e \in Begun \ Producers /\ e \in Nat /\ g \in Nat
      BY TheQueue DEF PlanEvents
    <2>3. g \in Begun
      <3>1. CASE g = e
        BY <3>1
      <3>2. CASE g < e
        BY <2>2, <3>2 DEF IInv, DeviceOrder, Begun
      <3>3. QED
        BY <2>1, <2>2, <3>1, <3>2
    <2>4. Produced[p] = tasks[g].src
      BY <1>2, <2>1 DEF Input
    <2>5. QED
      BY <2>3, <2>4, ProducersDone
  <1>3. QED
    BY <1>1, <1>2

\* Completing a task leaves the queue and the calls as they are.
LEMMA FinishKeeps ==
    ASSUME DataInv, NEW e, Finish(e)
    PROVE  faults' = 0 /\ HandOver' /\ CallsInOrder' /\ FrameLeadsOn' /\ PlanEvents' = PlanEvents
  <1>1. UNCHANGED <<tasks, calls, frame, mutex, request, faults>>
    BY DEF Finish
  <1>2. PlanEvents' = PlanEvents
    BY <1>1 DEF PlanEvents, Events, Producers
  <1>3. HandOver'
    BY <1>1, <1>2 DEF DataInv, HandOver
  <1>4. CallsInOrder'
    BY <1>1, <1>2 DEF DataInv, CallsInOrder
  <1>5. FrameLeadsOn'
    BY <1>1, FrameKept
  <1>6. QED
    BY <1>1, <1>2, <1>3, <1>4, <1>5 DEF DataInv

\* After a kernel of the plan no other one is at the front.
LEMMA NewFront ==
    ASSUME IInv, faults = 0, NEW e \in PlanEvents, Finish(e),
           NEW f \in PlanEvents, AtFront(f)'
    PROVE  f = e /\ ~ tasks[e].last
  <1>1. e \in running /\ done' = done \union {e} /\ tasks' = tasks
    BY DEF Finish
  <1>2. f \in done' /\ ~ tasks[f].last /\ f + 1 \notin done'
    BY <1>1 DEF AtFront
  <1>3. f \in Nat /\ e \in Nat /\ PlanEvents = (Len(Produced) + 1)..Len(tasks)
        /\ Len(Produced) \in Nat /\ Len(tasks) \in Nat
    BY TheQueue
  <1>4. ASSUME f # e PROVE FALSE
    <2>1. f < e
      BY <1>1, <1>2, <1>4, TheFront
    <2>2. f + 1 = e \/ (f + 1 \in PlanEvents /\ f + 1 < e)
      BY <1>3, <2>1
    <2>3. f + 1 \in done'
      BY <1>1, <2>2, TheFront
    <2>4. QED
      BY <1>2, <2>3
  <1>5. QED
    BY <1>2, <1>4

LEMMA FinishPlanData ==
    ASSUME IInv, DataInv, NEW e \in PlanEvents, Finish(e)
    PROVE  DataInv'
  <1>1. e \in running /\ done' = done \union {e} /\ tasks' = tasks
    BY DEF Finish
  <1>2. /\ tasks[e].dst \in Locations
        /\ tasks[e].last => tasks[e].dst \in Buffers
        /\ ~ tasks[e].last => tasks[e].dst \in Scratch /\ tasks[e].dst \notin Buffers
    BY TheQueue DEF DataInv, HandOver, Locations
  <1>3. /\ mem'[tasks[e].dst] = Result(e)
        /\ \A l \in Locations : l # tasks[e].dst => mem'[l] = mem[l]
    BY <1>2, FinishLeaves, TheQueue
  <1>4. BuffersWhole'
    <2>1. SUFFICES ASSUME NEW b \in Buffers PROVE mem'[b].stage = 0
      BY DEF BuffersWhole
    <2>2. mem[b].stage = 0 /\ b \in Locations
      BY DEF DataInv, BuffersWhole, Locations
    <2>3. tasks[e].last => Result(e).stage = 0
      BY DEF Result, Whole, Garbage
    <2>4. QED
      BY <1>2, <1>3, <2>2, <2>3
  <1>5. FrontHolds'
    <2>1. SUFFICES ASSUME NEW f \in PlanEvents, f \in done', ~ tasks[f].last, f + 1 \notin done'
                   PROVE  mem'[tasks[f].dst] = Partial(mem'[Input(f)], tasks[f].step)
      BY <1>1, FinishKeeps DEF FrontHolds, Partial, Garbage, Input
    <2>2. f = e
      <3>1. AtFront(f)'
        BY <1>1, <2>1 DEF AtFront
      <3>2. QED
        BY <3>1, NewFront DEF DataInv
    <2>3. Input(e) # tasks[e].dst /\ Input(e) \in Locations
      BY <1>2, <2>1, <2>2, InputOf
    <2>4. mem'[Input(e)] = mem[Input(e)]
      BY <1>3, <2>3
    <2>5. Result(e) = Partial(mem[Input(e)], tasks[e].step)
      BY <2>1, <2>2 DEF Result, Partial
    <2>6. QED
      BY <1>3, <2>2, <2>4, <2>5
  <1>6. QED
    BY <1>4, <1>5, FinishKeeps DEF DataInv

\* A kernel of the program that completes fills its buffer.
LEMMA OwnFinish ==
    ASSUME IInv, faults = 0, OwnKernelsApart, NEW p \in Producers, Finish(p)
    PROVE  /\ mem' = [mem EXCEPT ![Produced[p]] = Fresh(Produced[p])]
           /\ done' = done \union {p} /\ p \notin done /\ p \in Events /\ Produced[p] \in Buffers
  <1>1. /\ p \in running /\ done' = done \union {p} /\ p \notin done /\ calls' = calls
        /\ p \in Events
    BY TheQueue DEF Finish, IInv, DeviceOrder
  <1>2. /\ tasks[p].dst = Produced[p] /\ tasks[p].src = Produced[p] /\ tasks[p].kind = "user"
        /\ tasks[p].call = 0 /\ Produced[p] \in Buffers
    BY <1>1, TheQueue, ProducedAssumption, ElementOfSeq DEF IInv, ProducersFirst
  <1>3. ASSUME NEW f \in running \ {p} PROVE ~ Conflict(tasks[p], tasks[f])
    <2>1. f \in Events
      BY TheQueue
    <2>2. CASE f \in Producers
      <3>1. tasks[f].dst = Produced[f] /\ tasks[f].src = Produced[f] /\ Produced[f] # Produced[p]
        BY <2>2 DEF IInv, ProducersFirst, OwnKernelsApart
      <3>2. QED
        BY <1>2, <3>1 DEF Conflict
    <2>3. CASE f \notin Producers
      <3>1. PlanTask(f)
        BY <2>1, <2>3 DEF IInv, ProducersFirst, PlanTask
      <3>2. QED
        BY <1>1, <3>1, NoOverlap DEF NoRace
    <2>4. QED
      BY <2>2, <2>3
  <1>4. mem' = [mem EXCEPT ![Produced[p]] = Fresh(Produced[p])]
    BY <1>2, <1>3 DEF Finish, Written
  <1>5. QED
    BY <1>1, <1>2, <1>4

LEMMA FinishOwnData ==
    ASSUME IInv, DataInv, NEW p \in Producers, Finish(p)
    PROVE  DataInv'
  <1>1. /\ p \in running /\ done' = done \union {p} /\ tasks' = tasks /\ p \notin done
        /\ p \in Events
    BY TheQueue DEF Finish, IInv, DeviceOrder
  <1>2. tasks[p].dst = Produced[p] /\ Produced[p] \in Buffers /\ tasks[p].call = 0
    BY <1>1, TheQueue, ProducedAssumption, ElementOfSeq DEF IInv, ProducersFirst
  <1>3. mem' = [mem EXCEPT ![Produced[p]] =
                  IF \E f \in running \ {p} : Conflict(tasks[p], tasks[f])
                  THEN Garbage ELSE Fresh(Produced[p])]
    BY <1>2 DEF Finish, Written
  <1>4. PICK d : mem' = [mem EXCEPT ![Produced[p]] = d] /\ d.stage = 0
    <2>1. PICK d : d = IF \E f \in running \ {p} : Conflict(tasks[p], tasks[f])
                       THEN Garbage ELSE Fresh(Produced[p])
      OBVIOUS
    <2>2. d.stage = 0
      BY <2>1 DEF Garbage, Fresh
    <2>3. QED
      BY <1>3, <2>1, <2>2
  <1>5. \A l \in Locations : l # Produced[p] => mem'[l] = mem[l]
    BY <1>4, TheQueue
  <1>6. BuffersWhole'
    BY <1>2, <1>4, <1>5, TheQueue DEF DataInv, BuffersWhole, Locations
  <1>7. FrontHolds'
    <2>1. SUFFICES ASSUME NEW f \in PlanEvents, f \in done', ~ tasks[f].last, f + 1 \notin done'
                   PROVE  mem'[tasks[f].dst] = Partial(mem'[Input(f)], tasks[f].step)
      BY <1>1, FinishKeeps DEF FrontHolds, Partial, Garbage, Input
    <2>2. f # p /\ f \in done /\ f + 1 \notin done
      BY <1>1, <2>1 DEF PlanEvents
    <2>3. mem[tasks[f].dst] = Partial(mem[Input(f)], tasks[f].step)
      BY <2>1, <2>2 DEF DataInv, FrontHolds, Input
    <2>4. Input(f) # Produced[p]
      BY <1>1, <2>2, InputFilled DEF Begun, DataInv
    <2>5. tasks[f].dst \in Scratch /\ tasks[f].dst # Produced[p]
      BY <1>2, <2>1, TheQueue DEF DataInv, HandOver
    <2>6. Input(f) \in Locations /\ tasks[f].dst \in Locations
      BY <2>5, InputOf DEF Locations
    <2>7. QED
      BY <1>5, <2>3, <2>4, <2>5, <2>6
  <1>8. QED
    BY <1>6, <1>7, FinishKeeps DEF DataInv

-----------------------------------------------------------------------------
(* The invariant of the data.                                               *)

LEMMA InitData == Init => DataInv
  <1> SUFFICES ASSUME Init PROVE DataInv
    OBVIOUS
  <1>1. IInv
    BY InitInv
  <1>2. PlanEvents = {}
    <2>1. tasks \in Seq(TaskType)
      BY <1>1 DEF IInv, TypeOK
    <2>2. DOMAIN tasks = Producers
      BY DEF Init
    <2>3. Events = Producers
      BY <2>1, <2>2, LenProperties DEF Events
    <2>4. QED
      BY <2>3 DEF PlanEvents
  <1>3. HandOver /\ FrontHolds
    BY <1>2 DEF HandOver, FrontHolds
  <1>4. CallsInOrder
    <2>1. DOMAIN calls = {}
      BY DEF Init
    <2>2. QED
      BY <1>2, <2>1 DEF CallsInOrder
  <1>5. FrameLeadsOn
    BY ThreadsAssumption DEF Init, FrameLeadsOn
  <1>6. BuffersWhole
    <2>1. SUFFICES ASSUME NEW b \in Buffers PROVE mem[b].stage = 0
      BY DEF BuffersWhole
    <2>2. mem[b] = Garbage \/ mem[b] = Fresh(b)
      BY DEF Init, Locations
    <2>3. QED
      BY <2>2 DEF Garbage, Fresh
  <1>7. QED
    BY <1>3, <1>4, <1>5, <1>6 DEF Init, DataInv

\* Steps that leave memory, the queue and the calls alone.
LEMMA OtherData ==
    ASSUME IInv, DataInv,
           DestroyBegin \/ FreeAll \/ (\E e \in Events : Start(e)) \/ UNCHANGED vars
    PROVE  DataInv'
  <1>1. UNCHANGED <<tasks, calls, done, mem, faults, frame, mutex, request>>
    BY DEF DestroyBegin, FreeAll, Start, vars
  <1>2. QED
    BY <1>1, DataKept, FrameKept

LEMMA FinishData == ASSUME IInv, DataInv, NEW e \in Events, Finish(e) PROVE DataInv'
  BY FinishPlanData, FinishOwnData DEF PlanEvents

\* A submission that has thrown has thrown for good.
LEMMA NoFaultBefore == ASSUME IInv, [Next]_vars, faults' = 0 PROVE faults = 0
  <1>1. ASSUME NEW t \in Threads, NEW in, NEW out, NEW onePointer, NEW deps,
               Call(t, in, out, onePointer, deps)
        PROVE  faults' = faults
    BY <1>1 DEF Call
  <1>2. ASSUME NEW t \in Threads, HostStep(t) PROVE faults' = faults
    BY <1>2, SubmissionShape DEF HostStep, Reject, Enter, BeginAxis, Submit, SubmitLast
  <1>3. ASSUME NEW t \in Threads, Throw(t) PROVE faults' # 0
    BY <1>3 DEF Throw, IInv, TypeOK
  <1>4. CASE DestroyBegin \/ FreeAll \/ Device \/ Terminated \/ UNCHANGED vars
    BY <1>4 DEF DestroyBegin, FreeAll, Device, Start, Finish, Terminated, vars
  <1>5. QED
    BY <1>1, <1>2, <1>3, <1>4 DEF Next

LEMMA NextData ==
    ASSUME WritesOnce, faults' = 0, IInv, DataInv, [Next]_vars
    PROVE  DataInv'
  <1>1. ASSUME NEW t \in Threads, NEW in \in Buffers \union {Invalid},
               NEW out \in Buffers \union {Invalid}, NEW onePointer \in BOOLEAN,
               NEW deps \in SUBSET KnownEvents, Call(t, in, out, onePointer, deps)
        PROVE  DataInv'
    BY <1>1, QuietData
  <1>2. ASSUME NEW t \in Threads, HostStep(t) PROVE DataInv'
    BY <1>2, QuietData, EnterData, SubmissionData DEF HostStep
  <1>3. ASSUME NEW t \in Threads, Throw(t) PROVE FALSE
    BY <1>3 DEF Throw, DataInv
  <1>4. CASE DestroyBegin \/ FreeAll
    BY <1>4, OtherData
  <1>5. CASE Device
    BY <1>5, OtherData, FinishData DEF Device
  <1>6. CASE Terminated \/ UNCHANGED vars
    BY <1>6, OtherData DEF Terminated
  <1>7. QED
    BY <1>1, <1>2, <1>3, <1>4, <1>5, <1>6 DEF Next

\* Where the data of an execution are while its kernels run: the buffers of the
\* user hold whole transforms, the scratch the part that is done, as long as no
\* submission has thrown (sycl.cpp:688-775).
THEOREM DataInvariance ==
    ASSUME WritesOnce
    PROVE  Spec => [](faults = 0 => DataInv)
  <1>1. Init => IInv /\ DataInv
    BY InitInv, InitData
  <1>2. IInv /\ (faults = 0 => DataInv) /\ [Next]_vars
          => (IInv /\ (faults = 0 => DataInv))'
    BY NextInv, NextData, NoFaultBefore
  <1>3. QED
    BY <1>1, <1>2, PTL DEF Spec

-----------------------------------------------------------------------------
(* Every step is a step of SerialPlan.                                      *)

LogOf(s) == [i \in DOMAIN s |-> [in |-> s[i].in, out |-> s[i].out]]
Applied == {i \in DOMAIN calls : calls[i].last \in done}
Content == [b \in Buffers |-> [origin |-> mem[b].origin, times |-> mem[b].times]]
Pending == Producers \ done

LEMMA LogGrows ==
    ASSUME NEW s \in Seq(CallType), NEW c \in CallType
    PROVE  LogOf(Append(s, c)) = Append(LogOf(s), [in |-> c.in, out |-> c.out])
  <1> DEFINE Entries == [in : Buffers, out : Buffers]
             entry(x) == [in |-> x.in, out |-> x.out]
  <1>1. \A x \in CallType : entry(x) \in Entries
    BY DEF CallType
  <1>2. ASSUME NEW r \in Seq(CallType)
        PROVE  /\ LogOf(r) \in Seq(Entries) /\ Len(LogOf(r)) = Len(r)
               /\ \A i \in 1..Len(r) : LogOf(r)[i] = entry(r[i])
    <2>1. Len(r) \in Nat /\ DOMAIN r = 1..Len(r) /\ \A i \in 1..Len(r) : r[i] \in CallType
      BY LenProperties, ElementOfSeq
    <2>2. LogOf(r) = [i \in 1..Len(r) |-> entry(r[i])]
      BY <2>1 DEF LogOf
    <2>3. \A i \in 1..Len(r) : entry(r[i]) \in Entries
      BY <1>1, <2>1
    <2> HIDE DEF Entries, entry
    <2>4. LogOf(r) \in Seq(Entries)
      BY <2>1, <2>2, <2>3, IsASeq
    <2>5. DOMAIN LogOf(r) = 1..Len(r)
      BY <2>2
    <2>6. Len(LogOf(r)) = Len(r)
      BY <2>1, <2>4, <2>5, LenProperties
    <2>7. QED
      BY <2>2, <2>4, <2>6
  <1> HIDE DEF Entries
  <1>3. PICK n \in Nat : n = Len(s)
    BY LenProperties
  <1>4. /\ Append(s, c) \in Seq(CallType) /\ Len(Append(s, c)) = n + 1
        /\ \A i \in 1..n : Append(s, c)[i] = s[i]
        /\ Append(s, c)[n + 1] = c
    BY <1>3, Appended
  <1>5. PICK x : x = entry(c)
    OBVIOUS
  <1>6. x \in Entries
    BY <1>1, <1>5
  <1> HIDE DEF entry
  <1>7. /\ LogOf(s) \in Seq(Entries) /\ Len(LogOf(s)) = n
        /\ \A i \in 1..n : LogOf(s)[i] = entry(s[i])
    BY <1>2, <1>3
  <1>8. /\ LogOf(Append(s, c)) \in Seq(Entries) /\ Len(LogOf(Append(s, c))) = n + 1
        /\ \A i \in 1..(n + 1) : LogOf(Append(s, c))[i] = entry(Append(s, c)[i])
    BY <1>2, <1>4
  <1>9. /\ Append(LogOf(s), x) \in Seq(Entries) /\ Len(Append(LogOf(s), x)) = n + 1
        /\ \A i \in 1..n : Append(LogOf(s), x)[i] = LogOf(s)[i]
        /\ Append(LogOf(s), x)[n + 1] = x
    BY <1>6, <1>7, Appended
  <1>10. ASSUME NEW i \in 1..(n + 1)
         PROVE  LogOf(Append(s, c))[i] = Append(LogOf(s), x)[i]
    <2>1. i \in 1..n \/ i = n + 1
      OBVIOUS
    <2>2. CASE i \in 1..n
      BY <1>4, <1>7, <1>8, <1>9, <2>2
    <2>3. CASE i = n + 1
      BY <1>4, <1>5, <1>8, <1>9, <2>3
    <2>4. QED
      BY <2>1, <2>2, <2>3
  <1>11. LogOf(Append(s, c)) = Append(LogOf(s), x)
    BY <1>8, <1>9, <1>10, SeqEqual
  <1>12. QED
    BY <1>5, <1>11 DEF entry

\* Nothing that SerialPlan sees has changed.
LEMMA Hidden ==
    ASSUME calls' = calls, Applied' = Applied, Content' = Content, Pending' = Pending
    PROVE  UNCHANGED Serial!vars
  BY DEF Serial!vars, Applied, Content, Pending

LEMMA Unseen ==
    ASSUME UNCHANGED <<calls, done, mem>>
    PROVE  UNCHANGED Serial!vars
  BY DEF Serial!vars, Producers

\* The last submission of a call enters it in the log.
LEMMA AcceptStep ==
    ASSUME IInv, DataInv, NEW t \in Threads, pc[t] = "submitting", NEW k, SubmitLast(t, k)
    PROVE  Serial!Next
  <1>1. PICK in \in Buffers, out \in Buffers : in = request[t].in /\ out = request[t].out
    BY TheFrame
  <1>2. PICK n \in Nat : n = Len(tasks)
    BY TheQueue
  <1>3. PICK c : c = [id |-> request[t].id, in |-> in, out |-> out, last |-> n + 1]
    OBVIOUS
  <1>4. c \in CallType /\ c.in = in /\ c.out = out /\ c.last = n + 1
    BY <1>1, <1>3, TheFrame DEF CallType, RequestType
  <1>5. calls \in Seq(CallType) /\ calls' = Append(calls, c) /\ UNCHANGED <<done, mem>>
    BY <1>1, <1>2, <1>3 DEF SubmitLast, IInv, TypeOK
  <1>6. LogOf(calls') = Append(LogOf(calls), [in |-> in, out |-> out])
    BY <1>4, <1>5, LogGrows
  <1>7. Applied' = Applied
    <2>1. PICK m \in Nat : m = Len(calls)
      BY <1>5, LenProperties
    <2>2. /\ DOMAIN calls = 1..m /\ DOMAIN calls' = 1..(m + 1)
          /\ \A i \in 1..m : calls'[i] = calls[i]
          /\ calls'[m + 1] = c
      BY <1>4, <1>5, <2>1, Appended, LenProperties
    <2>3. n + 1 \notin done
      BY <1>2, TheQueue
    <2>4. 1..(m + 1) = 1..m \union {m + 1} /\ m + 1 \notin 1..m
      OBVIOUS
    <2>5. \A i : i \in Applied' <=> i \in Applied
      BY <1>4, <1>5, <2>2, <2>3, <2>4 DEF Applied
    <2>6. QED
      BY <2>5 DEF Applied
  <1>8. Content' = Content /\ Pending' = Pending
    BY <1>5 DEF Content, Pending, Producers
  <1>9. Serial!Accept(in, out)
    BY <1>6, <1>7, <1>8 DEF Serial!Accept, LogOf, Applied, Content, Pending
  <1>10. QED
    BY <1>9 DEF Serial!Next

\* Which SerialPlan sees too.
LEMMA ProduceStep ==
    ASSUME IInv, DataInv, OwnKernelsApart, NEW p \in Producers, Finish(p)
    PROVE  Serial!Next
  <1>1. /\ done' = done \union {p} /\ p \notin done /\ calls' = calls
        /\ Produced[p] \in Buffers
    BY OwnFinish DEF Finish, DataInv
  <1>2. Produced[p] \in Buffers
    BY <1>1
  <1>4. mem' = [mem EXCEPT ![Produced[p]] = Fresh(Produced[p])]
    BY OwnFinish DEF DataInv
  <1>5. Content' = [Content EXCEPT ![Produced[p]] = Serial!Fresh(Produced[p])]
    <2>1. ASSUME NEW b \in Buffers
          PROVE  mem'[b] = IF b = Produced[p] THEN Fresh(b) ELSE mem[b]
      BY <1>4, TheQueue DEF Locations
    <2>2. ASSUME NEW b \in Buffers
          PROVE  [origin |-> mem'[b].origin, times |-> mem'[b].times]
                   = IF b = Produced[p] THEN Serial!Fresh(Produced[p]) ELSE Content[b]
      <3>1. CASE b = Produced[p]
        <4>1. mem'[b] = Fresh(b)
          BY <2>1, <3>1
        <4>2. mem'[b].origin = b /\ mem'[b].times = 0
          BY <4>1 DEF Fresh
        <4>3. QED
          BY <3>1, <4>2 DEF Serial!Fresh
      <3>2. CASE b # Produced[p]
        <4>1. mem'[b] = mem[b]
          BY <2>1, <3>2
        <4>2. QED
          BY <3>2, <4>1 DEF Content
      <3>3. QED
        BY <3>1, <3>2
    <2>3. QED
      BY <1>2, <2>2 DEF Content
  <1>6. Pending' = Pending \ {p} /\ p \in Pending
    BY <1>1 DEF Pending, Producers
  <1>7. Applied' = Applied
    <2>1. ASSUME NEW i \in DOMAIN calls PROVE calls[i].last # p
      BY DEF DataInv, CallsInOrder, PlanEvents
    <2>2. QED
      BY <1>1, <2>1 DEF Applied
  <1>8. Serial!Produce(p)
    BY <1>1, <1>5, <1>6, <1>7 DEF Serial!Produce, Applied, Content, Pending
  <1>9. QED
    BY <1>6, <1>8 DEF Serial!Next, Serial!TakeEffect, Pending

\* The last kernel of a call makes the whole execution take effect.
LEMMA ApplyStep ==
    ASSUME IInv, DataInv, NEW e \in PlanEvents, tasks[e].last, Finish(e)
    PROVE  Serial!Next
  <1>1. /\ e \in running /\ done' = done \union {e} /\ e \notin done /\ calls' = calls
        /\ e \notin Producers /\ e \in Begun
    BY TheFront DEF Finish, DataInv, PlanEvents, Begun
  <1>2. PICK i \in DOMAIN calls : calls[i].last = e
    BY DEF DataInv, CallsInOrder
  <1>3. /\ calls[i].out = tasks[e].dst /\ calls[i].in = Input(e)
        /\ calls[i].in \in Buffers /\ calls[i].out \in Buffers
    <2>1. calls[i].out = tasks[e].dst /\ calls[i].in = Input(e)
      BY <1>2 DEF DataInv, CallsInOrder, Input
    <2>2. QED
      BY <2>1, InputOf DEF DataInv, HandOver
  <1>4. PICK m \in Nat : DOMAIN calls = 1..m
    BY LenProperties DEF IInv, TypeOK
  <1>5. ASSUME NEW j \in DOMAIN calls
        PROVE  /\ calls[j].last \in done <=> j < i
               /\ calls[j].last = e <=> j = i
    <2>1. calls[j].last \in PlanEvents /\ calls[j].last \in Nat /\ e \in Nat
          /\ i \in Nat /\ j \in Nat
      BY <1>4, TheQueue DEF DataInv, CallsInOrder
    <2>2. j < i => calls[j].last < e
      BY <1>2 DEF DataInv, CallsInOrder
    <2>3. i < j => e < calls[j].last
      BY <1>2 DEF DataInv, CallsInOrder
    <2>4. calls[j].last \in done <=> calls[j].last < e
      BY <1>1, <2>1, TheFront DEF DataInv
    <2>5. QED
      BY <1>2, <2>1, <2>2, <2>3, <2>4
  <1>6. Applied = 1..(i - 1) /\ Applied' = Applied \union {i}
    <2>1. \A j : j \in Applied <=> j \in 1..(i - 1)
      BY <1>2, <1>4, <1>5 DEF Applied
    <2>2. \A j : j \in Applied' <=> j \in Applied \union {i}
      BY <1>1, <1>2, <1>5 DEF Applied
    <2>3. QED
      BY <2>1, <2>2 DEF Applied
  <1>7. ASSUME NEW p \in Pending PROVE Produced[p] \notin {calls[i].in, calls[i].out}
    BY <1>1, <1>3, InputFilled DEF Pending, DataInv
  <1>8. PICK d : d = mem[Input(e)]
    OBVIOUS
  <1>9. /\ d \in Contents /\ d.stage = 0
        /\ Content[calls[i].in] = [origin |-> d.origin, times |-> d.times]
    BY <1>3, <1>8, InputOf DEF Content
  <1>10. [origin |-> Result(e).origin, times |-> Result(e).times]
           = Serial!Transformed(Content[calls[i].in])
    <2>1. CASE d = Garbage
      <3>1. Result(e) = Garbage /\ Content[calls[i].in] = Serial!Garbage
        BY <1>8, <1>9, <2>1 DEF Result, Garbage, Serial!Garbage
      <3>2. QED
        BY <3>1 DEF Serial!Transformed, Garbage, Serial!Garbage
    <2>2. CASE d # Garbage
      <3>1. Result(e) = Whole(d)
        BY <1>8, <2>2 DEF Result
      <3>2. ~ (d.origin = "garbage" /\ d.times = 0)
        BY <1>9, <2>2 DEF Contents, Garbage
      <3>3. [origin |-> d.origin, times |-> d.times] # Serial!Garbage
        BY <3>2 DEF Serial!Garbage
      <3>4. Serial!Transformed([origin |-> d.origin, times |-> d.times])
              = [origin |-> d.origin, times |-> d.times + 1]
        BY <3>3 DEF Serial!Transformed
      <3>5. QED
        BY <1>9, <3>1, <3>4 DEF Whole
    <2>3. QED
      BY <2>1, <2>2
  <1>11. Content' = [Content EXCEPT ![calls[i].out] = Serial!Transformed(Content[calls[i].in])]
    <2>1. PICK x : x = Serial!Transformed(Content[calls[i].in])
      OBVIOUS
    <2>2. ASSUME NEW b \in Buffers
          PROVE  mem'[b] = IF b = calls[i].out THEN Result(e) ELSE mem[b]
      BY <1>3, FinishLeaves, TheQueue DEF Locations
    <2>3. ASSUME NEW b \in Buffers
          PROVE  [origin |-> mem'[b].origin, times |-> mem'[b].times]
                   = IF b = calls[i].out THEN x ELSE Content[b]
      BY <1>10, <2>1, <2>2 DEF Content
    <2>4. QED
      BY <1>3, <2>1, <2>3 DEF Content
  <1>12. Pending' = Pending
    BY <1>1 DEF Pending, Producers
  <1>13. LogOf(calls)[i].in = calls[i].in /\ LogOf(calls)[i].out = calls[i].out
         /\ LogOf(calls)' = LogOf(calls) /\ i \in DOMAIN LogOf(calls)
    BY <1>1 DEF LogOf
  <1>14. Serial!Apply(i)
    BY <1>6, <1>7, <1>11, <1>12, <1>13 DEF Serial!Apply, LogOf, Applied, Content, Pending
  <1>15. QED
    BY <1>13, <1>14 DEF Serial!Next, Serial!TakeEffect, LogOf

\* Any other kernel of the plan changes nothing the user sees.
LEMMA PartStep ==
    ASSUME IInv, DataInv, NEW e \in PlanEvents, ~ tasks[e].last, Finish(e)
    PROVE  UNCHANGED Serial!vars
  <1>1. done' = done \union {e} /\ calls' = calls /\ e \notin Producers
    BY DEF Finish, PlanEvents
  <1>2. tasks[e].dst \in Scratch /\ \A b \in Buffers : b # tasks[e].dst /\ b \in Locations
    BY TheQueue DEF DataInv, HandOver, Locations
  <1>3. \A b \in Buffers : mem'[b] = mem[b]
    BY <1>2, FinishLeaves, TheQueue
  <1>4. Content' = Content
    BY <1>3 DEF Content
  <1>5. Pending' = Pending
    BY <1>1 DEF Pending, Producers
  <1>6. Applied' = Applied
    <2>1. ASSUME NEW i \in DOMAIN calls PROVE calls[i].last # e
      BY DEF DataInv, CallsInOrder
    <2>2. QED
      BY <1>1, <2>1 DEF Applied
  <1>7. QED
    BY <1>1, <1>4, <1>5, <1>6, Hidden

LEMMA SubmissionStep ==
    ASSUME IInv, DataInv, NEW t \in Threads, Submission(t)
    PROVE  Serial!Next \/ UNCHANGED Serial!vars
  <1>1. CASE BeginAxis(t)
    BY <1>1, Unseen DEF BeginAxis
  <1>2. ASSUME pc[t] = "submitting", NEW k, Submit(t, k) \/ SubmitLast(t, k)
        PROVE  Serial!Next \/ UNCHANGED Serial!vars
    BY <1>2, AcceptStep, Unseen DEF Submit
  <1>3. QED
    BY <1>1, <1>2, SubmissionShape

LEMMA SerialStep ==
    ASSUME OwnKernelsApart, faults' = 0, IInv, DataInv, [Next]_vars
    PROVE  [Serial!Next]_(Serial!vars)
  <1>1. ASSUME NEW t \in Threads, NEW in, NEW out, NEW onePointer, NEW deps,
               Call(t, in, out, onePointer, deps)
        PROVE  UNCHANGED Serial!vars
    BY <1>1, Unseen DEF Call
  <1>2. ASSUME NEW t \in Threads, HostStep(t)
        PROVE  Serial!Next \/ UNCHANGED Serial!vars
    BY <1>2, SubmissionStep, Unseen DEF HostStep, Reject, Enter
  <1>3. ASSUME NEW t \in Threads, Throw(t) PROVE FALSE
    BY <1>3 DEF Throw, DataInv
  <1>4. CASE DestroyBegin \/ FreeAll \/ Terminated \/ UNCHANGED vars
    BY <1>4, Unseen DEF DestroyBegin, FreeAll, Terminated, vars
  <1>5. ASSUME NEW e \in Events, Start(e) \/ Finish(e)
        PROVE  Serial!Next \/ UNCHANGED Serial!vars
    <2>1. CASE Start(e)
      BY <2>1, Unseen DEF Start
    <2>2. CASE Finish(e)
      BY <2>2, ProduceStep, ApplyStep, PartStep DEF PlanEvents
    <2>3. QED
      BY <1>5, <2>1, <2>2
  <1>6. QED
    BY <1>1, <1>2, <1>3, <1>4, <1>5 DEF Next, Device

LEMMA SerialInit == Init => Serial!Init
  <1> SUFFICES ASSUME Init PROVE Serial!Init
    OBVIOUS
  <1>1. calls = <<>> /\ done = {} /\ DOMAIN calls = {}
    BY DEF Init
  <1>2. LogOf(calls) = <<>>
    BY <1>1 DEF LogOf
  <1>3. Applied = {} /\ Pending = 1..Len(Produced)
    BY <1>1 DEF Applied, Pending, Producers
  <1>4. Content = [b \in Buffers |->
                     IF \E p \in Pending : Produced[p] = b THEN Serial!Garbage ELSE Serial!Fresh(b)]
    <2>1. ASSUME NEW b \in Buffers
          PROVE  mem[b] = IF \E p \in Pending : Produced[p] = b THEN Garbage ELSE Fresh(b)
      BY <1>1, BuffersAssumption DEF Init, Locations, Pending
    <2>2. ASSUME NEW b \in Buffers
          PROVE  [origin |-> mem[b].origin, times |-> mem[b].times]
                   = IF \E p \in Pending : Produced[p] = b
                     THEN Serial!Garbage ELSE Serial!Fresh(b)
      <3>1. CASE \E p \in Pending : Produced[p] = b
        <4>1. mem[b] = Garbage
          BY <2>1, <3>1
        <4>2. mem[b].origin = "garbage" /\ mem[b].times = 0
          BY <4>1 DEF Garbage
        <4>3. QED
          BY <3>1, <4>2 DEF Serial!Garbage
      <3>2. CASE ~ \E p \in Pending : Produced[p] = b
        <4>1. mem[b] = Fresh(b)
          BY <2>1, <3>2
        <4>2. mem[b].origin = b /\ mem[b].times = 0
          BY <4>1 DEF Fresh
        <4>3. QED
          BY <3>2, <4>2 DEF Serial!Fresh
      <3>3. QED
        BY <3>1, <3>2
    <2>3. QED
      BY <2>2 DEF Content
  <1>5. QED
    BY <1>2, <1>3, <1>4 DEF Serial!Init, LogOf, Applied, Content, Pending

\* Without exceptions a plan implements SerialPlan (README.md:45-46): whatever its
\* kernels do in scratch, the buffers of the user change as if the executions took effect one
\* at a time, in the order in which execute accepted them (sycl.cpp:637-775).
THEOREM ImplementsSerial ==
    ASSUME WritesOnce, OwnKernelsApart
    PROVE  Spec /\ [](faults = 0) => Serial!Safety
  <1>1. Init => Serial!Init
    BY SerialInit
  <1>2. IInv /\ DataInv /\ (faults = 0)' /\ [Next]_vars => [Serial!Next]_(Serial!vars)
    BY SerialStep
  <1>3. Spec => []IInv
    BY Invariance
  <1>4. Spec => [](faults = 0 => DataInv)
    BY DataInvariance
  <1>5. QED
    BY <1>1, <1>2, <1>3, <1>4, PTL DEF Spec, Serial!Safety

-----------------------------------------------------------------------------
(* The plans that write the user's output twice: cuFFT with a scale.        *)

\* The plans that write the user's output twice.
LEMMA TwiceIsNative == ASSUME ~ WritesOnce PROVE Provider = "cufft" /\ Scaled
  BY PlanAssumption DEF WritesOnce

\* Steps that leave the queue, the calls and the pair in progress alone.
LEMMA PairsKept ==
    ASSUME PairsInv, UNCHANGED <<tasks, calls, faults>>, frame'.step = frame.step,
           \A u \in Threads : mutex' = u /\ frame.step # 0 => mutex = u /\ request'[u] = request[u]
    PROVE  PairsInv'
  <1>1. PlanEvents' = PlanEvents
    BY DEF PlanEvents, Events, Producers
  <1>2. Pairs'
    BY <1>1 DEF PairsInv, Pairs
  <1>3. CallsInOrder'
    BY <1>1 DEF PairsInv, CallsInOrder
  <1>4. FramePairs'
    BY <1>1 DEF PairsInv, FramePairs, PairBegun
  <1>5. QED
    BY <1>2, <1>3, <1>4 DEF PairsInv

\* Nobody submits while calls are made, are rejected or take the lock.
LEMMA QuietPairs ==
    ASSUME IInv, PairsInv, NEW t \in Threads, NEW in, NEW out, NEW onePointer, NEW deps,
           Call(t, in, out, onePointer, deps) \/ Reject(t) \/ Enter(t)
    PROVE  PairsInv'
  <1>1. CASE Call(t, in, out, onePointer, deps) \/ Reject(t)
    <2>1. pc[t] # "submitting" /\ mutex # t
      BY <1>1 DEF Call, Reject, IInv, LockHeld
    <2>2. \A u \in Threads : u # t => request'[u] = request[u]
      BY <1>1 DEF Call, Reject, IInv, TypeOK
    <2>3. UNCHANGED <<tasks, calls, faults, frame, mutex>>
      BY <1>1 DEF Call, Reject
    <2>4. QED
      BY <2>1, <2>2, <2>3, PairsKept
  <1>2. CASE Enter(t)
    <2>1. frame.step = 0
      BY <1>2 DEF Enter, IInv, LockHeld, NoFrame
    <2>2. frame'.step = 0 /\ UNCHANGED <<tasks, calls, faults>>
      BY <1>2 DEF Enter
    <2>3. QED
      BY <2>1, <2>2, PairsKept
  <1>3. QED
    BY <1>1, <1>2

\* Steps that only the device or the destructor takes.
LEMMA OtherPairs ==
    ASSUME PairsInv,
           DestroyBegin \/ FreeAll \/ (\E e \in Events : Start(e) \/ Finish(e)) \/ UNCHANGED vars
    PROVE  PairsInv'
  <1>1. UNCHANGED <<tasks, calls, faults, frame, mutex, request>>
    BY DEF DestroyBegin, FreeAll, Start, Finish, vars
  <1>2. QED
    BY <1>1, PairsKept

\* The thread that submits.
LEMMA ThePair ==
    ASSUME IInv, PairsInv, NEW t \in Threads, pc[t] = "submitting"
    PROVE  /\ mutex = t /\ PairBegun(request[t]) /\ frame \in FrameType /\ frame.step \in Nat
           /\ request[t] \in RequestType
           /\ request[t].in \in Buffers /\ request[t].out \in Buffers
  <1>1. /\ mutex = t /\ frame \in FrameType /\ request[t] \in RequestType
        /\ FrameFollows(request[t])
    BY DEF IInv, TypeOK, LockHeld, FrameInv
  <1>2. PairBegun(request[t])
    BY <1>1 DEF PairsInv, FramePairs
  <1>3. request[t].in \in Buffers /\ request[t].out \in Buffers
    BY <1>1 DEF FrameFollows, Valid, RequestType
  <1>4. QED
    BY <1>1, <1>2, <1>3 DEF FrameType

\* The native transform opens a pair.
LEMMA NativePairs ==
    ASSUME ~ WritesOnce, IInv, PairsInv, NEW t \in Threads, SubmitNative(t)
    PROVE  PairsInv'
  <1>1. PICK k : k = Native(request[t].in, request[t].out)
    OBVIOUS
  <1>2. k.kind = "native" /\ k.src = request[t].in /\ k.dst = request[t].out
    BY <1>1 DEF Native
  <1>3. /\ pc[t] = "submitting" /\ frame.step = 0 /\ tasks' = Append(tasks, Task(t, k, FALSE))
        /\ UNCHANGED <<calls, faults, mutex, request>>
        /\ frame' = [frame EXCEPT !.step = @ + 1, !.event = Len(tasks) + 1,
                                  !.work = IF @ = <<>> THEN @ ELSE Tail(@)]
    BY <1>1, TwiceIsNative DEF SubmitNative, Submit
  <1>4. /\ mutex = t /\ frame \in FrameType
        /\ request[t].in \in Buffers /\ request[t].out \in Buffers
    BY <1>3, ThePair
  <1>5. frame'.step = 1
    BY <1>3, <1>4 DEF FrameType
  <1>6. PICK n \in Nat : n = Len(tasks)
    BY TheQueue
  <1>7. /\ Len(tasks') = n + 1
        /\ PlanEvents' = PlanEvents \union {n + 1} /\ n + 1 \notin Events
        /\ \A e \in Events : tasks'[e] = tasks[e]
        /\ tasks'[n + 1].step = frame.step + 1 /\ ~ tasks'[n + 1].last
        /\ tasks'[n + 1].kind = k.kind
        /\ tasks'[n + 1].src = k.src /\ tasks'[n + 1].dst = k.dst
    BY <1>3, <1>4, <1>6, TheNextTask
  <1>71. tasks'[n + 1].step = 1
    <2>1. PICK q : q = frame.step
      OBVIOUS
    <2>2. q = 0
      BY <1>3, <2>1
    <2>3. tasks'[n + 1].step = q + 1
      BY <1>7, <2>1
    <2>4. QED
      BY <2>2, <2>3
  <1>8. Pairs'
    <2>1. SUFFICES ASSUME NEW e \in PlanEvents'
                   PROVE  /\ tasks'[e].kind # "gather"
                          /\ tasks'[e].src \in Buffers /\ tasks'[e].dst \in Buffers
                          /\ tasks'[e].step = IF tasks'[e].last THEN 2 ELSE 1
                          /\ tasks'[e].last <=> e - 1 \in PlanEvents' /\ ~ tasks'[e - 1].last
                          /\ tasks'[e].last => /\ tasks'[e - 1].dst = tasks'[e].src
                                               /\ tasks'[e].dst = tasks'[e].src
      BY DEF Pairs
    <2>2. CASE e = n + 1
      <3>1. (n + 1) - 1 = n /\ n # n + 1
        OBVIOUS
      <3>2. n \in PlanEvents => tasks[n].last /\ tasks'[n] = tasks[n]
        BY <1>3, <1>6, <1>7 DEF PairsInv, FramePairs, PlanEvents
      <3>3. QED
        BY <1>2, <1>4, <1>7, <1>71, <2>2, <3>1, <3>2
    <2>3. CASE e \in PlanEvents
      <3>1. e - 1 # n + 1 /\ tasks'[e] = tasks[e]
        BY <1>6, <1>7, <2>3, TheQueue DEF PlanEvents
      <3>2. (e - 1 \in PlanEvents' <=> e - 1 \in PlanEvents)
            /\ (e - 1 \in PlanEvents => tasks'[e - 1] = tasks[e - 1])
        BY <1>7, <3>1 DEF PlanEvents
      <3>3. QED
        BY <2>3, <3>1, <3>2 DEF PairsInv, Pairs
    <2>4. QED
      BY <1>7, <2>1, <2>2, <2>3
  <1>9. CallsInOrder'
    BY <1>3, <1>4, CallsKeepOrder DEF PairsInv
  <1>10. FramePairs'
    <2>1. PairBegun(request[t])'
      BY <1>2, <1>3, <1>5, <1>7 DEF PairBegun
    <2>2. \A u \in Threads : mutex' = u => u = t
      BY <1>3, <1>4
    <2>3. QED
      BY <1>5, <2>1, <2>2 DEF FramePairs
  <1>11. QED
    BY <1>3, <1>8, <1>9, <1>10 DEF PairsInv

\* The scaling closes it.
LEMMA ScalePairs ==
    ASSUME IInv, PairsInv, NEW t \in Threads, SubmitScale(t)
    PROVE  PairsInv'
  <1>1. PICK k : k = CopyScaled(request[t].out, request[t].out)
    OBVIOUS
  <1>2. k.kind = "pointwise" /\ k.src = request[t].out /\ k.dst = request[t].out
    BY <1>1 DEF CopyScaled
  <1>3. /\ pc[t] = "submitting" /\ frame.step = 1 /\ SubmitLast(t, k)
        /\ tasks' = Append(tasks, Task(t, k, TRUE)) /\ UNCHANGED faults
        /\ mutex' = NoThread /\ frame' = NoFrame
    BY <1>1 DEF SubmitScale, SubmitLast, Release
  <1>4. /\ mutex = t /\ request[t].in \in Buffers /\ request[t].out \in Buffers
        /\ PairBegun(request[t])
    BY <1>3, ThePair
  <1>6. PICK n \in Nat : n = Len(tasks)
    BY TheQueue
  <1>5. /\ n \in PlanEvents /\ ~ tasks[n].last
        /\ tasks[n].dst = request[t].out /\ tasks[n].src = request[t].in
    BY <1>3, <1>4, <1>6 DEF PairBegun
  <1>7. /\ Len(tasks') = n + 1
        /\ PlanEvents' = PlanEvents \union {n + 1} /\ n + 1 \notin Events
        /\ \A e \in Events : tasks'[e] = tasks[e]
        /\ tasks'[n + 1].step = frame.step + 1 /\ tasks'[n + 1].last
        /\ tasks'[n + 1].kind = k.kind
        /\ tasks'[n + 1].src = k.src /\ tasks'[n + 1].dst = k.dst
    BY <1>3, <1>4, <1>6, TheNextTask
  <1>71. tasks'[n + 1].step = 2
    <2>1. PICK q : q = frame.step
      OBVIOUS
    <2>2. q = 1
      BY <1>3, <2>1
    <2>3. tasks'[n + 1].step = q + 1
      BY <1>7, <2>1
    <2>4. QED
      BY <2>2, <2>3
  <1>8. Pairs'
    <2>1. SUFFICES ASSUME NEW e \in PlanEvents'
                   PROVE  /\ tasks'[e].kind # "gather"
                          /\ tasks'[e].src \in Buffers /\ tasks'[e].dst \in Buffers
                          /\ tasks'[e].step = IF tasks'[e].last THEN 2 ELSE 1
                          /\ tasks'[e].last <=> e - 1 \in PlanEvents' /\ ~ tasks'[e - 1].last
                          /\ tasks'[e].last => /\ tasks'[e - 1].dst = tasks'[e].src
                                               /\ tasks'[e].dst = tasks'[e].src
      BY DEF Pairs
    <2>2. CASE e = n + 1
      <3>1. (n + 1) - 1 = n /\ n # n + 1
        OBVIOUS
      <3>2. tasks'[n] = tasks[n]
        BY <1>5, <1>7 DEF PlanEvents
      <3>3. QED
        BY <1>2, <1>4, <1>5, <1>7, <1>71, <2>2, <3>1, <3>2
    <2>3. CASE e \in PlanEvents
      <3>1. e - 1 # n + 1 /\ tasks'[e] = tasks[e]
        BY <1>6, <1>7, <2>3, TheQueue DEF PlanEvents
      <3>2. (e - 1 \in PlanEvents' <=> e - 1 \in PlanEvents)
            /\ (e - 1 \in PlanEvents => tasks'[e - 1] = tasks[e - 1])
        BY <1>7, <3>1 DEF PlanEvents
      <3>3. QED
        BY <2>3, <3>1, <3>2 DEF PairsInv, Pairs
    <2>4. QED
      BY <1>7, <2>1, <2>2, <2>3
  <1>9. CallsInOrder'
    <2>1. First(n + 1, tasks'[n + 1]) = n
      BY <1>7, <1>71 DEF First
    <2>2. tasks'[n].src = request[t].in
      BY <1>5, <1>7 DEF PlanEvents
    <2>3. QED
      BY <1>2, <1>3, <1>4, <1>6, <2>1, <2>2, CallsGrowInOrder DEF PairsInv
  <1>10. FramePairs'
    <2>1. \A u \in Threads : mutex' # u
      BY <1>3, ThreadsAssumption
    <2>2. \A e \in PlanEvents' : e = Len(tasks') => tasks'[e].last
      BY <1>7
    <2>3. QED
      BY <2>1, <2>2 DEF FramePairs
  <1>11. QED
    BY <1>3, <1>8, <1>9, <1>10 DEF PairsInv

LEMMA InitPairs == Init => PairsInv
  <1> SUFFICES ASSUME Init PROVE PairsInv
    OBVIOUS
  <1>1. DataInv /\ frame = NoFrame /\ mutex = NoThread
    BY InitData DEF Init
  <1>2. PlanEvents = {}
    <2>1. tasks \in Seq(TaskType)
      BY InitInv DEF IInv, TypeOK
    <2>2. DOMAIN tasks = Producers
      BY DEF Init
    <2>3. Events = Producers
      BY <2>1, <2>2, LenProperties DEF Events
    <2>4. QED
      BY <2>3 DEF PlanEvents
  <1>3. QED
    BY <1>1, <1>2, ThreadsAssumption DEF PairsInv, DataInv, Pairs, FramePairs

LEMMA NextPairs ==
    ASSUME ~ WritesOnce, faults' = 0, IInv, PairsInv, [Next]_vars
    PROVE  PairsInv'
  <1>1. ASSUME NEW t \in Threads, NEW in \in Buffers \union {Invalid},
               NEW out \in Buffers \union {Invalid}, NEW onePointer \in BOOLEAN,
               NEW deps \in SUBSET KnownEvents, Call(t, in, out, onePointer, deps)
        PROVE  PairsInv'
    BY <1>1, QuietPairs
  <1>2. ASSUME NEW t \in Threads, HostStep(t) PROVE PairsInv'
    <2>1. CASE Submission(t)
      <3>1. Provider # "portable_sycl"
        BY TwiceIsNative
      <3>2. QED
        BY <2>1, <3>1, NativePairs, ScalePairs
        DEF Submission, BeginAxis, SubmitKernel, SubmitFinalCopy
    <2>2. QED
      BY <1>2, <2>1, QuietPairs DEF HostStep
  <1>3. ASSUME NEW t \in Threads, Throw(t) PROVE FALSE
    BY <1>3 DEF Throw, PairsInv
  <1>4. CASE DestroyBegin \/ FreeAll \/ Device
    BY <1>4, OtherPairs DEF Device
  <1>6. CASE Terminated \/ UNCHANGED vars
    BY <1>6, OtherPairs DEF Terminated
  <1>7. QED
    BY <1>1, <1>2, <1>3, <1>4, <1>6 DEF Next

\* A pair leads from the input of its call to the output too.
LEMMA PairsFlow == ASSUME IInv, PairsInv PROVE FlowInv
  <1>1. SUFFICES ASSUME NEW e \in PlanEvents
                 PROVE  /\ tasks[e].kind # "gather"
                        /\ tasks[First(e, tasks[e])].src \in Buffers
                        /\ tasks[e].last => tasks[e].dst \in Buffers
                        /\ tasks[e].step > 1 =>
                              /\ e - 1 \in PlanEvents
                              /\ ~ tasks[e - 1].last
                              /\ tasks[e - 1].step = tasks[e].step - 1
                              /\ tasks[e - 1].dst = tasks[e].src
                        /\ e - 1 \in PlanEvents /\ ~ tasks[e - 1].last =>
                              tasks[e].step > 1 /\ tasks[e].dst = tasks[e - 1].dst
                        /\ e = Len(tasks) /\ frame.step = 0 => tasks[e].last
    BY DEF FlowInv, Flow, PairsInv
  <1>2. e \in Nat
    BY TheQueue
  <1>3. CASE tasks[e].last
    <2>1. PICK d : d = e - 1
      OBVIOUS
    <2>2. /\ d \in PlanEvents /\ ~ tasks[d].last /\ tasks[d].dst = tasks[e].src
          /\ tasks[e].dst = tasks[e].src /\ tasks[e].step = 2
      BY <1>3, <2>1 DEF PairsInv, Pairs
    <2>3. tasks[d].step = 1 /\ tasks[d].src \in Buffers
      BY <2>2 DEF PairsInv, Pairs
    <2>4. First(e, tasks[e]) = d
      BY <1>2, <2>1, <2>2 DEF First
    <2>5. tasks[e].kind # "gather" /\ tasks[e].dst \in Buffers
      BY DEF PairsInv, Pairs
    <2>6. QED
      BY <1>3, <2>1, <2>2, <2>3, <2>4, <2>5
  <1>4. CASE ~ tasks[e].last
    <2>1. /\ tasks[e].kind # "gather" /\ tasks[e].src \in Buffers /\ tasks[e].step = 1
          /\ ~ (e - 1 \in PlanEvents /\ ~ tasks[e - 1].last)
      BY <1>4 DEF PairsInv, Pairs
    <2>2. First(e, tasks[e]) = e
      BY <1>2, <2>1 DEF First
    <2>3. ~ (e = Len(tasks) /\ frame.step = 0)
      BY <1>4 DEF PairsInv, FramePairs
    <2>4. QED
      BY <1>4, <2>1, <2>2, <2>3
  <1>5. QED
    BY <1>3, <1>4

\* As long as no submission has thrown the kernels of a call follow each other from
\* its input to its output, also of the calls that write the user's output twice
\* (sycl.cpp:670-775).
THEOREM FlowInvariance == Spec => [](faults = 0 => FlowInv)
  <1>1. Spec => []IInv
    BY Invariance
  <1>2. CASE WritesOnce
    <2>1. IInv /\ DataInv => FlowInv
      BY DataFlows
    <2>2. Spec => [](faults = 0 => DataInv)
      BY <1>2, DataInvariance
    <2>3. QED
      BY <1>1, <2>1, <2>2, PTL
  <1>3. CASE ~ WritesOnce
    <2>1. IInv /\ PairsInv => FlowInv
      BY PairsFlow
    <2>2. Init => IInv /\ PairsInv
      BY InitInv, InitPairs
    <2>3. IInv /\ (faults = 0 => PairsInv) /\ [Next]_vars
            => (IInv /\ (faults = 0 => PairsInv))'
      BY <1>3, NextInv, NextPairs, NoFaultBefore
    <2>4. QED
      BY <1>1, <2>1, <2>2, <2>3, PTL DEF Spec
  <1>4. QED
    BY <1>2, <1>3

-----------------------------------------------------------------------------
(* What a number of calls leave in the user's buffers.                      *)

\* Contents of a buffer that no transform is half way through, and what a number
\* of calls leave in all the buffers.
Fills == {d \in Contents : d.stage = 0}
Buffered == [Buffers -> Fills]
AllFresh == [b \in Buffers |-> Fresh(b)]
Replays(F, s) ==
    /\ F \in [0..Len(s) -> Buffered] /\ F[0] = AllFresh
    /\ \A i \in 1..Len(s) : F[i] = Effect(F[i - 1], s[i])

\* A call leaves whole transforms where it found whole transforms.
LEMMA EffectType ==
    ASSUME NEW content \in Buffered, NEW c \in CallType
    PROVE  Effect(content, c) \in Buffered
  <1>1. c.in \in Buffers /\ c.out \in Buffers
    BY DEF CallType
  <1>2. PICK d : d = IF content[c.in] = Garbage THEN Garbage
                     ELSE [content[c.in] EXCEPT !.times = @ + 1]
    OBVIOUS
  <1>3. d \in Fills
    <2>1. content[c.in] \in Fills
      BY <1>1 DEF Buffered
    <2>2. content[c.in].origin \in Buffers \union {"garbage"} /\ content[c.in].times \in Nat
          /\ content[c.in].stage = 0 /\ content[c.in] = [origin |-> content[c.in].origin,
                 times |-> content[c.in].times, stage |-> content[c.in].stage]
      BY <2>1 DEF Fills, Contents
    <2>3. CASE content[c.in] = Garbage
      BY <2>1, <2>3, <1>2
    <2>4. CASE content[c.in] # Garbage
      <3>1. d = [origin |-> content[c.in].origin, times |-> content[c.in].times + 1, stage |-> 0]
        BY <1>2, <2>2, <2>4
      <3>2. QED
        BY <2>2, <3>1 DEF Fills, Contents
    <2>5. QED
      BY <2>3, <2>4
  <1>4. Effect(content, c) = [content EXCEPT ![c.out] = d]
    BY <1>2 DEF Effect
  <1>5. QED
    BY <1>1, <1>3, <1>4 DEF Buffered

LEMMA AllFreshType == AllFresh \in Buffered
  BY DEF AllFresh, Buffered, Fills, Fresh, Contents

\* The fold that QuiescentMemory speaks of goes through these values.
LEMMA FoldReplays ==
    ASSUME NEW s \in Seq(CallType)
    PROVE  \E F : Replays(F, s) /\ F[Len(s)] = FoldLeft(Effect, AllFresh, s)
  <1> DEFINE n == Len(s)
             R(g) == g = [t \in SUBSET (1..n) |->
                            IF t = {} THEN AllFresh ELSE Effect(g[t \ {Max(t)}], s[Max(t)])]
             Step == [i \in 1..n |-> [x \in Buffered |-> Effect(x, s[i])]]
  <1>1. n \in Nat /\ DOMAIN s = 1..n /\ \A i \in 1..n : s[i] \in CallType
    OBVIOUS
  <1>2. Step \in [1..n -> [Buffered -> Buffered]] /\ AllFresh \in Buffered
    BY <1>1, EffectType, AllFreshType
  <1>3. \E g : R(g)
    <2>1. PICK g : FoldsBy(g, n, Buffered, AllFresh, Step)
      <3> HIDE DEF Step, n
      <3> QED BY <1>1, <1>2, FoldExists
    <2>2. ASSUME NEW t \in SUBSET (1..n)
          PROVE  g[t] = IF t = {} THEN AllFresh ELSE Effect(g[t \ {Max(t)}], s[Max(t)])
      <3>1. t # {} => Max(t) \in 1..n
        BY <1>1, MaxIsGreatest
      <3>2. g[t \ {Max(t)}] \in Buffered /\ g[t] = IF t = {}
              THEN AllFresh ELSE Step[Max(t)][g[t \ {Max(t)}]]
        BY <2>1 DEF FoldsBy
      <3> QED BY <3>1, <3>2
    <2>3. DOMAIN g = SUBSET (1..n) /\ g = [t \in DOMAIN g |-> g[t]]
      BY <2>1 DEF FoldsBy
    <2> QED BY <2>2, <2>3
  <1>4. PICK g : R(g) /\ FoldLeft(Effect, AllFresh, s) = g[1..n]
    <2>1. FoldLeft(Effect, AllFresh, s) = (CHOOSE g : R(g))[1..n]
      BY <1>1 DEF FoldLeft, MapThenFoldSet
    <2>2. R(CHOOSE g : R(g))
      <3> HIDE DEF R
      <3> QED BY <1>3
    <2> QED BY <2>1, <2>2
  <1>5. g[{}] = AllFresh
    BY <1>4
  <1>6. ASSUME NEW i \in 1..n, g[1..(i - 1)] \in Buffered
        PROVE  g[1..i] = Step[i][g[1..(i - 1)]]
    <2>1. Max(1..i) = i /\ (1..i) \ {i} = 1..(i - 1) /\ 1..i \in SUBSET (1..n) /\ 1..i # {}
      BY <1>1, MaxOfFirst
    <2>2. g[1..i] = Effect(g[(1..i) \ {Max(1..i)}], s[Max(1..i)])
      BY <2>1, <1>4
    <2>3. g[1..i] = Effect(g[1..(i - 1)], s[i])
      BY <2>1, <2>2
    <2> QED BY <2>3, <1>6
  <1>7. PICK F : Steps(F, n, Buffered, AllFresh, Step) /\ F[n] = g[1..n]
    <2> HIDE DEF Step, n, R
    <2> QED BY <1>1, <1>2, <1>5, <1>6, FoldSteps
  <1>8. ASSUME NEW i \in 1..n PROVE F[i] = Effect(F[i - 1], s[i])
    <2>1. F[i - 1] \in Buffered /\ F[i] = Step[i][F[i - 1]]
      <3>1. i - 1 \in 0..n
        BY <1>1
      <3> HIDE DEF Step, n
      <3> QED BY <1>7, <3>1 DEF Steps
    <2> QED BY <2>1
  <1>9. Replays(F, s)
    BY <1>7, <1>8 DEF Steps, Replays
  <1> QED BY <1>9, <1>7, <1>4

\* No other values do.
LEMMA ReplaysAlike ==
    ASSUME NEW s \in Seq(CallType), NEW F, NEW G, Replays(F, s), Replays(G, s)
    PROVE  F[Len(s)] = G[Len(s)]
  <1> DEFINE Alike == {i \in Nat : i <= Len(s) => F[i] = G[i]}
  <1>1. 0 \in Alike
    BY DEF Replays
  <1>2. ASSUME NEW i \in Nat, i \in Alike PROVE i + 1 \in Alike
    <2> SUFFICES ASSUME i + 1 <= Len(s) PROVE F[i + 1] = G[i + 1]
      OBVIOUS
    <2>1. i + 1 \in 1..Len(s) /\ (i + 1) - 1 = i
      OBVIOUS
    <2>2. F[i + 1] = Effect(F[i], s[i + 1]) /\ G[i + 1] = Effect(G[i], s[i + 1])
      BY <2>1 DEF Replays
    <2>3. F[i] = G[i]
      BY <1>2, <2>1
    <2> QED BY <2>2, <2>3
  <1>3. Len(s) \in Alike
    <2> HIDE DEF Alike
    <2> QED BY <1>1, <1>2, ClosedUnderSuccessor
  <1> QED BY <1>3

\* One more call.
LEMMA ReplayGrows ==
    ASSUME NEW s \in Seq(CallType), NEW c \in CallType, NEW F, Replays(F, s)
    PROVE  \E G : Replays(G, Append(s, c)) /\ \A i \in 0..Len(s) : G[i] = F[i]
  <1>1. PICK n \in Nat : n = Len(s)
    OBVIOUS
  <1>2. /\ Len(Append(s, c)) = n + 1 /\ Append(s, c)[n + 1] = c
        /\ \A i \in 1..n : Append(s, c)[i] = s[i]
    BY <1>1, Appended
  <1>3. PICK x : x = Effect(F[n], c) /\ x \in Buffered
    <2>1. F[n] \in Buffered
      BY <1>1 DEF Replays
    <2> QED BY <2>1, EffectType
  <1> DEFINE G == [i \in 0..(n + 1) |-> IF i = n + 1 THEN x ELSE F[i]]
  <1>4. G \in [0..(n + 1) -> Buffered] /\ G[0] = AllFresh /\ \A i \in 0..n : G[i] = F[i]
    BY <1>1, <1>3 DEF Replays
  <1>5. ASSUME NEW i \in 1..(n + 1) PROVE G[i] = Effect(G[i - 1], Append(s, c)[i])
    <2>0. i = n + 1 \/ i \in 1..n
      OBVIOUS
    <2>1. CASE i = n + 1
      <3>1. G[i] = x /\ i - 1 = n /\ G[n] = F[n]
        BY <1>4, <2>1
      <3> QED BY <3>1, <2>1, <1>2, <1>3
    <2>2. CASE i \in 1..n
      <3>1. i - 1 \in 0..n /\ i \in 0..n
        BY <2>2
      <3>2. G[i - 1] = F[i - 1] /\ G[i] = F[i] /\ F[i] = Effect(F[i - 1], s[i])
        BY <3>1, <2>2, <1>1, <1>4 DEF Replays
      <3> QED BY <3>2, <2>2, <1>2
    <2> HIDE DEF G
    <2> QED BY <2>0, <2>1, <2>2
  <1> HIDE DEF G
  <1>6. Replays(G, Append(s, c))
    BY <1>2, <1>4, <1>5 DEF Replays
  <1> QED BY <1>1, <1>4, <1>6

-----------------------------------------------------------------------------
(* Kernels that complete, in terms of the calls that are replayed.          *)

\* The call that is half way through is that of the kernel that runs.
LEMMA FrontIsBefore ==
    ASSUME IInv, faults = 0, NEW e \in PlanEvents, e \in running,
           NEW f \in PlanEvents, AtFront(f)
    PROVE  f = e - 1
  <1>1. f \in Nat /\ e \in Nat /\ PlanEvents = (Len(Produced) + 1)..Len(tasks)
        /\ Len(Produced) \in Nat /\ Len(tasks) \in Nat
    BY TheQueue
  <1>2. f < e
    BY TheFront DEF AtFront
  <1>3. ~ (f + 1 < e)
    <2>1. f + 1 < e => f + 1 \in PlanEvents
      BY <1>1
    <2>2. QED
      BY <2>1, TheFront DEF AtFront
  <1>4. QED
    BY <1>1, <1>2, <1>3

\* A kernel finds in its source the input of its call, as the calls before it
\* left it, so many kernels further.
LEMMA FrontSource ==
    ASSUME IInv, FlowInv, NEW e \in PlanEvents, e \in running,
           NEW F, NEW n, F[n] \in Buffered, Shows(F, n)
    PROVE  mem[tasks[e].src] = Partial(F[n][Input(e)], tasks[e].step - 1)
  <1>0. faults = 0
    BY DEF FlowInv
  <1>1. tasks[e].step \in Nat \ {0} /\ e \in Nat /\ tasks[e].step - 1 \in Nat
    BY TheFirst, TheQueue
  <1>2. PICK d : d = F[n][Input(e)]
    OBVIOUS
  <1>3. d \in Contents /\ d.stage = 0
    BY <1>2, TheInput DEF Buffered, Fills
  <1>4. CASE tasks[e].step = 1
    <2>1. PICK b \in Buffers : b = Input(e) /\ b = tasks[e].src
      BY <1>4, TheInput
    <2>2. Filled(b)
      BY <1>0, <2>1, InputFilled DEF Filled, Begun
    <2>3. ASSUME NEW f \in PlanEvents, AtFront(f) PROVE tasks[f].dst # b
      <3>1. f = e - 1
        BY <1>0, <2>3, FrontIsBefore
      <3>2. ~ tasks[f].last /\ ~ (tasks[e].step > 1)
        BY <1>4, <2>3 DEF AtFront
      <3>3. QED
        BY <3>1, <3>2 DEF FlowInv, Flow
    <2>4. mem[b] = d
      BY <1>2, <2>1, <2>2, <2>3 DEF Shows
    <2>5. Partial(d, 0) = d /\ tasks[e].step - 1 = 0
      BY <1>3, <1>4, PartialFacts
    <2>6. QED
      BY <1>2, <2>1, <2>4, <2>5
  <1>5. CASE tasks[e].step > 1
    <2>1. PICK f : f = e - 1
      OBVIOUS
    <2>2. /\ f \in PlanEvents /\ ~ tasks[f].last /\ tasks[f].dst = tasks[e].src
          /\ tasks[f].step = tasks[e].step - 1
      BY <1>5, <2>1 DEF FlowInv, Flow
    <2>3. f < e /\ f + 1 = e
      BY <1>1, <2>1
    <2>4. AtFront(f)
      BY <1>0, <2>2, <2>3, TheFront DEF AtFront
    <2>5. mem[tasks[f].dst] = Partial(F[n][Input(f)], tasks[f].step)
      BY <2>2, <2>4 DEF Shows, Input
    <2>6. Input(f) = Input(e)
      BY <1>5, <2>1, TheInput
    <2>7. QED
      BY <2>2, <2>5, <2>6
  <1>6. QED
    BY <1>1, <1>4, <1>5

\* No call is half way through in a buffer that the kernel at work leaves alone.
LEMMA OtherBuffers ==
    ASSUME IInv, FlowInv, NEW e \in PlanEvents, e \in running, NEW b \in Buffers,
           b # tasks[e].dst
    PROVE  \A f \in PlanEvents : AtFront(f) => tasks[f].dst # b
  <1>1. SUFFICES ASSUME NEW f \in PlanEvents, AtFront(f), tasks[f].dst = b PROVE FALSE
    OBVIOUS
  <1>2. f = e - 1
    BY <1>1, FrontIsBefore DEF FlowInv
  <1>3. ~ tasks[f].last
    BY <1>1 DEF AtFront
  <1>4. QED
    BY <1>1, <1>2, <1>3 DEF FlowInv, Flow

\* Completing a task leaves the queue as it is.
LEMMA FinishQueue ==
    ASSUME IInv, NEW e, Finish(e)
    PROVE  /\ PlanEvents' = PlanEvents /\ tasks' = tasks /\ calls' = calls
           /\ e \in running /\ e \in Events /\ done' = done \union {e}
           /\ \A f \in PlanEvents : Input(f)' = Input(f)
           /\ e \in PlanEvents => \A b \in Buffers : Filled(b)' <=> Filled(b)
  <1>1. UNCHANGED <<tasks, calls>> /\ e \in running /\ done' = done \union {e}
    BY DEF Finish
  <1>2. PlanEvents' = PlanEvents
    BY <1>1 DEF PlanEvents, Events, Producers
  <1>3. \A f \in PlanEvents : Input(f)' = Input(f)
    BY <1>1 DEF Input
  <1>4. Producers' = Producers
    BY DEF Producers
  <1>5. e \in PlanEvents => Producers \ done' = Producers \ done
    BY <1>1 DEF PlanEvents
  <1>6. e \in PlanEvents => \A b \in Buffers : Filled(b)' <=> Filled(b)
    BY <1>4, <1>5 DEF Filled
  <1>7. QED
    BY <1>1, <1>2, <1>3, <1>6, TheQueue

\* What the kernel leaves, in terms of the replay.
LEMMA ReplayedKernel ==
    ASSUME IInv, FlowInv, NEW e \in PlanEvents, Finish(e),
           NEW F, NEW n, F[n] \in Buffered, Shows(F, n)
    PROVE  /\ mem'[tasks[e].dst] = Left(F[n][Input(e)], e)
           /\ \A l \in Locations : l # tasks[e].dst => mem'[l] = mem[l]
  <1>1. PICK d : d = F[n][Input(e)]
    OBVIOUS
  <1>2. d \in Contents /\ d.stage = 0
    BY <1>1, TheInput DEF Buffered, Fills
  <1>3. e \in running /\ faults = 0
    BY DEF Finish, FlowInv
  <1>4. mem[tasks[e].src] = Partial(d, tasks[e].step - 1)
    BY <1>1, <1>3, FrontSource
  <1>5. tasks[e].kind = "gather" => tasks[e].src # tasks[e].dst
    BY DEF FlowInv, Flow
  <1>6. mem' = [mem EXCEPT ![tasks[e].dst] = Left(d, e)]
    BY <1>2, <1>3, <1>4, <1>5, KernelLeaves
  <1>7. QED
    BY <1>1, <1>6, TheInput, TheQueue

\* A kernel that is not the last one of its call: the same calls are complete.
LEMMA PartReplay ==
    ASSUME IInv, FlowInv, NEW e \in PlanEvents, ~ tasks[e].last, Finish(e),
           NEW F, NEW n, F[n] \in Buffered, Shows(F, n)
    PROVE  Shows(F, n)'
  <1>1. /\ PlanEvents' = PlanEvents /\ tasks' = tasks /\ calls' = calls /\ e \in running
        /\ done' = done \union {e} /\ \A f \in PlanEvents : Input(f)' = Input(f)
        /\ \A b \in Buffers : Filled(b)' <=> Filled(b)
    BY FinishQueue
  <1>2. \A i \in DOMAIN calls' : calls'[i].last \in done' <=> i <= n
    <2>1. \A i \in DOMAIN calls : calls[i].last # e
      BY DEF FlowInv, CallsInOrder
    <2>2. QED
      BY <1>1, <2>1 DEF Shows
  <1>3. \A b \in Buffers : ~ Filled(b)' => F[n][b] = Fresh(b)
    BY <1>1 DEF Shows
  <1>4. ASSUME NEW b \in Buffers, Filled(b)',
               \A f \in PlanEvents' : AtFront(f)' => tasks'[f].dst # b
        PROVE  mem'[b] = F[n][b]
    <2>1. AtFront(e)'
      <3>1. e + 1 \notin done'
        <4>1. e \in Nat /\ PlanEvents = (Len(Produced) + 1)..Len(tasks)
              /\ Len(Produced) \in Nat /\ Len(tasks) \in Nat /\ done \subseteq 1..Len(tasks)
          BY TheQueue
        <4>2. e + 1 \in PlanEvents => e + 1 \notin done
          BY <1>1, <4>1, TheFront DEF FlowInv
        <4>3. e + 1 \in done => e + 1 \in PlanEvents
          BY <4>1
        <4>4. QED
          BY <1>1, <4>1, <4>2, <4>3
      <3>2. QED
        BY <1>1, <3>1 DEF AtFront
    <2>2. b # tasks[e].dst
      BY <1>1, <1>4, <2>1
    <2>3. mem'[b] = mem[b]
      BY <2>2, ReplayedKernel DEF Locations
    <2>4. \A f \in PlanEvents : AtFront(f) => tasks[f].dst # b
      BY <1>1, <2>2, OtherBuffers
    <2>5. QED
      BY <1>1, <1>4, <2>3, <2>4 DEF Shows
  <1>5. ASSUME NEW f \in PlanEvents', AtFront(f)'
        PROVE  mem'[tasks'[f].dst] = Partial(F[n][Input(f)'], tasks'[f].step)
    <2>1. f = e
      BY <1>1, <1>5, NewFront DEF FlowInv
    <2>2. mem'[tasks[e].dst] = Left(F[n][Input(e)], e)
      BY ReplayedKernel
    <2>3. Left(F[n][Input(e)], e) = Partial(F[n][Input(e)], tasks[e].step)
      BY DEF Left, Partial
    <2>4. QED
      BY <1>1, <2>1, <2>2, <2>3
  <1>6. QED
    BY <1>2, <1>3, <1>4, <1>5 DEF Shows, Input

\* The last one: one more call is complete, and the buffers hold what it leaves.
LEMMA CallReplay ==
    ASSUME IInv, FlowInv, NEW e \in PlanEvents, tasks[e].last, Finish(e),
           NEW F, Replays(F, calls), NEW n \in 0..Len(calls), Shows(F, n)
    PROVE  n + 1 \in 0..Len(calls) /\ Shows(F, n + 1)'
  <1>1. /\ PlanEvents' = PlanEvents /\ tasks' = tasks /\ calls' = calls /\ e \in running
        /\ done' = done \union {e} /\ \A f \in PlanEvents : Input(f)' = Input(f)
        /\ \A b \in Buffers : Filled(b)' <=> Filled(b)
    BY FinishQueue
  <1>2. PICK m \in Nat : m = Len(calls) /\ DOMAIN calls = 1..m
    BY LenProperties DEF IInv, TypeOK
  <1>3. F[n] \in Buffered /\ F \in [0..m -> Buffered] /\ n \in Nat
    BY <1>2 DEF Replays
  <1>4. PICK i \in DOMAIN calls : calls[i].last = e
    BY DEF FlowInv, CallsInOrder
  <1>5. e \notin done /\ e \in Begun /\ faults = 0
    BY <1>1, TheFront DEF FlowInv, Begun
  <1>6. ASSUME NEW j \in DOMAIN calls
        PROVE  /\ calls[j].last \in done <=> j < i
               /\ calls[j].last = e <=> j = i
    <2>1. calls[j].last \in PlanEvents /\ calls[j].last \in Nat /\ e \in Nat
          /\ i \in Nat /\ j \in Nat
      BY <1>2, TheQueue DEF FlowInv, CallsInOrder
    <2>2. j < i => calls[j].last < e
      BY <1>4 DEF FlowInv, CallsInOrder
    <2>3. i < j => e < calls[j].last
      BY <1>4 DEF FlowInv, CallsInOrder
    <2>4. calls[j].last \in done <=> calls[j].last < e
      BY <1>1, <1>5, <2>1, TheFront
    <2>5. QED
      BY <1>4, <2>1, <2>2, <2>3, <2>4
  <1>7. i = n + 1 /\ n + 1 \in 1..m
    <2>1. \A j \in 1..m : j < i <=> j <= n
      BY <1>2, <1>6 DEF Shows
    <2>2. i \in 1..m
      BY <1>2
    <2>3. ~ (i <= n)
      BY <2>1, <2>2
    <2>4. ~ (n + 1 < i)
      <3>1. n + 1 < i => n + 1 \in 1..m
        BY <1>3, <2>2
      <3>2. QED
        BY <1>3, <2>1, <3>1
    <2>5. QED
      BY <1>3, <2>2, <2>3, <2>4
  <1>8. /\ calls[n + 1].out = tasks[e].dst /\ calls[n + 1].in = Input(e)
        /\ tasks[e].dst \in Buffers
    <2>1. calls[i].out = tasks[e].dst /\ calls[i].in = Input(e)
      BY <1>4 DEF FlowInv, CallsInOrder, Input
    <2>2. QED
      BY <1>7, <2>1 DEF FlowInv, Flow
  <1>9. PICK d : d = F[n][Input(e)] /\ d \in Contents /\ d.stage = 0
    BY <1>3, TheInput DEF Buffered, Fills
  <1>10. /\ F[n + 1][tasks[e].dst] = Left(d, e)
         /\ \A b \in Buffers : b # tasks[e].dst => F[n + 1][b] = F[n][b]
    <2>1. (n + 1) - 1 = n
      BY <1>3
    <2>2. F[n + 1] = Effect(F[n], calls[n + 1])
      BY <1>2, <1>7, <2>1 DEF Replays
    <2>3. PICK x : x = IF d = Garbage THEN Garbage ELSE [d EXCEPT !.times = @ + 1]
      OBVIOUS
    <2>4. F[n + 1] = [F[n] EXCEPT ![tasks[e].dst] = x]
      BY <1>8, <1>9, <2>2, <2>3 DEF Effect
    <2>5. DOMAIN F[n] = Buffers
      BY <1>3 DEF Buffered
    <2>6. x = Left(d, e)
      <3>1. d = [origin |-> d.origin, times |-> d.times, stage |-> 0]
        BY <1>9 DEF Contents
      <3>2. [d EXCEPT !.times = @ + 1] = Whole(d)
        BY <3>1 DEF Whole
      <3>3. QED
        BY <2>3, <3>2 DEF Left
    <2>7. QED
      BY <1>8, <2>4, <2>5, <2>6
  <1>11. /\ mem'[tasks[e].dst] = Left(d, e)
         /\ \A l \in Locations : l # tasks[e].dst => mem'[l] = mem[l]
    BY <1>3, <1>9, ReplayedKernel
  <1>12. \A j \in DOMAIN calls' : calls'[j].last \in done' <=> j <= n + 1
    <2>1. ASSUME NEW j \in DOMAIN calls PROVE calls[j].last \in done' <=> j <= n + 1
      <3>1. calls[j].last \in done' <=> (j < i \/ j = i)
        BY <1>1, <1>6
      <3>2. j \in Nat
        BY <1>2
      <3>3. QED
        BY <1>3, <1>7, <3>1, <3>2
    <2>2. QED
      BY <1>1, <2>1
  <1>13. ASSUME NEW b \in Buffers, ~ Filled(b)' PROVE F[n + 1][b] = Fresh(b)
    <2>1. PICK p \in Producers \ done : Produced[p] = b
      BY <1>1, <1>13 DEF Filled
    <2>2. b # tasks[e].dst
      BY <1>5, <2>1, InputFilled
    <2>3. F[n][b] = Fresh(b)
      BY <1>1, <1>13 DEF Shows
    <2>4. QED
      BY <1>10, <2>2, <2>3
  <1>14. ASSUME NEW b \in Buffers, Filled(b)' PROVE mem'[b] = F[n + 1][b]
    <2>1. CASE b = tasks[e].dst
      BY <1>10, <1>11, <2>1
    <2>2. CASE b # tasks[e].dst
      <3>1. mem'[b] = mem[b] /\ F[n + 1][b] = F[n][b]
        BY <1>10, <1>11, <2>2 DEF Locations
      <3>2. \A f \in PlanEvents : AtFront(f) => tasks[f].dst # b
        BY <1>1, <2>2, OtherBuffers
      <3>3. mem[b] = F[n][b]
        BY <1>1, <1>14, <3>2 DEF Shows
      <3>4. QED
        BY <3>1, <3>3
    <2>3. QED
      BY <2>1, <2>2
  <1>15. \A f \in PlanEvents' : ~ AtFront(f)'
    BY <1>1, <1>5, NewFront
  <1>16. n + 1 \in 0..Len(calls)
    BY <1>2, <1>7
  <1>17. QED
    BY <1>12, <1>13, <1>14, <1>15, <1>16 DEF Shows

\* A kernel of the program fills a buffer that no complete call has used.
LEMMA OwnReplay ==
    ASSUME IInv, FlowInv, OwnKernelsApart, NEW p \in Producers, Finish(p),
           NEW F, NEW n, Shows(F, n)
    PROVE  Shows(F, n)'
  <1>1. /\ PlanEvents' = PlanEvents /\ tasks' = tasks /\ calls' = calls
        /\ \A f \in PlanEvents : Input(f)' = Input(f)
    BY FinishQueue
  <1>2. /\ done' = done \union {p} /\ p \notin done /\ Produced[p] \in Buffers
        /\ mem' = [mem EXCEPT ![Produced[p]] = Fresh(Produced[p])]
    BY OwnFinish DEF FlowInv
  <1>3. /\ mem'[Produced[p]] = Fresh(Produced[p])
        /\ \A l \in Locations : l # Produced[p] => mem'[l] = mem[l]
    BY <1>2, TheQueue DEF Locations
  <1>4. p \notin PlanEvents /\ \A f \in PlanEvents : f + 1 # p
    BY TheQueue
  <1>5. \A f \in PlanEvents : AtFront(f)' <=> AtFront(f)
    BY <1>1, <1>2, <1>4 DEF AtFront
  <1>6. Producers' = Producers
    BY DEF Producers
  <1>7. \A i \in DOMAIN calls' : calls'[i].last \in done' <=> i <= n
    <2>1. \A i \in DOMAIN calls : calls[i].last # p
      BY <1>4 DEF FlowInv, CallsInOrder
    <2>2. QED
      BY <1>1, <1>2, <2>1 DEF Shows
  <1>8. \A b \in Buffers : ~ Filled(b)' => F[n][b] = Fresh(b)
    BY <1>2, <1>6 DEF Shows, Filled
  <1>9. ASSUME NEW b \in Buffers, Filled(b)',
               \A f \in PlanEvents' : AtFront(f)' => tasks'[f].dst # b
        PROVE  mem'[b] = F[n][b]
    <2>1. CASE b = Produced[p]
      <3>1. ~ Filled(b)
        BY <1>2, <2>1 DEF Filled
      <3>2. QED
        BY <1>3, <2>1, <3>1 DEF Shows
    <2>2. CASE b # Produced[p]
      <3>1. Filled(b)
        BY <1>2, <1>6, <1>9, <2>2 DEF Filled
      <3>2. \A f \in PlanEvents : AtFront(f) => tasks[f].dst # b
        BY <1>1, <1>5, <1>9
      <3>3. mem'[b] = mem[b]
        BY <1>3, <2>2 DEF Locations
      <3>4. QED
        BY <3>1, <3>2, <3>3 DEF Shows
    <2>3. QED
      BY <2>1, <2>2
  <1>10. ASSUME NEW f \in PlanEvents', AtFront(f)'
         PROVE  mem'[tasks'[f].dst] = Partial(F[n][Input(f)'], tasks'[f].step)
    <2>1. f \in PlanEvents /\ AtFront(f) /\ f \in Begun /\ faults = 0
      BY <1>1, <1>5, <1>10 DEF AtFront, Begun, FlowInv
    <2>2. Produced[p] # tasks[f].dst
      BY <1>2, <2>1, InputFilled
    <2>3. mem'[tasks[f].dst] = mem[tasks[f].dst]
      BY <1>3, <2>1, <2>2, TheInput
    <2>4. mem[tasks[f].dst] = Partial(F[n][Input(f)], tasks[f].step)
      BY <2>1 DEF Shows, Input
    <2>5. QED
      BY <1>1, <2>1, <2>3, <2>4
  <1>11. QED
    BY <1>7, <1>8, <1>9, <1>10 DEF Shows, Input

-----------------------------------------------------------------------------
(* The buffers hold what the complete calls leave, in the order of the log. *)

\* Some number of calls are complete, and the buffers hold what they leave.
ReplayInv == \E F, n : Replays(F, calls) /\ n \in 0..Len(calls) /\ Shows(F, n)

\* A task that no other task depends on yet changes nothing.
LEMMA ShowsKept ==
    ASSUME IInv, UNCHANGED <<done, mem>>,
           PlanEvents \subseteq PlanEvents',
           \A e \in PlanEvents' : e \notin PlanEvents => e \notin done,
           \A e \in Events : tasks'[e] = tasks[e],
           NEW F, NEW G, NEW n, G[n] = F[n], Shows(F, n),
           \A i \in DOMAIN calls' : calls'[i].last \in done <=> i <= n
    PROVE  Shows(G, n)'
  <1>1. Producers' = Producers
    BY DEF Producers
  <1>2. \A b \in Buffers : Filled(b)' <=> Filled(b)
    BY <1>1 DEF Filled
  <1>3. \A f \in PlanEvents' : AtFront(f)' => f \in PlanEvents
    BY DEF AtFront
  <1>4. ASSUME NEW f \in PlanEvents
        PROVE  tasks'[f] = tasks[f] /\ Input(f)' = Input(f) /\ (AtFront(f)' <=> AtFront(f))
    <2>1. tasks'[f] = tasks[f] /\ First(f, tasks[f]) \in Events
      BY TheFirst DEF PlanEvents
    <2>2. First(f, tasks[f])' = First(f, tasks[f])
      BY <2>1 DEF First
    <2>3. Input(f)' = Input(f)
      BY <2>1, <2>2 DEF Input
    <2>4. AtFront(f)' <=> AtFront(f)
      BY <2>1 DEF AtFront
    <2>5. QED
      BY <2>1, <2>3, <2>4
  <1>5. ASSUME NEW b \in Buffers, Filled(b)',
               \A f \in PlanEvents' : AtFront(f)' => tasks'[f].dst # b
        PROVE  mem'[b] = G[n][b]
    <2>1. Filled(b) /\ \A f \in PlanEvents : AtFront(f) => tasks[f].dst # b
      BY <1>2, <1>4, <1>5
    <2>2. QED
      BY <2>1 DEF Shows
  <1>6. ASSUME NEW f \in PlanEvents', AtFront(f)'
        PROVE  mem'[tasks'[f].dst] = Partial(G[n][Input(f)'], tasks'[f].step)
    <2>1. f \in PlanEvents /\ AtFront(f) /\ tasks'[f] = tasks[f] /\ Input(f)' = Input(f)
      BY <1>3, <1>4, <1>6
    <2>2. QED
      BY <2>1 DEF Shows, Input
  <1>7. \A b \in Buffers : ~ Filled(b)' => G[n][b] = Fresh(b)
    BY <1>2 DEF Shows
  <1>8. QED
    BY <1>5, <1>6, <1>7 DEF Shows, Input

\* Steps that submit nothing and complete nothing.
LEMMA QuietReplay ==
    ASSUME IInv, ReplayInv, UNCHANGED <<tasks, calls, done, mem>>
    PROVE  ReplayInv'
  <1>1. PICK F, n : Replays(F, calls) /\ n \in 0..Len(calls) /\ Shows(F, n)
    BY DEF ReplayInv
  <1>2. PlanEvents' = PlanEvents
    BY DEF PlanEvents, Events, Producers
  <1>3. \A i \in DOMAIN calls' : calls'[i].last \in done <=> i <= n
    BY <1>1 DEF Shows
  <1>4. Shows(F, n)'
    BY <1>1, <1>2, <1>3, ShowsKept
  <1>5. QED
    BY <1>1, <1>4 DEF ReplayInv

\* A submission, which is the last one of its call or not.
LEMMA NewTaskReplay ==
    ASSUME IInv, ReplayInv, NEW t \in Threads, NEW k, mutex = t, Submit(t, k)
    PROVE  ReplayInv'
  <1>1. PICK F, n : Replays(F, calls) /\ n \in 0..Len(calls) /\ Shows(F, n)
    BY DEF ReplayInv
  <1>2. tasks' = Append(tasks, Task(t, k, FALSE)) /\ UNCHANGED <<calls, done, mem>>
    BY DEF Submit
  <1>3. /\ PlanEvents' = PlanEvents \union {Len(tasks) + 1} /\ Len(tasks) + 1 \notin Events
        /\ \A e \in Events : tasks'[e] = tasks[e]
    BY <1>2, TheNextTask
  <1>4. \A e \in PlanEvents' : e \notin PlanEvents => e \notin done
    BY <1>3, TheQueue
  <1>5. \A i \in DOMAIN calls' : calls'[i].last \in done <=> i <= n
    BY <1>1, <1>2 DEF Shows
  <1>6. Shows(F, n)'
    BY <1>1, <1>2, <1>3, <1>4, <1>5, ShowsKept
  <1>7. QED
    BY <1>1, <1>2, <1>6 DEF ReplayInv

LEMMA NewCallReplay ==
    ASSUME IInv, ReplayInv, NEW t \in Threads, NEW k, pc[t] = "submitting", SubmitLast(t, k)
    PROVE  ReplayInv'
  <1>1. PICK F, n : Replays(F, calls) /\ n \in 0..Len(calls) /\ Shows(F, n)
    BY DEF ReplayInv
  <1>2. /\ mutex = t /\ request[t] \in RequestType /\ Valid(request[t])
    BY DEF IInv, TypeOK, LockHeld, FrameInv, FrameFollows
  <1>3. PICK c : c = [id |-> request[t].id, in |-> request[t].in, out |-> request[t].out,
                      last |-> Len(tasks) + 1]
    OBVIOUS
  <1>4. c \in CallType /\ c.last = Len(tasks) + 1
    BY <1>2, <1>3, TheQueue DEF CallType, RequestType, Valid
  <1>5. /\ tasks' = Append(tasks, Task(t, k, TRUE)) /\ UNCHANGED <<done, mem>>
        /\ calls \in Seq(CallType) /\ calls' = Append(calls, c)
    BY <1>3 DEF SubmitLast, IInv, TypeOK
  <1>6. /\ PlanEvents' = PlanEvents \union {Len(tasks) + 1} /\ Len(tasks) + 1 \notin Events
        /\ \A e \in Events : tasks'[e] = tasks[e]
    BY <1>2, <1>5, TheNextTask
  <1>7. \A e \in PlanEvents' : e \notin PlanEvents => e \notin done
    BY <1>6, TheQueue
  <1>8. PICK m \in Nat : m = Len(calls)
    BY <1>5, LenProperties
  <1>9. /\ DOMAIN calls = 1..m /\ Len(calls') = m + 1 /\ DOMAIN calls' = 1..(m + 1)
        /\ \A i \in 1..m : calls'[i] = calls[i]
        /\ calls'[m + 1] = c
    BY <1>4, <1>5, <1>8, Appended, LenProperties
  <1>10. ASSUME NEW i \in DOMAIN calls' PROVE calls'[i].last \in done <=> i <= n
    <2>1. i \in 1..m \/ i = m + 1
      BY <1>9
    <2>2. CASE i \in 1..m
      BY <1>1, <1>9, <2>2 DEF Shows
    <2>3. CASE i = m + 1
      <3>1. calls'[i].last \notin done
        BY <1>4, <1>6, <1>9, <2>3, TheQueue
      <3>2. ~ (i <= n)
        BY <1>1, <1>8, <2>3
      <3>3. QED
        BY <3>1, <3>2
    <2>4. QED
      BY <2>1, <2>2, <2>3
  <1>11. PICK G : Replays(G, calls') /\ \A i \in 0..m : G[i] = F[i]
    BY <1>1, <1>4, <1>5, <1>8, ReplayGrows
  <1>12. G[n] = F[n] /\ n \in 0..Len(calls')
    BY <1>1, <1>8, <1>9, <1>11
  <1>13. Shows(G, n)'
    BY <1>1, <1>5, <1>6, <1>7, <1>10, <1>12, ShowsKept
  <1>14. QED
    BY <1>11, <1>12, <1>13 DEF ReplayInv

\* A task that completes, of the program or of the plan.
LEMMA FinishReplay ==
    ASSUME IInv, FlowInv, OwnKernelsApart, ReplayInv, NEW e \in Events, Finish(e)
    PROVE  ReplayInv'
  <1>1. PICK F, n : Replays(F, calls) /\ n \in 0..Len(calls) /\ Shows(F, n)
    BY DEF ReplayInv
  <1>2. calls' = calls /\ F[n] \in Buffered
    BY <1>1 DEF Finish, Replays
  <1>3. CASE e \in Producers
    BY <1>1, <1>2, <1>3, OwnReplay DEF ReplayInv
  <1>4. CASE e \in PlanEvents /\ ~ tasks[e].last
    <2>1. Shows(F, n)'
      BY <1>1, <1>2, <1>4, PartReplay
    <2>2. QED
      BY <1>1, <1>2, <2>1 DEF ReplayInv
  <1>5. CASE e \in PlanEvents /\ tasks[e].last
    <2>1. n + 1 \in 0..Len(calls) /\ Shows(F, n + 1)'
      BY <1>1, <1>5, CallReplay
    <2>2. PICK m : m = n + 1
      OBVIOUS
    <2>3. m \in 0..Len(calls') /\ Shows(F, m)'
      BY <1>2, <2>1, <2>2
    <2>4. QED
      BY <1>1, <1>2, <2>3 DEF ReplayInv
  <1>6. QED
    BY <1>3, <1>4, <1>5 DEF PlanEvents

LEMMA InitReplay == Init => ReplayInv
  <1> SUFFICES ASSUME Init PROVE ReplayInv
    OBVIOUS
  <1>1. PlanEvents = {}
    <2>1. tasks \in Seq(TaskType)
      BY InitInv DEF IInv, TypeOK
    <2>2. DOMAIN tasks = Producers
      BY DEF Init
    <2>3. Events = Producers
      BY <2>1, <2>2, LenProperties DEF Events
    <2>4. QED
      BY <2>3 DEF PlanEvents
  <1>2. calls = <<>> /\ DOMAIN calls = {} /\ Len(calls) = 0 /\ done = {}
    BY DEF Init
  <1> DEFINE F == [i \in 0..0 |-> AllFresh]
  <1>3. F \in [0..0 -> Buffered] /\ F[0] = AllFresh
    BY AllFreshType
  <1>4. Replays(F, calls)
    <2>1. 1..0 = {}
      OBVIOUS
    <2> HIDE DEF F
    <2>2. QED
      BY <1>2, <1>3, <2>1 DEF Replays
  <1>5. \A b \in Buffers : F[0][b] = Fresh(b)
    BY <1>3 DEF AllFresh
  <1>6. \A b \in Buffers : Filled(b) => mem[b] = Fresh(b)
    BY <1>2, BuffersAssumption DEF Init, Filled, Locations
  <1> HIDE DEF F
  <1>7. Shows(F, 0)
    BY <1>1, <1>2, <1>5, <1>6 DEF Shows
  <1>8. 0 \in 0..Len(calls)
    BY <1>2
  <1>9. QED
    BY <1>4, <1>7, <1>8 DEF ReplayInv

LEMMA NextReplay ==
    ASSUME OwnKernelsApart, faults' = 0, IInv, FlowInv, ReplayInv, [Next]_vars
    PROVE  ReplayInv'
  <1>1. ASSUME NEW t \in Threads, NEW in, NEW out, NEW onePointer, NEW deps,
               Call(t, in, out, onePointer, deps)
        PROVE  ReplayInv'
    BY <1>1, QuietReplay DEF Call
  <1>2. ASSUME NEW t \in Threads, Submission(t) PROVE ReplayInv'
    <2>1. CASE BeginAxis(t)
      BY <2>1, QuietReplay DEF BeginAxis
    <2>2. ASSUME pc[t] = "submitting", NEW k, Submit(t, k) \/ SubmitLast(t, k)
          PROVE  ReplayInv'
      <3>1. mutex = t
        BY <2>2 DEF IInv, LockHeld
      <3>2. QED
        BY <2>2, <3>1, NewTaskReplay, NewCallReplay
    <2>3. QED
      BY <1>2, <2>1, <2>2, SubmissionShape
  <1>3. ASSUME NEW t \in Threads, HostStep(t) PROVE ReplayInv'
    BY <1>2, <1>3, QuietReplay DEF HostStep, Reject, Enter
  <1>4. ASSUME NEW t \in Threads, Throw(t) PROVE FALSE
    BY <1>4 DEF Throw, FlowInv
  <1>5. CASE DestroyBegin \/ FreeAll \/ Terminated \/ UNCHANGED vars
    BY <1>5, QuietReplay DEF DestroyBegin, FreeAll, Terminated, vars
  <1>6. ASSUME NEW e \in Events, Start(e) \/ Finish(e) PROVE ReplayInv'
    BY <1>6, QuietReplay, FinishReplay DEF Start
  <1>7. QED
    BY <1>1, <1>3, <1>4, <1>5, <1>6 DEF Next, Device

\* When the queue is empty all calls are complete and none is half way through.
LEMMA ReplayAtRest == ASSUME IInv, FlowInv, ReplayInv PROVE QuiescentMemory
  <1> SUFFICES ASSUME mutex = NoThread, Unfinished = {}
               PROVE  FoldLeft(Effect, [b \in Buffers |-> Fresh(b)], calls)
                        = [b \in Buffers |-> mem[b]]
    BY DEF QuiescentMemory
  <1>1. PICK F, n : Replays(F, calls) /\ n \in 0..Len(calls) /\ Shows(F, n)
    BY DEF ReplayInv
  <1>2. PICK m \in Nat : m = Len(calls) /\ DOMAIN calls = 1..m
    BY LenProperties DEF IInv, TypeOK
  <1>3. done = Events /\ frame.step = 0
    <2>1. done = Events
      BY TheQueue DEF Unfinished
    <2>2. frame = NoFrame
      BY DEF IInv, LockHeld
    <2>3. QED
      BY <2>1, <2>2 DEF NoFrame
  <1>4. n = m
    <2>1. n < m => n + 1 \in DOMAIN calls
      BY <1>1, <1>2
    <2>2. \A i \in DOMAIN calls : calls[i].last \in done
      BY <1>3 DEF FlowInv, CallsInOrder, PlanEvents
    <2>3. n < m => n + 1 <= n
      BY <1>1, <2>1, <2>2 DEF Shows
    <2>4. QED
      BY <1>1, <1>2, <2>3
  <1>5. ASSUME NEW b \in Buffers PROVE mem[b] = F[m][b]
    <2>1. Filled(b)
      BY <1>3, TheQueue DEF Filled
    <2>2. ASSUME NEW f \in PlanEvents, AtFront(f) PROVE tasks[f].dst # b
      <3>1. f = Len(tasks)
        BY <1>3, <2>2, TheQueue DEF AtFront
      <3>2. ~ tasks[f].last
        BY <2>2 DEF AtFront
      <3>3. QED
        BY <1>3, <3>1, <3>2 DEF FlowInv, Flow
    <2>3. QED
      BY <1>1, <1>4, <2>1, <2>2 DEF Shows
  <1>6. F[m] = [b \in Buffers |-> mem[b]]
    <2>1. F[m] \in Buffered
      BY <1>1, <1>2 DEF Replays
    <2>2. QED
      BY <1>5, <2>1 DEF Buffered
  <1>7. calls \in Seq(CallType)
    BY DEF IInv, TypeOK
  <1>8. PICK G : Replays(G, calls) /\ G[m] = FoldLeft(Effect, AllFresh, calls)
    BY <1>2, <1>7, FoldReplays
  <1>9. G[m] = F[m]
    BY <1>1, <1>2, <1>7, <1>8, ReplaysAlike
  <1>10. QED
    BY <1>6, <1>8, <1>9 DEF AllFresh

\* Whenever the queue is empty, no call is in progress and no submission has thrown,
\* the user's buffers hold what the executions produce one after the other, in the
\* order in which they locked mutex_ (sycl.cpp:670-775), whatever the provider and
\* the scale.
THEOREM MemoryAtRest ==
    ASSUME OwnKernelsApart
    PROVE  Spec => [](faults = 0 => QuiescentMemory)
  <1>1. Init => ReplayInv
    BY InitReplay
  <1>2. IInv /\ FlowInv /\ ReplayInv /\ (faults = 0)' /\ [Next]_vars => ReplayInv'
    BY NextReplay
  <1>3. IInv /\ (faults = 0)' /\ [Next]_vars => faults = 0
    BY NoFaultBefore
  <1>4. Spec => []IInv
    BY Invariance
  <1>5. Spec => [](faults = 0 => FlowInv)
    BY FlowInvariance
  <1>6. IInv /\ FlowInv /\ ReplayInv => QuiescentMemory
    BY ReplayAtRest
  <1>7. QED
    BY <1>1, <1>2, <1>3, <1>4, <1>5, <1>6, PTL DEF Spec
=============================================================================
