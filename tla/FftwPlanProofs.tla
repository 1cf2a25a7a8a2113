--------------------------- MODULE FftwPlanProofs ---------------------------
(* Theorems about FftwPlan, for any number of threads, plans and buffers.   *)
EXTENDS FftwPlanSerial, FiniteSetTheorems, TLAPS

-----------------------------------------------------------------------------
(* The inductive invariant.                                                 *)

\* Where a thread is while a plan is its own, and while it executes one.
Alone == {"creating", "plan_aligned", "destroying", "destroy_native"}
Inside == {"locked", "lacks_plan", "plan_unaligned", "selected", "transformed"}
States == {"idle", "called"} \union Alone \union Inside
Lives == {"none", "creating", "live", "destroying", "destroyed"}

PlanJobs == [plan : Plans]
CallJobs == [plan : Plans, in : Buffers \union {Null}, out : Buffers \union {Null},
             onePointer : BOOLEAN]
Contents == [origin : Buffers \union {"garbage"}, times : Nat, unscaled : BOOLEAN]

TypeInv ==
    /\ pc \in [Threads -> States]
    /\ job \in [Threads -> {NoJob} \union PlanJobs \union CallJobs]
    /\ life \in [Plans -> Lives]
    /\ planned \in [Plans -> SUBSET Kinds]
    /\ native \in [Plans -> [Kinds -> Nat]]
    /\ hostMutex \in [Plans -> Threads \union {NoThread}]
    /\ planner \in Threads \union {NoThread}
    /\ content \in [Buffers -> Contents]
    /\ issued \in Nat /\ failures \in Nat

\* A thread has a job while it is inside the library, and only valid arguments
\* get past the checks.
JobInv == \A t \in Threads :
    /\ pc[t] = "idle" => job[t] = NoJob
    /\ pc[t] # "idle" => job[t] # NoJob /\ job[t].plan \in Plans
    /\ pc[t] \in {"called"} \union Inside => job[t] \in CallJobs
    /\ pc[t] \in Inside => job[t].in \in Buffers /\ job[t].out \in Buffers

\* Where a thread is tells how far its plan has come.
LifeInv == \A t \in Threads :
    /\ pc[t] \in {"creating", "plan_aligned"} => life[job[t].plan] = "creating"
    /\ pc[t] \in {"destroying", "destroy_native"} => life[job[t].plan] = "destroying"
    /\ pc[t] \in {"called"} \union Inside => life[job[t].plan] = "live"

\* One thread creates a plan, one destroys it.
AloneInv == \A t, u \in Threads :
    pc[t] \in Alone /\ pc[u] \in Alone /\ job[t].plan = job[u].plan => t = u

\* The locks are held by the threads that believe so.
PlannerInv == \A t \in Threads : pc[t] \in Planning => planner = t
HostInv == \A t \in Threads : pc[t] \in Inside => hostMutex[job[t].plan] = t

\* The native plans a plan knows at each point of its life.
PlannedInv ==
    /\ \A p \in Plans, k \in Kinds : native[p][k] = IF k \in planned[p] THEN 1 ELSE 0
    /\ \A p \in Plans :
         /\ life[p] \in {"none", "creating", "destroyed"} => planned[p] = {}
         /\ life[p] = "live" => "aligned" \in planned[p]
    /\ \A t \in Threads :
         /\ pc[t] \in {"lacks_plan", "plan_unaligned"} => "unaligned" \notin planned[job[t].plan]
         /\ pc[t] = "selected" =>
              {job[t].in, job[t].out} \subseteq Aligned \/ "unaligned" \in planned[job[t].plan]

\* Only the output of a thread that has yet to scale it is not scaled.
ScaledInv == \A b \in Buffers : content[b].unscaled =>
    Scaled /\ \E t \in Threads : pc[t] = "transformed" /\ job[t].out = b

IInv ==
    /\ TypeInv /\ JobInv /\ LifeInv /\ AloneInv /\ PlannerInv /\ HostInv /\ PlannedInv
    /\ ScaledInv

-----------------------------------------------------------------------------
LEMMA JobsDiffer ==
    ASSUME NEW p
    PROVE  /\ [plan |-> p] # NoJob
           /\ \A in, out, one :
                [plan |-> p, in |-> in, out |-> out, onePointer |-> one] # NoJob
<1>1. DOMAIN <<>> = {}
  OBVIOUS
<1>2. "plan" \in DOMAIN [plan |-> p]
  OBVIOUS
<1>3. \A in, out, one :
        "plan" \in DOMAIN [plan |-> p, in |-> in, out |-> out, onePointer |-> one]
  OBVIOUS
<1> QED BY <1>1, <1>2, <1>3 DEF NoJob

\* Before there are plans, whatever the program has put into its buffers.
LEMMA InitialPlans ==
    ASSUME InitPlans, content \in [Buffers -> Contents],
           \A b \in Buffers : ~ content[b].unscaled
    PROVE  IInv
<1> USE DEF InitPlans
<1>1. TypeInv
  BY DEF TypeInv, States, Lives, Kinds
<1>2. \A t \in Threads : pc[t] = "idle" /\ job[t] = NoJob
  OBVIOUS
<1>3. JobInv /\ LifeInv /\ AloneInv /\ PlannerInv /\ HostInv
  BY <1>2 DEF JobInv, LifeInv, AloneInv, PlannerInv, HostInv, Inside, Alone, Planning
<1>4. PlannedInv
  BY <1>2 DEF PlannedInv, Kinds
<1>5. ScaledInv
  BY DEF ScaledInv
<1> QED BY <1>1, <1>3, <1>4, <1>5 DEF IInv

LEMMA FreshContents ==
    \A b \in Buffers : Fresh(b) \in Contents /\ ~ Fresh(b).unscaled
BY DEF Fresh, Contents

LEMMA GarbageContents == Garbage \in Contents /\ ~ Garbage.unscaled
BY DEF Garbage, Contents

LEMMA Initial == Init => IInv
BY FreshContents, InitialPlans DEF Init

-----------------------------------------------------------------------------
(* The steps: creating and destroying.                                      *)

LEMMA CreateStep ==
    ASSUME IInv, NEW t \in Threads, NEW p \in Plans, Create(t, p)
    PROVE  IInv'
<1>1. TypeInv
  BY DEF IInv
<1>2. /\ pc[t] = "idle" /\ life[p] = "none"
      /\ pc'[t] = "creating" /\ job'[t] = [plan |-> p] /\ job'[t].plan = p
      /\ \A u \in Threads : u # t => pc'[u] = pc[u] /\ job'[u] = job[u]
      /\ life'[p] = "creating" /\ \A q \in Plans : q # p => life'[q] = life[q]
      /\ UNCHANGED <<planned, native, hostMutex, planner, content>>
  BY <1>1 DEF Create, Goto, TypeInv
<1>3. TypeInv'
  <2>1. [plan |-> p] \in PlanJobs
    BY DEF PlanJobs
  <2> QED BY <1>1, <2>1 DEF Create, Goto, TypeInv, States, Alone, Lives
<1>4. JobInv'
  BY <1>2, JobsDiffer DEF IInv, JobInv, Inside
<1>5. LifeInv'
  BY <1>2 DEF IInv, JobInv, LifeInv, Inside
<1>6. AloneInv'
  BY <1>2 DEF IInv, JobInv, LifeInv, AloneInv, Alone
<1>7. PlannerInv' /\ HostInv'
  BY <1>2 DEF IInv, PlannerInv, HostInv, Planning, Inside
<1>8. PlannedInv'
  BY <1>2 DEF IInv, PlannedInv, JobInv
<1>9. ScaledInv'
  BY <1>2 DEF IInv, ScaledInv
<1> QED BY <1>3, <1>4, <1>5, <1>6, <1>7, <1>8, <1>9 DEF IInv

LEMMA DestroyStep ==
    ASSUME IInv, NEW t \in Threads, NEW p \in Plans, Destroy(t, p)
    PROVE  IInv'
<1>1. TypeInv
  BY DEF IInv
<1>2. /\ pc[t] = "idle" /\ life[p] = "live" /\ Users(p) = {}
      /\ pc'[t] = "destroying" /\ job'[t] = [plan |-> p] /\ job'[t].plan = p
      /\ \A u \in Threads : u # t => pc'[u] = pc[u] /\ job'[u] = job[u]
      /\ life'[p] = "destroying" /\ \A q \in Plans : q # p => life'[q] = life[q]
      /\ UNCHANGED <<planned, native, hostMutex, planner, content>>
  BY <1>1 DEF Destroy, Goto, TypeInv
\* No other thread is inside the library with this plan.
<1>3. \A u \in Threads : pc[u] # "idle" => job[u].plan # p
  BY <1>2 DEF IInv, JobInv, Users
<1>4. TypeInv'
  <2>1. [plan |-> p] \in PlanJobs
    BY DEF PlanJobs
  <2> QED BY <1>1, <2>1 DEF Destroy, Goto, TypeInv, States, Alone, Lives
<1>5. JobInv'
  BY <1>2, JobsDiffer DEF IInv, JobInv, Inside
<1>6. LifeInv'
  BY <1>2, <1>3 DEF IInv, JobInv, LifeInv, Inside
<1>7. AloneInv'
  BY <1>2, <1>3 DEF IInv, AloneInv, Alone
<1>8. PlannerInv' /\ HostInv'
  BY <1>2 DEF IInv, PlannerInv, HostInv, Planning, Inside
<1>9. PlannedInv'
  BY <1>2 DEF IInv, PlannedInv, JobInv
<1>10. ScaledInv'
  BY <1>2 DEF IInv, ScaledInv
<1> QED BY <1>4, <1>5, <1>6, <1>7, <1>8, <1>9, <1>10 DEF IInv

\* The planner's lock is free, so no other thread is inside the planner.
LEMMA EnterPlannerStep ==
    ASSUME IInv, NEW t \in Threads, EnterPlanner(t)
    PROVE  IInv'
<1>1. TypeInv
  BY DEF IInv
<1>2. /\ planner = NoThread /\ planner' = t
      /\ \/ pc[t] = "creating" /\ pc'[t] = "plan_aligned"
         \/ pc[t] = "lacks_plan" /\ pc'[t] = "plan_unaligned"
         \/ pc[t] = "destroying" /\ pc'[t] = "destroy_native"
      /\ \A u \in Threads : u # t => pc'[u] = pc[u]
      /\ UNCHANGED <<job, life, planned, native, hostMutex, content, issued, failures>>
  BY <1>1 DEF EnterPlanner, PlanFirst, PlanLate, GiveBack, LockPlanner,
      Goto, TypeInv
<1>3. TypeInv'
  BY <1>1 DEF EnterPlanner, PlanFirst, PlanLate, GiveBack, LockPlanner,
      Goto, TypeInv, States, Alone, Inside
<1>4. JobInv'
  BY <1>2 DEF IInv, JobInv, Inside
<1>5. LifeInv'
  BY <1>2 DEF IInv, LifeInv, Inside
<1>6. AloneInv'
  BY <1>2 DEF IInv, AloneInv, Alone
<1>7. PlannerInv'
  BY <1>2, ConstantsAssumption DEF IInv, PlannerInv, Planning
<1>8. HostInv'
  BY <1>2 DEF IInv, HostInv, Inside
<1>9. PlannedInv'
  BY <1>2 DEF IInv, PlannedInv
<1>10. ScaledInv'
  BY <1>2 DEF IInv, ScaledInv
<1> QED BY <1>3, <1>4, <1>5, <1>6, <1>7, <1>8, <1>9, <1>10 DEF IInv

\* Whoever is in the planner is there alone.
LEMMA PlannerAlone ==
    ASSUME IInv, NEW t \in Threads, pc[t] \in Planning
    PROVE  \A u \in Threads : pc[u] \in Planning => u = t
BY DEF IInv, PlannerInv

LEMMA CreatedStep ==
    ASSUME IInv, NEW t \in Threads, Created(t)
    PROVE  IInv'
<1> DEFINE p == job[t].plan
<1>1. TypeInv
  BY DEF IInv
<1>2. pc[t] = "plan_aligned" /\ p \in Plans /\ life[p] = "creating" /\ planned[p] = {}
  BY DEF Created, IInv, JobInv, LifeInv, PlannedInv
<1> HIDE DEF p
<1>3. /\ pc'[t] = "idle" /\ job'[t] = NoJob
      /\ \A u \in Threads : u # t => pc'[u] = pc[u] /\ job'[u] = job[u]
      /\ life'[p] = "live" /\ \A q \in Plans : q # p => life'[q] = life[q]
      /\ planned'[p] = {"aligned"} /\ \A q \in Plans : q # p => planned'[q] = planned[q]
      /\ \A k \in Kinds : native'[p][k] = IF k = "aligned" THEN native[p][k] + 1 ELSE native[p][k]
      /\ \A q \in Plans : q # p => native'[q] = native[q]
      /\ planner' = NoThread
      /\ UNCHANGED <<hostMutex, content, issued, failures>>
  BY <1>1, <1>2 DEF Created, Made, Goto, TypeInv, Kinds, p
\* The other threads are at other plans.
<1>4. \A u \in Threads : u # t /\ pc[u] # "idle" => job[u].plan # p /\ job[u].plan \in Plans
  BY <1>1, <1>2 DEF IInv, JobInv, LifeInv, AloneInv, Alone, TypeInv, States, p
<1>5. TypeInv'
  BY <1>1, <1>2 DEF Created, Made, Goto, TypeInv, States, Lives, Kinds, p
<1>6. JobInv'
  BY <1>3 DEF IInv, JobInv, Inside
<1>7. LifeInv'
  BY <1>3, <1>4 DEF IInv, LifeInv, Inside
<1>8. AloneInv'
  BY <1>3 DEF IInv, AloneInv, Alone
<1>9. PlannerInv'
  BY <1>2, <1>3, PlannerAlone DEF PlannerInv, Planning
<1>10. HostInv'
  BY <1>3 DEF IInv, HostInv, Inside
<1>11. PlannedInv'
  <2>1. \A q \in Plans, k \in Kinds : native'[q][k] = IF k \in planned'[q] THEN 1 ELSE 0
    BY <1>1, <1>2, <1>3 DEF IInv, PlannedInv, Kinds
  <2>2. \A q \in Plans :
          /\ life'[q] \in {"none", "creating", "destroyed"} => planned'[q] = {}
          /\ life'[q] = "live" => "aligned" \in planned'[q]
    BY <1>2, <1>3 DEF IInv, PlannedInv
  <2>3. \A u \in Threads :
         /\ pc'[u] \in {"lacks_plan", "plan_unaligned"} =>
              "unaligned" \notin planned'[job'[u].plan]
         /\ pc'[u] = "selected" =>
              \/ {job'[u].in, job'[u].out} \subseteq Aligned
              \/ "unaligned" \in planned'[job'[u].plan]
    BY <1>3, <1>4 DEF IInv, PlannedInv
  <2> QED BY <2>1, <2>2, <2>3 DEF PlannedInv
<1>12. ScaledInv'
  BY <1>2, <1>3 DEF IInv, ScaledInv
<1> QED BY <1>5, <1>6, <1>7, <1>8, <1>9, <1>10, <1>11, <1>12 DEF IInv

LEMMA CreateFailsStep ==
    ASSUME IInv, NEW t \in Threads, CreateFails(t)
    PROVE  IInv'
<1> DEFINE p == job[t].plan
<1>1. TypeInv
  BY DEF IInv
<1>2. pc[t] = "plan_aligned" /\ p \in Plans /\ life[p] = "creating" /\ planned[p] = {}
  BY DEF CreateFails, IInv, JobInv, LifeInv, PlannedInv
<1> HIDE DEF p
<1>3. /\ pc'[t] = "idle" /\ job'[t] = NoJob
      /\ \A u \in Threads : u # t => pc'[u] = pc[u] /\ job'[u] = job[u]
      /\ life'[p] = "none" /\ \A q \in Plans : q # p => life'[q] = life[q]
      /\ planner' = NoThread
      /\ UNCHANGED <<planned, native, hostMutex, content, issued>>
  BY <1>1, <1>2 DEF CreateFails, Goto, TypeInv, p
\* The other threads are at other plans.
<1>4. \A u \in Threads : u # t /\ pc[u] # "idle" => job[u].plan # p /\ job[u].plan \in Plans
  BY <1>1, <1>2 DEF IInv, JobInv, LifeInv, AloneInv, Alone, TypeInv, States, p
<1>5. TypeInv'
  BY <1>1, <1>2 DEF CreateFails, Goto, TypeInv, States, Lives, p
<1>6. JobInv'
  BY <1>3 DEF IInv, JobInv, Inside
<1>7. LifeInv'
  BY <1>3, <1>4 DEF IInv, LifeInv, Inside
<1>8. AloneInv'
  BY <1>3 DEF IInv, AloneInv, Alone
<1>9. PlannerInv'
  BY <1>2, <1>3, PlannerAlone DEF PlannerInv, Planning
<1>10. HostInv'
  BY <1>3 DEF IInv, HostInv, Inside
<1>11. PlannedInv'
  BY <1>2, <1>3 DEF IInv, PlannedInv
<1>12. ScaledInv'
  BY <1>2, <1>3 DEF IInv, ScaledInv
<1> QED BY <1>5, <1>6, <1>7, <1>8, <1>9, <1>10, <1>11, <1>12 DEF IInv

LEMMA DestroyedStep ==
    ASSUME IInv, NEW t \in Threads, Destroyed(t)
    PROVE  IInv'
<1> DEFINE p == job[t].plan
<1>1. TypeInv
  BY DEF IInv
<1>2. pc[t] = "destroy_native" /\ p \in Plans /\ life[p] = "destroying"
  BY DEF Destroyed, IInv, JobInv, LifeInv
<1> HIDE DEF p
\* Each native plan the plan knows is given back, and there are no others.
<1>3. native[p] \in [Kinds -> Nat] /\ \A k \in Kinds : native[p][k] = IF k \in planned[p] THEN 1 ELSE 0
  BY <1>1, <1>2 DEF IInv, TypeInv, PlannedInv
<1>4. /\ pc'[t] = "idle" /\ job'[t] = NoJob
      /\ \A u \in Threads : u # t => pc'[u] = pc[u] /\ job'[u] = job[u]
      /\ life'[p] = "destroyed" /\ \A q \in Plans : q # p => life'[q] = life[q]
      /\ planned'[p] = {} /\ \A q \in Plans : q # p => planned'[q] = planned[q]
      /\ native'[p] = [k \in Kinds |-> IF k \in planned[p] THEN native[p][k] - 1 ELSE native[p][k]]
      /\ \A q \in Plans : q # p => native'[q] = native[q]
      /\ planner' = NoThread
      /\ UNCHANGED <<hostMutex, content, issued, failures>>
  BY <1>1, <1>2 DEF Destroyed, Goto, TypeInv, p
<1>5. \A k \in Kinds : native'[p][k] = 0
  BY <1>3, <1>4
\* The other threads are at other plans.
<1>6. \A u \in Threads : u # t /\ pc[u] # "idle" => job[u].plan # p /\ job[u].plan \in Plans
  BY <1>1, <1>2 DEF IInv, JobInv, LifeInv, AloneInv, Alone, TypeInv, States, p
<1>7. TypeInv'
  <2>1. native'[p] = [k \in Kinds |-> 0]
    BY <1>3, <1>4
  <2>2. native'[p] \in [Kinds -> Nat]
    BY <2>1
  <2>3. native' = [native EXCEPT ![p] = native'[p]]
    BY <1>1, <1>2, <1>4 DEF Destroyed, TypeInv, p
  <2>4. native' \in [Plans -> [Kinds -> Nat]]
    BY <1>1, <1>2, <2>2, <2>3 DEF TypeInv
  <2>5. pc' \in [Threads -> States] /\ life' \in [Plans -> Lives]
    BY <1>1 DEF Destroyed, Goto, TypeInv, States, Lives
  <2>6. job' \in [Threads -> {NoJob} \union PlanJobs \union CallJobs]
    BY <1>1 DEF Destroyed, TypeInv
  <2>7. planned' \in [Plans -> SUBSET Kinds]
    BY <1>1 DEF Destroyed, TypeInv
  <2> QED BY <1>1, <1>4, <2>4, <2>5, <2>6, <2>7 DEF TypeInv
<1>8. JobInv'
  BY <1>4 DEF IInv, JobInv, Inside
<1>9. LifeInv'
  BY <1>4, <1>6 DEF IInv, LifeInv, Inside
<1>10. AloneInv'
  BY <1>4 DEF IInv, AloneInv, Alone
<1>11. PlannerInv'
  BY <1>2, <1>4, PlannerAlone DEF PlannerInv, Planning
<1>12. HostInv'
  BY <1>4 DEF IInv, HostInv, Inside
<1>13. PlannedInv'
  <2>1. \A q \in Plans, k \in Kinds : native'[q][k] = IF k \in planned'[q] THEN 1 ELSE 0
    BY <1>4, <1>5 DEF IInv, PlannedInv
  <2>2. \A q \in Plans :
          /\ life'[q] \in {"none", "creating", "destroyed"} => planned'[q] = {}
          /\ life'[q] = "live" => "aligned" \in planned'[q]
    BY <1>4 DEF IInv, PlannedInv
  <2>3. \A u \in Threads :
         /\ pc'[u] \in {"lacks_plan", "plan_unaligned"} =>
              "unaligned" \notin planned'[job'[u].plan]
         /\ pc'[u] = "selected" =>
              \/ {job'[u].in, job'[u].out} \subseteq Aligned
              \/ "unaligned" \in planned'[job'[u].plan]
    BY <1>4, <1>6 DEF IInv, PlannedInv
  <2> QED BY <2>1, <2>2, <2>3 DEF PlannedInv
<1>14. ScaledInv'
  BY <1>2, <1>4 DEF IInv, ScaledInv
<1> QED BY <1>7, <1>8, <1>9, <1>10, <1>11, <1>12, <1>13, <1>14 DEF IInv

-----------------------------------------------------------------------------
(* The steps: execute.                                                      *)

LEMMA CallStep ==
    ASSUME IInv, NEW t \in Threads, NEW p \in Plans,
           NEW in \in Buffers \union {Null}, NEW out \in Buffers \union {Null},
           NEW one \in BOOLEAN, Call(t, p, in, out, one)
    PROVE  IInv'
<1> DEFINE j == [plan |-> p, in |-> in, out |-> out, onePointer |-> one]
<1>1. TypeInv
  BY DEF IInv
<1>2. j \in CallJobs /\ j # NoJob /\ j.plan = p
  BY JobsDiffer DEF CallJobs
<1>3. pc[t] = "idle" /\ life[p] = "live" /\ job' = [job EXCEPT ![t] = j]
  BY DEF Call
<1> HIDE DEF j
<1>4. /\ pc'[t] = "called" /\ job'[t] = j
      /\ \A u \in Threads : u # t => pc'[u] = pc[u] /\ job'[u] = job[u]
      /\ UNCHANGED <<life, planned, native, hostMutex, planner, content, failures>>
      /\ issued' = issued + 1
  BY <1>1, <1>3 DEF Call, Goto, TypeInv
<1>5. TypeInv'
  <2>1. pc' \in [Threads -> States]
    BY <1>1 DEF Call, Goto, TypeInv, States
  <2>2. job' \in [Threads -> {NoJob} \union PlanJobs \union CallJobs]
    BY <1>1, <1>2, <1>3 DEF TypeInv
  <2> QED BY <1>1, <1>4, <2>1, <2>2 DEF TypeInv
<1>6. JobInv'
  BY <1>2, <1>4 DEF IInv, JobInv, Inside
<1>7. LifeInv'
  BY <1>2, <1>3, <1>4 DEF IInv, LifeInv, Inside
<1>8. AloneInv'
  BY <1>4 DEF IInv, AloneInv, Alone
<1>9. PlannerInv' /\ HostInv'
  BY <1>4 DEF IInv, PlannerInv, HostInv, Planning, Inside
<1>10. PlannedInv'
  BY <1>4 DEF IInv, PlannedInv
<1>11. ScaledInv'
  BY <1>3, <1>4 DEF IInv, ScaledInv
<1> QED BY <1>5, <1>6, <1>7, <1>8, <1>9, <1>10, <1>11 DEF IInv

LEMMA RejectStep ==
    ASSUME IInv, NEW t \in Threads, Reject(t)
    PROVE  IInv'
<1>1. TypeInv
  BY DEF IInv
<1>2. /\ pc[t] = "called" /\ pc'[t] = "idle" /\ job'[t] = NoJob
      /\ \A u \in Threads : u # t => pc'[u] = pc[u] /\ job'[u] = job[u]
      /\ UNCHANGED <<life, planned, native, hostMutex, planner, content, issued, failures>>
  BY <1>1 DEF Reject, Goto, TypeInv
<1>3. TypeInv'
  BY <1>1 DEF Reject, Goto, TypeInv, States
<1>4. JobInv'
  BY <1>2 DEF IInv, JobInv, Inside
<1>5. LifeInv'
  BY <1>2 DEF IInv, LifeInv, Inside
<1>6. AloneInv'
  BY <1>2 DEF IInv, AloneInv, Alone
<1>7. PlannerInv' /\ HostInv'
  BY <1>2 DEF IInv, PlannerInv, HostInv, Planning, Inside
<1>8. PlannedInv'
  BY <1>2 DEF IInv, PlannedInv
<1>9. ScaledInv'
  BY <1>2 DEF IInv, ScaledInv
<1> QED BY <1>3, <1>4, <1>5, <1>6, <1>7, <1>8, <1>9 DEF IInv

\* The plan's mutex is free, so no other thread is inside this plan.
LEMMA EnterStep ==
    ASSUME IInv, NEW t \in Threads, Enter(t)
    PROVE  IInv'
<1> DEFINE p == job[t].plan
<1>1. TypeInv
  BY DEF IInv
<1>2. /\ pc[t] = "called" /\ p \in Plans /\ job[t] \in CallJobs /\ Null \notin {job[t].in, job[t].out}
      /\ hostMutex[p] = NoThread /\ life[p] = "live"
  BY DEF Enter, Valid, LockHost, IInv, JobInv, LifeInv
<1>3. job[t].in \in Buffers /\ job[t].out \in Buffers
  BY <1>2 DEF CallJobs
<1> HIDE DEF p
<1>4. /\ pc'[t] = "locked" /\ hostMutex'[p] = t
      /\ \A u \in Threads : u # t => pc'[u] = pc[u]
      /\ \A q \in Plans : q # p => hostMutex'[q] = hostMutex[q]
      /\ UNCHANGED <<job, life, planned, native, planner, content, issued, failures>>
  BY <1>1, <1>2 DEF Enter, LockHost, Goto, TypeInv, p
<1>5. TypeInv'
  BY <1>1 DEF Enter, LockHost, Goto, TypeInv, States, Inside
<1>6. JobInv'
  BY <1>2, <1>3, <1>4 DEF IInv, JobInv, Inside
<1>7. LifeInv'
  BY <1>2, <1>4 DEF IInv, LifeInv, Inside, p
<1>8. AloneInv'
  BY <1>4 DEF IInv, AloneInv, Alone
<1>9. PlannerInv'
  BY <1>4 DEF IInv, PlannerInv, Planning
<1>10. HostInv'
  <2>1. \A u \in Threads : u # t /\ pc[u] \in Inside => job[u].plan # p /\ job[u].plan \in Plans
    BY <1>2, ConstantsAssumption DEF IInv, HostInv, JobInv, Inside
  <2> QED BY <1>4, <2>1 DEF IInv, HostInv, Inside, p
<1>11. PlannedInv'
  BY <1>4 DEF IInv, PlannedInv
<1>12. ScaledInv'
  BY <1>2, <1>4 DEF IInv, ScaledInv
<1> QED BY <1>5, <1>6, <1>7, <1>8, <1>9, <1>10, <1>11, <1>12 DEF IInv

\* A plan that may serve unaligned buffers knows the plan for them before the
\* thread is past the choice.
LEMMA SelectStep ==
    ASSUME IInv, NEW t \in Threads, Select(t)
    PROVE  IInv'
<1>1. TypeInv
  BY DEF IInv
<1>2. /\ pc[t] = "locked"
      /\ \A u \in Threads : u # t => pc'[u] = pc[u]
      /\ UNCHANGED <<job, life, planned, native, hostMutex, planner, content, issued, failures>>
  BY <1>1 DEF Select, Goto, TypeInv
<1>3. job[t].plan \in Plans /\ life[job[t].plan] = "live" /\ "aligned" \in planned[job[t].plan]
  BY <1>2 DEF IInv, JobInv, LifeInv, PlannedInv, Inside
<1>4. \/ /\ pc'[t] = "selected"
         /\ {job[t].in, job[t].out} \subseteq Aligned \/ "unaligned" \in planned[job[t].plan]
      \/ pc'[t] = "lacks_plan" /\ "unaligned" \notin planned[job[t].plan]
  <2>1. CASE KindNeeded(job[t]) \in planned[job[t].plan]
    <3>1. pc'[t] = "selected"
      BY <1>1, <2>1 DEF Select, Goto, TypeInv
    <3> QED BY <2>1, <3>1 DEF KindNeeded
  <2>2. CASE KindNeeded(job[t]) \notin planned[job[t].plan]
    <3>1. pc'[t] = "lacks_plan"
      BY <1>1, <2>2 DEF Select, Goto, TypeInv
    <3> QED BY <1>3, <2>2, <3>1 DEF KindNeeded
  <2> QED BY <2>1, <2>2
<1>5. TypeInv'
  <2>1. pc' \in [Threads -> States]
    BY <1>1 DEF Select, Goto, TypeInv, States, Inside
  <2> QED BY <1>1, <1>2, <2>1 DEF TypeInv
<1>6. JobInv'
  BY <1>2, <1>4 DEF IInv, JobInv, Inside
<1>7. LifeInv'
  BY <1>2, <1>4 DEF IInv, LifeInv, Inside
<1>8. AloneInv'
  BY <1>2, <1>4 DEF IInv, AloneInv, Alone
<1>9. PlannerInv' /\ HostInv'
  BY <1>2, <1>4 DEF IInv, PlannerInv, HostInv, Planning, Inside
<1>10. PlannedInv'
  BY <1>2, <1>4 DEF IInv, PlannedInv
<1>11. ScaledInv'
  BY <1>2 DEF IInv, ScaledInv
<1> QED BY <1>5, <1>6, <1>7, <1>8, <1>9, <1>10, <1>11 DEF IInv

\* The thread holds the plan's mutex: nobody else is inside this plan, so the
\* test of unaligned_ that it made before it entered the planner still holds.
LEMMA PlannedUnalignedStep ==
    ASSUME IInv, NEW t \in Threads, PlannedUnaligned(t)
    PROVE  IInv'
<1> DEFINE p == job[t].plan
<1>1. TypeInv
  BY DEF IInv
<1>2. /\ pc[t] = "plan_unaligned" /\ p \in Plans /\ life[p] = "live"
      /\ "unaligned" \notin planned[p] /\ "aligned" \in planned[p]
  BY DEF PlannedUnaligned, IInv, JobInv, LifeInv, PlannedInv, Inside
<1>3. \A u \in Threads : u # t /\ pc[u] \in Inside => job[u].plan # p /\ job[u].plan \in Plans
  BY <1>2 DEF IInv, HostInv, JobInv, Inside
<1> HIDE DEF p
<1>4. /\ pc'[t] = "selected"
      /\ \A u \in Threads : u # t => pc'[u] = pc[u]
      /\ planned'[p] = planned[p] \union {"unaligned"}
      /\ \A q \in Plans : q # p => planned'[q] = planned[q]
      /\ \A k \in Kinds : native'[p][k] = IF k = "unaligned" THEN native[p][k] + 1 ELSE native[p][k]
      /\ \A q \in Plans : q # p => native'[q] = native[q]
      /\ planner' = NoThread
      /\ UNCHANGED <<job, life, hostMutex, content, issued, failures>>
  BY <1>1, <1>2 DEF PlannedUnaligned, Made, Goto, TypeInv, Kinds, p
<1>5. TypeInv'
  BY <1>1, <1>2 DEF PlannedUnaligned, Made, Goto, TypeInv, States, Inside, Kinds, p
<1>6. JobInv'
  BY <1>2, <1>4 DEF IInv, JobInv, Inside
<1>7. LifeInv'
  BY <1>2, <1>4 DEF IInv, LifeInv, Inside
<1>8. AloneInv'
  BY <1>4 DEF IInv, AloneInv, Alone
<1>9. PlannerInv'
  BY <1>2, <1>4, PlannerAlone DEF PlannerInv, Planning
<1>10. HostInv'
  BY <1>2, <1>4 DEF IInv, HostInv, Inside
<1>11. PlannedInv'
  <2>1. \A q \in Plans, k \in Kinds : native'[q][k] = IF k \in planned'[q] THEN 1 ELSE 0
    BY <1>2, <1>4 DEF IInv, PlannedInv, Kinds
  <2>2. \A q \in Plans :
          /\ life'[q] \in {"none", "creating", "destroyed"} => planned'[q] = {}
          /\ life'[q] = "live" => "aligned" \in planned'[q]
    BY <1>2, <1>4 DEF IInv, PlannedInv
  <2>3. \A u \in Threads :
         /\ pc'[u] \in {"lacks_plan", "plan_unaligned"} =>
              "unaligned" \notin planned'[job'[u].plan]
         /\ pc'[u] = "selected" =>
              \/ {job'[u].in, job'[u].out} \subseteq Aligned
              \/ "unaligned" \in planned'[job'[u].plan]
    <3>1. "unaligned" \in planned'[job'[t].plan]
      BY <1>4 DEF p
    <3> QED BY <1>3, <1>4, <3>1 DEF IInv, PlannedInv, Inside
  <2> QED BY <2>1, <2>2, <2>3 DEF PlannedInv
<1>12. ScaledInv'
  BY <1>2, <1>4 DEF IInv, ScaledInv
<1> QED BY <1>5, <1>6, <1>7, <1>8, <1>9, <1>10, <1>11, <1>12 DEF IInv

\* A thread that leaves a plan gives up the mutex of that plan only: it held no
\* other thread's.
LEMMA UnlockHostFacts ==
    ASSUME IInv, NEW t \in Threads, UnlockHost(t)
    PROVE  /\ pc'[t] = "idle" /\ job'[t] = NoJob
           /\ pc' \in [Threads -> States]
           /\ job' \in [Threads -> {NoJob} \union PlanJobs \union CallJobs]
           /\ hostMutex' \in [Plans -> Threads \union {NoThread}]
           /\ \A u \in Threads : u # t => pc'[u] = pc[u] /\ job'[u] = job[u]
           /\ \A q \in Plans : hostMutex[q] # t => hostMutex'[q] = hostMutex[q]
BY DEF UnlockHost, Goto, IInv, TypeInv, States

LEMMA UnalignedFailsStep ==
    ASSUME IInv, NEW t \in Threads, UnalignedFails(t)
    PROVE  IInv'
<1>1. TypeInv
  BY DEF IInv
<1>2. /\ pc[t] = "plan_unaligned" /\ failures' = failures + 1 /\ planner' = NoThread
      /\ UnlockHost(t)
      /\ UNCHANGED <<life, planned, native, content, issued>>
  BY DEF UnalignedFails
<1>3. TypeInv'
  BY <1>1, <1>2, UnlockHostFacts DEF TypeInv
<1>4. JobInv'
  BY <1>2, UnlockHostFacts DEF IInv, JobInv, Inside
<1>5. LifeInv'
  BY <1>2, UnlockHostFacts DEF IInv, LifeInv, Inside
<1>6. AloneInv'
  BY <1>2, UnlockHostFacts DEF IInv, AloneInv, Alone
<1>7. PlannerInv'
  BY <1>2, UnlockHostFacts, PlannerAlone DEF PlannerInv, Planning
<1>8. HostInv'
  BY <1>2, UnlockHostFacts DEF IInv, JobInv, HostInv, Inside
<1>9. PlannedInv'
  BY <1>2, UnlockHostFacts DEF IInv, PlannedInv
<1>10. ScaledInv'
  BY <1>2, UnlockHostFacts DEF IInv, ScaledInv
<1> QED BY <1>3, <1>4, <1>5, <1>6, <1>7, <1>8, <1>9, <1>10 DEF IInv

LEMMA TransformedContents ==
    ASSUME TypeInv, NEW t \in Threads, job[t] \in CallJobs, job[t].in \in Buffers
    PROVE  /\ Transformed(job[t]) \in Contents
           /\ Transformed(job[t]).unscaled => Scaled
<1>1. content[job[t].in] \in Contents
  BY DEF TypeInv
<1>2. Garbage \in Contents /\ ~ Garbage.unscaled
  BY GarbageContents
<1>3. \A d \in Contents :
        [origin |-> d.origin, times |-> d.times + 1, unscaled |-> Scaled] \in Contents
  BY ConstantsAssumption DEF Contents
<1> QED BY <1>1, <1>2, <1>3 DEF Transformed

LEMMA TransformStep ==
    ASSUME IInv, NEW t \in Threads, Transform(t)
    PROVE  IInv'
<1>1. TypeInv
  BY DEF IInv
<1>2. /\ pc[t] = "selected" /\ job[t] \in CallJobs /\ job[t].in \in Buffers
      /\ job[t].out \in Buffers
  BY DEF Transform, IInv, JobInv, Inside
<1>3. /\ pc'[t] = "transformed"
      /\ \A u \in Threads : u # t => pc'[u] = pc[u]
      /\ content' = [content EXCEPT ![job[t].out] = Transformed(job[t])]
      /\ UNCHANGED <<job, life, planned, native, hostMutex, planner, issued, failures>>
  BY <1>1 DEF Transform, Goto, TypeInv
<1>4. Transformed(job[t]) \in Contents /\ (Transformed(job[t]).unscaled => Scaled)
  BY <1>1, <1>2, TransformedContents
<1>5. TypeInv'
  <2>1. pc' \in [Threads -> States]
    BY <1>1 DEF Transform, Goto, TypeInv, States, Inside
  <2>2. content' \in [Buffers -> Contents]
    BY <1>1, <1>2, <1>3, <1>4 DEF TypeInv
  <2> QED BY <1>1, <1>3, <2>1, <2>2 DEF TypeInv
<1>6. JobInv'
  BY <1>2, <1>3 DEF IInv, JobInv, Inside
<1>7. LifeInv'
  BY <1>2, <1>3 DEF IInv, LifeInv, Inside
<1>8. AloneInv'
  BY <1>3 DEF IInv, AloneInv, Alone
<1>9. PlannerInv' /\ HostInv'
  BY <1>2, <1>3 DEF IInv, PlannerInv, HostInv, Planning, Inside
<1>10. PlannedInv'
  BY <1>3 DEF IInv, PlannedInv
<1>11. ScaledInv'
  <2> SUFFICES ASSUME NEW b \in Buffers, content'[b].unscaled
               PROVE  Scaled /\ \E u \in Threads : pc'[u] = "transformed" /\ job'[u].out = b
    BY DEF ScaledInv
  <2>1. CASE b = job[t].out
    <3>1. content'[b] = Transformed(job[t])
      BY <1>1, <1>2, <1>3, <2>1 DEF TypeInv
    <3> QED BY <1>3, <1>4, <2>1, <3>1
  <2>2. CASE b # job[t].out
    <3>1. content[b].unscaled
      BY <1>1, <1>2, <1>3, <2>2 DEF TypeInv
    <3> QED BY <1>2, <1>3, <3>1 DEF IInv, ScaledInv
  <2> QED BY <2>1, <2>2
<1> QED BY <1>5, <1>6, <1>7, <1>8, <1>9, <1>10, <1>11 DEF IInv

LEMMA FinishStep ==
    ASSUME IInv, NEW t \in Threads, Finish(t)
    PROVE  IInv'
<1>1. TypeInv
  BY DEF IInv
<1>2. pc[t] = "transformed" /\ job[t].out \in Buffers
  BY DEF Finish, IInv, JobInv, Inside
<1>3. /\ UnlockHost(t)
      /\ content' = [content EXCEPT ![job[t].out] = Normalized(content[job[t].out])]
      /\ UNCHANGED <<life, planned, native, planner, issued, failures>>
  BY DEF Finish
<1>4. /\ Normalized(content[job[t].out]) \in Contents
      /\ Scaled => ~ Normalized(content[job[t].out]).unscaled
  <2>1. content[job[t].out] \in Contents
    BY <1>1, <1>2 DEF TypeInv
  <2> QED BY <2>1 DEF Normalized, Contents
<1>5. TypeInv'
  <2>1. content' \in [Buffers -> Contents]
    BY <1>1, <1>2, <1>3, <1>4 DEF TypeInv
  <2> QED BY <1>1, <1>3, <2>1, UnlockHostFacts DEF TypeInv
<1>6. JobInv'
  BY <1>3, UnlockHostFacts DEF IInv, JobInv, Inside
<1>7. LifeInv'
  BY <1>3, UnlockHostFacts DEF IInv, LifeInv, Inside
<1>8. AloneInv'
  BY <1>3, UnlockHostFacts DEF IInv, AloneInv, Alone
<1>9. PlannerInv'
  BY <1>3, UnlockHostFacts DEF IInv, PlannerInv, Planning
<1>10. HostInv'
  BY <1>3, UnlockHostFacts DEF IInv, JobInv, HostInv, Inside
<1>11. PlannedInv'
  BY <1>3, UnlockHostFacts DEF IInv, PlannedInv
<1>12. ScaledInv'
  <2> SUFFICES ASSUME NEW b \in Buffers, content'[b].unscaled
               PROVE  Scaled /\ \E u \in Threads : pc'[u] = "transformed" /\ job'[u].out = b
    BY DEF ScaledInv
  <2>1. content' \in [Buffers -> Contents] /\ content \in [Buffers -> Contents]
    BY <1>1, <1>5 DEF TypeInv
  <2>2. CASE b = job[t].out
    <3>1. content'[b] = Normalized(content[b])
      BY <1>2, <1>3, <2>1, <2>2
    <3>2. content[b].unscaled
      BY <3>1 DEF Normalized, Contents, TypeInv, IInv
    <3>3. Scaled
      BY <3>2 DEF IInv, ScaledInv
    <3> QED BY <1>4, <2>2, <3>1, <3>3
  <2>3. CASE b # job[t].out
    <3>1. content[b].unscaled
      BY <1>2, <1>3, <2>1, <2>3
    <3>2. PICK u \in Threads : pc[u] = "transformed" /\ job[u].out = b
      BY <3>1 DEF IInv, ScaledInv
    <3>3. u # t
      BY <2>3, <3>2
    <3> QED BY <1>3, <3>1, <3>2, <3>3, UnlockHostFacts DEF IInv, ScaledInv
  <2> QED BY <2>2, <2>3
<1> QED BY <1>5, <1>6, <1>7, <1>8, <1>9, <1>10, <1>11, <1>12 DEF IInv

LEMMA Stutter ==
    ASSUME IInv, UNCHANGED vars
    PROVE  IInv'
<1> USE DEF vars
<1>1. TypeInv'
  BY DEF IInv, TypeInv
<1>2. JobInv' /\ LifeInv' /\ AloneInv'
  BY DEF IInv, JobInv, LifeInv, AloneInv
<1>3. PlannerInv' /\ HostInv'
  BY DEF IInv, PlannerInv, HostInv
<1>4. PlannedInv'
  BY DEF IInv, PlannedInv
<1>5. ScaledInv'
  BY DEF IInv, ScaledInv
<1> QED BY <1>1, <1>2, <1>3, <1>4, <1>5 DEF IInv

LEMMA Preserved == IInv /\ [Next]_vars => IInv'
<1> SUFFICES ASSUME IInv, [Next]_vars PROVE IInv'
  OBVIOUS
<1>1. CASE UNCHANGED vars
  BY <1>1, Stutter
<1>2. CASE Terminated
  BY <1>2, Stutter DEF Terminated
<1>3. ASSUME NEW t \in Threads, NEW p \in Plans, Create(t, p) \/ Destroy(t, p)
      PROVE  IInv'
  BY <1>3, CreateStep, DestroyStep
<1>4. ASSUME NEW t \in Threads, NEW p \in Plans,
             NEW in \in Buffers \union {Null}, NEW out \in Buffers \union {Null},
             NEW onePointer \in BOOLEAN, Call(t, p, in, out, onePointer)
      PROVE  IInv'
  BY <1>4, CallStep
<1>5. ASSUME NEW t \in Threads, LibraryStep(t)
      PROVE  IInv'
  BY <1>5, EnterPlannerStep, CreatedStep, DestroyedStep, RejectStep, EnterStep, SelectStep,
     PlannedUnalignedStep, TransformStep, FinishStep DEF LibraryStep
<1>6. ASSUME NEW t \in Threads, Failure(t)
      PROVE  IInv'
  BY <1>6, CreateFailsStep, UnalignedFailsStep DEF Failure
<1> QED BY <1>1, <1>2, <1>3, <1>4, <1>5, <1>6 DEF Next

-----------------------------------------------------------------------------
(* Executions of different plans have buffers of their own.                 *)

Busy == {"called"} \union Inside

ApartInv == \A t, u \in Threads :
    pc[t] \in Busy /\ pc[u] \in Busy /\ job[t].plan # job[u].plan =>
      {job[t].in, job[t].out} \intersect {job[u].in, job[u].out} = {}

LEMMA InitialApart == InitPlans => ApartInv
BY DEF InitPlans, ApartInv, Busy, Inside

\* A step in which no thread starts an execution or gets other arguments.
LEMMA ApartFrame ==
    ASSUME ApartInv,
           \A u \in Threads : pc'[u] \in Busy => pc[u] \in Busy /\ job'[u] = job[u]
    PROVE  ApartInv'
BY DEF ApartInv

LEMMA CallApart ==
    ASSUME IInv, ApartInv, NEW t \in Threads, NEW p \in Plans,
           NEW in \in Buffers \union {Null}, NEW out \in Buffers \union {Null},
           NEW one \in BOOLEAN, Call(t, p, in, out, one)
    PROVE  ApartInv'
<1>1. TypeInv
  BY DEF IInv
<1>2. /\ job'[t] = [plan |-> p, in |-> in, out |-> out, onePointer |-> one]
      /\ \A u \in Threads : u # t => pc'[u] = pc[u] /\ job'[u] = job[u]
  BY <1>1 DEF Call, Goto, TypeInv
<1>3. ASSUME NEW u \in Threads, u # t, pc[u] \in Busy, job[u].plan # p
      PROVE  {in, out} \intersect {job[u].in, job[u].out} = {}
  <2>1. "in" \in DOMAIN job[u] /\ pc[u] # "idle"
    BY <1>3 DEF IInv, JobInv, Busy, Inside, CallJobs
  <2> QED BY <1>3, <2>1 DEF Call
<1>4. job'[t].plan = p /\ job'[t].in = in /\ job'[t].out = out
  BY <1>2
<1>5. SUFFICES ASSUME NEW u \in Threads, NEW v \in Threads,
                      pc'[u] \in Busy, pc'[v] \in Busy, job'[u].plan # job'[v].plan
               PROVE  {job'[u].in, job'[u].out} \intersect {job'[v].in, job'[v].out} = {}
  BY DEF ApartInv
<1>6. CASE u = t
  BY <1>2, <1>3, <1>4, <1>5, <1>6
<1>7. CASE v = t
  BY <1>2, <1>3, <1>4, <1>5, <1>7
<1>8. CASE u # t /\ v # t
  BY <1>2, <1>5, <1>8 DEF ApartInv
<1> QED BY <1>6, <1>7, <1>8

LEMMA ApartPreserved == IInv /\ ApartInv /\ [Next]_vars => ApartInv'
<1> SUFFICES ASSUME IInv, ApartInv, [Next]_vars PROVE ApartInv'
  OBVIOUS
<1>1. TypeInv
  BY DEF IInv
<1>2. CASE UNCHANGED vars \/ Terminated
  BY <1>2, ApartFrame DEF Terminated, vars
<1>3. ASSUME NEW t \in Threads, NEW p \in Plans, Create(t, p) \/ Destroy(t, p)
      PROVE  ApartInv'
  BY <1>1, <1>3, ApartFrame DEF Create, Destroy, Goto, TypeInv, Busy, Inside
<1>4. ASSUME NEW t \in Threads, NEW p \in Plans,
             NEW in \in Buffers \union {Null}, NEW out \in Buffers \union {Null},
             NEW onePointer \in BOOLEAN, Call(t, p, in, out, onePointer)
      PROVE  ApartInv'
  BY <1>4, CallApart
\* The steps that take a thread out of execute, or are not of execute.
<1>5. ASSUME NEW t \in Threads,
             \/ Created(t) \/ CreateFails(t) \/ Destroyed(t) \/ Reject(t)
             \/ UnalignedFails(t) \/ Finish(t)
      PROVE  ApartInv'
  <2>1. pc'[t] = "idle" /\ \A u \in Threads : u # t => pc'[u] = pc[u] /\ job'[u] = job[u]
    <3>1. CASE Created(t) \/ CreateFails(t) \/ Destroyed(t) \/ Reject(t)
      BY <1>1, <3>1 DEF Created, CreateFails, Destroyed, Reject, Goto, TypeInv
    <3>2. CASE UnalignedFails(t) \/ Finish(t)
      BY <3>2, UnlockHostFacts DEF UnalignedFails, Finish
    <3> QED BY <1>5, <3>1, <3>2
  <2> QED BY <2>1, ApartFrame DEF Busy, Inside
\* The steps of an execution, and of the planner on the way.
<1>6. ASSUME NEW t \in Threads,
             \/ EnterPlanner(t) \/ Enter(t) \/ Select(t) \/ PlannedUnaligned(t)
             \/ Transform(t)
      PROVE  ApartInv'
  <2>1. /\ UNCHANGED job
        /\ \A u \in Threads : u # t => pc'[u] = pc[u]
        /\ pc'[t] \in Busy => pc[t] \in Busy
    <3>1. CASE EnterPlanner(t)
      BY <1>1, <3>1 DEF EnterPlanner, PlanFirst, PlanLate, GiveBack, Goto, TypeInv, Busy, Inside
    <3>2. CASE Enter(t) \/ Select(t)
      BY <1>1, <3>2 DEF Enter, Select, Goto, TypeInv, Busy, Inside
    <3>3. CASE PlannedUnaligned(t) \/ Transform(t)
      BY <1>1, <3>3 DEF PlannedUnaligned, Transform, Goto, TypeInv, Busy, Inside
    <3> QED BY <1>6, <3>1, <3>2, <3>3
  <2> QED BY <2>1, ApartFrame
<1> QED BY <1>2, <1>3, <1>4, <1>5, <1>6 DEF Next, LibraryStep, Failure

-----------------------------------------------------------------------------
(* The order of executions.                                                 *)

OrderInv == ArgsInv /\ LogInv

LEMMA InitialOrder == InitPlans => OrderInv
<1> SUFFICES ASSUME InitPlans PROVE OrderInv
  OBVIOUS
<1>1. \A t \in Threads : pc[t] = "idle"
  BY DEF InitPlans
<1>2. ArgsInv
  BY <1>1 DEF ArgsInv, Checked
<1>3. LogInv
  <2>1. \A p \in Plans : log[p] = <<>> /\ applied[p] = {}
    BY DEF InitPlans
  <2>2. <<>> \in Seq(LogEntries) /\ Len(<<>>) = 0 /\ 1..0 = {}
    OBVIOUS
  <2>3. \A t \in Threads, p \in Plans : ~ Chose(t, p)
    BY <1>1 DEF Chose
  <2>4. log \in [Plans -> Seq(LogEntries)] /\ applied \in [Plans -> SUBSET Nat]
    BY <2>2 DEF InitPlans
  <2> QED BY <2>1, <2>2, <2>3, <2>4 DEF LogInv
<1> QED BY <1>2, <1>3 DEF OrderInv

\* A step that leaves the log alone, with the threads that have chosen.
LEMMA LogFrame ==
    ASSUME LogInv, UNCHANGED <<log, applied>>,
           \A u \in Threads : pc'[u] = "selected" <=> pc[u] = "selected",
           \A u \in Threads : pc[u] = "selected" => job'[u] = job[u]
    PROVE  LogInv'
<1>1. \A u \in Threads, p \in Plans : Chose(u, p)' <=> Chose(u, p)
  BY DEF Chose
<1>2. \A u \in Threads, p \in Plans : Chose(u, p) => job'[u] = job[u]
  BY DEF Chose
<1> HIDE DEF Chose
<1> QED BY <1>1, <1>2 DEF LogInv

\* A step in which no thread gets arguments, or past their checks.
LEMMA ArgsFrame ==
    ASSUME ArgsInv,
           \A u \in Threads : pc'[u] \in {"called"} \union Checked =>
             pc[u] \in {"called"} \union Checked /\ job'[u] = job[u],
           \A u \in Threads : pc'[u] \in Checked => pc[u] \in Checked
    PROVE  ArgsInv'
BY DEF ArgsInv, Valid

\* A thread that leaves the library, and the steps that create, destroy and
\* plan for unaligned buffers up to the choice.
LEMMA FrameSteps ==
    ASSUME IInv, OrderInv, NEW t \in Threads,
           \/ \E p \in Plans : Create(t, p) \/ Destroy(t, p)
           \/ EnterPlanner(t) \/ Created(t) \/ CreateFails(t) \/ Destroyed(t)
           \/ Reject(t) \/ UnalignedFails(t) \/ Finish(t)
    PROVE  OrderInv'
<1>1. TypeInv
  BY DEF IInv
<1>2. UNCHANGED <<log, applied>>
  BY DEF Create, Destroy, EnterPlanner, Created, CreateFails, Destroyed, Reject, UnalignedFails,
     Finish
<1>3. /\ \A u \in Threads : u # t => pc'[u] = pc[u] /\ job'[u] = job[u]
      /\ pc[t] # "selected"
      /\ pc'[t] \in {"idle", "creating", "destroying", "plan_aligned", "plan_unaligned",
                     "destroy_native"}
      /\ pc'[t] = "plan_unaligned" => pc[t] = "lacks_plan" /\ job'[t] = job[t]
  <2>1. CASE \E p \in Plans : Create(t, p) \/ Destroy(t, p)
    BY <1>1, <2>1 DEF Create, Destroy, Goto, TypeInv
  <2>2. CASE EnterPlanner(t)
    BY <1>1, <2>2 DEF EnterPlanner, PlanFirst, PlanLate, GiveBack, Goto, TypeInv
  <2>3. CASE Created(t)
    BY <1>1, <2>3 DEF Created, Goto, TypeInv
  <2>4. CASE CreateFails(t)
    BY <1>1, <2>4 DEF CreateFails, Goto, TypeInv
  <2>5. CASE Destroyed(t)
    BY <1>1, <2>5 DEF Destroyed, Goto, TypeInv
  <2>6. CASE Reject(t)
    BY <1>1, <2>6 DEF Reject, Goto, TypeInv
  <2>7. CASE UnalignedFails(t)
    BY <2>7, UnlockHostFacts DEF UnalignedFails
  <2>8. CASE Finish(t)
    BY <2>8, UnlockHostFacts DEF Finish
  <2> QED BY <2>1, <2>2, <2>3, <2>4, <2>5, <2>6, <2>7, <2>8
<1>4. LogInv'
  BY <1>2, <1>3, LogFrame DEF OrderInv
<1>5. ArgsInv'
  BY <1>3, ArgsFrame DEF OrderInv, Checked
<1> QED BY <1>4, <1>5 DEF OrderInv

LEMMA CallOrder ==
    ASSUME IInv, OrderInv, NEW t \in Threads, NEW p \in Plans,
           NEW in \in Buffers \union {Null}, NEW out \in Buffers \union {Null},
           NEW one \in BOOLEAN, Call(t, p, in, out, one)
    PROVE  OrderInv'
<1>1. TypeInv
  BY DEF IInv
<1>2. /\ pc[t] = "idle" /\ pc'[t] = "called"
      /\ job'[t] = [plan |-> p, in |-> in, out |-> out, onePointer |-> one]
      /\ \A u \in Threads : u # t => pc'[u] = pc[u] /\ job'[u] = job[u]
      /\ one => in = out
      /\ Distinct => one \/ in # out
      /\ UNCHANGED <<log, applied>>
  BY <1>1 DEF Call, Goto, TypeInv
<1>3. LogInv'
  BY <1>2, LogFrame DEF OrderInv
<1>4. ArgsInv'
  BY <1>2 DEF OrderInv, ArgsInv, Checked, Valid
<1> QED BY <1>3, <1>4 DEF OrderInv

LEMMA EnterOrder ==
    ASSUME IInv, OrderInv, NEW t \in Threads, Enter(t)
    PROVE  OrderInv'
<1>1. TypeInv
  BY DEF IInv
<1>2. /\ pc[t] = "called" /\ Valid(job[t]) /\ pc'[t] = "locked"
      /\ \A u \in Threads : u # t => pc'[u] = pc[u]
      /\ UNCHANGED <<job, log, applied>>
  BY <1>1 DEF Enter, Goto, TypeInv
<1>3. LogInv'
  BY <1>2, LogFrame DEF OrderInv
<1>4. ArgsInv'
  BY <1>2 DEF OrderInv, ArgsInv, Checked, Valid
<1> QED BY <1>3, <1>4 DEF OrderInv

\* The owner of the plan's mutex is the only thread that may have chosen.
LEMMA OneChose ==
    ASSUME IInv, NEW t \in Threads, pc[t] \in Inside
    PROVE  \A u \in Threads : Chose(u, job[t].plan) => u = t
BY DEF IInv, HostInv, Chose, Inside

LEMMA Appended ==
    ASSUME NEW S, NEW s \in Seq(S), NEW x \in S
    PROVE  /\ Append(s, x) \in Seq(S)
           /\ Len(Append(s, x)) = Len(s) + 1
           /\ Append(s, x)[Len(s) + 1] = x
  OBVIOUS

\* The execution joins the log when its native plan is chosen: everything
\* before it has taken effect.
LEMMA LoggedOrder ==
    ASSUME IInv, OrderInv, NEW t \in Threads, pc[t] \in {"locked", "plan_unaligned"},
           Logged(t), pc'[t] = "selected",
           \A u \in Threads : u # t => pc'[u] = pc[u],
           UNCHANGED <<job, applied>>
    PROVE  OrderInv'
<1> DEFINE p == job[t].plan
           e == [in |-> job[t].in, out |-> job[t].out]
<1>1. /\ p \in Plans /\ job[t].in \in Buffers /\ job[t].out \in Buffers
  BY DEF IInv, JobInv, Inside
<1>2. e \in LogEntries
  BY <1>1 DEF LogEntries
<1>3. \A u \in Threads : ~ Chose(u, p)
  BY OneChose DEF Inside, Chose
<1>4. /\ log \in [Plans -> Seq(LogEntries)] /\ log[p] \in Seq(LogEntries)
      /\ applied[p] = 1..Len(log[p])
  BY <1>1, <1>3 DEF OrderInv, LogInv
<1> HIDE DEF e
<1>5. log' = [log EXCEPT ![p] = Append(log[p], e)]
  BY DEF Logged, e
<1> HIDE DEF p
<1>6. ArgsInv'
  BY ArgsFrame DEF OrderInv, Checked
<1>7. LogInv'
  <2>0. log' \in [Plans -> Seq(LogEntries)] /\ applied' \in [Plans -> SUBSET Nat]
    <3>1. Append(log[p], e) \in Seq(LogEntries)
      BY <1>2, <1>4, Appended
    <3> QED BY <1>1, <1>5, <3>1 DEF OrderInv, LogInv
  <2> SUFFICES ASSUME NEW q \in Plans
               PROVE  /\ (\A u \in Threads : ~ Chose(u, q)') => applied'[q] = 1..Len(log'[q])
                      /\ \A u \in Threads : Chose(u, q)' =>
                           /\ Len(log'[q]) > 0
                           /\ log'[q][Len(log'[q])] = [in |-> job'[u].in, out |-> job'[u].out]
                           /\ applied'[q] = 1..(Len(log'[q]) - 1)
    BY <2>0 DEF LogInv
  <2>1. CASE q = p
    <3>1. log'[q] = Append(log[p], e)
      BY <1>1, <1>4, <1>5, <2>1
    <3>2. /\ log'[q] \in Seq(LogEntries) /\ Len(log'[q]) = Len(log[p]) + 1
          /\ log'[q][Len(log[p]) + 1] = e
      BY <1>2, <1>4, <3>1, Appended
    <3>3. Len(log[p]) \in Nat
      BY <1>4
    <3>4. Chose(t, q)'
      BY <2>1 DEF Chose, p
    <3>5. \A u \in Threads : Chose(u, q)' => u = t
      BY <1>3, <2>1 DEF Chose
    <3>6. Len(log'[q]) > 0 /\ Len(log'[q]) - 1 = Len(log[p])
      BY <3>2, <3>3
    <3>7. applied'[q] = 1..(Len(log'[q]) - 1)
      BY <1>4, <2>1, <3>6
    <3> QED BY <3>2, <3>4, <3>5, <3>6, <3>7 DEF e
  <2>2. CASE q # p
    <3>1. log'[q] = log[q]
      BY <1>1, <1>4, <1>5, <2>2
    <3>2. \A u \in Threads : Chose(u, q)' <=> Chose(u, q)
      BY <2>2 DEF Chose, p
    <3> HIDE DEF Chose
    <3> QED BY <3>1, <3>2 DEF OrderInv, LogInv
  <2> QED BY <2>1, <2>2
<1> QED BY <1>6, <1>7 DEF OrderInv

LEMMA SelectOrder ==
    ASSUME IInv, OrderInv, NEW t \in Threads, Select(t)
    PROVE  OrderInv'
<1>1. TypeInv
  BY DEF IInv
<1>2. pc[t] = "locked" /\ UNCHANGED <<job, applied>>
  BY DEF Select
<1>3. \/ Goto(t, "selected") /\ Logged(t)
      \/ Goto(t, "lacks_plan") /\ UNCHANGED log
  BY DEF Select
<1>4. CASE Goto(t, "selected") /\ Logged(t)
  <2>1. pc'[t] = "selected" /\ \A u \in Threads : u # t => pc'[u] = pc[u]
    BY <1>1, <1>4 DEF Goto, TypeInv
  <2> QED BY <1>2, <1>4, <2>1, LoggedOrder
<1>5. CASE Goto(t, "lacks_plan") /\ UNCHANGED log
  <2>1. pc'[t] = "lacks_plan" /\ \A u \in Threads : u # t => pc'[u] = pc[u]
    BY <1>1, <1>5 DEF Goto, TypeInv
  <2>2. LogInv'
    BY <1>2, <1>5, <2>1, LogFrame DEF OrderInv
  <2>3. ArgsInv'
    BY <1>2, <2>1, ArgsFrame DEF OrderInv, Checked
  <2> QED BY <2>2, <2>3 DEF OrderInv
<1> QED BY <1>3, <1>4, <1>5

LEMMA PlannedUnalignedOrder ==
    ASSUME IInv, OrderInv, NEW t \in Threads, PlannedUnaligned(t)
    PROVE  OrderInv'
<1>1. /\ pc[t] = "plan_unaligned" /\ Logged(t)
      /\ pc'[t] = "selected" /\ \A u \in Threads : u # t => pc'[u] = pc[u]
      /\ UNCHANGED <<job, applied>>
  BY DEF PlannedUnaligned, Goto, IInv, TypeInv
<1> QED BY <1>1, LoggedOrder

\* The position that takes effect is the last one of the log, and the one after
\* those that have.
LEMMA TransformPosition ==
    ASSUME IInv, OrderInv, NEW t \in Threads, Transform(t)
    PROVE  /\ job[t].plan \in Plans
           /\ log[job[t].plan] \in Seq(LogEntries) /\ Len(log[job[t].plan]) > 0
           /\ log[job[t].plan][Len(log[job[t].plan])] = [in |-> job[t].in, out |-> job[t].out]
           /\ applied[job[t].plan] = 1..(Len(log[job[t].plan]) - 1)
           /\ applied' = [applied EXCEPT ![job[t].plan] = @ \union {Len(log[job[t].plan])}]
<1>1. pc[t] = "selected" /\ job[t].plan \in Plans
  BY DEF Transform, IInv, JobInv
<1>2. Chose(t, job[t].plan)
  BY <1>1 DEF Chose
<1>3. PICK n : n = Len(log[job[t].plan])
  OBVIOUS
<1>4. /\ log[job[t].plan] \in Seq(LogEntries) /\ n > 0
      /\ log[job[t].plan][n] = [in |-> job[t].in, out |-> job[t].out]
      /\ applied[job[t].plan] = 1..(n - 1)
  BY <1>1, <1>2, <1>3 DEF OrderInv, LogInv
<1>5. n \in Nat
  BY <1>3, <1>4
<1>6. Cardinality(1..(n - 1)) + 1 = n
  <2>1. n - 1 \in Int /\ 1 \in Int
    BY <1>5
  <2>2. Cardinality(1..(n - 1)) = IF 1 > n - 1 THEN 0 ELSE (n - 1) - 1 + 1
    BY <2>1, FS_Interval
  <2> QED BY <1>4, <1>5, <2>2
<1>7. applied' = [applied EXCEPT ![job[t].plan] = @ \union {n}]
  BY <1>4, <1>6 DEF Transform
<1> QED BY <1>1, <1>3, <1>4, <1>7

LEMMA TransformOrder ==
    ASSUME IInv, OrderInv, NEW t \in Threads, Transform(t)
    PROVE  OrderInv'
<1>1. TypeInv
  BY DEF IInv
<1>2. PICK p : p = job[t].plan
  OBVIOUS
<1>3. PICK n : n = Len(log[p])
  OBVIOUS
<1>4. /\ p \in Plans /\ log[p] \in Seq(LogEntries) /\ n \in Nat /\ n > 0
      /\ applied[p] = 1..(n - 1)
      /\ applied' = [applied EXCEPT ![p] = @ \union {n}]
  <2>1. /\ p \in Plans /\ log[p] \in Seq(LogEntries) /\ n > 0
        /\ applied[p] = 1..(n - 1)
        /\ applied' = [applied EXCEPT ![p] = applied[p] \union {n}]
    BY <1>2, <1>3, TransformPosition
  <2>2. n \in Nat
    BY <1>3, <2>1
  <2> QED BY <2>1, <2>2
<1>5. applied \in [Plans -> SUBSET Nat] /\ applied' \in [Plans -> SUBSET Nat]
  BY <1>4 DEF OrderInv, LogInv
<1>6. /\ pc[t] = "selected" /\ pc'[t] = "transformed"
      /\ \A u \in Threads : u # t => pc'[u] = pc[u]
      /\ UNCHANGED <<job, log>>
  BY <1>1 DEF Transform, Goto, TypeInv
<1>7. ArgsInv'
  BY <1>6, ArgsFrame DEF OrderInv, Checked
<1>8. LogInv'
  <2> SUFFICES ASSUME NEW q \in Plans
               PROVE  /\ (\A u \in Threads : ~ Chose(u, q)') => applied'[q] = 1..Len(log[q])
                      /\ \A u \in Threads : Chose(u, q)' =>
                           /\ Len(log[q]) > 0
                           /\ log[q][Len(log[q])] = [in |-> job[u].in, out |-> job[u].out]
                           /\ applied'[q] = 1..(Len(log[q]) - 1)
    BY <1>5, <1>6 DEF OrderInv, LogInv
  <2>1. CASE q = p
    <3>1. \A u \in Threads : ~ Chose(u, q)'
      BY <1>2, <1>6, <2>1, OneChose DEF Chose, Inside
    <3>2. applied'[q] = 1..n
      BY <1>4, <1>5, <2>1
    <3> QED BY <1>3, <1>4, <2>1, <3>1, <3>2
  <2>2. CASE q # p
    <3>1. applied'[q] = applied[q]
      BY <1>4, <1>5, <2>2
    <3>2. \A u \in Threads : Chose(u, q)' <=> Chose(u, q)
      BY <1>2, <1>6, <2>2 DEF Chose
    <3> HIDE DEF Chose
    <3> QED BY <3>1, <3>2 DEF OrderInv, LogInv
  <2> QED BY <2>1, <2>2
<1> QED BY <1>7, <1>8 DEF OrderInv

LEMMA OrderPreserved == IInv /\ OrderInv /\ [Next]_vars => OrderInv'
<1> SUFFICES ASSUME IInv, OrderInv, [Next]_vars PROVE OrderInv'
  OBVIOUS
<1>1. CASE UNCHANGED vars \/ Terminated
  <2>1. UNCHANGED <<pc, job, log, applied>>
    BY <1>1 DEF Terminated, vars
  <2> QED BY <2>1, LogFrame, ArgsFrame DEF OrderInv
<1>2. ASSUME NEW t \in Threads, NEW p \in Plans, Create(t, p) \/ Destroy(t, p)
      PROVE  OrderInv'
  BY <1>2, FrameSteps
<1>3. ASSUME NEW t \in Threads, NEW p \in Plans,
             NEW in \in Buffers \union {Null}, NEW out \in Buffers \union {Null},
             NEW onePointer \in BOOLEAN, Call(t, p, in, out, onePointer)
      PROVE  OrderInv'
  BY <1>3, CallOrder
<1>4. ASSUME NEW t \in Threads, LibraryStep(t) \/ Failure(t)
      PROVE  OrderInv'
  BY <1>4, FrameSteps, EnterOrder, SelectOrder, PlannedUnalignedOrder, TransformOrder
     DEF LibraryStep, Failure
<1> QED BY <1>1, <1>2, <1>3, <1>4 DEF Next

-----------------------------------------------------------------------------
(* The refinement of SerialPlan, for a program with one plan.               *)

LEMMA InitialSerial == Init => Serial!Init
<1> SUFFICES ASSUME Init PROVE Serial!Init
  OBVIOUS
<1>1. log[ThePlan] = <<>> /\ applied[ThePlan] = {}
  BY ThePlanAssumption DEF Init, InitPlans
<1>2. {} = 1..Len(<<>>)
  OBVIOUS
<1>3. \A b \in Buffers : content[b].origin = b /\ content[b].times = 0
  BY DEF Init, Fresh
<1>4. \A b \in Buffers :
        [origin |-> content[b].origin, times |-> content[b].times] = Serial!Fresh(b)
  BY <1>3 DEF Serial!Fresh
<1>5. Seen = [b \in Buffers |->
                IF \E i \in {} : <<>>[i] = b THEN Serial!Garbage ELSE Serial!Fresh(b)]
  BY <1>4 DEF Seen
<1> QED BY <1>1, <1>2, <1>5 DEF Serial!Init

\* A step that leaves the log and what the program sees of the buffers alone.
LEMMA SerialStutter ==
    ASSUME UNCHANGED <<log, applied>>, Seen' = Seen
    PROVE  UNCHANGED Serial!vars
BY DEF Serial!vars

\* A choice accepts an execution.
LEMMA LoggedAccepts ==
    ASSUME IInv, OrderInv, Plans = {ThePlan}, NEW t \in Threads, pc[t] \in Inside,
           Logged(t), UNCHANGED <<applied, content>>
    PROVE  \E in, out \in Buffers : Serial!Accept(in, out)
<1>1. job[t].plan = ThePlan /\ job[t].in \in Buffers /\ job[t].out \in Buffers
  BY DEF IInv, JobInv, Inside
<1>2. log'[ThePlan] = Append(log[ThePlan], [in |-> job[t].in, out |-> job[t].out])
  BY <1>1, ThePlanAssumption DEF Logged, OrderInv, LogInv
<1>3. Serial!Accept(job[t].in, job[t].out)
  BY <1>2 DEF Serial!Accept, Seen
<1> QED BY <1>1, <1>3

\* The thread between the choice and the transform works on buffers that nobody
\* has left unscaled, and out of place on two of them.
LEMMA CleanArguments ==
    ASSUME IInv, OrderInv, Plans = {ThePlan}, Placement = "in_place" \/ Distinct,
           NEW t \in Threads, pc[t] = "selected"
    PROVE  /\ ~ content[job[t].in].unscaled
           /\ Placement = "out_of_place" => job[t].in # job[t].out
<1>1. job[t].plan = ThePlan /\ job[t].in \in Buffers
  BY DEF IInv, JobInv, Inside
<1>2. ~ content[job[t].in].unscaled
  <2> SUFFICES ASSUME content[job[t].in].unscaled PROVE FALSE
    OBVIOUS
  <2>1. PICK u \in Threads : pc[u] = "transformed"
    BY <1>1 DEF IInv, ScaledInv
  <2>2. job[u].plan = ThePlan
    BY <2>1 DEF IInv, JobInv
  <2>3. u = t
    BY <1>1, <2>1, <2>2 DEF IInv, HostInv, Inside
  <2> QED BY <2>1, <2>3
<1>3. Placement = "out_of_place" => job[t].in # job[t].out
  BY DEF OrderInv, ArgsInv, Checked, Valid
<1> QED BY <1>2, <1>3

\* What the program sees of the transform is the abstract one, if its arguments
\* are clean.
LEMMA TransformSeen ==
    ASSUME IInv, NEW t \in Threads, Transform(t),
           ~ content[job[t].in].unscaled,
           Placement = "out_of_place" => job[t].in # job[t].out
    PROVE  Seen' = [Seen EXCEPT ![job[t].out] = Serial!Transformed(Seen[job[t].in])]
<1> DEFINE j == job[t]
           d == content[j.in]
           e == Seen[j.in]
<1>1. pc[t] = "selected" /\ j.in \in Buffers /\ j.out \in Buffers
  BY DEF Transform, IInv, JobInv, Inside
<1>2. content \in [Buffers -> Contents] /\ d \in Contents
  BY <1>1 DEF IInv, TypeInv
<1>3. content' = [content EXCEPT ![j.out] = Transformed(j)]
  BY DEF Transform
<1>4. ~ d.unscaled /\ ~ (Placement = "out_of_place" /\ j.in = j.out)
  OBVIOUS
<1>5. e = [origin |-> d.origin, times |-> d.times]
  BY <1>1 DEF Seen
<1>6. d = [origin |-> d.origin, times |-> d.times, unscaled |-> FALSE]
  BY <1>2, <1>4 DEF Contents
<1>7. Serial!Transformed(e) = [origin |-> Transformed(j).origin, times |-> Transformed(j).times]
  <2>1. CASE d = Garbage
    <3>1. Transformed(j) = Garbage
      BY <2>1 DEF Transformed
    <3>2. e = Serial!Garbage
      BY <1>5, <2>1 DEF Garbage, Serial!Garbage
    <3>3. Serial!Transformed(e) = Serial!Garbage
      BY <3>2 DEF Serial!Transformed
    <3> QED BY <3>1, <3>3 DEF Garbage, Serial!Garbage
  <2>2. CASE d # Garbage
    <3>1. Transformed(j) = [origin |-> d.origin, times |-> d.times + 1, unscaled |-> Scaled]
      BY <1>4, <2>2 DEF Transformed
    <3>2. [origin |-> d.origin, times |-> d.times] # Serial!Garbage
      BY <1>6, <2>2 DEF Garbage, Serial!Garbage
    <3>3. Serial!Transformed(e) = [origin |-> d.origin, times |-> d.times + 1]
      BY <1>5, <3>2 DEF Serial!Transformed
    <3> QED BY <3>1, <3>3
  <2> QED BY <2>1, <2>2
<1> HIDE DEF j, d, e
<1>8. content'[j.out] = Transformed(j) /\ \A b \in Buffers : b # j.out => content'[b] = content[b]
  BY <1>1, <1>2, <1>3
<1>9. Seen' = [b \in Buffers |-> [origin |-> content'[b].origin, times |-> content'[b].times]]
  BY DEF Seen
<1>10. Seen'[j.out] = Serial!Transformed(e)
  BY <1>1, <1>7, <1>8, <1>9
<1>11. \A b \in Buffers : b # j.out => Seen'[b] = Seen[b]
  BY <1>8, <1>9 DEF Seen
<1>12. Seen' = [Seen EXCEPT ![j.out] = Serial!Transformed(e)]
  BY <1>9, <1>10, <1>11 DEF Seen
<1> QED BY <1>12 DEF j, e

\* Scaling changes nothing that the program can see.
LEMMA FinishSeen ==
    ASSUME IInv, NEW t \in Threads, Finish(t)
    PROVE  Seen' = Seen
<1>1. job[t].out \in Buffers /\ content \in [Buffers -> Contents]
  BY DEF Finish, IInv, TypeInv, JobInv, Inside
<1>2. content' = [content EXCEPT ![job[t].out] = Normalized(content[job[t].out])]
  BY DEF Finish
<1>3. \A d \in Contents : Normalized(d).origin = d.origin /\ Normalized(d).times = d.times
  BY DEF Normalized, Contents
<1>4. \A b \in Buffers : /\ content'[b].origin = content[b].origin
                        /\ content'[b].times = content[b].times
  BY <1>1, <1>2, <1>3
<1> QED BY <1>4 DEF Seen

\* The transform applies the oldest execution that is due.
LEMMA TransformApplies ==
    ASSUME IInv, OrderInv, Plans = {ThePlan}, Placement = "in_place" \/ Distinct,
           NEW t \in Threads, Transform(t)
    PROVE  \E i \in DOMAIN log[ThePlan] : Serial!Apply(i)
<1> DEFINE n == Len(log[ThePlan])
<1>1. pc[t] = "selected" /\ job[t].plan = ThePlan
  BY DEF Transform, IInv, JobInv, Inside
<1>2. /\ log[ThePlan] \in Seq(LogEntries) /\ n > 0
      /\ log[ThePlan][n] = [in |-> job[t].in, out |-> job[t].out]
      /\ applied[ThePlan] = 1..(n - 1)
      /\ applied' = [applied EXCEPT ![ThePlan] = applied[ThePlan] \union {n}]
  BY <1>1, TransformPosition
<1>3. n \in DOMAIN log[ThePlan]
  BY <1>2
<1>4. applied'[ThePlan] = applied[ThePlan] \union {n} /\ UNCHANGED log
  BY <1>2, ThePlanAssumption DEF OrderInv, LogInv, Transform
<1>5. log[ThePlan][n].in = job[t].in /\ log[ThePlan][n].out = job[t].out
  BY <1>2
<1>6. Seen' = [Seen EXCEPT ![job[t].out] = Serial!Transformed(Seen[job[t].in])]
  BY <1>1, CleanArguments, TransformSeen
<1> HIDE DEF n
<1>7. Serial!Apply(n)
  BY <1>2, <1>4, <1>5, <1>6 DEF Serial!Apply
<1> QED BY <1>3, <1>7

LEMMA SerialStep ==
    ASSUME IInv, OrderInv, Plans = {ThePlan}, Placement = "in_place" \/ Distinct, [Next]_vars
    PROVE  [Serial!Next]_(Serial!vars)
<1>1. ASSUME UNCHANGED <<log, applied, content>>
      PROVE  UNCHANGED Serial!vars
  BY <1>1, SerialStutter DEF Seen
<1>2. CASE UNCHANGED vars \/ Terminated
  BY <1>1, <1>2 DEF Terminated, vars
<1>3. ASSUME NEW t \in Threads, NEW p \in Plans, Create(t, p) \/ Destroy(t, p)
      PROVE  UNCHANGED Serial!vars
  BY <1>1, <1>3 DEF Create, Destroy
<1>4. ASSUME NEW t \in Threads, NEW p \in Plans,
             NEW in \in Buffers \union {Null}, NEW out \in Buffers \union {Null},
             NEW onePointer \in BOOLEAN, Call(t, p, in, out, onePointer)
      PROVE  UNCHANGED Serial!vars
  BY <1>1, <1>4 DEF Call
<1>5. ASSUME NEW t \in Threads, Failure(t)
      PROVE  UNCHANGED Serial!vars
  BY <1>1, <1>5 DEF Failure, CreateFails, UnalignedFails
<1>6. ASSUME NEW t \in Threads, LibraryStep(t)
      PROVE  [Serial!Next]_(Serial!vars)
  <2>1. CASE EnterPlanner(t) \/ Created(t) \/ Destroyed(t) \/ Reject(t) \/ Enter(t)
    BY <1>1, <2>1 DEF EnterPlanner, Created, Destroyed, Reject, Enter
  <2>2. CASE Select(t)
    <3>1. CASE UNCHANGED log
      BY <1>1, <2>2, <3>1 DEF Select
    <3>2. CASE Logged(t)
      <4>1. pc[t] \in Inside /\ UNCHANGED <<applied, content>>
        BY <2>2 DEF Select, Inside
      <4> QED BY <3>2, <4>1, LoggedAccepts DEF Serial!Next
    <3> QED BY <2>2, <3>1, <3>2 DEF Select
  <2>3. CASE PlannedUnaligned(t)
    <3>1. pc[t] \in Inside /\ Logged(t) /\ UNCHANGED <<applied, content>>
      BY <2>3 DEF PlannedUnaligned, Inside
    <3> QED BY <3>1, LoggedAccepts DEF Serial!Next
  <2>4. CASE Transform(t)
    BY <2>4, TransformApplies DEF Serial!Next, Serial!TakeEffect
  <2>5. CASE Finish(t)
    BY <2>5, FinishSeen, SerialStutter DEF Finish
  <2> QED BY <1>6, <2>1, <2>2, <2>3, <2>4, <2>5 DEF LibraryStep
<1> QED BY <1>2, <1>3, <1>4, <1>5, <1>6 DEF Next

-----------------------------------------------------------------------------
(* The theorems.                                                            *)

\* Whatever the threads do, the locks of host.cpp:114 and fftw_provider.cpp:197,
\* 216 and 235 are held where the code believes so, and a plan knows exactly
\* the native plans FFTW keeps for it: the inductive invariant.
THEOREM FftwInvariance == Spec => []IInv
BY Initial, Preserved, PTL DEF Spec

\* Every variable has the type of the member it stands for (host.cpp:139-149,
\* fftw_provider.cpp:268-281), and only a thread inside the library has a job.
THEOREM FftwTypes == Spec => []TypeOK
<1>1. IInv => TypeOK
  BY DEF IInv, TypeInv, JobInv, TypeOK, States, Alone, Inside, Lives, Planning
<1> QED BY <1>1, FftwInvariance, PTL

\* FFTW's planner never runs twice at once, for any number of threads that
\* create, execute and destroy any number of plans (fftw_provider.cpp:20-24,
\* 197, 216, 235).
THEOREM PlannerIsExclusive == Spec => []PlannerExclusive
<1>1. IInv => PlannerExclusive
  BY DEF IInv, PlannerInv, PlannerExclusive
<1> QED BY <1>1, FftwInvariance, PTL

\* No native plan is lost, made twice or given back twice, and no transform
\* lacks one that suits its buffers, although unaligned_ is tested before the
\* planner's lock is taken (fftw_provider.cpp:214-243).
THEOREM NativePlansKept == Spec => []NoNativePlanLost
<1>1. IInv => NoNativePlanLost
  BY DEF IInv, PlannedInv, LifeInv, Inside, NoNativePlanLost
<1> QED BY <1>1, FftwInvariance, PTL

\* The buffers of executions of different plans are apart, whatever the threads
\* do: the program keeps them apart when it calls execute, and no step of
\* execute gives a call other arguments (host.cpp:97-137).
LEMMA ApartInvariance == Spec => []ApartInv
<1>1. Init => ApartInv
  BY InitialApart DEF Init
<1> QED BY <1>1, ApartPreserved, FftwInvariance, PTL DEF Spec

\* A buffer that FFTW has written and that is still to be scaled is the output
\* of one thread about to scale it, and no other thread, of this plan or of
\* another, is between its choice of a native plan and its return with that
\* buffer (host.cpp:114-136).
THEOREM UnscaledStaysPrivate == Spec => []UnscaledIsPrivate
<1>1. ASSUME IInv, ApartInv PROVE UnscaledIsPrivate
  <2> SUFFICES ASSUME NEW b \in Buffers, content[b].unscaled
               PROVE  \E t \in Threads :
                        /\ pc[t] = "transformed" /\ job[t].out = b
                        /\ \A u \in Threads \ {t} :
                             pc[u] \in {"selected", "transformed"} =>
                               b \notin {job[u].in, job[u].out}
    BY DEF UnscaledIsPrivate
  <2>1. PICK t \in Threads : pc[t] = "transformed" /\ job[t].out = b
    BY <1>1 DEF IInv, ScaledInv
  <2>2. ASSUME NEW u \in Threads \ {t}, pc[u] \in {"selected", "transformed"}
        PROVE  b \notin {job[u].in, job[u].out}
    <3>1. CASE job[u].plan = job[t].plan
      BY <1>1, <2>1, <2>2, <3>1 DEF IInv, HostInv, Inside
    <3>2. CASE job[u].plan # job[t].plan
      BY <1>1, <2>1, <2>2, <3>2 DEF ApartInv, Busy, Inside
    <3> QED BY <3>1, <3>2
  <2> QED BY <2>1, <2>2
<1> QED BY <1>1, FftwInvariance, ApartInvariance, PTL

\* The executions of every plan take effect in the order in which their threads
\* chose a native plan, each one before the next is chosen (host.cpp:114-128).
THEOREM OrderInvariance == Spec => []OrderInv
<1>1. Init => OrderInv
  BY InitialOrder DEF Init
<1> QED BY <1>1, OrderPreserved, FftwInvariance, PTL DEF Spec

\* A host plan that several threads share applies their executions one after
\* the other, each to the scaled result of the ones before (host.cpp:97-137):
\* every step of the plan is a step of SerialPlan, if the program has this plan
\* only and keeps the two arrays of an out-of-place execution apart.
THEOREM HostImplementsSerial ==
    ASSUME Plans = {ThePlan}, Placement = "in_place" \/ Distinct
    PROVE  Spec => Serial!Safety
<1>1. IInv /\ OrderInv /\ [Next]_vars => [Serial!Next]_(Serial!vars)
  BY SerialStep
<1> QED BY <1>1, InitialSerial, FftwInvariance, OrderInvariance, PTL DEF Spec, Serial!Safety
=============================================================================
