------------------------- MODULE BlockingPlanProofs -------------------------
(***************************************************************************)
(* Theorems about BlockingPlan, for any number of threads, buffers and     *)
(* commands of the program, on either queue.                               *)
(***************************************************************************)
EXTENDS BlockingPlan, FiniteSetTheorems, TLAPS

-----------------------------------------------------------------------------
(* The inductive invariant.                                                 *)

\* Where a thread is while a host plan is its own to make or destroy, and while
\* it holds the host plan's mutex.
Alone == {"creating", "plan_aligned", "destroying", "destroy_native"}
Inside == {"locked", "lacks_plan", "plan_unaligned", "selected", "transformed"}

\* Where a thread is while it holds the SYCL plan's mutex, and while it is
\* anywhere in execute.
Holding == {"waiting", "draining", "hosting", "submitting"}
Executing == Holding \union {"called"}

HostPlans == {Inner, Other}
Lives == {"none", "creating", "live", "destroying", "destroyed"}
PlanJobs == [plan : HostPlans]
CallJobs == [plan : HostPlans, in : Buffers \union {Invalid}, out : Buffers \union {Invalid},
             onePointer : BOOLEAN]
Requests == [in : Buffers \union {Invalid}, out : Buffers \union {Invalid},
             onePointer : BOOLEAN, deps : SUBSET Elsewhere]

TypeInv ==
    /\ pc \in [Threads -> {"idle", "called"} \union Alone \union Inside]
    /\ job \in [Threads -> {Host!NoJob} \union PlanJobs \union CallJobs]
    /\ life \in [HostPlans -> Lives]
    /\ hostMutex \in [HostPlans -> Threads \union {NoThread}]
    /\ place \in [Threads -> Executing \union {"outside", "destroying"}]
    /\ request \in [Threads -> {NoRequest} \union Requests]
    /\ mutex \in Threads \union {NoThread}
    /\ commands \in Seq(BOOLEAN)

\* The program's first commands stay where they were submitted.
CommandsInv == \A p \in Producers : p \in Events /\ commands[p] = (p \notin Elsewhere)

\* One thread at a time is past the lock, with valid arguments.
HolderInv == \A t \in Threads :
    /\ place[t] \in Holding => mutex = t /\ Valid(request[t])
    /\ place[t] \in Executing => request[t] \in Requests

\* What a call knows of the commands that are not complete.
WaitInv == \A t \in Threads :
    /\ place[t] \in Executing => \A p \in Elsewhere \ done :
         Produced[p] \in {request[t].in, request[t].out} => p \in request[t].deps
    /\ place[t] \in {"draining", "hosting"} =>
         request[t].deps \subseteq done /\ Producers \ Elsewhere \subseteq awaited
    /\ place[t] = "hosting" => awaited \subseteq done

\* The destructor runs when nobody else is inside.
DestroyInv == \A t, u \in Threads : place[t] = "destroying" /\ u # t => place[u] = "outside"

SyclInv == CommandsInv /\ HolderInv /\ WaitInv /\ DestroyInv

\* A host plan that is made or destroyed belongs to one thread.
LifeInv == \A t \in Threads :
    /\ pc[t] \in Alone => job[t].plan \in HostPlans
    /\ pc[t] \in {"creating", "plan_aligned"} => life[job[t].plan] = "creating"
    /\ pc[t] \in {"destroying", "destroy_native"} => life[job[t].plan] = "destroying"
AloneInv == \A t, u \in Threads :
    pc[t] \in Alone /\ pc[u] \in Alone /\ job[t].plan = job[u].plan => t = u

HostInv == LifeInv /\ AloneInv

\* The host plan works for the call that holds the SYCL plan's mutex, on the
\* arguments of that call, and is locked by nobody else.
HostingInv == \A t \in Threads :
    /\ place[t] = "hosting" =>
         /\ pc[t] \in {"called"} \union Inside
         /\ job[t] = [plan |-> Inner, in |-> request[t].in, out |-> request[t].out,
                      onePointer |-> request[t].onePointer]
    /\ place[t] # "hosting" => pc[t] \in {"idle"} \union Alone
LockInv == \A h \in HostPlans : hostMutex[h] # NoThread =>
    place[hostMutex[h]] = "hosting" /\ pc[hostMutex[h]] \in Inside
ServedInv == \A t \in Threads : place[t] \in Executing => life[Inner] = "live"

JoinInv == HostingInv /\ LockInv /\ ServedInv

IInv == TypeInv /\ SyclInv /\ HostInv /\ JoinInv

-----------------------------------------------------------------------------
(* Facts about single records.                                              *)

LEMMA ProducersFacts ==
    /\ Producers = 1..Len(Produced) /\ Len(Produced) \in Nat
    /\ Elsewhere \subseteq Producers
    /\ \A p \in Producers : Produced[p] \in Buffers
BY BlockingAssumption DEF Producers

\* The conjuncts that only see the SYCL plan do not see a step of a host plan.
LEMMA SyclKeeps ==
    ASSUME SyclInv, UNCHANGED syclVars
    PROVE  SyclInv'
BY DEF SyclInv, CommandsInv, Events, HolderInv, WaitInv, DestroyInv, Valid, syclVars

\* The conjuncts that only see the host plans do not see a step of the queue.
LEMMA HostKeeps ==
    ASSUME HostInv, UNCHANGED <<pc, job, life>>
    PROVE  HostInv'
BY DEF HostInv, LifeInv, AloneInv

-----------------------------------------------------------------------------
(* The program creates and destroys host plans.                             *)

LEMMA CreateStep ==
    ASSUME IInv, NEW t \in Threads, NEW h \in HostPlans, place[t] = "outside",
           Host!Create(t, h), UNCHANGED syclVars
    PROVE  IInv'
<1>1. TypeInv /\ UNCHANGED <<place, request, mutex, commands>>
  BY DEF IInv, syclVars
<1>2. /\ pc[t] = "idle" /\ life[h] = "none"
      /\ pc'[t] = "creating" /\ job'[t].plan = h
      /\ \A u \in Threads : u # t => pc'[u] = pc[u] /\ job'[u] = job[u]
      /\ life'[h] = "creating" /\ \A g \in HostPlans : g # h => life'[g] = life[g]
      /\ hostMutex' = hostMutex
  BY <1>1 DEF Host!Create, Host!Goto, TypeInv
<1>3. TypeInv'
  <2>1. [plan |-> h] \in PlanJobs
    BY DEF PlanJobs
  <2> QED BY <1>1, <2>1 DEF Host!Create, Host!Goto, TypeInv, Alone, Lives
<1>4. SyclInv'
  BY SyclKeeps DEF IInv
<1>5. LifeInv'
  BY <1>2 DEF IInv, HostInv, LifeInv, Alone
<1>6. AloneInv'
  BY <1>2 DEF IInv, HostInv, LifeInv, AloneInv, Alone
<1>7. HostingInv'
  BY <1>1, <1>2 DEF IInv, JoinInv, HostingInv, Alone
<1>8. LockInv'
  <2>1. \A u \in Threads : pc[u] \in Inside => u # t
    BY <1>2 DEF Inside
  <2> QED BY <1>1, <1>2, <2>1 DEF IInv, JoinInv, LockInv, TypeInv
<1>9. ServedInv'
  BY <1>1, <1>2 DEF IInv, JoinInv, ServedInv, HostPlans
<1> QED BY <1>3, <1>4, <1>5, <1>6, <1>7, <1>8, <1>9 DEF IInv, HostInv, JoinInv

\* What a thread does between its call of the host plan's destructor and its
\* return does not concern the plan that is live.
LEMMA DestroyOtherStep ==
    ASSUME IInv, NEW t \in Threads, place[t] = "outside",
           Host!Destroy(t, Other), UNCHANGED syclVars
    PROVE  IInv'
<1>1. TypeInv /\ UNCHANGED <<place, request, mutex, commands>>
  BY DEF IInv, syclVars
<1>2. Other \in HostPlans /\ Inner \in HostPlans /\ Other # Inner
  BY BlockingAssumption DEF HostPlans
<1>3. /\ pc[t] = "idle" /\ life[Other] = "live"
      /\ pc'[t] = "destroying" /\ job'[t].plan = Other
      /\ \A u \in Threads : u # t => pc'[u] = pc[u] /\ job'[u] = job[u]
      /\ life'[Other] = "destroying" /\ \A g \in HostPlans : g # Other => life'[g] = life[g]
      /\ hostMutex' = hostMutex
  BY <1>1, <1>2 DEF Host!Destroy, Host!Goto, TypeInv
<1>4. TypeInv'
  <2>1. [plan |-> Other] \in PlanJobs
    BY <1>2 DEF PlanJobs
  <2> QED BY <1>1, <2>1 DEF Host!Destroy, Host!Goto, TypeInv, Alone, Lives
<1>5. SyclInv'
  BY SyclKeeps DEF IInv
<1>6. LifeInv'
  BY <1>2, <1>3 DEF IInv, HostInv, LifeInv, Alone
<1>7. AloneInv'
  BY <1>3 DEF IInv, HostInv, LifeInv, AloneInv, Alone
<1>8. HostingInv'
  BY <1>1, <1>3 DEF IInv, JoinInv, HostingInv, Alone
<1>9. LockInv'
  <2>1. \A u \in Threads : pc[u] \in Inside => u # t
    BY <1>3 DEF Inside
  <2> QED BY <1>1, <1>3, <2>1 DEF IInv, JoinInv, LockInv, TypeInv
<1>10. ServedInv'
  BY <1>1, <1>2, <1>3 DEF IInv, JoinInv, ServedInv
<1> QED BY <1>4, <1>5, <1>6, <1>7, <1>8, <1>9, <1>10 DEF IInv, HostInv, JoinInv

\* The planner's lock is taken, by whoever needs it.
LEMMA EnterPlannerStep ==
    ASSUME IInv, NEW t \in Threads, Host!EnterPlanner(t), UNCHANGED syclVars
    PROVE  IInv'
<1>1. TypeInv /\ UNCHANGED <<place, request, mutex, commands>>
  BY DEF IInv, syclVars
<1>2. /\ \/ pc[t] = "creating" /\ pc'[t] = "plan_aligned"
         \/ pc[t] = "lacks_plan" /\ pc'[t] = "plan_unaligned"
         \/ pc[t] = "destroying" /\ pc'[t] = "destroy_native"
      /\ \A u \in Threads : u # t => pc'[u] = pc[u]
      /\ UNCHANGED <<job, life, hostMutex>>
  BY <1>1 DEF Host!EnterPlanner, Host!PlanFirst, Host!PlanLate, Host!GiveBack, Host!Goto, TypeInv
<1>3. TypeInv'
  BY <1>1 DEF Host!EnterPlanner, Host!PlanFirst, Host!PlanLate, Host!GiveBack, Host!Goto,
      TypeInv, Alone, Inside
<1>4. SyclInv'
  BY SyclKeeps DEF IInv
<1>5. LifeInv'
  BY <1>2 DEF IInv, HostInv, LifeInv, Alone
<1>6. AloneInv'
  BY <1>2 DEF IInv, HostInv, AloneInv, Alone
<1>7. HostingInv'
  BY <1>1, <1>2 DEF IInv, JoinInv, HostingInv, Alone, Inside
<1>8. LockInv'
  BY <1>1, <1>2 DEF IInv, JoinInv, LockInv, TypeInv, Inside
<1>9. ServedInv'
  BY <1>1, <1>2 DEF IInv, JoinInv, ServedInv
<1> QED BY <1>3, <1>4, <1>5, <1>6, <1>7, <1>8, <1>9 DEF IInv, HostInv, JoinInv

\* A thread comes back from making or destroying a host plan, which nobody else
\* has been working on; the destructor of the SYCL plan comes back with it.
LEMMA PlansReturn ==
    ASSUME IInv, NEW t \in Threads, NEW fate \in Lives,
           \/ UNCHANGED place
           \/ place[t] = "destroying" /\ Goto(t, "outside"),
           UNCHANGED <<request, mutex, lastEvent, commands, done, awaited>>,
           pc[t] \in {"plan_aligned", "destroy_native"}, hostMutex' = hostMutex,
           pc' = [pc EXCEPT ![t] = "idle"], job' = [job EXCEPT ![t] = Host!NoJob],
           life' = [life EXCEPT ![job[t].plan] = fate]
    PROVE  IInv'
<1>1. TypeInv
  BY DEF IInv
<1>2. PICK h \in HostPlans : h = job[t].plan
  BY DEF IInv, HostInv, LifeInv, Alone
<1>3. /\ pc'[t] = "idle" /\ \A u \in Threads : u # t => pc'[u] = pc[u] /\ job'[u] = job[u]
      /\ life'[h] = fate /\ \A g \in HostPlans : g # h => life'[g] = life[g]
  BY <1>1, <1>2 DEF TypeInv
<1>4. life[h] \in {"creating", "destroying"}
  BY <1>2 DEF IInv, HostInv, LifeInv
\* Nobody gets anywhere in the SYCL plan but out of it.
<1>5. /\ place' \in [Threads -> Executing \union {"outside", "destroying"}]
      /\ \A u \in Threads : place'[u] # place[u] => place[u] = "destroying" /\ place'[u] = "outside"
  BY <1>1 DEF Goto, TypeInv
<1>6. TypeInv'
  BY <1>1, <1>2, <1>5 DEF TypeInv
<1>7. CommandsInv' /\ HolderInv'
  BY <1>5 DEF IInv, SyclInv, CommandsInv, Events, HolderInv, Valid, Executing, Holding
<1>8. WaitInv'
  BY <1>5 DEF IInv, SyclInv, WaitInv, Executing, Holding
<1>9. DestroyInv'
  BY <1>5 DEF IInv, SyclInv, DestroyInv
<1>10. \A u \in Threads : u # t /\ pc[u] \in Alone => job[u].plan # h
  BY <1>2 DEF IInv, HostInv, AloneInv, Alone
<1>11. LifeInv'
  BY <1>3, <1>10 DEF IInv, HostInv, LifeInv, Alone
<1>12. AloneInv'
  BY <1>3 DEF IInv, HostInv, AloneInv, Alone
<1>13. HostingInv'
  <2>1. place[t] # "hosting"
    BY DEF IInv, JoinInv, HostingInv, Inside
  <2> QED BY <1>3, <1>5, <2>1 DEF IInv, JoinInv, HostingInv
<1>14. LockInv'
  <2>1. \A u \in Threads : pc[u] \in Inside => u # t
    BY DEF Inside
  <2> QED BY <1>1, <1>3, <1>5, <2>1 DEF IInv, JoinInv, LockInv, TypeInv
<1>15. ServedInv'
  BY <1>3, <1>4, <1>5 DEF IInv, JoinInv, ServedInv, HostPlans, Executing, Holding
<1> QED BY <1>6, <1>7, <1>8, <1>9, <1>11, <1>12, <1>13, <1>14, <1>15 DEF IInv, SyclInv, HostInv,
           JoinInv

LEMMA CreatedStep ==
    ASSUME IInv, NEW t \in Threads, Host!Created(t), UNCHANGED syclVars
    PROVE  IInv'
BY PlansReturn DEF Host!Created, Host!Goto, Lives, syclVars

LEMMA CreateFailsStep ==
    ASSUME IInv, NEW t \in Threads, Host!CreateFails(t), UNCHANGED syclVars
    PROVE  IInv'
BY PlansReturn DEF Host!CreateFails, Host!Goto, Lives, syclVars

LEMMA DestroyedStep ==
    ASSUME IInv, NEW t \in Threads, Host!Destroyed(t), UNCHANGED syclVars
    PROVE  IInv'
BY PlansReturn DEF Host!Destroyed, Host!Goto, Lives, syclVars

LEMMA HostPlanDestroyedStep ==
    ASSUME IInv, NEW t \in Threads, HostPlanDestroyed(t)
    PROVE  IInv'
BY PlansReturn DEF HostPlanDestroyed, Host!Destroyed, Host!Goto, Lives

-----------------------------------------------------------------------------
(* The host plan executes, for a call of the SYCL plan.                     *)

\* The host plan's mutex is taken: by the one call that is inside.
LEMMA LockedStep ==
    ASSUME IInv, NEW t \in Threads, place[t] = "hosting", Host!Enter(t), UNCHANGED syclVars
    PROVE  IInv'
<1>1. TypeInv /\ UNCHANGED <<place, request, mutex, commands>>
  BY DEF IInv, syclVars
<1>2. Inner \in HostPlans /\ job[t].plan = Inner
  <2>1. job[t] = [plan |-> Inner, in |-> request[t].in, out |-> request[t].out,
                  onePointer |-> request[t].onePointer]
    BY DEF IInv, JoinInv, HostingInv
  <2> QED BY <2>1 DEF HostPlans
<1>3. /\ pc'[t] = "locked" /\ \A u \in Threads : u # t => pc'[u] = pc[u]
      /\ hostMutex'[Inner] = t /\ \A g \in HostPlans : g # Inner => hostMutex'[g] = hostMutex[g]
      /\ UNCHANGED <<job, life>>
  BY <1>1, <1>2 DEF Host!Enter, Host!LockHost, Host!Goto, TypeInv
<1>4. pc[t] = "called"
  BY DEF Host!Enter
<1>5. TypeInv'
  BY <1>1, <1>2 DEF Host!Enter, Host!LockHost, Host!Goto, TypeInv, Inside
<1>6. SyclInv'
  BY SyclKeeps DEF IInv
<1>7. HostInv'
  BY <1>3 DEF IInv, HostInv, LifeInv, AloneInv, Alone
<1>8. HostingInv'
  BY <1>1, <1>3 DEF IInv, JoinInv, HostingInv, Inside
<1>9. LockInv'
  <2> SUFFICES ASSUME NEW h \in HostPlans, hostMutex'[h] # NoThread
               PROVE  place'[hostMutex'[h]] = "hosting" /\ pc'[hostMutex'[h]] \in Inside
    BY DEF LockInv
  <2>1. CASE h = Inner
    BY <1>1, <1>3, <2>1 DEF Inside
  <2>2. CASE h # Inner
    <3>1. hostMutex'[h] = hostMutex[h] /\ hostMutex[h] \in Threads
      BY <1>1, <1>3, <2>2 DEF TypeInv
    <3>2. place[hostMutex[h]] = "hosting" /\ pc[hostMutex[h]] \in Inside
      BY <3>1 DEF IInv, JoinInv, LockInv
    <3>3. hostMutex[h] # t
      BY <1>4, <3>2 DEF Inside
    <3> QED BY <1>1, <1>3, <3>1, <3>2, <3>3
  <2> QED BY <2>1, <2>2
<1>10. ServedInv'
  BY <1>1, <1>3 DEF IInv, JoinInv, ServedInv
<1> QED BY <1>5, <1>6, <1>7, <1>8, <1>9, <1>10 DEF IInv, JoinInv

\* The host plan goes on, holding its mutex.
LEMMA InsideStep ==
    ASSUME IInv, NEW t \in Threads, NEW next \in Inside, place[t] = "hosting", pc[t] \in Inside,
           pc' = [pc EXCEPT ![t] = next], UNCHANGED <<job, life, hostMutex>>, UNCHANGED syclVars
    PROVE  IInv'
<1>1. TypeInv /\ UNCHANGED <<place, request, mutex, commands>>
  BY DEF IInv, syclVars
<1>2. pc'[t] = next /\ \A u \in Threads : u # t => pc'[u] = pc[u]
  BY <1>1 DEF TypeInv
<1>3. next \notin Alone
  BY DEF Inside, Alone
<1>4. TypeInv'
  BY <1>1 DEF TypeInv
<1>5. SyclInv'
  BY SyclKeeps DEF IInv
<1>6. HostInv'
  BY <1>2, <1>3 DEF IInv, HostInv, LifeInv, AloneInv, Alone
<1>7. HostingInv'
  BY <1>1, <1>2 DEF IInv, JoinInv, HostingInv
<1>8. LockInv'
  BY <1>1, <1>2 DEF IInv, JoinInv, LockInv, TypeInv
<1>9. ServedInv'
  BY <1>1 DEF IInv, JoinInv, ServedInv
<1> QED BY <1>4, <1>5, <1>6, <1>7, <1>8, <1>9 DEF IInv, JoinInv

LEMMA HostWorksStep ==
    ASSUME IInv, NEW t \in Threads, HostWorks(t)
    PROVE  IInv'
<1>1. place[t] = "hosting" /\ UNCHANGED syclVars
  BY DEF HostWorks
<1>2. CASE Host!Enter(t)
  BY <1>1, <1>2, LockedStep
<1>3. CASE Host!Select(t)
  <2>1. PICK next \in {"selected", "lacks_plan"} : pc' = [pc EXCEPT ![t] = next]
    BY <1>3 DEF Host!Select, Host!Goto
  <2> QED BY <1>1, <1>3, <2>1, InsideStep DEF Host!Select, Inside
<1>4. CASE Host!EnterPlanner(t)
  BY <1>1, <1>4, EnterPlannerStep
<1>5. CASE Host!PlannedUnaligned(t)
  BY <1>1, <1>5, InsideStep DEF Host!PlannedUnaligned, Host!Goto, Inside
<1>6. CASE Host!Transform(t)
  BY <1>1, <1>6, InsideStep DEF Host!Transform, Host!Goto, Inside
<1> QED BY <1>2, <1>3, <1>4, <1>5, <1>6 DEF HostWorks

-----------------------------------------------------------------------------
(* What steps of the SYCL plan leave alone.                                 *)

LEMMA Appended ==
    ASSUME TypeInv, CommandsInv, commands' \in {commands, Append(commands, TRUE)}
    PROVE  CommandsInv' /\ commands' \in Seq(BOOLEAN)
<1>1. commands \in Seq(BOOLEAN)
  BY DEF TypeInv
<1>2. CASE commands' = commands
  BY <1>1, <1>2 DEF CommandsInv, Events
<1>3. CASE commands' = Append(commands, TRUE)
  <2>1. \A S : \A s \in Seq(S), x \in S :
          /\ Append(s, x) \in Seq(S)
          /\ \A i \in DOMAIN s : i \in DOMAIN Append(s, x) /\ Append(s, x)[i] = s[i]
    OBVIOUS
  <2>2. TRUE \in BOOLEAN
    OBVIOUS
  <2>3. /\ Append(commands, TRUE) \in Seq(BOOLEAN)
        /\ \A i \in DOMAIN commands :
             i \in DOMAIN Append(commands, TRUE) /\ Append(commands, TRUE)[i] = commands[i]
    BY <1>1, <2>1, <2>2
  <2> QED BY <1>3, <2>3 DEF CommandsInv, Events
<1> QED BY <1>2, <1>3

\* A thread that is not inside the host plan takes a step of the SYCL plan.
LEMMA SyclMoves ==
    ASSUME IInv, NEW t \in Threads,
           NEW where \in {"outside", "called", "waiting", "draining", "destroying"},
           UNCHANGED hostVars, Goto(t, where), place[t] # "hosting",
           where \in Executing => life[Inner] = "live",
           request' \in [Threads -> {NoRequest} \union Requests],
           \A u \in Threads : u # t => request'[u] = request[u],
           mutex' \in Threads \union {NoThread}, commands' \in Seq(BOOLEAN), SyclInv'
    PROVE  IInv'
<1>1. TypeInv /\ UNCHANGED <<pc, job, life, hostMutex>>
  BY DEF IInv, hostVars
<1>2. place'[t] = where /\ \A u \in Threads : u # t => place'[u] = place[u]
  BY <1>1 DEF Goto, TypeInv
<1>3. TypeInv'
  BY <1>1 DEF Goto, TypeInv, Executing, Holding
<1>4. HostInv'
  BY <1>1, HostKeeps DEF IInv
<1>5. HostingInv'
  BY <1>1, <1>2 DEF IInv, JoinInv, HostingInv
<1>6. LockInv'
  BY <1>1, <1>2 DEF IInv, JoinInv, LockInv, TypeInv
<1>7. ServedInv'
  BY <1>1, <1>2 DEF IInv, JoinInv, ServedInv
<1> QED BY <1>3, <1>4, <1>5, <1>6, <1>7 DEF IInv, JoinInv

\* The call that holds the mutex is the only one past it.
LEMMA HolderAlone ==
    ASSUME IInv, NEW t \in Threads, place[t] \in Holding
    PROVE  /\ \A u \in Threads : u # t => place[u] \notin Holding
           /\ place[t] \in Executing /\ life[Inner] = "live"
BY DEF IInv, SyclInv, HolderInv, JoinInv, ServedInv, Executing

\* A call leaves execute and unlocks the SYCL plan.
LEMMA ReleaseKeeps ==
    ASSUME IInv, NEW t \in Threads, place[t] \in Holding, Release(t), done' = done,
           commands' \in {commands, Append(commands, TRUE)}
    PROVE  /\ SyclInv' /\ commands' \in Seq(BOOLEAN) /\ mutex' \in Threads \union {NoThread}
           /\ place'[t] = "outside" /\ \A u \in Threads : u # t => place'[u] = place[u]
           /\ request' \in [Threads -> {NoRequest} \union Requests]
           /\ \A u \in Threads : u # t => request'[u] = request[u]
<1>1. TypeInv
  BY DEF IInv
<1>2. /\ place'[t] = "outside" /\ \A u \in Threads : u # t => place'[u] = place[u]
      /\ \A u \in Threads : u # t => request'[u] = request[u]
      /\ request' \in [Threads -> {NoRequest} \union Requests]
  BY <1>1 DEF Release, Leave, Goto, TypeInv
<1>3. \A u \in Threads : u # t => place[u] \notin Holding
  BY HolderAlone
<1>4. CommandsInv' /\ commands' \in Seq(BOOLEAN)
  BY Appended DEF IInv, SyclInv
<1>5. HolderInv'
  BY <1>2, <1>3 DEF IInv, SyclInv, HolderInv, Executing, Holding, Valid
<1>6. WaitInv'
  BY <1>2, <1>3 DEF IInv, SyclInv, WaitInv, Executing, Holding
<1>7. DestroyInv'
  BY <1>2 DEF IInv, SyclInv, DestroyInv
<1>8. mutex' \in Threads \union {NoThread}
  BY DEF Release
<1> QED BY <1>2, <1>4, <1>5, <1>6, <1>7, <1>8 DEF SyclInv

-----------------------------------------------------------------------------
(* The host plan returns or throws.                                         *)

\* A thread leaves the host plan and unlocks it, and nobody else's mutex.
LEMMA UnlockFacts ==
    ASSUME IInv, NEW t \in Threads, place[t] = "hosting", Host!UnlockHost(t), life' = life
    PROVE  /\ pc'[t] = "idle" /\ \A u \in Threads : u # t => pc'[u] = pc[u] /\ job'[u] = job[u]
           /\ \A h \in HostPlans : hostMutex'[h] # NoThread =>
                hostMutex'[h] = hostMutex[h] /\ hostMutex[h] # t
           /\ pc' \in [Threads -> {"idle", "called"} \union Alone \union Inside]
           /\ job' \in [Threads -> {Host!NoJob} \union PlanJobs \union CallJobs]
           /\ hostMutex' \in [HostPlans -> Threads \union {NoThread}]
           /\ HostInv'
<1>1. TypeInv
  BY DEF IInv
<1>2. /\ pc'[t] = "idle" /\ \A u \in Threads : u # t => pc'[u] = pc[u] /\ job'[u] = job[u]
      /\ pc' \in [Threads -> {"idle", "called"} \union Alone \union Inside]
      /\ job' \in [Threads -> {Host!NoJob} \union PlanJobs \union CallJobs]
  BY <1>1 DEF Host!UnlockHost, Host!Goto, TypeInv
<1>3. hostMutex' = [h \in HostPlans |-> IF hostMutex[h] = t THEN NoThread ELSE hostMutex[h]]
  BY DEF Host!UnlockHost, HostPlans
<1>4. \A h \in HostPlans : hostMutex'[h] # NoThread =>
        hostMutex'[h] = hostMutex[h] /\ hostMutex[h] # t
  BY <1>3
<1>5. hostMutex' \in [HostPlans -> Threads \union {NoThread}]
  BY <1>1, <1>3 DEF TypeInv
<1>6. HostInv'
  BY <1>2 DEF IInv, HostInv, LifeInv, AloneInv, Alone
<1> QED BY <1>2, <1>4, <1>5, <1>6

LEMMA HostReturnsStep ==
    ASSUME IInv, NEW t \in Threads, HostReturns(t)
    PROVE  IInv'
<1>1. /\ TypeInv /\ place[t] = "hosting" /\ Host!UnlockHost(t) /\ life' = life
      /\ Goto(t, "submitting")
      /\ UNCHANGED <<request, mutex, lastEvent, commands, done, awaited>>
  BY DEF IInv, HostReturns, Host!Finish
<1>2. place'[t] = "submitting" /\ \A u \in Threads : u # t => place'[u] = place[u]
  BY <1>1 DEF Goto, TypeInv
<1>3. /\ pc'[t] = "idle" /\ \A u \in Threads : u # t => pc'[u] = pc[u] /\ job'[u] = job[u]
      /\ \A h \in HostPlans : hostMutex'[h] # NoThread =>
           hostMutex'[h] = hostMutex[h] /\ hostMutex[h] # t
      /\ HostInv'
  BY <1>1, UnlockFacts
<1>4. TypeInv'
  BY <1>1, UnlockFacts DEF Goto, TypeInv, Executing, Holding
<1>5. CommandsInv'
  BY <1>1 DEF IInv, SyclInv, CommandsInv, Events
<1>6. HolderInv'
  BY <1>1, <1>2 DEF IInv, SyclInv, HolderInv, Executing, Holding, Valid
<1>7. WaitInv'
  BY <1>1, <1>2 DEF IInv, SyclInv, WaitInv, Executing, Holding
<1>8. DestroyInv'
  BY <1>1, <1>2 DEF IInv, SyclInv, DestroyInv
<1>9. HostingInv'
  BY <1>1, <1>2, <1>3 DEF IInv, JoinInv, HostingInv
<1>10. LockInv'
  BY <1>1, <1>2, <1>3 DEF IInv, JoinInv, LockInv, TypeInv
<1>11. ServedInv'
  BY <1>1, <1>2 DEF IInv, JoinInv, ServedInv, Executing, Holding
<1> QED BY <1>3, <1>4, <1>5, <1>6, <1>7, <1>8, <1>9, <1>10, <1>11 DEF IInv, SyclInv, JoinInv

LEMMA HostThrowsStep ==
    ASSUME IInv, NEW t \in Threads, HostThrows(t)
    PROVE  IInv'
<1>1. /\ TypeInv /\ place[t] = "hosting" /\ Host!UnlockHost(t) /\ life' = life
      /\ Release(t) /\ UNCHANGED <<commands, done>>
  BY DEF IInv, HostThrows, Host!UnalignedFails
<1>2. /\ SyclInv' /\ commands' \in Seq(BOOLEAN) /\ mutex' \in Threads \union {NoThread}
      /\ place'[t] = "outside" /\ \A u \in Threads : u # t => place'[u] = place[u]
      /\ request' \in [Threads -> {NoRequest} \union Requests]
      /\ \A u \in Threads : u # t => request'[u] = request[u]
  BY <1>1, ReleaseKeeps DEF Holding
<1>3. /\ pc'[t] = "idle" /\ \A u \in Threads : u # t => pc'[u] = pc[u] /\ job'[u] = job[u]
      /\ \A h \in HostPlans : hostMutex'[h] # NoThread =>
           hostMutex'[h] = hostMutex[h] /\ hostMutex[h] # t
      /\ HostInv'
  BY <1>1, UnlockFacts
<1>4. TypeInv'
  BY <1>1, <1>2, UnlockFacts DEF Release, Leave, Goto, TypeInv
<1>5. HostingInv'
  BY <1>1, <1>2, <1>3 DEF IInv, JoinInv, HostingInv
<1>6. LockInv'
  BY <1>1, <1>2, <1>3 DEF IInv, JoinInv, LockInv, TypeInv
<1>7. ServedInv'
  BY <1>1, <1>2 DEF IInv, JoinInv, ServedInv, Executing, Holding
<1> QED BY <1>2, <1>3, <1>4, <1>5, <1>6, <1>7 DEF IInv, JoinInv

-----------------------------------------------------------------------------
(* The program and the queues.                                              *)

LEMMA SubmitStep ==
    ASSUME IInv, Submit
    PROVE  IInv'
<1>1. /\ TypeInv /\ commands' = Append(commands, TRUE)
      /\ UNCHANGED <<pc, job, life, hostMutex, place, request, mutex, lastEvent, done, awaited>>
  BY DEF IInv, Submit, hostVars
<1>2. CommandsInv' /\ commands' \in Seq(BOOLEAN)
  BY <1>1, Appended DEF IInv, SyclInv
<1>3. TypeInv'
  BY <1>1, <1>2 DEF TypeInv
<1>4. HolderInv' /\ WaitInv' /\ DestroyInv'
  BY <1>1 DEF IInv, SyclInv, HolderInv, WaitInv, DestroyInv, Valid
<1>5. HostInv'
  BY <1>1, HostKeeps DEF IInv
<1>6. JoinInv'
  BY <1>1 DEF IInv, JoinInv, HostingInv, LockInv, ServedInv
<1> QED BY <1>2, <1>3, <1>4, <1>5, <1>6 DEF IInv, SyclInv

\* A command that completes takes nothing away from what a call waited for.
LEMMA QueueStep ==
    ASSUME IInv, Queue
    PROVE  IInv'
<1>1. /\ TypeInv /\ done \subseteq done'
      /\ UNCHANGED <<pc, job, life, hostMutex, place, request, mutex, commands, awaited>>
  BY DEF IInv, Queue, Complete
<1>2. TypeInv'
  BY <1>1 DEF TypeInv
<1>3. CommandsInv' /\ HolderInv' /\ DestroyInv'
  BY <1>1 DEF IInv, SyclInv, CommandsInv, Events, HolderInv, DestroyInv, Valid
<1>4. WaitInv'
  BY <1>1 DEF IInv, SyclInv, WaitInv
<1>5. HostInv'
  BY <1>1, HostKeeps DEF IInv
<1>6. JoinInv'
  BY <1>1 DEF IInv, JoinInv, HostingInv, LockInv, ServedInv
<1> QED BY <1>2, <1>3, <1>4, <1>5, <1>6 DEF IInv, SyclInv

LEMMA CallStep ==
    ASSUME IInv, NEW t \in Threads, NEW in \in Buffers, NEW out \in Buffers \union {Invalid},
           NEW onePointer \in BOOLEAN, NEW deps \in SUBSET Elsewhere,
           Call(t, in, out, onePointer, deps)
    PROVE  IInv'
<1> DEFINE r == [in |-> in, out |-> out, onePointer |-> onePointer, deps |-> deps]
<1>1. /\ TypeInv /\ place[t] = "outside" /\ life[Inner] = "live"
      /\ \A u \in Threads : place[u] # "destroying"
      /\ \A p \in Elsewhere \ done : Produced[p] \in {in, out} => p \in deps
      /\ Goto(t, "called") /\ request' = [request EXCEPT ![t] = r]
      /\ UNCHANGED hostVars /\ UNCHANGED <<mutex, lastEvent, commands, done, awaited>>
  BY DEF IInv, Call
<1>2. r \in Requests /\ r.in = in /\ r.out = out /\ r.deps = deps
  BY DEF Requests
<1> HIDE DEF r
<1>3. /\ place'[t] = "called" /\ \A u \in Threads : u # t => place'[u] = place[u]
      /\ request'[t] = r /\ \A u \in Threads : u # t => request'[u] = request[u]
      /\ request' \in [Threads -> {NoRequest} \union Requests]
  BY <1>1, <1>2 DEF Goto, TypeInv
<1>4. CommandsInv' /\ commands' \in Seq(BOOLEAN) /\ mutex' \in Threads \union {NoThread}
  BY <1>1 DEF IInv, SyclInv, CommandsInv, Events, TypeInv
<1>5. HolderInv'
  BY <1>1, <1>2, <1>3 DEF IInv, SyclInv, HolderInv, Executing, Holding, Valid
<1>6. WaitInv'
  BY <1>1, <1>2, <1>3 DEF IInv, SyclInv, WaitInv, Executing, Holding
<1>7. DestroyInv'
  BY <1>1, <1>3 DEF DestroyInv
<1> QED BY <1>1, <1>3, <1>4, <1>5, <1>6, <1>7, SyclMoves DEF SyclInv

LEMMA DestroyStep ==
    ASSUME IInv, NEW t \in Threads, Destroy(t)
    PROVE  IInv'
<1>1. /\ TypeInv /\ \A u \in Threads : place[u] = "outside"
      /\ Goto(t, "destroying")
      /\ UNCHANGED hostVars /\ UNCHANGED <<request, mutex, lastEvent, commands, done, awaited>>
  BY DEF IInv, Destroy
<1>2. place'[t] = "destroying" /\ \A u \in Threads : u # t => place'[u] = "outside"
  BY <1>1 DEF Goto, TypeInv
<1>3. /\ commands' \in Seq(BOOLEAN) /\ mutex' \in Threads \union {NoThread}
      /\ request' \in [Threads -> {NoRequest} \union Requests]
  BY <1>1 DEF TypeInv
<1>4. CommandsInv'
  BY <1>1 DEF IInv, SyclInv, CommandsInv, Events
<1>5. HolderInv' /\ WaitInv' /\ DestroyInv'
  BY <1>2 DEF HolderInv, WaitInv, DestroyInv, Executing, Holding
<1> QED BY <1>1, <1>3, <1>4, <1>5, SyclMoves DEF SyclInv, Executing, Holding

-----------------------------------------------------------------------------
(* execute.                                                                 *)

LEMMA RejectStep ==
    ASSUME IInv, NEW t \in Threads, Reject(t)
    PROVE  IInv'
<1>1. /\ TypeInv /\ place[t] = "called" /\ Goto(t, "outside")
      /\ request' = [request EXCEPT ![t] = NoRequest]
      /\ UNCHANGED hostVars /\ UNCHANGED <<mutex, lastEvent, commands, done, awaited>>
  BY DEF IInv, Reject, Leave
<1>2. /\ place'[t] = "outside" /\ \A u \in Threads : u # t => place'[u] = place[u]
      /\ \A u \in Threads : u # t => request'[u] = request[u]
      /\ request' \in [Threads -> {NoRequest} \union Requests]
      /\ commands' \in Seq(BOOLEAN) /\ mutex' \in Threads \union {NoThread}
  BY <1>1 DEF Goto, TypeInv
<1>3. CommandsInv'
  BY <1>1 DEF IInv, SyclInv, CommandsInv, Events
<1>4. HolderInv'
  BY <1>1, <1>2 DEF IInv, SyclInv, HolderInv, Executing, Holding, Valid
<1>5. WaitInv'
  BY <1>1, <1>2 DEF IInv, SyclInv, WaitInv, Executing, Holding
<1>6. DestroyInv'
  BY <1>2 DEF IInv, SyclInv, DestroyInv
<1> QED BY <1>1, <1>2, <1>3, <1>4, <1>5, <1>6, SyclMoves DEF SyclInv, Executing, Holding

LEMMA EnterStep ==
    ASSUME IInv, NEW t \in Threads, Enter(t)
    PROVE  IInv'
<1>1. /\ TypeInv /\ place[t] = "called" /\ Valid(request[t]) /\ Goto(t, "waiting")
      /\ mutex = NoThread /\ mutex' = t
      /\ UNCHANGED hostVars /\ UNCHANGED <<request, lastEvent, commands, done, awaited>>
  BY DEF IInv, Enter
<1>2. /\ place'[t] = "waiting" /\ \A u \in Threads : u # t => place'[u] = place[u]
      /\ request' \in [Threads -> {NoRequest} \union Requests]
      /\ commands' \in Seq(BOOLEAN)
  BY <1>1 DEF Goto, TypeInv
<1>3. \A u \in Threads : place[u] \notin Holding
  BY <1>1, BlockingAssumption DEF IInv, SyclInv, HolderInv
<1>4. CommandsInv'
  BY <1>1 DEF IInv, SyclInv, CommandsInv, Events
<1>5. HolderInv'
  BY <1>1, <1>2, <1>3 DEF IInv, SyclInv, HolderInv, Executing, Valid
<1>6. WaitInv'
  BY <1>1, <1>2 DEF IInv, SyclInv, WaitInv, Executing, Holding
<1>7. DestroyInv'
  BY <1>1, <1>2 DEF IInv, SyclInv, DestroyInv
<1>8. life[Inner] = "live"
  BY <1>1 DEF IInv, JoinInv, ServedInv, Executing
<1> QED BY <1>1, <1>2, <1>4, <1>5, <1>6, <1>7, <1>8, SyclMoves DEF SyclInv

\* The wait for the whole queue covers the program's commands on it.
LEMMA AwaitStep ==
    ASSUME IInv, NEW t \in Threads, AwaitDependencies(t)
    PROVE  IInv'
<1>1. /\ TypeInv /\ place[t] = "waiting" /\ Goto(t, "draining")
      /\ Dependencies(request[t]) \subseteq done /\ awaited' = QueueContents
      /\ UNCHANGED hostVars /\ UNCHANGED <<request, mutex, lastEvent, commands, done>>
  BY DEF IInv, AwaitDependencies
<1>2. /\ place'[t] = "draining" /\ \A u \in Threads : u # t => place'[u] = place[u]
      /\ request' \in [Threads -> {NoRequest} \union Requests]
      /\ commands' \in Seq(BOOLEAN) /\ mutex' \in Threads \union {NoThread}
  BY <1>1 DEF Goto, TypeInv
<1>3. \A u \in Threads : u # t => place[u] \notin Holding
  BY <1>1, HolderAlone DEF Holding
<1>4. CommandsInv'
  BY <1>1 DEF IInv, SyclInv, CommandsInv, Events
<1>5. HolderInv'
  BY <1>1, <1>2 DEF IInv, SyclInv, HolderInv, Executing, Holding, Valid
<1>6. WaitInv'
  <2>1. request[t].deps \subseteq done
    BY <1>1 DEF Dependencies
  <2>2. Producers \ Elsewhere \subseteq QueueContents
    BY DEF IInv, SyclInv, CommandsInv, QueueContents
  <2>3. \A u \in Threads : place'[u] \in Executing => place[u] \in Executing
    BY <1>1, <1>2 DEF Executing, Holding
  <2>4. \A u \in Threads : place'[u] \in {"draining", "hosting"} => u = t
    BY <1>2, <1>3 DEF Holding
  <2> QED BY <1>1, <1>2, <2>1, <2>2, <2>3, <2>4 DEF IInv, SyclInv, WaitInv
<1>7. DestroyInv'
  BY <1>1, <1>2 DEF IInv, SyclInv, DestroyInv
<1>8. life[Inner] = "live"
  BY <1>1 DEF IInv, JoinInv, ServedInv, Executing, Holding
<1> QED BY <1>1, <1>2, <1>4, <1>5, <1>6, <1>7, <1>8, SyclMoves DEF SyclInv

\* Every way out of execute but the host plan's.
LEMMA LeavesStep ==
    ASSUME IInv, NEW t \in Threads, place[t] \in Holding \ {"hosting"}, Release(t),
           UNCHANGED hostVars, done' = done, commands' \in {commands, Append(commands, TRUE)}
    PROVE  IInv'
<1>1. /\ SyclInv' /\ commands' \in Seq(BOOLEAN) /\ mutex' \in Threads \union {NoThread}
      /\ request' \in [Threads -> {NoRequest} \union Requests]
      /\ \A u \in Threads : u # t => request'[u] = request[u]
  BY ReleaseKeeps
<1>2. Goto(t, "outside")
  BY DEF Release, Leave
<1> QED BY <1>1, <1>2, SyclMoves DEF Executing, Holding

LEMMA RefuseDeviceUsmStep ==
    ASSUME IInv, NEW t \in Threads, RefuseDeviceUsm(t)
    PROVE  IInv'
BY LeavesStep DEF RefuseDeviceUsm, Holding

LEMMA SubmitCompletedStep ==
    ASSUME IInv, NEW t \in Threads, SubmitCompleted(t)
    PROVE  IInv'
BY LeavesStep DEF SubmitCompleted, Holding

LEMMA ThrowStep ==
    ASSUME IInv, NEW t \in Threads, Throw(t)
    PROVE  IInv'
BY LeavesStep DEF Throw, Holding

\* The call hands its arguments to the host plan, when nothing is left of what
\* it waits for.
LEMMA CallHostStep ==
    ASSUME IInv, NEW t \in Threads, CallHost(t)
    PROVE  IInv'
<1> DEFINE r == request[t]
           j == [plan |-> Inner, in |-> r.in, out |-> r.out, onePointer |-> r.onePointer]
<1>1. /\ TypeInv /\ place[t] = "draining" /\ awaited \subseteq done /\ Goto(t, "hosting")
      /\ UNCHANGED <<request, mutex, lastEvent, commands, done, awaited>>
  BY DEF IInv, CallHost
<1>2. /\ pc[t] = "idle" /\ pc' = [pc EXCEPT ![t] = "called"]
      /\ job' = [job EXCEPT ![t] = j] /\ UNCHANGED <<life, hostMutex>>
  BY DEF CallHost, Host!Call, Host!Goto
<1>3. j \in CallJobs
  <2>1. r \in Requests /\ Inner \in HostPlans
    BY <1>1 DEF IInv, SyclInv, HolderInv, Executing, Holding, HostPlans
  <2> QED BY <2>1 DEF Requests, CallJobs
<1>4. /\ place'[t] = "hosting" /\ \A u \in Threads : u # t => place'[u] = place[u]
      /\ pc'[t] = "called" /\ job'[t] = j
      /\ \A u \in Threads : u # t => pc'[u] = pc[u] /\ job'[u] = job[u]
  BY <1>1, <1>2 DEF Goto, TypeInv
<1>5. TypeInv'
  <2> HIDE DEF j
  <2>1. pc' \in [Threads -> {"idle", "called"} \union Alone \union Inside]
    BY <1>1, <1>2 DEF TypeInv
  <2>2. job' \in [Threads -> {Host!NoJob} \union PlanJobs \union CallJobs]
    BY <1>1, <1>2, <1>3 DEF TypeInv
  <2>3. place' \in [Threads -> Executing \union {"outside", "destroying"}]
    BY <1>1 DEF Goto, TypeInv, Executing, Holding
  <2> QED BY <1>1, <1>2, <2>1, <2>2, <2>3 DEF TypeInv
<1>6. CommandsInv'
  BY <1>1 DEF IInv, SyclInv, CommandsInv, Events
<1>7. HolderInv'
  BY <1>1, <1>4 DEF IInv, SyclInv, HolderInv, Executing, Holding, Valid
<1>8. WaitInv'
  BY <1>1, <1>4 DEF IInv, SyclInv, WaitInv, Executing, Holding
<1>9. DestroyInv'
  BY <1>1, <1>4 DEF IInv, SyclInv, DestroyInv
<1>10. HostInv'
  <2> HIDE DEF j
  <2> QED BY <1>2, <1>4 DEF IInv, HostInv, LifeInv, AloneInv, Alone
<1>11. HostingInv'
  <2>1. \A u \in Threads : u # t => place[u] # "hosting"
    BY <1>1, HolderAlone DEF Holding
  <2>2. job'[t] = [plan |-> Inner, in |-> request'[t].in, out |-> request'[t].out,
                   onePointer |-> request'[t].onePointer]
    BY <1>1, <1>4
  <2> HIDE DEF j
  <2> QED BY <1>1, <1>4, <2>1, <2>2 DEF IInv, JoinInv, HostingInv
<1>12. LockInv'
  <2>1. \A h \in HostPlans : hostMutex[h] # t
    BY <1>1, BlockingAssumption DEF IInv, JoinInv, LockInv
  <2> HIDE DEF j
  <2> QED BY <1>1, <1>2, <1>4, <2>1 DEF IInv, JoinInv, LockInv, TypeInv
<1>13. ServedInv'
  BY <1>1, <1>2, <1>4 DEF IInv, JoinInv, ServedInv, Executing, Holding
<1> QED BY <1>5, <1>6, <1>7, <1>8, <1>9, <1>10, <1>11, <1>12, <1>13 DEF IInv, SyclInv, HostInv,
           JoinInv

\* The destructor of the host plan starts when nobody is inside the SYCL plan.
LEMMA DestroyHostPlanStep ==
    ASSUME IInv, NEW t \in Threads, DestroyHostPlan(t)
    PROVE  IInv'
<1>1. /\ TypeInv /\ place[t] = "destroying" /\ Inner \in HostPlans
      /\ Host!Destroy(t, Inner) /\ UNCHANGED syclVars
      /\ UNCHANGED <<place, request, mutex, commands>>
  BY DEF IInv, DestroyHostPlan, HostPlans, syclVars
<1>2. \A u \in Threads : place'[u] \in {"outside", "destroying"}
  BY <1>1 DEF IInv, SyclInv, DestroyInv
<1>3. /\ pc[t] = "idle" /\ life[Inner] = "live"
      /\ pc'[t] = "destroying" /\ job'[t].plan = Inner
      /\ \A u \in Threads : u # t => pc'[u] = pc[u] /\ job'[u] = job[u]
      /\ life'[Inner] = "destroying" /\ \A g \in HostPlans : g # Inner => life'[g] = life[g]
      /\ hostMutex' = hostMutex
  BY <1>1 DEF Host!Destroy, Host!Goto, TypeInv
<1>4. TypeInv'
  <2>1. [plan |-> Inner] \in PlanJobs
    BY <1>1 DEF PlanJobs
  <2> QED BY <1>1, <2>1 DEF Host!Destroy, Host!Goto, TypeInv, Alone, Lives
<1>5. SyclInv'
  BY <1>1, SyclKeeps DEF IInv
<1>6. LifeInv'
  BY <1>3 DEF IInv, HostInv, LifeInv, Alone, HostPlans
<1>7. AloneInv'
  BY <1>3 DEF IInv, HostInv, LifeInv, AloneInv, Alone
<1>8. HostingInv'
  BY <1>1, <1>3 DEF IInv, JoinInv, HostingInv, Alone
<1>9. LockInv'
  BY <1>1, <1>3 DEF IInv, JoinInv, LockInv, TypeInv
<1>10. ServedInv'
  BY <1>2 DEF ServedInv, Executing, Holding
<1> QED BY <1>4, <1>5, <1>6, <1>7, <1>8, <1>9, <1>10 DEF IInv, HostInv, JoinInv

-----------------------------------------------------------------------------
(* The invariant holds initially and after every step.                      *)

LEMMA Initial == Init => IInv
<1> SUFFICES ASSUME Init PROVE IInv
  OBVIOUS
<1>1. /\ \A t \in Threads : pc[t] = "idle" /\ place[t] = "outside"
      /\ \A h \in HostPlans : hostMutex[h] = NoThread
  BY DEF Init, Host!InitPlans, HostPlans
<1>2. TypeInv
  <2>1. commands \in Seq(BOOLEAN)
    <3>1. commands \in [1..Len(Produced) -> BOOLEAN]
      BY ProducersFacts DEF Init
    <3> QED BY <3>1, ProducersFacts
  <2> QED BY <2>1 DEF Init, Host!InitPlans, TypeInv, Lives, HostPlans
<1>3. CommandsInv
  BY DEF Init, CommandsInv, Events
<1>4. HolderInv /\ WaitInv /\ DestroyInv
  BY <1>1 DEF HolderInv, WaitInv, DestroyInv, Executing, Holding
<1>5. HostInv
  BY <1>1 DEF HostInv, LifeInv, AloneInv, Alone
<1>6. JoinInv
  BY <1>1 DEF JoinInv, HostingInv, LockInv, ServedInv, Executing, Holding
<1> QED BY <1>2, <1>3, <1>4, <1>5, <1>6 DEF IInv, SyclInv

LEMMA Stutter ==
    ASSUME IInv, UNCHANGED vars
    PROVE  IInv'
<1>1. UNCHANGED <<pc, job, life, hostMutex, place, request, mutex, commands>>
  BY DEF vars, hostVars, syclVars
<1>2. SyclInv'
  BY SyclKeeps DEF IInv, vars
<1>3. HostInv'
  BY <1>1, HostKeeps DEF IInv
<1>4. TypeInv' /\ JoinInv'
  BY <1>1 DEF IInv, TypeInv, JoinInv, HostingInv, LockInv, ServedInv
<1> QED BY <1>2, <1>3, <1>4 DEF IInv

LEMMA LibraryKeeps ==
    ASSUME IInv, NEW t \in Threads, LibraryStep(t)
    PROVE  IInv'
<1>1. CASE Reject(t)
  BY <1>1, RejectStep
<1>2. CASE Enter(t)
  BY <1>2, EnterStep
<1>3. CASE AwaitDependencies(t)
  BY <1>3, AwaitStep
<1>4. CASE RefuseDeviceUsm(t)
  BY <1>4, RefuseDeviceUsmStep
<1>5. CASE CallHost(t)
  BY <1>5, CallHostStep
<1>6. CASE HostWorks(t)
  BY <1>6, HostWorksStep
<1>7. CASE HostReturns(t)
  BY <1>7, HostReturnsStep
<1>8. CASE SubmitCompleted(t)
  BY <1>8, SubmitCompletedStep
<1>9. CASE DestroyHostPlan(t)
  BY <1>9, DestroyHostPlanStep
<1>10. CASE PlansStep(t)
  BY <1>10, EnterPlannerStep, CreatedStep, DestroyedStep DEF PlansStep
<1>11. CASE HostPlanDestroyed(t)
  BY <1>11, HostPlanDestroyedStep
<1> QED BY <1>1, <1>2, <1>3, <1>4, <1>5, <1>6, <1>7, <1>8, <1>9, <1>10, <1>11 DEF LibraryStep

LEMMA Preserved == IInv /\ [Next]_vars => IInv'
<1> SUFFICES ASSUME IInv, [Next]_vars PROVE IInv'
  OBVIOUS
<1>1. ASSUME NEW t \in Threads, UsePlans(t) PROVE IInv'
  BY <1>1, CreateStep, DestroyOtherStep DEF UsePlans, HostPlans
<1>2. ASSUME NEW t \in Threads, Destroy(t) PROVE IInv'
  BY <1>2, DestroyStep
<1>3. ASSUME NEW t \in Threads, LibraryStep(t) PROVE IInv'
  BY <1>3, LibraryKeeps
<1>4. ASSUME NEW t \in Threads, HostThrows(t) \/ Throw(t) PROVE IInv'
  BY <1>4, HostThrowsStep, ThrowStep
<1>5. ASSUME NEW t \in Threads, PlansFailure(t) PROVE IInv'
  BY <1>5, CreateFailsStep DEF PlansFailure
<1>6. ASSUME NEW t \in Threads, NEW in \in Buffers, NEW out \in Buffers \union {Invalid},
             NEW onePointer \in BOOLEAN, NEW deps \in SUBSET Elsewhere,
             Call(t, in, out, onePointer, deps)
      PROVE  IInv'
  BY <1>6, CallStep
<1>7. CASE Submit \/ Queue
  BY <1>7, SubmitStep, QueueStep
<1>8. CASE Terminated \/ UNCHANGED vars
  BY <1>8, Stutter DEF Terminated
<1> QED BY <1>1, <1>2, <1>3, <1>4, <1>5, <1>6, <1>7, <1>8 DEF Next

\* The invariant of the blocking branch: what the waits and the three locks of
\* execute and of the destructor (sycl.cpp:593-668, host.cpp:97-137) guarantee at
\* each point, to any number of threads.
THEOREM BlockingInvariance == Spec => []IInv
BY Initial, Preserved, PTL DEF Spec

-----------------------------------------------------------------------------
(* The properties.                                                          *)

\* While the host plan works on a buffer, no command that fills it is left on
\* any queue: what sycl.cpp:645-648 waits for is enough, however many commands
\* the program submits.
THEOREM BlockingHostWorksAlone == Spec => []HostWorksAlone
<1>1. IInv => HostWorksAlone
  <2> SUFFICES ASSUME IInv, NEW t \in Threads, place[t] = "hosting",
                      NEW p \in Producers \ done,
                      Produced[p] \in {request[t].in, request[t].out}
               PROVE  FALSE
    BY DEF HostWorksAlone
  <2>1. /\ Producers \ Elsewhere \subseteq awaited /\ awaited \subseteq done
        /\ request[t].deps \subseteq done
    BY DEF IInv, SyclInv, WaitInv
  <2>2. p \in Elsewhere
    BY <2>1
  <2>3. p \in request[t].deps
    BY <2>2 DEF IInv, SyclInv, WaitInv, Executing, Holding
  <2> QED BY <2>1, <2>3
<1> QED BY <1>1, BlockingInvariance, PTL

\* The checks of the host plan never refuse what those of the SYCL plan let
\* through, an out-of-place plan never gets one array, and the host plan is
\* alive and unlocked when it is called (sycl.cpp:619-637, host.cpp:99-114).
THEOREM BlockingHostPlanReady == Spec => []HostPlanReady
<1>1. IInv => HostPlanReady
  <2> SUFFICES ASSUME IInv, NEW t \in Threads, place[t] = "hosting", pc[t] = "called"
               PROVE  /\ Host!Valid(job[t])
                      /\ Placement = "out_of_place" => job[t].in # job[t].out
                      /\ life[Inner] = "live" /\ hostMutex[Inner] = NoThread
    BY DEF HostPlanReady
  <2>1. /\ job[t] = [plan |-> Inner, in |-> request[t].in, out |-> request[t].out,
                     onePointer |-> request[t].onePointer]
        /\ Valid(request[t])
    BY DEF IInv, SyclInv, HolderInv, Holding, JoinInv, HostingInv
  <2>2. /\ job[t].in = request[t].in /\ job[t].out = request[t].out
        /\ job[t].onePointer = request[t].onePointer
    BY <2>1
  <2>3. Host!Valid(job[t]) /\ (Placement = "out_of_place" => job[t].in # job[t].out)
    BY <2>1, <2>2 DEF Valid, Host!Valid
  <2>4. life[Inner] = "live"
    BY HolderAlone DEF Holding
  <2>5. hostMutex[Inner] = NoThread
    <3> SUFFICES ASSUME hostMutex[Inner] # NoThread PROVE FALSE
      OBVIOUS
    <3>1. PICK u \in Threads : u = hostMutex[Inner]
      BY DEF IInv, TypeInv, HostPlans
    <3>2. place[u] = "hosting" /\ pc[u] \in Inside
      BY <3>1 DEF IInv, JoinInv, LockInv, HostPlans
    <3>3. u = t
      BY <3>2, HolderAlone DEF Holding
    <3> QED BY <3>2, <3>3 DEF Inside
  <2> QED BY <2>3, <2>4, <2>5
<1> QED BY <1>1, BlockingInvariance, PTL

-----------------------------------------------------------------------------
(* The order and the data of the host plan's executions.                    *)

Contents == [origin : Buffers \union {"garbage"}, times : Nat, unscaled : BOOLEAN]
LogEntries == [in : Buffers, out : Buffers]

\* Only the output of the thread that has yet to scale it is not scaled.
ContentInv ==
    /\ content \in [Buffers -> Contents]
    /\ \A b \in Buffers : content[b].unscaled =>
         Scaled /\ \E t \in Threads : pc[t] = "transformed" /\ job[t].out = b

\* The executions of host_plan_ take effect in the order of its log, and only
\* the last one, whose thread is between the choice and the transform, is due.
LogInv ==
    /\ log \in [HostPlans -> Seq(LogEntries)] /\ applied \in [HostPlans -> SUBSET Nat]
    /\ (\A t \in Threads : pc[t] # "selected") => applied[Inner] = 1..Len(log[Inner])
    /\ \A t \in Threads : pc[t] = "selected" =>
         /\ Len(log[Inner]) > 0
         /\ log[Inner][Len(log[Inner])] = [in |-> job[t].in, out |-> job[t].out]
         /\ applied[Inner] = 1..(Len(log[Inner]) - 1)

DataInv == ContentInv /\ LogInv

LEMMA FreshContents ==
    \A b \in Buffers : Host!Fresh(b) \in Contents /\ ~ Host!Fresh(b).unscaled
BY DEF Host!Fresh, Contents

LEMMA GarbageContents == Host!Garbage \in Contents /\ ~ Host!Garbage.unscaled
BY DEF Host!Garbage, Contents

LEMMA InitialData == Init => DataInv
<1> SUFFICES ASSUME Init PROVE DataInv
  OBVIOUS
<1>1. \A t \in Threads : pc[t] = "idle"
  BY DEF Init, Host!InitPlans
<1>2. ContentInv
  BY FreshContents, GarbageContents DEF Init, ContentInv
<1>3. LogInv
  <2>1. log[Inner] = <<>> /\ applied[Inner] = {}
    BY DEF Init, Host!InitPlans
  <2>2. <<>> \in Seq(LogEntries) /\ Len(<<>>) = 0 /\ 1..0 = {}
    OBVIOUS
  <2>3. log \in [HostPlans -> Seq(LogEntries)] /\ applied \in [HostPlans -> SUBSET Nat]
    BY <2>2 DEF Init, Host!InitPlans, HostPlans
  <2> QED BY <1>1, <2>1, <2>2, <2>3 DEF LogInv
<1> QED BY <1>2, <1>3 DEF DataInv

\* A thread inside the host plan works for the call that holds the SYCL plan's
\* mutex, alone, on two arrays if the plan is out of place.
LEMMA InsideFacts ==
    ASSUME IInv, NEW t \in Threads, pc[t] \in Inside
    PROVE  /\ place[t] = "hosting" /\ job[t].plan = Inner
           /\ job[t].in = request[t].in /\ job[t].out = request[t].out
           /\ job[t].in \in Buffers /\ job[t].out \in Buffers
           /\ Placement = "out_of_place" => job[t].in # job[t].out
           /\ \A u \in Threads : pc[u] \in Inside => u = t
<1>1. \A u \in Threads : pc[u] \in Inside => place[u] = "hosting"
  BY DEF IInv, JoinInv, HostingInv, Inside, Alone
<1>2. place[t] = "hosting"
  BY <1>1
<1>3. job[t] = [plan |-> Inner, in |-> request[t].in, out |-> request[t].out,
                onePointer |-> request[t].onePointer]
  BY <1>2 DEF IInv, JoinInv, HostingInv
<1>4. job[t].plan = Inner /\ job[t].in = request[t].in /\ job[t].out = request[t].out
  BY <1>3
<1>5. request[t] \in Requests /\ Valid(request[t])
  BY <1>2 DEF IInv, SyclInv, HolderInv, Executing, Holding
<1>6. /\ request[t].in \in Buffers /\ request[t].out \in Buffers
      /\ Placement = "out_of_place" => request[t].in # request[t].out
  BY <1>5 DEF Requests, Valid
<1>7. \A u \in Threads : pc[u] \in Inside => u = t
  BY <1>1, <1>2 DEF IInv, SyclInv, HolderInv, Holding
<1> QED BY <1>2, <1>4, <1>6, <1>7

\* A step of the host plans that neither chooses a native plan nor touches a
\* buffer, and any step of the SYCL plan.
LEMMA DataFrame ==
    ASSUME DataInv, UNCHANGED <<log, applied, content>>,
           \A u \in Threads : pc'[u] \in {"selected", "transformed"} \/
                              pc[u] \in {"selected", "transformed"} =>
             pc'[u] = pc[u] /\ job'[u] = job[u]
    PROVE  DataInv'
<1>1. ContentInv'
  BY DEF DataInv, ContentInv
<1>2. LogInv'
  BY DEF DataInv, LogInv
<1> QED BY <1>1, <1>2 DEF DataInv

LEMMA FrameSteps ==
    ASSUME IInv, DataInv, NEW t \in Threads,
           \/ \E h \in HostPlans : Host!Create(t, h) \/ Host!Destroy(t, h)
           \/ Host!EnterPlanner(t) \/ Host!Created(t) \/ Host!CreateFails(t)
           \/ Host!Destroyed(t) \/ Host!Enter(t) \/ Host!UnalignedFails(t)
           \/ \E in, out \in Buffers \union {Invalid}, one \in BOOLEAN :
                Host!Call(t, Inner, in, out, one)
    PROVE  DataInv' /\ UNCHANGED <<log, applied, content>>
<1>1. TypeInv
  BY DEF IInv
<1>2. UNCHANGED <<log, applied, content>>
  BY DEF Host!Create, Host!Destroy, Host!EnterPlanner, Host!Created, Host!CreateFails,
     Host!Destroyed, Host!Enter, Host!UnalignedFails, Host!Call
<1>3. /\ \A u \in Threads : u # t => pc'[u] = pc[u] /\ job'[u] = job[u]
      /\ pc[t] \notin {"selected", "transformed"} /\ pc'[t] \notin {"selected", "transformed"}
  <2>1. CASE \E h \in HostPlans : Host!Create(t, h) \/ Host!Destroy(t, h)
    BY <1>1, <2>1 DEF Host!Create, Host!Destroy, Host!Goto, TypeInv
  <2>2. CASE Host!EnterPlanner(t)
    BY <1>1, <2>2 DEF Host!EnterPlanner, Host!PlanFirst, Host!PlanLate, Host!GiveBack,
       Host!Goto, TypeInv
  <2>3. CASE Host!Created(t)
    BY <1>1, <2>3 DEF Host!Created, Host!Goto, TypeInv
  <2>4. CASE Host!CreateFails(t)
    BY <1>1, <2>4 DEF Host!CreateFails, Host!Goto, TypeInv
  <2>5. CASE Host!Destroyed(t)
    BY <1>1, <2>5 DEF Host!Destroyed, Host!Goto, TypeInv
  <2>6. CASE Host!Enter(t)
    BY <1>1, <2>6 DEF Host!Enter, Host!Goto, TypeInv
  <2>7. CASE Host!UnalignedFails(t)
    BY <1>1, <2>7 DEF Host!UnalignedFails, Host!UnlockHost, Host!Goto, TypeInv
  <2>8. CASE \E in, out \in Buffers \union {Invalid}, one \in BOOLEAN :
               Host!Call(t, Inner, in, out, one)
    BY <1>1, <2>8 DEF Host!Call, Host!Goto, TypeInv
  <2> QED BY <2>1, <2>2, <2>3, <2>4, <2>5, <2>6, <2>7, <2>8
<1> QED BY <1>2, <1>3, DataFrame

\* The execution joins the log when its native plan is chosen: everything
\* before it has taken effect.
LEMMA LoggedData ==
    ASSUME IInv, DataInv, NEW t \in Threads, pc[t] \in {"locked", "plan_unaligned"},
           Host!Logged(t), pc' = [pc EXCEPT ![t] = "selected"],
           UNCHANGED <<job, applied, content, done>>
    PROVE  DataInv' /\ \E in, out \in Buffers : Serial!Accept(in, out)
<1> DEFINE e == [in |-> job[t].in, out |-> job[t].out]
           s == log[Inner]
           n == Len(s)
<1>1. TypeInv /\ Inner \in HostPlans
  BY DEF IInv, HostPlans
<1>2. /\ job[t].plan = Inner /\ job[t].in \in Buffers /\ job[t].out \in Buffers
      /\ \A u \in Threads : pc[u] \in Inside => u = t
  BY InsideFacts DEF Inside
<1>3. pc'[t] = "selected" /\ \A u \in Threads : u # t => pc'[u] = pc[u]
  BY <1>1 DEF TypeInv
<1>4. \A u \in Threads : pc[u] \notin {"selected", "transformed"}
  BY <1>2 DEF Inside
<1>5. /\ log \in [HostPlans -> Seq(LogEntries)] /\ applied \in [HostPlans -> SUBSET Nat]
      /\ applied[Inner] = 1..n
  BY <1>4 DEF DataInv, LogInv
<1>6. e \in LogEntries /\ s \in Seq(LogEntries) /\ n \in Nat
  <2>1. e \in LogEntries
    BY <1>2 DEF LogEntries
  <2>2. s \in Seq(LogEntries)
    BY <1>1, <1>5
  <2> HIDE DEF e, s
  <2> QED BY <2>1, <2>2
<1>7. log' = [log EXCEPT ![Inner] = Append(s, e)]
  BY <1>2 DEF Host!Logged
<1> HIDE DEF e, s
<1>8. /\ Append(s, e) \in Seq(LogEntries) /\ Len(Append(s, e)) = n + 1
      /\ Append(s, e)[n + 1] = e
  BY <1>6
<1> HIDE DEF n
<1>9. log'[Inner] = Append(s, e) /\ log' \in [HostPlans -> Seq(LogEntries)]
  BY <1>1, <1>5, <1>7, <1>8
<1>10. LogInv'
  <2>1. \A u \in Threads : pc'[u] = "selected" => u = t
    BY <1>3, <1>4
  <2>2. Len(log'[Inner]) > 0 /\ Len(log'[Inner]) - 1 = n
    BY <1>6, <1>8, <1>9
  <2>3. log'[Inner][Len(log'[Inner])] = [in |-> job'[t].in, out |-> job'[t].out]
    BY <1>8, <1>9 DEF e
  <2>4. applied'[Inner] = 1..(Len(log'[Inner]) - 1) /\ applied' \in [HostPlans -> SUBSET Nat]
    BY <1>5, <2>2
  <2> QED BY <1>3, <1>9, <2>1, <2>2, <2>3, <2>4 DEF LogInv
<1>11. ContentInv'
  BY <1>3, <1>4 DEF DataInv, ContentInv
<1>12. Serial!Accept(job[t].in, job[t].out)
  BY <1>9 DEF Serial!Accept, Seen, e, s
<1> QED BY <1>2, <1>10, <1>11, <1>12 DEF DataInv

LEMMA SelectData ==
    ASSUME IInv, DataInv, NEW t \in Threads, Host!Select(t), done' = done
    PROVE  /\ DataInv'
           /\ \/ UNCHANGED <<log, applied, content>>
              \/ \E in, out \in Buffers : Serial!Accept(in, out)
<1>1. /\ TypeInv /\ pc[t] = "locked" /\ UNCHANGED <<job, applied, content>>
      /\ \/ Host!Goto(t, "selected") /\ Host!Logged(t)
         \/ Host!Goto(t, "lacks_plan") /\ UNCHANGED log
  BY DEF IInv, Host!Select
<1>2. CASE Host!Goto(t, "selected") /\ Host!Logged(t)
  BY <1>1, <1>2, LoggedData DEF Host!Goto
<1>3. CASE Host!Goto(t, "lacks_plan") /\ UNCHANGED log
  <2>1. pc'[t] = "lacks_plan" /\ \A u \in Threads : u # t => pc'[u] = pc[u]
    BY <1>1, <1>3 DEF Host!Goto, TypeInv
  <2> QED BY <1>1, <1>3, <2>1, DataFrame
<1> QED BY <1>1, <1>2, <1>3

\* The module of the host plans counts like this one.
LEMMA SameCardinality == \A S : Host!Cardinality(S) = Cardinality(S)
BY DEF Host!Cardinality, Cardinality

\* What the program sees of the transform is the abstract one: no command fills
\* the buffers any more, and nobody has left them unscaled.
LEMMA TransformData ==
    ASSUME IInv, DataInv, HostWorksAlone, NEW t \in Threads, Host!Transform(t), done' = done
    PROVE  DataInv' /\ \E i \in DOMAIN log[Inner] : Serial!Apply(i)
<1> DEFINE j == job[t]
           d == content[j.in]
           e == Seen[j.in]
           n == Len(log[Inner])
<1>1. /\ TypeInv /\ Inner \in HostPlans /\ pc[t] = "selected"
      /\ pc' = [pc EXCEPT ![t] = "transformed"] /\ UNCHANGED <<job, log>>
  BY DEF IInv, HostPlans, Host!Transform, Host!Goto
<1>2. /\ place[t] = "hosting" /\ j.plan = Inner
      /\ j.in = request[t].in /\ j.out = request[t].out
      /\ j.in \in Buffers /\ j.out \in Buffers
      /\ Placement = "out_of_place" => j.in # j.out
      /\ \A u \in Threads : pc[u] \in Inside => u = t
  BY <1>1, InsideFacts DEF Inside
<1>3. pc'[t] = "transformed" /\ \A u \in Threads : u # t => pc'[u] = pc[u]
  BY <1>1 DEF TypeInv
<1>4. \A u \in Threads : u # t => pc[u] \notin {"selected", "transformed"}
  BY <1>2 DEF Inside
<1>5. content \in [Buffers -> Contents] /\ d \in Contents
  BY <1>2 DEF DataInv, ContentInv
<1>6. ~ d.unscaled
  <2>1. \A u \in Threads : pc[u] # "transformed"
    BY <1>1, <1>4
  <2> QED BY <1>2, <2>1 DEF DataInv, ContentInv
<1>7. content' = [content EXCEPT ![j.out] = Host!Transformed(j)]
  BY DEF Host!Transform
<1>8. d = [origin |-> d.origin, times |-> d.times, unscaled |-> FALSE]
  BY <1>5, <1>6 DEF Contents
<1>9. e = [origin |-> d.origin, times |-> d.times]
  BY <1>2 DEF Seen
<1>10. /\ Host!Transformed(j) \in Contents
       /\ Host!Transformed(j).unscaled => Scaled
       /\ Serial!Transformed(e) = [origin |-> Host!Transformed(j).origin,
                                   times |-> Host!Transformed(j).times]
  <2>1. CASE d = Host!Garbage
    <3>1. Host!Transformed(j) = Host!Garbage
      BY <2>1 DEF Host!Transformed
    <3>2. e = Serial!Garbage
      BY <1>9, <2>1 DEF Host!Garbage, Serial!Garbage
    <3>3. Serial!Transformed(e) = Serial!Garbage
      BY <3>2 DEF Serial!Transformed
    <3> QED BY <3>1, <3>3, GarbageContents DEF Host!Garbage, Serial!Garbage
  <2>2. CASE d # Host!Garbage
    <3>1. Host!Transformed(j) = [origin |-> d.origin, times |-> d.times + 1, unscaled |-> Scaled]
      BY <1>2, <1>6, <2>2 DEF Host!Transformed
    <3>2. [origin |-> d.origin, times |-> d.times] # Serial!Garbage
      BY <1>8, <2>2 DEF Host!Garbage, Serial!Garbage
    <3>3. Serial!Transformed(e) = [origin |-> d.origin, times |-> d.times + 1]
      BY <1>9, <3>2 DEF Serial!Transformed
    <3>4. [origin |-> d.origin, times |-> d.times + 1, unscaled |-> Scaled] \in Contents
      BY <1>5, BlockingAssumption DEF Contents
    <3> QED BY <3>1, <3>3, <3>4
  <2> QED BY <2>1, <2>2
<1>11. /\ log \in [HostPlans -> Seq(LogEntries)] /\ applied \in [HostPlans -> SUBSET Nat]
       /\ n > 0 /\ log[Inner][n] = [in |-> j.in, out |-> j.out] /\ applied[Inner] = 1..(n - 1)
  BY <1>1 DEF DataInv, LogInv
<1>12. log[Inner] \in Seq(LogEntries)
  BY <1>1, <1>11
<1>13. n \in Nat /\ n \in DOMAIN log[Inner]
  BY <1>11, <1>12
<1> HIDE DEF j, d, e, n
<1>14. Cardinality(1..(n - 1)) + 1 = n
  <2>1. n - 1 \in Int /\ 1 \in Int
    BY <1>13
  <2>2. Cardinality(1..(n - 1)) = IF 1 > n - 1 THEN 0 ELSE (n - 1) - 1 + 1
    BY <2>1, FS_Interval
  <2> QED BY <1>11, <1>13, <2>2
<1>15. applied' = [applied EXCEPT ![Inner] = applied[Inner] \union {n}]
  <2>1. PICK p : p = job[t].plan
    OBVIOUS
  <2>2. applied' = [applied EXCEPT ![p] = applied[p] \union {Cardinality(applied[p]) + 1}]
    BY <2>1, SameCardinality DEF Host!Transform
  <2>3. p = Inner /\ Cardinality(applied[p]) + 1 = n
    BY <1>2, <1>11, <1>14, <2>1 DEF j
  <2> QED BY <2>2, <2>3
<1>16. /\ applied'[Inner] = applied[Inner] \union {n}
       /\ applied' \in [HostPlans -> SUBSET Nat]
  BY <1>1, <1>11, <1>13, <1>15
<1>17. LogInv'
  <2>1. \A u \in Threads : pc'[u] # "selected"
    BY <1>3, <1>4
  <2>2. applied'[Inner] = 1..n
    BY <1>11, <1>13, <1>16
  <2> QED BY <1>1, <1>11, <1>16, <2>1, <2>2 DEF LogInv, n
<1>18. /\ content'[j.out] = Host!Transformed(j) /\ content' \in [Buffers -> Contents]
       /\ \A b \in Buffers : b # j.out => content'[b] = content[b]
  BY <1>2, <1>5, <1>7, <1>10
<1>19. ContentInv'
  <2> SUFFICES ASSUME NEW b \in Buffers, content'[b].unscaled
               PROVE  Scaled /\ \E u \in Threads : pc'[u] = "transformed" /\ job'[u].out = b
    BY <1>18 DEF ContentInv
  <2>1. CASE b = j.out
    <3>1. Scaled
      BY <1>10, <1>18, <2>1
    <3> QED BY <1>1, <1>3, <2>1, <3>1 DEF j
  <2>2. CASE b # j.out
    <3>1. content[b].unscaled
      BY <1>18, <2>2
    <3>2. PICK u \in Threads : pc[u] = "transformed" /\ job[u].out = b
      BY <3>1 DEF DataInv, ContentInv
    <3>3. pc[t] # "transformed"
      BY <1>1
    <3> QED BY <1>4, <3>2, <3>3
  <2> QED BY <2>1, <2>2
<1>20. Seen' = [Seen EXCEPT ![j.out] = Serial!Transformed(e)]
  <2>1. Seen' = [b \in Buffers |-> [origin |-> content'[b].origin, times |-> content'[b].times]]
    BY DEF Seen
  <2>2. Seen'[j.out] = Serial!Transformed(e)
    BY <1>2, <1>10, <1>18, <2>1
  <2>3. \A b \in Buffers : b # j.out => Seen'[b] = Seen[b]
    BY <1>18, <2>1 DEF Seen
  <2> QED BY <2>1, <2>2, <2>3 DEF Seen
<1>21. Serial!Apply(n)
  <2>1. \A p \in Producers \ done : Produced[p] \notin {j.in, j.out}
    BY <1>2 DEF HostWorksAlone
  <2>2. log[Inner][n].in = j.in /\ log[Inner][n].out = j.out
    BY <1>11
  <2>3. UNCHANGED <<log, Producers \ done>>
    BY <1>1 DEF Producers
  <2> QED BY <1>11, <1>16, <1>20, <2>1, <2>2, <2>3 DEF Serial!Apply, e
<1> QED BY <1>13, <1>17, <1>19, <1>21 DEF DataInv

\* Scaling changes nothing that the program can see.
LEMMA FinishData ==
    ASSUME IInv, DataInv, NEW t \in Threads, Host!Finish(t)
    PROVE  DataInv' /\ UNCHANGED <<log, applied, Seen>>
<1> DEFINE o == job[t].out
<1>1. /\ TypeInv /\ pc[t] = "transformed" /\ UNCHANGED <<log, applied>>
      /\ pc' = [pc EXCEPT ![t] = "idle"] /\ job' = [job EXCEPT ![t] = Host!NoJob]
      /\ content' = [content EXCEPT ![o] = Host!Normalized(content[o])]
  BY DEF IInv, Host!Finish, Host!UnlockHost, Host!Goto
<1>2. o \in Buffers /\ \A u \in Threads : pc[u] \in Inside => u = t
  BY <1>1, InsideFacts DEF Inside
<1>3. pc'[t] = "idle" /\ \A u \in Threads : u # t => pc'[u] = pc[u] /\ job'[u] = job[u]
  BY <1>1 DEF TypeInv
<1>4. \A u \in Threads : u # t => pc[u] \notin {"selected", "transformed"}
  BY <1>2 DEF Inside
<1>5. content \in [Buffers -> Contents]
  BY DEF DataInv, ContentInv
<1>6. \A c \in Contents : Host!Normalized(c) \in Contents
  <2>1. \A c \in Contents : [c EXCEPT !.unscaled = FALSE] \in Contents
    BY DEF Contents
  <2> QED BY <2>1 DEF Host!Normalized
<1>7. \A c \in Contents : /\ Host!Normalized(c).origin = c.origin
                          /\ Host!Normalized(c).times = c.times
                          /\ Scaled => ~ Host!Normalized(c).unscaled
                          /\ ~ Scaled => Host!Normalized(c) = c
  BY DEF Host!Normalized, Contents
<1> HIDE DEF o
<1>8. /\ content' \in [Buffers -> Contents] /\ content'[o] = Host!Normalized(content[o])
      /\ \A b \in Buffers : b # o => content'[b] = content[b]
  BY <1>1, <1>2, <1>5, <1>6
<1>9. LogInv'
  <2>1. \A u \in Threads : pc'[u] # "selected" /\ pc[u] # "selected"
    BY <1>1, <1>3, <1>4
  <2> QED BY <1>1, <2>1 DEF DataInv, LogInv
<1>10. Seen' = Seen
  <2>1. \A b \in Buffers : /\ content'[b].origin = content[b].origin
                          /\ content'[b].times = content[b].times
    BY <1>5, <1>7, <1>8
  <2> QED BY <2>1 DEF Seen
<1>11. ContentInv'
  <2> SUFFICES ASSUME NEW b \in Buffers, content'[b].unscaled PROVE FALSE
    BY <1>8 DEF ContentInv
  <2>1. content[b].unscaled
    BY <1>5, <1>7, <1>8
  <2>2. Scaled /\ b = o
    <3>1. PICK u \in Threads : pc[u] = "transformed" /\ job[u].out = b
      BY <2>1 DEF DataInv, ContentInv
    <3>2. u = t
      BY <1>4, <3>1
    <3> QED BY <2>1, <3>1, <3>2 DEF DataInv, ContentInv, o
  <2> QED BY <1>5, <1>7, <1>8, <2>2
<1> QED BY <1>1, <1>9, <1>10, <1>11 DEF DataInv

-----------------------------------------------------------------------------
(* The refinement of SerialPlan.                                            *)

LEMMA SerialStutter ==
    ASSUME UNCHANGED <<log, applied, Seen, done>>
    PROVE  UNCHANGED Serial!vars
BY DEF Serial!vars, Producers

LEMMA SeenKept ==
    ASSUME UNCHANGED content
    PROVE  Seen' = Seen
BY DEF Seen

\* A step of the SYCL plan that leaves the host plans alone.
LEMMA SyclSerial ==
    ASSUME DataInv, UNCHANGED hostVars, done' = done
    PROVE  DataInv' /\ UNCHANGED Serial!vars
<1>1. UNCHANGED <<pc, job, log, applied, content>>
  BY DEF hostVars
<1> QED BY <1>1, DataFrame, SerialStutter, SeenKept

\* A command of the program completes: it fills its buffer.
LEMMA CompleteSerial ==
    ASSUME DataInv, NEW e \in Events, Complete(e)
    PROVE  DataInv' /\ [Serial!Next]_(Serial!vars)
<1>1. /\ e \notin done /\ done' = done \union {e}
      /\ UNCHANGED <<pc, job, log, applied>>
      /\ content' = IF e \in Producers
                    THEN [content EXCEPT ![Produced[e]] = Host!Fresh(Produced[e])]
                    ELSE content
  BY DEF Complete
<1>2. LogInv'
  BY <1>1 DEF DataInv, LogInv
<1>3. content \in [Buffers -> Contents]
  BY DEF DataInv, ContentInv
<1>4. CASE e \in Producers
  <2>1. PICK b \in Buffers : b = Produced[e]
    BY <1>4, ProducersFacts
  <2>2. content' = [content EXCEPT ![b] = Host!Fresh(b)]
    BY <1>1, <1>4, <2>1
  <2>3. /\ content'[b] = Host!Fresh(b) /\ content' \in [Buffers -> Contents]
        /\ \A c \in Buffers : c # b => content'[c] = content[c]
    BY <1>3, <2>2, FreshContents
  <2>4. ContentInv'
    BY <1>1, <2>3, FreshContents DEF DataInv, ContentInv
  <2>5. Seen' = [Seen EXCEPT ![b] = Serial!Fresh(b)]
    <3>1. Seen' = [c \in Buffers |-> [origin |-> content'[c].origin, times |-> content'[c].times]]
      BY DEF Seen
    <3>2. Seen'[b] = Serial!Fresh(b)
      BY <2>3, <3>1 DEF Host!Fresh, Serial!Fresh
    <3>3. \A c \in Buffers : c # b => Seen'[c] = Seen[c]
      BY <2>3, <3>1 DEF Seen
    <3> QED BY <3>1, <3>2, <3>3 DEF Seen
  <2>6. Serial!Produce(e)
    <3>1. (Producers \ done)' = (Producers \ done) \ {e}
      BY <1>1 DEF Producers
    <3> QED BY <1>1, <1>4, <2>1, <2>5, <3>1 DEF Serial!Produce
  <2> QED BY <1>1, <1>2, <1>4, <2>4, <2>6 DEF DataInv, Serial!Next, Serial!TakeEffect
<1>5. CASE e \notin Producers
  <2>1. content' = content /\ (Producers \ done)' = Producers \ done
    BY <1>1, <1>5 DEF Producers
  <2>2. UNCHANGED Serial!vars
    BY <1>1, <2>1, SeenKept DEF Serial!vars
  <2>3. ContentInv'
    BY <1>1, <2>1 DEF DataInv, ContentInv
  <2> QED BY <1>2, <2>2, <2>3 DEF DataInv
<1> QED BY <1>4, <1>5

LEMMA LibrarySerial ==
    ASSUME IInv, DataInv, HostWorksAlone, NEW t \in Threads, LibraryStep(t)
    PROVE  DataInv' /\ [Serial!Next]_(Serial!vars)
<1>1. CASE Reject(t) \/ Enter(t) \/ AwaitDependencies(t) \/ RefuseDeviceUsm(t) \/ SubmitCompleted(t)
  <2>1. UNCHANGED hostVars /\ done' = done
    BY <1>1 DEF Reject, Enter, AwaitDependencies, RefuseDeviceUsm, SubmitCompleted
  <2> QED BY <2>1, SyclSerial
<1>2. CASE CallHost(t)
  <2>1. request[t] \in Requests
    BY <1>2 DEF CallHost, IInv, SyclInv, HolderInv, Executing, Holding
  <2>2. \E in, out \in Buffers \union {Invalid}, one \in BOOLEAN :
          Host!Call(t, Inner, in, out, one)
    BY <1>2, <2>1 DEF CallHost, Requests
  <2> QED BY <1>2, <2>2, FrameSteps, SerialStutter, SeenKept DEF CallHost
<1>3. CASE HostWorks(t)
  <2>1. done' = done
    BY <1>3 DEF HostWorks, syclVars
  <2>2. CASE Host!Enter(t) \/ Host!EnterPlanner(t)
    BY <2>1, <2>2, FrameSteps, SerialStutter, SeenKept
  <2>3. CASE Host!Select(t)
    BY <2>1, <2>3, SelectData, SerialStutter, SeenKept DEF Serial!Next
  <2>4. CASE Host!PlannedUnaligned(t)
    BY <2>1, <2>4, LoggedData DEF Host!PlannedUnaligned, Host!Goto, Serial!Next
  <2>5. CASE Host!Transform(t)
    BY <2>1, <2>5, TransformData DEF Serial!Next, Serial!TakeEffect
  <2> QED BY <1>3, <2>2, <2>3, <2>4, <2>5 DEF HostWorks
<1>4. CASE HostReturns(t)
  BY <1>4, FinishData, SerialStutter DEF HostReturns
<1>5. CASE DestroyHostPlan(t)
  <2>1. \E h \in HostPlans : Host!Destroy(t, h)
    BY <1>5 DEF DestroyHostPlan, HostPlans
  <2> QED BY <1>5, <2>1, FrameSteps, SerialStutter, SeenKept DEF DestroyHostPlan, syclVars
<1>6. CASE PlansStep(t)
  BY <1>6, FrameSteps, SerialStutter, SeenKept DEF PlansStep, syclVars
<1>7. CASE HostPlanDestroyed(t)
  BY <1>7, FrameSteps, SerialStutter, SeenKept DEF HostPlanDestroyed
<1> QED BY <1>1, <1>2, <1>3, <1>4, <1>5, <1>6, <1>7 DEF LibraryStep

LEMMA SerialStep ==
    ASSUME IInv, DataInv, HostWorksAlone, [Next]_vars
    PROVE  DataInv' /\ [Serial!Next]_(Serial!vars)
<1>1. ASSUME NEW t \in Threads, UsePlans(t)
      PROVE  DataInv' /\ UNCHANGED Serial!vars
  <2>1. \E h \in HostPlans : Host!Create(t, h) \/ Host!Destroy(t, h)
    BY <1>1 DEF UsePlans, HostPlans
  <2> QED BY <1>1, <2>1, FrameSteps, SerialStutter, SeenKept DEF UsePlans, syclVars
<1>2. ASSUME NEW t \in Threads, Destroy(t) \/ Throw(t)
      PROVE  DataInv' /\ UNCHANGED Serial!vars
  BY <1>2, SyclSerial DEF Destroy, Throw
<1>3. ASSUME NEW t \in Threads, HostThrows(t) \/ PlansFailure(t)
      PROVE  DataInv' /\ UNCHANGED Serial!vars
  BY <1>3, FrameSteps, SerialStutter, SeenKept DEF HostThrows, PlansFailure, syclVars
<1>4. ASSUME NEW t \in Threads, NEW in \in Buffers, NEW out \in Buffers \union {Invalid},
             NEW onePointer \in BOOLEAN, NEW deps \in SUBSET Elsewhere,
             Call(t, in, out, onePointer, deps)
      PROVE  DataInv' /\ UNCHANGED Serial!vars
  BY <1>4, SyclSerial DEF Call
<1>5. CASE Submit
  BY <1>5, SyclSerial DEF Submit
<1>6. CASE Queue
  BY <1>6, CompleteSerial DEF Queue
<1>7. CASE Terminated \/ UNCHANGED vars
  BY <1>7, SyclSerial DEF Terminated, vars, syclVars
<1>8. ASSUME NEW t \in Threads, LibraryStep(t)
      PROVE  DataInv' /\ [Serial!Next]_(Serial!vars)
  BY <1>8, LibrarySerial
<1> QED BY <1>1, <1>2, <1>3, <1>4, <1>5, <1>6, <1>7, <1>8 DEF Next

LEMMA InitialSerial == Init => Serial!Init
<1> SUFFICES ASSUME Init PROVE Serial!Init
  OBVIOUS
<1>1. log[Inner] = <<>> /\ applied[Inner] = {} /\ Producers \ done = 1..Len(Produced)
  BY ProducersFacts DEF Init, Host!InitPlans
<1>2. ASSUME NEW b \in Buffers
      PROVE  [origin |-> content[b].origin, times |-> content[b].times] =
               IF \E p \in Producers : Produced[p] = b THEN Serial!Garbage ELSE Serial!Fresh(b)
  <2>1. CASE \E p \in Producers : Produced[p] = b
    <3>1. content[b] = Host!Garbage
      BY <2>1 DEF Init
    <3> QED BY <2>1, <3>1 DEF Host!Garbage, Serial!Garbage
  <2>2. CASE ~ \E p \in Producers : Produced[p] = b
    <3>1. content[b] = Host!Fresh(b)
      BY <2>2 DEF Init
    <3> QED BY <2>2, <3>1 DEF Host!Fresh, Serial!Fresh
  <2> QED BY <2>1, <2>2
<1>3. Seen = [b \in Buffers |->
                IF \E p \in Producers : Produced[p] = b THEN Serial!Garbage ELSE Serial!Fresh(b)]
  BY <1>2 DEF Seen
<1>4. Producers \ done = Producers
  BY DEF Init
<1> QED BY <1>1, <1>3, <1>4 DEF Serial!Init

\* The executions of host_plan_ take effect in the order in which their threads
\* chose a native plan, and only the thread inside it leaves a buffer unscaled
\* (sycl.cpp:656-662, host.cpp:114-137).
THEOREM BlockingData == Spec => []DataInv
<1>1. IInv /\ DataInv /\ HostWorksAlone /\ [Next]_vars => DataInv'
  BY SerialStep
<1> QED BY <1>1, InitialData, BlockingInvariance, BlockingHostWorksAlone, PTL DEF Spec

\* The SYCL plan on FFTW serializes its executions like the other providers do,
\* each one on what the program's commands left in its buffers, also after a
\* wait or a submission has thrown (sycl.cpp:637-668): every step is a step of
\* SerialPlan.
THEOREM BlockingImplementsSerial == Spec => Serial!Safety
<1>1. IInv /\ DataInv /\ HostWorksAlone /\ [Next]_vars => [Serial!Next]_(Serial!vars)
  BY SerialStep
<1> QED BY <1>1, InitialSerial, BlockingData, BlockingInvariance, BlockingHostWorksAlone, PTL
        DEF Spec, Serial!Safety
=============================================================================
