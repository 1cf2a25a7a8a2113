---------------------------- MODULE BlockingPlan ----------------------------
(***************************************************************************)
(* sycl::plan::impl::execute (src/sycl/sycl.cpp) when the provider is      *)
(* fftw: the SYCL plan locks its own mutex, waits for the dependencies and *)
(* for its whole queue, calls the host plan it owns (FftwPlan), and        *)
(* returns the event of an empty command.  Three locks nest: mutex_ of the *)
(* SYCL plan, mutex_ of the host plan, and the planner's, for which other  *)
(* host plans of the process compete.                                      *)
(*                                                                         *)
(* A command is known by its position in commands; 0 stands for no event.  *)
(* The program's first commands fill buffers, on the plan's queue or on    *)
(* another one; every later command, the empty ones of execute included,   *)
(* touches no buffer.                                                      *)
(***************************************************************************)
EXTENDS Naturals, Sequences, FiniteSets

CONSTANTS
    Threads, NoThread, Buffers, Aligned, Placement, Scaled, MaxCalls, MaxFailures,
                    \* as in FftwPlan
    Inner,          \* the host plan that is host_plan_
    Other,          \* a host plan the program uses by itself
    Invalid,        \* a pointer that is null or no USM of the context
    DeviceUsm,      \* the buffers that are device allocations
    Produced,       \* Produced[p] is the buffer the program's command p fills
    Elsewhere,      \* the commands of the program that are on another queue
    MaxCommands,    \* bound: the program submits while there are fewer commands
    MaxThrows       \* bound: waits and submissions that throw

ASSUME BlockingAssumption ==
    /\ Inner # Other /\ NoThread \notin Threads
    /\ Invalid \notin Buffers /\ "garbage" \notin Buffers
    /\ Aligned \subseteq Buffers /\ DeviceUsm \subseteq Buffers
    /\ Placement \in {"in_place", "out_of_place"} /\ Scaled \in BOOLEAN
    /\ Produced \in Seq(Buffers) /\ Elsewhere \subseteq DOMAIN Produced
    /\ MaxCalls \in Nat /\ MaxFailures \in Nat /\ MaxCommands \in Nat /\ MaxThrows \in Nat

VARIABLES
    pc, job, life, planned, native, hostMutex, planner, content, log, applied,
    issued, failures,   \* the host plans and their threads, as in FftwPlan
    place,      \* per thread: where it is in the SYCL plan
    request,    \* per thread: the arguments of its call
    mutex,      \* the owner of the SYCL plan's mutex_
    lastEvent,  \* last_event_, 0 when empty
    commands,   \* per command ever submitted: whether it is on the plan's queue
    done,       \* the commands that are complete
    awaited,    \* the commands the thread in queue_.wait_and_throw waits for
    calls,      \* calls of execute so far
    throws      \* waits and submissions that have thrown

hostVars == <<pc, job, life, planned, native, hostMutex, planner, content, log, applied,
              issued, failures>>
syclVars == <<place, request, mutex, lastEvent, commands, done, awaited, calls, throws>>
vars == <<hostVars, syclVars>>

Host == INSTANCE FftwPlan WITH
    Plans <- {Inner, Other}, Null <- Invalid, Distinct <- FALSE

Producers == DOMAIN Produced
Events == DOMAIN commands
NoRequest == <<>>

Init ==
    /\ Host!InitPlans
    /\ content = [b \in Buffers |->
                    IF \E p \in Producers : Produced[p] = b THEN Host!Garbage ELSE Host!Fresh(b)]
    /\ place = [t \in Threads |-> "outside"]
    /\ request = [t \in Threads |-> NoRequest]
    /\ mutex = NoThread
    /\ lastEvent = 0
    /\ commands = [p \in Producers |-> p \notin Elsewhere]
    /\ done = {}
    /\ awaited = {}
    /\ calls = 0
    /\ throws = 0

Goto(t, where) == place' = [place EXCEPT ![t] = where]

-----------------------------------------------------------------------------
(* The program.                                                             *)

\* It constructs the SYCL plan, whose constructor emplaces host_plan_, and
\* creates and destroys the other host plan.
UsePlans(t) ==
    /\ place[t] = "outside"
    /\ Host!Create(t, Inner) \/ Host!Create(t, Other) \/ Host!Destroy(t, Other)
    /\ UNCHANGED syclVars

\* It submits a command of its own to the plan's queue.
Submit ==
    /\ Len(commands) < MaxCommands
    /\ commands' = Append(commands, TRUE)
    /\ UNCHANGED <<hostVars, place, request, mutex, lastEvent, done, awaited, calls, throws>>

\* It calls execute.  Of its commands that fill the buffers it has to name the
\* ones on another queue; those on the plan's queue are waited for anyway,
\* as is any other event of its own that it might name.
Call(t, in, out, onePointer, deps) ==
    /\ place[t] = "outside" /\ pc[t] = "idle"
    /\ life[Inner] = "live" /\ \A u \in Threads : place[u] # "destroying"
    /\ calls < MaxCalls
    /\ onePointer => in = out
    /\ \A p \in Elsewhere \ done : Produced[p] \in {in, out} => p \in deps
    /\ Goto(t, "called")
    /\ request' = [request EXCEPT ![t] =
                     [in |-> in, out |-> out, onePointer |-> onePointer, deps |-> deps]]
    /\ calls' = calls + 1
    /\ UNCHANGED <<hostVars, mutex, lastEvent, commands, done, awaited, throws>>

\* It destroys the SYCL plan when no thread is inside it.
Destroy(t) ==
    /\ pc[t] = "idle" /\ life[Inner] = "live"
    /\ \A u \in Threads : place[u] = "outside"
    /\ Goto(t, "destroying")
    /\ UNCHANGED <<hostVars, request, mutex, lastEvent, commands, done, awaited, calls, throws>>

-----------------------------------------------------------------------------
(* execute.                                                                 *)

\* The SYCL plan, unlike the host plan, compares the pointers.
ValidLikeHost(r) ==
    /\ Invalid \notin {r.in, r.out}
    /\ Placement = "in_place" => r.onePointer
    /\ Placement = "out_of_place" => ~ r.onePointer
Valid(r) ==
    /\ Invalid \notin {r.in, r.out}
    /\ Placement = "in_place" => r.onePointer
    /\ Placement = "out_of_place" => ~ r.onePointer /\ r.in # r.out

Leave(t) ==
    /\ Goto(t, "outside")
    /\ request' = [request EXCEPT ![t] = NoRequest]

Reject(t) ==
    /\ place[t] = "called" /\ ~ Valid(request[t])
    /\ Leave(t)
    /\ UNCHANGED <<hostVars, mutex, lastEvent, commands, done, awaited, calls, throws>>

Enter(t) ==
    /\ place[t] = "called" /\ Valid(request[t])
    /\ mutex = NoThread /\ mutex' = t
    /\ Goto(t, "waiting")
    /\ UNCHANGED <<hostVars, request, lastEvent, commands, done, awaited, calls, throws>>

\* Every dependency is complete, and the wait for the queue begins: it covers
\* the commands submitted before it.
DependenciesIgnored(r) == {}
Dependencies(r) == r.deps \union ({lastEvent} \ {0})
QueueIgnored == {}
QueueContents == {e \in Events : commands[e]}

AwaitDependencies(t) ==
    /\ place[t] = "waiting"
    /\ Dependencies(request[t]) \subseteq done
    /\ awaited' = QueueContents
    /\ Goto(t, "draining")
    /\ UNCHANGED <<hostVars, request, mutex, lastEvent, commands, done, calls, throws>>

Release(t) ==
    /\ mutex' = NoThread
    /\ awaited' = {}
    /\ Leave(t)

\* The queue is empty, but the host cannot reach a device allocation.
RefuseDeviceUsm(t) ==
    /\ place[t] = "draining" /\ awaited \subseteq done
    /\ {request[t].in, request[t].out} \intersect DeviceUsm # {}
    /\ Release(t)
    /\ UNCHANGED <<hostVars, lastEvent, commands, done, calls, throws>>

CallHost(t) ==
    /\ place[t] = "draining" /\ awaited \subseteq done
    /\ {request[t].in, request[t].out} \intersect DeviceUsm = {}
    /\ Host!Call(t, Inner, request[t].in, request[t].out, request[t].onePointer)
    /\ Goto(t, "hosting")
    /\ UNCHANGED <<request, mutex, lastEvent, commands, done, awaited, calls, throws>>

\* A step of the host plan between its call and its return.
HostWorks(t) ==
    /\ place[t] = "hosting"
    /\ \/ Host!Enter(t) \/ Host!Select(t) \/ Host!EnterPlanner(t)
       \/ Host!PlannedUnaligned(t) \/ Host!Transform(t)
    /\ UNCHANGED syclVars

HostReturns(t) ==
    /\ place[t] = "hosting" /\ Host!Finish(t)
    /\ Goto(t, "submitting")
    /\ UNCHANGED <<request, mutex, lastEvent, commands, done, awaited, calls, throws>>

\* The host plan throws through execute.  It could do so by Host!Reject as
\* well, were it not for HostPlanReady.
HostThrows(t) ==
    /\ place[t] = "hosting" /\ Host!UnalignedFails(t)
    /\ Release(t)
    /\ UNCHANGED <<lastEvent, commands, done, calls, throws>>

\* The empty command: its event is last_event_ and what execute returns.
SubmitCompleted(t) ==
    /\ place[t] = "submitting"
    /\ commands' = Append(commands, TRUE)
    /\ lastEvent' = Len(commands) + 1
    /\ Release(t)
    /\ UNCHANGED <<hostVars, done, calls, throws>>

\* A wait reports the asynchronous error of any command, or the submission
\* throws; last_event_ keeps its value.
ThrowKeepingLock(t) ==
    /\ place[t] \in {"waiting", "draining", "submitting"}
    /\ throws < MaxThrows
    /\ throws' = throws + 1
    /\ Leave(t)
    /\ UNCHANGED <<hostVars, mutex, awaited, lastEvent, commands, done, calls>>
Throw(t) ==
    /\ place[t] \in {"waiting", "draining", "submitting"}
    /\ throws < MaxThrows
    /\ throws' = throws + 1
    /\ Release(t)
    /\ UNCHANGED <<hostVars, lastEvent, commands, done, calls>>

\* ~impl has waited for last_event_, and the member host_plan_ is destroyed: the
\* thread is inside the destructor until the host plan has given back its native
\* plans.
DestroyHostPlan(t) ==
    /\ place[t] = "destroying"
    /\ {lastEvent} \ {0} \subseteq done
    /\ Host!Destroy(t, Inner)
    /\ UNCHANGED syclVars

HostPlanDestroyed(t) ==
    /\ place[t] = "destroying" /\ Host!Destroyed(t)
    /\ Goto(t, "outside")
    /\ UNCHANGED <<request, mutex, lastEvent, commands, done, awaited, calls, throws>>

\* A step of a thread that makes or destroys a host plan.
PlansStep(t) ==
    /\ \/ place[t] \in {"outside", "destroying"} /\ Host!EnterPlanner(t)
       \/ place[t] = "outside" /\ (Host!Created(t) \/ Host!Destroyed(t))
    /\ UNCHANGED syclVars
PlansFailure(t) == place[t] = "outside" /\ Host!CreateFails(t) /\ UNCHANGED syclVars

-----------------------------------------------------------------------------
\* The queues complete a command.
Complete(e) ==
    /\ e \notin done
    /\ done' = done \union {e}
    /\ content' = IF e \in Producers
                  THEN [content EXCEPT ![Produced[e]] = Host!Fresh(Produced[e])]
                  ELSE content
    /\ UNCHANGED <<pc, job, life, planned, native, hostMutex, planner, log, applied, issued,
                   failures, place, request, mutex, lastEvent, commands, awaited, calls, throws>>

Queue == \E e \in Events : Complete(e)

LibraryStep(t) ==
    \/ Reject(t) \/ Enter(t) \/ AwaitDependencies(t) \/ RefuseDeviceUsm(t) \/ CallHost(t)
    \/ HostWorks(t) \/ HostReturns(t) \/ SubmitCompleted(t)
    \/ DestroyHostPlan(t) \/ HostPlanDestroyed(t) \/ PlansStep(t)

Terminated ==
    /\ \A p \in {Inner, Other} : life[p] = "destroyed"
    /\ \A t \in Threads : pc[t] = "idle" /\ place[t] = "outside"
    /\ done = Events
    /\ UNCHANGED vars

Next ==
    \/ \E t \in Threads :
         \/ UsePlans(t) \/ Destroy(t) \/ LibraryStep(t)
         \/ HostThrows(t) \/ Throw(t) \/ PlansFailure(t)
         \/ \E in \in Buffers, out \in Buffers \union {Invalid}, onePointer \in BOOLEAN,
               deps \in SUBSET Elsewhere : Call(t, in, out, onePointer, deps)
    \/ Submit
    \/ Queue
    \/ Terminated

\* The queues complete their commands and a thread inside the library keeps
\* running.
Fairness == WF_vars(Queue) /\ \A t \in Threads : WF_vars(LibraryStep(t))

Spec == Init /\ [][Next]_vars /\ Fairness

-----------------------------------------------------------------------------
(* Properties.                                                              *)

\* While the host plan works on a buffer, no command of any queue is left that
\* fills it: the waits for the dependencies and for the whole queue
\* (sycl.cpp:645-648) replace the depends_on of the other providers.
HostWorksAlone ==
    \A t \in Threads : place[t] = "hosting" =>
        \A p \in Producers \ done : Produced[p] \notin {request[t].in, request[t].out}

\* The host plan always accepts what the SYCL plan passes on: its checks never
\* refuse what those of the SYCL plan let through, it never gets one array for
\* an out-of-place plan, and nobody else is inside it (sycl.cpp:619-637 against
\* host.cpp:99-114).
HostPlanReady ==
    \A t \in Threads : place[t] = "hosting" /\ pc[t] = "called" =>
        /\ Host!Valid(job[t])
        /\ Placement = "out_of_place" => job[t].in # job[t].out
        /\ life[Inner] = "live" /\ hostMutex[Inner] = NoThread

\* Calls, constructors and destructors come back although the mutex of the SYCL
\* plan is held while the whole queue drains, the mutexes of the host plan and of
\* the planner are taken under it, and waits may throw (sycl.cpp:593-668,
\* fftw_provider.cpp:195-244).
Outside(t) == place[t] = "outside" /\ pc[t] = "idle"
CallsReturn == \A t \in Threads : ~ Outside(t) ~> Outside(t)

\* A buffer as the program sees it once it is scaled.
Seen == [b \in Buffers |-> [origin |-> content[b].origin, times |-> content[b].times]]

Serial == INSTANCE SerialPlan WITH
    accepted <- log[Inner],
    applied <- applied[Inner],
    content <- Seen,
    pending <- Producers \ done

\* The SYCL plan on FFTW serializes its executions like the other providers do,
\* each one on what the program's commands left in its buffers
\* (sycl.cpp:637-668).
ImplementsSerialPlan == Serial!Spec
=============================================================================
