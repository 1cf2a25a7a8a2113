-------------------------- MODULE PlanConstruction --------------------------
(***************************************************************************)
(* Constructing and destroying SYCL plans (src/sycl/sycl.cpp): the checks, *)
(* the choice of a provider, the search for its module                     *)
(* (src/core/provider_loader.cpp), the provider's own plan or the portable *)
(* provider's tables and scratch, and the release of all of it, both when  *)
(* the constructor throws half way and in the destructor.                  *)
(*                                                                         *)
(* Modules are shared by the plans of a process: dlopen and dlclose count  *)
(* references, and a module's code may run only while its count is not     *)
(* zero.  Allocations, uploads and the providers' create may fail.         *)
(***************************************************************************)
EXTENDS Naturals, Integers, Sequences, FiniteSets

CONSTANTS
    Plans,          \* plan objects, each constructed by a thread of its own
    Environments,   \* the machines and installations a process may find
    Requests,       \* per plan: the arguments a program may construct it with
    MaxTables,      \* bound: the tables a request needs, over all its axes
    MaxFailures     \* bound: allocations, uploads and create calls that fail

Providers == {"portable_sycl", "cufft", "fftw", "rocfft", "onemkl"}
Files == {"cufft", "fftw"}
Statuses == {"missing", "no_entry", "bad_abi", "good"}
AxisKinds == {"direct", "bluestein"}
Radices == {2, 3, 5, 7}

\* The directory that holds the core library has an "installed" one beside it;
\* "" is where the system looks for a file without a directory, be it the
\* working directory.
Directories == {"", "first", "second", "installed"}

\* path: the items of SYCLFFT_PLUGIN_PATH, which may be empty; holds: per module
\* file, what dlopen and dlsym find in each directory.
ASSUME EnvironmentsAssumption == \A e \in Environments :
    /\ e.backend \in {"cuda", "cpu", "opencl"}
    /\ e.fp64 \in BOOLEAN /\ e.usm \in BOOLEAN /\ e.supports \in BOOLEAN
    /\ e.built \subseteq Files
    /\ e.path \in Seq(Directories \ {"installed"}) /\ e.libraryKnown \in BOOLEAN
    /\ e.holds \in [Files -> [Directories -> Statuses]]
\* lengths: of the axes; oversized: the axes whose convolution length, or whose
\* share of the scratch, overflows size_t if they take Bluestein's algorithm (how
\* that is computed is in PlanSizes).
ASSUME RequestsAssumption == \A p \in Plans : \A r \in Requests[p] :
    /\ r.preferred \in Providers \union {"automatic"}
    /\ r.valid \in BOOLEAN /\ r.double \in BOOLEAN
    /\ r.lengths \in Seq(Nat \ {0}) /\ r.lengths # <<>>
    /\ r.oversized \subseteq DOMAIN r.lengths
    /\ 3 * Len(r.lengths) <= MaxTables
ASSUME BoundAssumption == MaxTables \in Nat /\ MaxFailures \in Nat

VARIABLES
    env,        \* the environment, the same for the whole life of the process
    plan,       \* per plan: the state of its construction and its members
    memory,     \* per device allocation: how often allocated minus how often freed
    refs,       \* per module: its reference count
    failures    \* failed allocations, uploads and creations so far

vars == <<env, plan, memory, refs, failures>>

Modules == Files \X Directories
NoModule == <<>>
\* Device allocations: scratch_a_ and scratch_b_, and the tables by their
\* position in table_allocations_.
Scratch == {"scratch"} \X {1, 2}
Table(n) == <<"table", n>>
Pointers == Plans \X (Scratch \union {Table(n) : n \in 1..MaxTables})

NewPlan == [pc |-> "none", request |-> <<>>, at |-> 0, module |-> NoModule, handle |-> "none",
            selected |-> "portable_sycl", error |-> "none", scratch |-> {}, tables |-> 0,
            uploaded |-> {}, entries |-> <<>>]

Init ==
    /\ env \in Environments
    /\ plan = [p \in Plans |-> NewPlan]
    /\ memory = [x \in Pointers |-> 0]
    /\ refs = [m \in Modules |-> 0]
    /\ failures = 0

Become(p, record) == plan' = [plan EXCEPT ![p] = record]
Goto(p, place) == Become(p, [plan[p] EXCEPT !.pc = place])

\* The shared_ptr that holds a module is destroyed.
Closed(module) == IF module = NoModule THEN refs ELSE [refs EXCEPT ![module] = @ - 1]

\* The constructor throws: the members constructed so far are destroyed.
Throws(p, code) ==
    /\ Become(p, [plan[p] EXCEPT !.pc = "failed", !.error = code, !.module = NoModule])
    /\ refs' = Closed(plan[p].module)

Failing == failures < MaxFailures /\ failures' = failures + 1

-----------------------------------------------------------------------------
(* The checks and the choice of a provider.                                 *)

Begin(p, r) ==
    /\ plan[p].pc = "none"
    /\ Become(p, [plan[p] EXCEPT !.pc = "checks", !.request = r])
    /\ UNCHANGED <<env, memory, refs, failures>>

Check(p) ==
    /\ plan[p].pc = "checks"
    /\ LET r == plan[p].request
       IN  IF ~ r.valid THEN Throws(p, "invalid_argument")
           ELSE IF r.double /\ ~ env.fp64 THEN Throws(p, "unsupported_precision")
           ELSE Goto(p, "select") /\ UNCHANGED refs
    /\ UNCHANGED <<env, memory, failures>>

\* What becomes of a plan whose cuFFT or FFTW provider cannot be had: only
\* try_load_cufft(queue, required = false) turns to the portable provider.
UnavailableFallingBack(p, code) ==
    /\ Become(p, [plan[p] EXCEPT !.pc = "portable", !.module = NoModule])
    /\ refs' = Closed(plan[p].module)
Unavailable(p, code) ==
    IF plan[p].request.preferred = "automatic"
    THEN /\ Become(p, [plan[p] EXCEPT !.pc = "portable", !.module = NoModule])
         /\ refs' = Closed(plan[p].module)
    ELSE Throws(p, code)

\* provider_search_paths: the items of the variable, then the directory beside
\* the core library, if dladdr knows it.
SearchPaths == env.path \o (IF env.libraryKnown THEN <<"installed">> ELSE <<>>)

SearchFor(p, file) ==
    Become(p, [plan[p] EXCEPT !.pc = "search", !.at = 1,
                              !.selected = IF file = "fftw" THEN "fftw" ELSE @])

Select(p) ==
    /\ plan[p].pc = "select"
    /\ LET preferred == plan[p].request.preferred
       IN  \/ /\ preferred = "portable_sycl"
              /\ Goto(p, "portable") /\ UNCHANGED refs
           \/ /\ preferred \in {"automatic", "cufft"}
              /\ IF env.backend = "cuda" /\ "cufft" \in env.built
                 THEN SearchFor(p, "cufft") /\ UNCHANGED refs
                 ELSE Unavailable(p, "provider_unavailable")
           \/ /\ preferred = "fftw"
              /\ IF env.backend = "cpu" /\ "fftw" \in env.built
                 THEN SearchFor(p, "fftw") /\ UNCHANGED refs
                 ELSE Unavailable(p, "provider_unavailable")
           \/ /\ preferred \in {"rocfft", "onemkl"}
              /\ Throws(p, "provider_unavailable")
    /\ UNCHANGED <<env, memory, failures>>

-----------------------------------------------------------------------------
(* load_provider_symbol and the checks of the provider's interface.         *)

File(p) == IF plan[p].request.preferred = "fftw" THEN "fftw" ELSE "cufft"

\* What a directory holds.  A useless one does not end the search: one that has
\* no module with the entry point, and an empty item, which split_paths drops.
Status(module) == env.holds[module[1]][module[2]]
Lacking == {"missing", "no_entry"}
UselessWithEmpty(module) == Status(module) \in Lacking
Useless(module) == module[2] = "" \/ Status(module) \in Lacking

\* One directory: a module without the entry point is closed again, the first
\* one with it is kept, and after the last directory the search fails.
SearchKeepingModules(p) ==
    /\ plan[p].pc = "search"
    /\ IF plan[p].at > Len(SearchPaths) THEN Unavailable(p, "provider_unavailable")
       ELSE LET module == <<File(p), SearchPaths[plan[p].at]>>
       IN  IF module[2] = "" \/ Status(module) = "missing"
           THEN Become(p, [plan[p] EXCEPT !.at = @ + 1]) /\ UNCHANGED refs
           ELSE IF Status(module) = "no_entry"
           THEN /\ Become(p, [plan[p] EXCEPT !.at = @ + 1])
                /\ refs' = [refs EXCEPT ![module] = @ + 1]
           ELSE /\ Become(p, [plan[p] EXCEPT !.pc = "opened", !.module = module])
                /\ refs' = [refs EXCEPT ![module] = @ + 1]
    /\ UNCHANGED <<env, memory, failures>>
Search(p) ==
    /\ plan[p].pc = "search"
    /\ IF plan[p].at > Len(SearchPaths) THEN Unavailable(p, "provider_unavailable")
       ELSE LET module == <<File(p), SearchPaths[plan[p].at]>>
       IN  IF Useless(module)
           THEN Become(p, [plan[p] EXCEPT !.at = @ + 1]) /\ UNCHANGED refs
           ELSE /\ Become(p, [plan[p] EXCEPT !.pc = "opened", !.module = module])
                /\ refs' = [refs EXCEPT ![module] = @ + 1]
    /\ UNCHANGED <<env, memory, failures>>

\* The provider's ABI version, and for cuFFT whether it accepts the queue.
Opened(p) ==
    /\ plan[p].pc = "opened"
    /\ IF Status(plan[p].module) = "bad_abi" THEN Unavailable(p, "plugin_error")
       ELSE IF File(p) = "cufft" /\ ~ env.supports
       THEN Unavailable(p, "provider_unavailable")
       ELSE /\ Become(p, [plan[p] EXCEPT !.pc = "create", !.selected = File(p)])
            /\ UNCHANGED refs
    /\ UNCHANGED <<env, memory, failures>>

Create(p) ==
    /\ plan[p].pc = "create"
    /\ Become(p, [plan[p] EXCEPT !.pc = "live", !.handle = File(p)])
    /\ UNCHANGED <<env, memory, refs, failures>>

CreateFails(p) ==
    /\ plan[p].pc = "create"
    /\ Failing
    /\ Throws(p, "planning_failed")
    /\ UNCHANGED <<env, memory>>

-----------------------------------------------------------------------------
(* The portable provider: one axis after the other, then the scratch.       *)

Portable(p) ==
    /\ plan[p].pc = "portable"
    /\ IF env.usm THEN Goto(p, "tables") /\ UNCHANGED refs
       ELSE Throws(p, "provider_unavailable")
    /\ UNCHANGED <<env, memory, failures>>

\* The radices of a length that is a product of radices; for any other one, and
\* for 1, there are none.
SupportedFactors(length) ==
    IF \A d \in 2..length : length % d = 0 => \E r \in Radices : d % r = 0
    THEN {r \in Radices : length % r = 0}
    ELSE {}

\* The algorithm of an axis is decided twice: here, by the tables that are made,
\* and by every execution, which looks for the tables it needs.
TableKindForgettingOne(length) ==
    IF SupportedFactors(length) # {} THEN "direct" ELSE "bluestein"
TableKind(length) ==
    IF SupportedFactors(length) # {} \/ length = 1 THEN "direct" ELSE "bluestein"
AxisKind(length) ==
    IF SupportedFactors(length) # {} \/ length = 1 THEN "direct" ELSE "bluestein"

\* A twiddle table, or a chirp, a kernel spectrum and convolution twiddles.
TablesOf(kind) == IF kind = "direct" THEN 1 ELSE 3

Axis(p) == Len(plan[p].entries) + 1
AxesLeft(p) == Axis(p) <= Len(plan[p].request.lengths)
KindInProgress(p) == TableKind(plan[p].request.lengths[Axis(p)])

\* The convolution length or the scratch size overflows size_t, which is tested
\* before the axis gets any table.
Overflows(p) == KindInProgress(p) = "bluestein" /\ Axis(p) \in plan[p].request.oversized

\* upload_table allocates, keeps the pointer in table_allocations_ and copies;
\* the axis gets its entry once all of its tables are on the device.
UploadTable(p) ==
    /\ plan[p].pc = "tables" /\ AxesLeft(p) /\ ~ Overflows(p)
    /\ LET kind == KindInProgress(p)
           table == plan[p].tables + 1
           uploaded == plan[p].uploaded \union {table}
           complete == Cardinality(uploaded) = TablesOf(kind)
       IN  /\ memory' = [memory EXCEPT ![<<p, Table(table)>>] = @ + 1]
           /\ Become(p, [plan[p] EXCEPT
                !.tables = table,
                !.uploaded = IF complete THEN {} ELSE uploaded,
                !.entries = IF complete
                            THEN Append(@, [axis |-> Axis(p), kind |-> kind, tables |-> uploaded])
                            ELSE @])
    /\ UNCHANGED <<env, refs, failures>>

\* malloc_device returns null (nothing is allocated), or the copy throws (the
\* allocation is in table_allocations_ already).
UploadFails(p) ==
    /\ plan[p].pc = "tables" /\ AxesLeft(p) /\ ~ Overflows(p)
    /\ Failing
    /\ \/ Goto(p, "clean_up") /\ UNCHANGED memory
       \/ /\ memory' = [memory EXCEPT ![<<p, Table(plan[p].tables + 1)>>] = @ + 1]
          /\ Become(p, [plan[p] EXCEPT !.pc = "clean_up", !.tables = @ + 1])
    /\ UNCHANGED <<env, refs>>

Oversized(p) ==
    /\ plan[p].pc = "tables" /\ AxesLeft(p) /\ Overflows(p)
    /\ Goto(p, "clean_up")
    /\ UNCHANGED <<env, memory, refs, failures>>

\* Both allocations are tried before either is tested.
AllocateScratch(p, got) ==
    /\ plan[p].pc = "tables" /\ ~ AxesLeft(p)
    /\ IF got = Scratch THEN UNCHANGED failures ELSE Failing
    /\ memory' = [x \in Pointers |->
                    IF x[1] = p /\ x[2] \in got THEN memory[x] + 1 ELSE memory[x]]
    /\ Become(p, [plan[p] EXCEPT
         !.scratch = got,
         !.pc = IF got = Scratch THEN "live" ELSE "clean_up"])
    /\ UNCHANGED <<env, refs>>

Tables(p) == {Table(n) : n \in 1..plan[p].tables}
Freed(p, pointers) ==
    [x \in Pointers |-> IF x[1] = p /\ x[2] \in pointers THEN memory[x] - 1 ELSE memory[x]]

\* catch (...): free what there is, whatever was thrown becomes planning_failed.
CleanUpTablesOnly(p) ==
    /\ plan[p].pc = "clean_up"
    /\ memory' = Freed(p, Tables(p))
    /\ Throws(p, "planning_failed")
    /\ UNCHANGED <<env, failures>>
CleanUpBothScratch(p) ==
    /\ plan[p].pc = "clean_up"
    /\ memory' = Freed(p, Scratch \union Tables(p))
    /\ Throws(p, "planning_failed")
    /\ UNCHANGED <<env, failures>>
CleanUp(p) ==
    /\ plan[p].pc = "clean_up"
    /\ memory' = Freed(p, plan[p].scratch \union Tables(p))
    /\ Throws(p, "planning_failed")
    /\ UNCHANGED <<env, failures>>

-----------------------------------------------------------------------------
(* The destructor: its body frees the device memory and the cuFFT plan, the *)
(* destructor of the member host_plan_ the FFTW plan, and only then the     *)
(* module is closed.                                                        *)

DestroyClosingFirst(p) ==
    /\ plan[p].pc = "live"
    /\ memory' = Freed(p, plan[p].scratch \union Tables(p))
    /\ refs' = Closed(plan[p].module)
    /\ Goto(p, "destroying")
    /\ UNCHANGED <<env, failures>>
Destroy(p) ==
    /\ plan[p].pc = "live"
    /\ memory' = Freed(p, plan[p].scratch \union Tables(p))
    /\ Become(p, [plan[p] EXCEPT !.pc = "destroying", !.handle = "none"])
    /\ UNCHANGED <<env, refs, failures>>

CloseModule(p) ==
    /\ plan[p].pc = "destroying"
    /\ refs' = Closed(plan[p].module)
    /\ Become(p, [plan[p] EXCEPT !.pc = "destroyed", !.module = NoModule])
    /\ UNCHANGED <<env, memory, failures>>

-----------------------------------------------------------------------------
Construction(p) ==
    \/ Check(p) \/ Select(p) \/ Search(p) \/ Opened(p) \/ Create(p)
    \/ Portable(p) \/ UploadTable(p) \/ Oversized(p) \/ CleanUp(p)
    \/ \E got \in SUBSET Scratch : AllocateScratch(p, got)

Ended == {"failed", "destroyed"}

Terminated == (\A p \in Plans : plan[p].pc \in Ended) /\ UNCHANGED vars

Next ==
    \/ \E p \in Plans :
         \/ \E r \in Requests[p] : Begin(p, r)
         \/ Construction(p)
         \/ CreateFails(p)
         \/ UploadFails(p)
         \/ Destroy(p)
         \/ CloseModule(p)
    \/ Terminated

Spec == Init /\ [][Next]_vars

-----------------------------------------------------------------------------
(* query_providers.                                                         *)

\* The first module with the entry point has one of these statuses.
Finds(file, statuses) ==
    \E i \in DOMAIN SearchPaths :
        /\ ~ Useless(<<file, SearchPaths[i]>>)
        /\ Status(<<file, SearchPaths[i]>>) \in statuses
        /\ \A j \in 1..(i - 1) : Useless(<<file, SearchPaths[j]>>)

AvailableIgnoringAbi(provider) ==
    \/ provider = "portable_sycl" /\ env.usm
    \/ /\ provider = "cufft" /\ "cufft" \in env.built /\ env.backend = "cuda"
       /\ Finds("cufft", Statuses) /\ env.supports
    \/ /\ provider = "fftw" /\ "fftw" \in env.built /\ env.backend = "cpu"
       /\ Finds("fftw", Statuses)
Available(provider) ==
    \/ provider = "portable_sycl" /\ env.usm
    \/ /\ provider = "cufft" /\ "cufft" \in env.built /\ env.backend = "cuda"
       /\ Finds("cufft", {"good"}) /\ env.supports
    \/ /\ provider = "fftw" /\ "fftw" \in env.built /\ env.backend = "cpu"
       /\ Finds("fftw", {"good"})

-----------------------------------------------------------------------------
(* Properties.                                                              *)

\* A plan that is destroyed, or whose constructor has thrown wherever it did,
\* leaves no device memory, no provider plan and no module behind
\* (sycl.cpp:576-613, provider_loader.cpp:209-219).
NothingLeaks ==
    \A p \in Plans : plan[p].pc \in Ended =>
        /\ \A x \in Pointers : x[1] = p => memory[x] = 0
        /\ plan[p].handle = "none" /\ plan[p].module = NoModule

\* Nothing is freed that is not allocated: neither a scratch pointer that is
\* null nor one that was freed already (sycl.cpp:577-585, 601-609).
FreedOnce == \A x \in Pointers : memory[x] \in {0, 1}

\* The reference count of a module is the number of plans that hold it, through
\* every failed search, so that the last plan unloads it (provider_loader.cpp:
\* 198-228, sycl.cpp:363-391).
ModulesBalanced ==
    \A m \in Modules : refs[m] = Cardinality({p \in Plans : plan[p].module = m})

\* A provider's plan never outlives the code that has to destroy it, whichever
\* plans share the module (sycl.cpp:593-613, 794-797, host.cpp:90-95, 145-147).
HandleInLoadedModule ==
    \A p \in Plans : plan[p].handle # "none" =>
        plan[p].module # NoModule /\ refs[plan[p].module] > 0

\* README.md:95-100: modules come from the directories of SYCLFFT_PLUGIN_PATH, the
\* first one that has any, then from the installed one, and never from where the
\* system looks by default, though the variable may have empty items
\* (provider_loader.cpp:20-66, 168-176, 198-228).
FoundWhereDocumented ==
    \A p \in Plans : plan[p].module # NoModule =>
        LET file == plan[p].module[1]
            directory == plan[p].module[2]
            NothingBefore(i) == \A j \in 1..(i - 1) :
                env.path[j] # "" => env.holds[file][env.path[j]] \in Lacking
        IN  \/ /\ directory # ""
               /\ \E i \in DOMAIN env.path : env.path[i] = directory /\ NothingBefore(i)
            \/ /\ directory = "installed" /\ env.libraryKnown
               /\ NothingBefore(Len(env.path) + 1)

\* execute finds the tables it looks up for every axis, of length 1 and with a
\* partly supported factorization as well, although it decides about the algorithm
\* anew (sycl.cpp:525 against 702-703); their device memory belongs to no other
\* entry, and both scratch allocations are there.  "Missing ... table"
\* (sycl.cpp:710-713, 745-747) is never thrown.
TablesFound ==
    \A p \in Plans : plan[p].pc = "live" /\ plan[p].selected = "portable_sycl" =>
        /\ plan[p].scratch = Scratch
        /\ \A a \in DOMAIN plan[p].request.lengths :
             LET wanted == AxisKind(plan[p].request.lengths[a])
                 matches == {i \in DOMAIN plan[p].entries :
                               plan[p].entries[i].axis = a /\ plan[p].entries[i].kind = wanted}
             IN  /\ Cardinality(matches) = 1
                 /\ \A i \in matches :
                      LET own == plan[p].entries[i].tables
                      IN  /\ Cardinality(own) = IF wanted = "direct" THEN 1 ELSE 3
                          /\ \A t \in own : memory[<<p, Table(t)>>] = 1
                          /\ \A j \in DOMAIN plan[p].entries \ {i} :
                               own \intersect plan[p].entries[j].tables = {}

\* README.md:63-68: on a CUDA queue cuFFT if it can be had, then the portable
\* provider; the portable provider on any other queue; and "an explicit provider
\* request never falls back".
ProviderAsDocumented ==
    \A p \in Plans : plan[p].pc = "live" =>
        LET preferred == plan[p].request.preferred
        IN  plan[p].selected =
              IF preferred # "automatic" THEN preferred
              ELSE IF Available("cufft") THEN "cufft" ELSE "portable_sycl"

\* What query_providers reports is what the constructor does: an available
\* provider is never refused as unavailable, and no plan runs on one that is
\* not available (sycl.cpp:909-947 against 447-497).
QueryTellsTruth ==
    \A p \in Plans : plan[p].pc # "none" /\ plan[p].request.preferred # "automatic" =>
        /\ Available(plan[p].request.preferred) =>
              plan[p].error \notin {"provider_unavailable", "plugin_error"}
        /\ plan[p].pc = "live" => Available(plan[p].request.preferred)
=============================================================================
