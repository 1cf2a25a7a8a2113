----------------------- MODULE PlanConstructionProofs -----------------------
(***************************************************************************)
(* Theorems about PlanConstruction, for any number of plans, any           *)
(* environment, any list of directories and any requests.                  *)
(***************************************************************************)
EXTENDS PlanConstruction, FiniteSetTheorems, TLAPS

-----------------------------------------------------------------------------
(* The inductive invariant.                                                 *)

Places == {"none", "checks", "select", "search", "opened", "create", "portable", "tables",
           "clean_up", "live", "failed", "destroying", "destroyed"}
Codes == {"none", "invalid_argument", "unsupported_precision", "provider_unavailable",
          "plugin_error", "planning_failed"}
Entry == [axis : Nat, kind : AxisKinds, tables : SUBSET Nat]
PlanType ==
    [pc : Places, request : (UNION {Requests[q] : q \in Plans}) \union {<<>>}, at : Nat,
     module : Modules \union {NoModule}, handle : Files \union {"none"},
     selected : Providers, error : Codes, scratch : SUBSET Scratch, tables : Nat,
     uploaded : SUBSET Nat, entries : Seq(Entry)]

TypeInv ==
    /\ env \in Environments
    /\ plan \in [Plans -> PlanType]
    /\ memory \in [Pointers -> Int]
    /\ refs \in [Modules -> Int]
    /\ failures \in Nat

\* A plan holds a module from the moment it finds one until it closes it, and a
\* provider's plan only while it is live.
ModuleInv(p) ==
    /\ plan[p].pc # "none" => plan[p].request \in Requests[p]
    /\ plan[p].module # NoModule => plan[p].pc \in {"opened", "create", "live", "destroying"}
    /\ plan[p].pc \in {"opened", "create"} => plan[p].module # NoModule
    /\ plan[p].handle # "none" => plan[p].pc = "live" /\ plan[p].module # NoModule

\* The first i - 1 directories have no use for the plan.
Passed(p, i) == \A j \in 1..(i - 1) : Useless(<<File(p), SearchPaths[j]>>)

SearchInv(p) ==
    /\ plan[p].pc = "search" => plan[p].at \in 1..(Len(SearchPaths) + 1) /\ Passed(p, plan[p].at)
    /\ plan[p].module # NoModule =>
         /\ ~ Useless(plan[p].module)
         /\ \E i \in DOMAIN SearchPaths :
              plan[p].module = <<File(p), SearchPaths[i]>> /\ Passed(p, i)

\* What the choice of a provider rests on, from the choice to the end.
MayLoad(p) ==
    IF plan[p].request.preferred = "fftw"
    THEN env.backend = "cpu" /\ "fftw" \in env.built
    ELSE /\ plan[p].request.preferred \in {"automatic", "cufft"}
         /\ env.backend = "cuda" /\ "cufft" \in env.built
MayBePortable(p) ==
    \/ plan[p].request.preferred = "portable_sycl"
    \/ plan[p].request.preferred = "automatic" /\ ~ Available("cufft")

ChoiceInv(p) ==
    /\ plan[p].pc \in {"none", "checks", "select"} => plan[p].selected = "portable_sycl"
    /\ plan[p].pc \in {"search", "opened"} =>
         /\ MayLoad(p)
         /\ plan[p].selected = IF File(p) = "fftw" THEN "fftw" ELSE "portable_sycl"
    /\ plan[p].pc = "create" =>
         plan[p].selected = File(p) /\ MayLoad(p) /\ Available(File(p))
    /\ plan[p].pc \in {"portable", "tables", "clean_up"} =>
         plan[p].selected = "portable_sycl" /\ MayBePortable(p)
    /\ plan[p].pc \in {"tables", "clean_up"} => env.usm
    /\ plan[p].pc = "live" =>
         \/ plan[p].selected = "portable_sycl" /\ MayBePortable(p) /\ env.usm
         \/ plan[p].selected = File(p) /\ MayLoad(p) /\ Available(File(p))

ErrorInv(p) ==
    /\ plan[p].error # "none" => plan[p].pc = "failed"
    /\ plan[p].error \in {"provider_unavailable", "plugin_error"} =>
         \/ plan[p].request.preferred = "automatic"
         \/ ~ Available(plan[p].request.preferred)

\* The entries made so far are those of the first axes, and their tables are
\* among the first n allocations.
EntriesInv(p, n) ==
    /\ \A i \in 1..Len(plan[p].entries) :
         /\ plan[p].entries[i].axis = i
         /\ plan[p].entries[i].kind = TableKind(plan[p].request.lengths[i])
         /\ plan[p].entries[i].tables \subseteq 1..n
         /\ Cardinality(plan[p].entries[i].tables) = TablesOf(plan[p].entries[i].kind)
    /\ \A i, j \in 1..Len(plan[p].entries) :
         i # j => plan[p].entries[i].tables \intersect plan[p].entries[j].tables = {}

\* The last k allocations are those of the axis in progress.
InProgress(p, k) ==
    /\ plan[p].uploaded = (plan[p].tables - k + 1)..plan[p].tables
    /\ k <= plan[p].tables
    /\ plan[p].tables <= 3 * Len(plan[p].entries) + k
    /\ k > 0 => AxesLeft(p) /\ TablesOf(KindInProgress(p)) = 3
    /\ EntriesInv(p, plan[p].tables - k)

TablesInv(p) ==
    /\ plan[p].pc \in {"none", "checks", "select", "search", "opened", "create", "portable"} =>
         plan[p].tables = 0 /\ plan[p].uploaded = {} /\ plan[p].entries = <<>>
    /\ plan[p].pc \in {"none", "checks", "select", "search", "opened", "create", "portable",
                       "tables"} => plan[p].scratch = {}
    /\ plan[p].pc = "tables" =>
         /\ Len(plan[p].entries) <= Len(plan[p].request.lengths)
         /\ \E k \in 0..2 : InProgress(p, k)
    /\ plan[p].pc = "live" /\ plan[p].selected = "portable_sycl" =>
         /\ plan[p].scratch = Scratch
         /\ Len(plan[p].entries) = Len(plan[p].request.lengths)
         /\ plan[p].tables <= MaxTables
         /\ EntriesInv(p, plan[p].tables)

\* What concerns one plan only.
PlanInv(p) == ModuleInv(p) /\ SearchInv(p) /\ ChoiceInv(p) /\ ErrorInv(p) /\ TablesInv(p)

\* The plans that hold a module; the device memory a plan has yet to free.
Holders(m) == {p \in Plans : plan[p].module = m}
BalanceInv == \A m \in Modules : IsFiniteSet(Holders(m)) /\ refs[m] = Cardinality(Holders(m))

Held(p) ==
    IF plan[p].pc \in {"failed", "destroying", "destroyed"} THEN {}
    ELSE plan[p].scratch \union Tables(p)
MemoryInv == \A x \in Pointers : memory[x] = IF x[2] \in Held(x[1]) THEN 1 ELSE 0

IInv ==
    /\ TypeInv
    /\ \A p \in Plans : PlanInv(p)
    /\ BalanceInv
    /\ MemoryInv

-----------------------------------------------------------------------------
(* Facts about the operators.                                               *)

LEMMA NoModuleIsNone == NoModule \notin Modules
<1>1. \A f, d : <<f, d>> # <<>>
  OBVIOUS
<1> QED BY <1>1 DEF NoModule, Modules

\* What provider_search_paths returns.
LEMMA SearchPathsFacts ==
    ASSUME env \in Environments
    PROVE  /\ SearchPaths \in Seq(Directories)
           /\ Len(env.path) \in Nat /\ Len(SearchPaths) \in Nat
           /\ Len(SearchPaths) = IF env.libraryKnown THEN Len(env.path) + 1 ELSE Len(env.path)
           /\ \A i \in 1..Len(env.path) : SearchPaths[i] = env.path[i]
           /\ env.libraryKnown => SearchPaths[Len(env.path) + 1] = "installed"
<1>1. env.path \in Seq(Directories \ {"installed"}) /\ env.libraryKnown \in BOOLEAN
  BY EnvironmentsAssumption
<1>2. env.path \in Seq(Directories) /\ Len(env.path) \in Nat
  BY <1>1
<1>3. "installed" \in Directories
  BY DEF Directories
<1>4. \A S : \A l, r \in Seq(S) :
        /\ l \o r \in Seq(S) /\ Len(l \o r) = Len(l) + Len(r)
        /\ \A i \in 1..Len(l) : (l \o r)[i] = l[i]
        /\ \A i \in 1..Len(r) : (l \o r)[Len(l) + i] = r[i]
  OBVIOUS
<1>5. CASE env.libraryKnown
  <2>1. SearchPaths = env.path \o <<"installed">>
    BY <1>5 DEF SearchPaths
  <2>2. <<"installed">> \in Seq(Directories) /\ Len(<<"installed">>) = 1
        /\ <<"installed">>[1] = "installed"
    BY <1>3
  <2>3. SearchPaths \in Seq(Directories) /\ Len(SearchPaths) = Len(env.path) + 1
        /\ \A i \in 1..Len(env.path) : SearchPaths[i] = env.path[i]
    BY <1>2, <1>4, <2>1, <2>2
  <2>4. SearchPaths[Len(env.path) + 1] = "installed"
    BY <1>2, <1>4, <2>1, <2>2
  <2> QED BY <1>2, <1>5, <2>3, <2>4
<1>6. CASE ~ env.libraryKnown
  <2>1. SearchPaths = env.path \o <<>>
    BY <1>6 DEF SearchPaths
  <2>2. SearchPaths = env.path
    BY <1>2, <2>1
  <2> QED BY <1>2, <1>6, <2>2
<1> QED BY <1>5, <1>6

LEMMA RequestFacts ==
    ASSUME NEW p \in Plans, NEW r \in Requests[p]
    PROVE  /\ r.preferred \in Providers \union {"automatic"}
           /\ r.lengths \in Seq(Nat \ {0}) /\ Len(r.lengths) \in Nat
           /\ 3 * Len(r.lengths) <= MaxTables
BY RequestsAssumption

LEMMA AxesTables ==
    \A kind \in AxisKinds : TablesOf(kind) \in {1, 3}
BY DEF TablesOf

LEMMA PointersFacts ==
    /\ \A x \in Pointers : x[1] \in Plans /\ x = <<x[1], x[2]>>
    /\ \A x, y \in Pointers : x[1] = y[1] /\ x[2] = y[2] => x = y
    /\ \A p \in Plans, n \in 1..MaxTables : <<p, Table(n)>> \in Pointers
    /\ \A n : Table(n) \notin Scratch
    /\ \A n, k : Table(n) = Table(k) => n = k
<1>1. \A n : Table(n) \notin Scratch
  BY DEF Table, Scratch
<1>2. \A n, k : Table(n) = Table(k) => n = k
  BY DEF Table
<1> QED BY <1>1, <1>2 DEF Pointers

-----------------------------------------------------------------------------
(* What a step of one plan leaves alone.                                    *)

LEMMA OthersKeep ==
    ASSUME IInv, NEW p \in Plans, NEW record, plan' = [plan EXCEPT ![p] = record], env' = env
    PROVE  \A q \in Plans : q # p => PlanInv(q)'
<1> SUFFICES ASSUME NEW q \in Plans, q # p PROVE PlanInv(q)'
  OBVIOUS
<1>1. plan'[q] = plan[q] /\ PlanInv(q)
  BY DEF IInv, TypeInv
<1>2. ModuleInv(q)'
  BY <1>1 DEF PlanInv, ModuleInv
<1>3. SearchInv(q)'
  <2>1. SearchPaths' = SearchPaths /\ File(q)' = File(q)
    BY <1>1 DEF SearchPaths, File
  <2>2. \A module : Useless(module)' <=> Useless(module)
    BY DEF Useless, Status
  <2>3. \A i : Passed(q, i)' <=> Passed(q, i)
    BY <2>1, <2>2 DEF Passed
  <2> QED BY <1>1, <2>1, <2>2, <2>3 DEF PlanInv, SearchInv
<1>4. ChoiceInv(q)'
  BY <1>1 DEF PlanInv, ChoiceInv, MayLoad, MayBePortable, File, Available, Finds, Useless,
     Status, SearchPaths
<1>5. ErrorInv(q)'
  BY <1>1 DEF PlanInv, ErrorInv, Available, Finds, Useless, Status, SearchPaths
<1>6. TablesInv(q)'
  BY <1>1 DEF PlanInv, TablesInv, InProgress, EntriesInv, AxesLeft, KindInProgress, Axis
<1> QED BY <1>2, <1>3, <1>4, <1>5, <1>6 DEF PlanInv

\* The conjuncts of the invariant that concern a plan, after a step of plan p.
LEMMA PlanKeeps ==
    ASSUME IInv, NEW p \in Plans, NEW record, plan' = [plan EXCEPT ![p] = record], env' = env,
           PlanInv(p)'
    PROVE  \A q \in Plans : PlanInv(q)'
BY OthersKeep

LEMMA SameModule ==
    ASSUME IInv, NEW p \in Plans, NEW record, plan' = [plan EXCEPT ![p] = record],
           record.module = plan[p].module, refs' = refs
    PROVE  BalanceInv'
<1>1. \A m : Holders(m)' = Holders(m)
  BY DEF Holders, IInv, TypeInv
<1> QED BY <1>1 DEF IInv, BalanceInv

\* A plan that opens a module adds itself to its holders.
LEMMA OpensModule ==
    ASSUME IInv, NEW p \in Plans, NEW record, NEW module \in Modules,
           plan' = [plan EXCEPT ![p] = record],
           plan[p].module = NoModule, record.module = module,
           refs' = [refs EXCEPT ![module] = @ + 1]
    PROVE  BalanceInv'
<1>1. Holders(module)' = Holders(module) \union {p} /\ p \notin Holders(module)
  BY NoModuleIsNone DEF Holders, IInv, TypeInv
<1>2. \A m \in Modules : m # module => Holders(m)' = Holders(m)
  BY NoModuleIsNone DEF Holders, IInv, TypeInv
<1>3. \A m \in Modules : refs'[m] = IF m = module THEN refs[m] + 1 ELSE refs[m]
  BY DEF IInv, TypeInv
<1>4. IsFiniteSet(Holders(module)) /\ refs[module] = Cardinality(Holders(module))
  BY DEF IInv, BalanceInv
<1>5. /\ IsFiniteSet(Holders(module)')
      /\ Cardinality(Holders(module)') = Cardinality(Holders(module)) + 1
  BY <1>1, <1>4, FS_AddElement
<1> QED BY <1>2, <1>3, <1>4, <1>5 DEF IInv, BalanceInv

\* A plan that lets go of its module, if it has one.
LEMMA ClosesModule ==
    ASSUME IInv, NEW p \in Plans, NEW record, plan' = [plan EXCEPT ![p] = record],
           record.module = NoModule, refs' = Closed(plan[p].module)
    PROVE  BalanceInv' /\ refs' \in [Modules -> Int]
<1>1. CASE plan[p].module = NoModule
  <2>1. refs' = refs
    BY <1>1 DEF Closed
  <2> QED BY <1>1, <2>1, SameModule DEF IInv, TypeInv
<1>2. CASE plan[p].module # NoModule
  <2>1. PICK module \in Modules : module = plan[p].module
    BY <1>2 DEF IInv, TypeInv, PlanType
  <2>2. refs' = [refs EXCEPT ![module] = @ - 1]
    BY <1>2, <2>1 DEF Closed
  <2>3. Holders(module)' = Holders(module) \ {p} /\ p \in Holders(module)
    BY <2>1, NoModuleIsNone DEF Holders, IInv, TypeInv
  <2>4. \A m \in Modules : m # module => Holders(m)' = Holders(m)
    BY <2>1, NoModuleIsNone DEF Holders, IInv, TypeInv
  <2>5. \A m \in Modules : refs'[m] = IF m = module THEN refs[m] - 1 ELSE refs[m]
    BY <2>1, <2>2 DEF IInv, TypeInv
  <2>6. IsFiniteSet(Holders(module)) /\ refs[module] = Cardinality(Holders(module))
    BY <2>1 DEF IInv, BalanceInv
  <2>7. /\ IsFiniteSet(Holders(module)')
        /\ Cardinality(Holders(module)') = Cardinality(Holders(module)) - 1
    BY <2>3, <2>6, FS_RemoveElement
  <2>8. BalanceInv'
    BY <2>4, <2>5, <2>6, <2>7 DEF IInv, BalanceInv
  <2> QED BY <2>1, <2>2, <2>8 DEF IInv, TypeInv
<1> QED BY <1>1, <1>2

LEMMA SameMemory ==
    ASSUME IInv, NEW p \in Plans, NEW record, plan' = [plan EXCEPT ![p] = record],
           memory' = memory, Held(p)' = Held(p)
    PROVE  MemoryInv'
<1>1. \A q \in Plans : Held(q)' = Held(q)
  <2>1. \A q \in Plans : q # p => plan'[q] = plan[q]
    BY DEF IInv, TypeInv
  <2> QED BY <2>1 DEF Held, Tables
<1> SUFFICES ASSUME NEW x \in Pointers
             PROVE  memory'[x] = IF x[2] \in Held(x[1])' THEN 1 ELSE 0
  BY DEF MemoryInv
<1>2. Held(x[1])' = Held(x[1])
  BY <1>1, PointersFacts
<1> QED BY <1>2 DEF IInv, MemoryInv

\* A plan that frees all it holds.
LEMMA FreesAll ==
    ASSUME IInv, NEW p \in Plans, NEW record, plan' = [plan EXCEPT ![p] = record],
           plan[p].pc \in {"clean_up", "live"},
           memory' = Freed(p, plan[p].scratch \union Tables(p)), Held(p)' = {}
    PROVE  MemoryInv' /\ memory' \in [Pointers -> Int]
<1>1. \A q \in Plans : q # p => Held(q)' = Held(q)
  <2>1. \A q \in Plans : q # p => plan'[q] = plan[q]
    BY DEF IInv, TypeInv
  <2> QED BY <2>1 DEF Held, Tables
<1>2. Held(p) = plan[p].scratch \union Tables(p)
  BY DEF Held
<1>3. \A x \in Pointers :
        memory'[x] = IF x[1] = p /\ x[2] \in Held(p) THEN memory[x] - 1 ELSE memory[x]
  BY <1>2 DEF Freed
<1>4. MemoryInv'
  <2> SUFFICES ASSUME NEW x \in Pointers
               PROVE  memory'[x] = IF x[2] \in Held(x[1])' THEN 1 ELSE 0
    BY DEF MemoryInv
  <2>1. memory[x] = IF x[2] \in Held(x[1]) THEN 1 ELSE 0
    BY DEF IInv, MemoryInv
  <2>2. CASE x[1] = p
    <3>1. memory[x] = IF x[2] \in Held(p) THEN 1 ELSE 0
      BY <2>1, <2>2
    <3>2. memory'[x] = IF x[2] \in Held(p) THEN memory[x] - 1 ELSE memory[x]
      BY <1>3, <2>2
    <3>3. memory'[x] = 0
      BY <3>1, <3>2
    <3>4. Held(x[1])' = {}
      BY <2>2
    <3> QED BY <3>3, <3>4
  <2>3. CASE x[1] # p
    <3>1. Held(x[1])' = Held(x[1])
      BY <1>1, <2>3, PointersFacts
    <3>2. memory'[x] = memory[x]
      BY <1>3, <2>3
    <3> QED BY <2>1, <3>1, <3>2
  <2> QED BY <2>2, <2>3
<1>5. memory' \in [Pointers -> Int]
  BY DEF Freed, IInv, TypeInv
<1> QED BY <1>4, <1>5

-----------------------------------------------------------------------------
(* The steps of the checks, the choice of a provider and the search.        *)

LEMMA PlanRecord ==
    ASSUME IInv, NEW p \in Plans
    PROVE  /\ plan[p] \in PlanType
           /\ \A record \in PlanType :
                [plan EXCEPT ![p] = record] \in [Plans -> PlanType]
BY DEF IInv, TypeInv

\* Before its tables are made a plan holds no device memory.
LEMMA HoldsNothing ==
    ASSUME IInv, NEW p \in Plans,
           plan[p].pc \in {"none", "checks", "select", "search", "opened", "create", "portable"}
    PROVE  plan[p].scratch = {} /\ plan[p].tables = 0 /\ Tables(p) = {} /\ Held(p) = {}
<1>1. plan[p].scratch = {} /\ plan[p].tables = 0
  BY DEF IInv, PlanInv, TablesInv
<1>2. 1..0 = {}
  OBVIOUS
<1>3. Tables(p) = {}
  BY <1>1, <1>2 DEF Tables
<1> QED BY <1>1, <1>3 DEF Held

\* The constructor throws: apart from the memory, nothing of the plan is left.
LEMMA ThrowsStep ==
    ASSUME IInv, NEW p \in Plans, NEW code \in Codes, Throws(p, code), env' = env,
           plan[p].pc \notin {"none", "live"},
           code \in {"provider_unavailable", "plugin_error"} =>
               \/ plan[p].request.preferred = "automatic"
               \/ ~ Available(plan[p].request.preferred)
    PROVE  /\ \A q \in Plans : PlanInv(q)'
           /\ plan' \in [Plans -> PlanType] /\ refs' \in [Modules -> Int]
           /\ BalanceInv'
           /\ Held(p)' = {}
<1> DEFINE record == [plan[p] EXCEPT !.pc = "failed", !.error = code, !.module = NoModule]
<1>1. plan[p] \in PlanType /\ PlanInv(p)
  BY DEF IInv, TypeInv
<1>2. plan' = [plan EXCEPT ![p] = record] /\ refs' = Closed(plan[p].module)
  BY DEF Throws, Become
<1>3. /\ record \in PlanType
      /\ record.pc = "failed" /\ record.error = code /\ record.module = NoModule
      /\ record.request = plan[p].request /\ record.handle = plan[p].handle
      /\ record.selected = plan[p].selected
  BY <1>1 DEF PlanType, Places
<1> HIDE DEF record
<1>4. plan'[p] = record /\ plan' \in [Plans -> PlanType]
  BY <1>2, <1>3, PlanRecord DEF IInv, TypeInv
<1>5. PlanInv(p)'
  <2>1. ModuleInv(p)'
    BY <1>1, <1>3, <1>4 DEF PlanInv, ModuleInv
  <2>2. SearchInv(p)' /\ ChoiceInv(p)' /\ TablesInv(p)'
    BY <1>3, <1>4 DEF SearchInv, ChoiceInv, TablesInv
  <2>4. \A provider : Available(provider)' <=> Available(provider)
    BY DEF Available, Finds, Useless, Status, SearchPaths
  <2>5. ErrorInv(p)'
    BY <1>3, <1>4, <2>4 DEF ErrorInv
  <2> QED BY <2>1, <2>2, <2>5 DEF PlanInv
<1>6. \A q \in Plans : PlanInv(q)'
  BY <1>2, <1>5, PlanKeeps
<1>7. BalanceInv' /\ refs' \in [Modules -> Int]
  BY <1>2, <1>3, ClosesModule
<1>8. Held(p)' = {}
  BY <1>3, <1>4 DEF Held
<1> QED BY <1>4, <1>6, <1>7, <1>8

\* The constructor throws before it has allocated anything.
LEMMA ThrowsEarly ==
    ASSUME IInv, NEW p \in Plans, NEW code \in Codes, Throws(p, code), env' = env,
           memory' = memory, failures' \in Nat,
           plan[p].pc \in {"checks", "select", "search", "opened", "create", "portable"},
           code \in {"provider_unavailable", "plugin_error"} =>
               \/ plan[p].request.preferred = "automatic"
               \/ ~ Available(plan[p].request.preferred)
    PROVE  IInv'
<1>1. /\ \A q \in Plans : PlanInv(q)'
      /\ plan' \in [Plans -> PlanType] /\ refs' \in [Modules -> Int]
      /\ BalanceInv' /\ Held(p)' = {}
  BY ThrowsStep
<1>2. Held(p) = {}
  BY HoldsNothing
<1>3. MemoryInv'
  BY <1>1, <1>2, SameMemory DEF Throws, Become
<1>4. TypeInv'
  BY <1>1 DEF IInv, TypeInv
<1> QED BY <1>1, <1>3, <1>4 DEF IInv

LEMMA BeginStep ==
    ASSUME IInv, NEW p \in Plans, NEW r \in Requests[p], Begin(p, r)
    PROVE  IInv'
<1> DEFINE record == [plan[p] EXCEPT !.pc = "checks", !.request = r]
<1>1. plan[p] \in PlanType /\ PlanInv(p) /\ plan[p].pc = "none"
  BY DEF IInv, TypeInv, Begin
<1>2. /\ plan' = [plan EXCEPT ![p] = record]
      /\ UNCHANGED <<env, memory, refs, failures>>
  BY DEF Begin, Become
<1>3. /\ record \in PlanType
      /\ record.pc = "checks" /\ record.request = r
      /\ record.module = plan[p].module /\ record.handle = plan[p].handle
      /\ record.selected = plan[p].selected /\ record.error = plan[p].error
      /\ record.scratch = plan[p].scratch /\ record.tables = plan[p].tables
      /\ record.uploaded = plan[p].uploaded /\ record.entries = plan[p].entries
  BY <1>1 DEF PlanType, Places
<1> HIDE DEF record
<1>4. plan'[p] = record /\ plan' \in [Plans -> PlanType]
  BY <1>2, <1>3, PlanRecord DEF IInv, TypeInv
<1>5. PlanInv(p)'
  <2>1. plan[p].module = NoModule /\ plan[p].error = "none" /\ plan[p].handle = "none"
    BY <1>1 DEF PlanInv, ModuleInv, ErrorInv
  <2> QED BY <1>1, <1>3, <1>4, <2>1
        DEF PlanInv, ModuleInv, SearchInv, ChoiceInv, ErrorInv, TablesInv
<1>6. \A q \in Plans : PlanInv(q)'
  BY <1>2, <1>5, PlanKeeps
<1>7. BalanceInv'
  BY <1>2, <1>3, SameModule
<1>8. MemoryInv'
  <2>1. Held(p)' = Held(p)
    BY <1>1, <1>3, <1>4 DEF Held, Tables
  <2> QED BY <1>2, <2>1, SameMemory
<1>9. TypeInv'
  BY <1>2, <1>4 DEF IInv, TypeInv
<1> QED BY <1>6, <1>7, <1>8, <1>9 DEF IInv

Early == {"none", "checks", "select", "search", "opened", "create", "portable"}

\* A step of a plan that has not allocated anything.
LEMMA EarlyStep ==
    ASSUME IInv, NEW p \in Plans, NEW record \in PlanType, plan' = [plan EXCEPT ![p] = record],
           UNCHANGED <<env, memory, failures>>, refs' \in [Modules -> Int],
           plan[p].pc \in Early, record.scratch = plan[p].scratch,
           record.tables = plan[p].tables, PlanInv(p)', BalanceInv'
    PROVE  IInv'
<1>1. plan'[p] = record /\ plan' \in [Plans -> PlanType]
  BY PlanRecord DEF IInv, TypeInv
<1>2. plan[p].scratch = {} /\ Tables(p) = {} /\ Held(p) = {}
  BY HoldsNothing DEF Early
<1>3. Held(p)' = Held(p)
  <2>1. Tables(p)' = Tables(p)
    BY <1>1 DEF Tables
  <2> QED BY <1>1, <1>2, <2>1 DEF Held
<1>4. MemoryInv'
  BY <1>3, SameMemory
<1>5. \A q \in Plans : PlanInv(q)'
  BY PlanKeeps
<1>6. TypeInv'
  BY <1>1 DEF IInv, TypeInv
<1> QED BY <1>4, <1>5, <1>6 DEF IInv

LEMMA AvailableKeeps ==
    ASSUME env' = env
    PROVE  /\ \A provider : Available(provider)' <=> Available(provider)
           /\ \A module : Useless(module)' <=> Useless(module)
           /\ \A module : Status(module)' = Status(module)
           /\ SearchPaths' = SearchPaths
BY DEF Available, Finds, Useless, Status, SearchPaths

LEMMA CheckStep ==
    ASSUME IInv, NEW p \in Plans, Check(p)
    PROVE  IInv'
<1>1. plan[p] \in PlanType /\ PlanInv(p) /\ plan[p].pc = "checks"
  BY DEF IInv, TypeInv, Check
<1>2. UNCHANGED <<env, memory, failures>> /\ failures' \in Nat
  BY DEF Check, IInv, TypeInv
<1>3. CASE Throws(p, "invalid_argument")
  BY <1>1, <1>2, <1>3, ThrowsEarly DEF Codes
<1>4. CASE Throws(p, "unsupported_precision")
  BY <1>1, <1>2, <1>4, ThrowsEarly DEF Codes
<1>5. CASE Goto(p, "select") /\ refs' = refs
  <2> DEFINE record == [plan[p] EXCEPT !.pc = "select"]
  <2>1. plan' = [plan EXCEPT ![p] = record]
    BY <1>5 DEF Goto, Become
  <2>2. /\ record \in PlanType
        /\ record.pc = "select" /\ record.request = plan[p].request
        /\ record.module = plan[p].module /\ record.handle = plan[p].handle
        /\ record.selected = plan[p].selected /\ record.error = plan[p].error
        /\ record.scratch = plan[p].scratch /\ record.tables = plan[p].tables
        /\ record.uploaded = plan[p].uploaded /\ record.entries = plan[p].entries
    BY <1>1 DEF PlanType, Places
  <2> HIDE DEF record
  <2>3. plan'[p] = record
    BY <2>1 DEF IInv, TypeInv
  <2>4. PlanInv(p)'
    <3>1. plan[p].module = NoModule /\ plan[p].error = "none" /\ plan[p].handle = "none"
      BY <1>1 DEF PlanInv, ModuleInv, ErrorInv
    <3> QED BY <1>1, <2>2, <2>3, <3>1
          DEF PlanInv, ModuleInv, SearchInv, ChoiceInv, ErrorInv, TablesInv
  <2>5. BalanceInv' /\ refs' \in [Modules -> Int]
    BY <1>5, <2>1, <2>2, SameModule DEF IInv, TypeInv
  <2> QED BY <1>1, <1>2, <2>1, <2>2, <2>4, <2>5, EarlyStep DEF Early
<1> QED BY <1>3, <1>4, <1>5 DEF Check

\* A provider that is not available is given up: for good if it was asked for,
\* for the portable one otherwise.
LEMMA UnavailableStep ==
    ASSUME IInv, NEW p \in Plans, NEW code \in Codes, Unavailable(p, code),
           UNCHANGED <<env, memory, failures>>,
           plan[p].pc \in {"select", "search", "opened"}, ~ Available(File(p)),
           plan[p].request.preferred \in {"automatic", "cufft", "fftw"}
    PROVE  IInv'
<1>1. plan[p] \in PlanType /\ PlanInv(p)
  BY DEF IInv, TypeInv
<1>2. CASE plan[p].request.preferred # "automatic"
  <2>1. File(p) = plan[p].request.preferred
    BY <1>2 DEF File
  <2>2. failures' \in Nat
    BY DEF IInv, TypeInv
  <2> QED BY <1>2, <2>1, <2>2, ThrowsEarly DEF Unavailable
<1>3. CASE plan[p].request.preferred = "automatic"
  <2> DEFINE record == [plan[p] EXCEPT !.pc = "portable", !.module = NoModule]
  <2>1. plan' = [plan EXCEPT ![p] = record] /\ refs' = Closed(plan[p].module)
    BY <1>3 DEF Unavailable, Become
  <2>2. /\ record \in PlanType
        /\ record.pc = "portable" /\ record.request = plan[p].request
        /\ record.module = NoModule /\ record.handle = plan[p].handle
        /\ record.selected = plan[p].selected /\ record.error = plan[p].error
        /\ record.scratch = plan[p].scratch /\ record.tables = plan[p].tables
        /\ record.uploaded = plan[p].uploaded /\ record.entries = plan[p].entries
    BY <1>1 DEF PlanType, Places
  <2> HIDE DEF record
  <2>3. plan'[p] = record
    BY <2>1 DEF IInv, TypeInv
  <2>4. PlanInv(p)'
    <3>1. plan[p].error = "none" /\ plan[p].handle = "none" /\ plan[p].request \in Requests[p]
      BY <1>1 DEF PlanInv, ModuleInv, ErrorInv
    <3>2. File(p) = "cufft" /\ plan[p].selected = "portable_sycl"
      BY <1>1, <1>3 DEF PlanInv, ChoiceInv, File
    <3>3. MayBePortable(p)'
      BY <1>3, <2>2, <2>3, <3>2, AvailableKeeps DEF MayBePortable
    <3>4. ModuleInv(p)' /\ SearchInv(p)'
      BY <2>2, <2>3, <3>1 DEF ModuleInv, SearchInv
    <3>5. ChoiceInv(p)'
      BY <2>2, <2>3, <3>2, <3>3 DEF ChoiceInv
    <3>6. ErrorInv(p)' /\ TablesInv(p)'
      BY <1>1, <2>2, <2>3, <3>1 DEF PlanInv, ErrorInv, TablesInv
    <3> QED BY <3>4, <3>5, <3>6 DEF PlanInv
  <2>5. BalanceInv' /\ refs' \in [Modules -> Int]
    BY <2>1, <2>2, ClosesModule
  <2> QED BY <2>1, <2>2, <2>4, <2>5, EarlyStep DEF Early
<1> QED BY <1>2, <1>3

\* The provider can be had from here on only by what the search finds.
LEMMA SearchForStep ==
    ASSUME IInv, NEW p \in Plans, NEW file \in Files, SearchFor(p, file), refs' = refs,
           UNCHANGED <<env, memory, failures>>, plan[p].pc = "select", MayLoad(p),
           file = File(p)
    PROVE  IInv'
<1> DEFINE record == [plan[p] EXCEPT !.pc = "search", !.at = 1,
                                     !.selected = IF file = "fftw" THEN "fftw" ELSE @]
<1>1. plan[p] \in PlanType /\ PlanInv(p)
  BY DEF IInv, TypeInv
<1>2. plan' = [plan EXCEPT ![p] = record]
  BY DEF SearchFor, Become
<1>3. /\ record \in PlanType
      /\ record.pc = "search" /\ record.request = plan[p].request /\ record.at = 1
      /\ record.module = plan[p].module /\ record.handle = plan[p].handle
      /\ record.error = plan[p].error
      /\ record.selected = IF file = "fftw" THEN "fftw" ELSE plan[p].selected
      /\ record.scratch = plan[p].scratch /\ record.tables = plan[p].tables
      /\ record.uploaded = plan[p].uploaded /\ record.entries = plan[p].entries
  BY <1>1 DEF PlanType, Places, Providers
<1> HIDE DEF record
<1>4. plan'[p] = record
  BY <1>2 DEF IInv, TypeInv
<1>5. PlanInv(p)'
  <2>1. plan[p].module = NoModule /\ plan[p].error = "none" /\ plan[p].handle = "none"
        /\ plan[p].request \in Requests[p] /\ plan[p].selected = "portable_sycl"
    BY <1>1 DEF PlanInv, ModuleInv, ErrorInv, ChoiceInv
  <2>2. ModuleInv(p)' /\ ErrorInv(p)'
    BY <1>3, <1>4, <2>1 DEF ModuleInv, ErrorInv
  <2>3. SearchInv(p)'
    <3>1. Len(SearchPaths) \in Nat
      BY SearchPathsFacts DEF IInv, TypeInv
    <3>2. SearchPaths' = SearchPaths
      BY AvailableKeeps
    <3>3. Passed(p, 1)'
      BY DEF Passed
    <3> QED BY <1>3, <1>4, <2>1, <3>1, <3>2, <3>3 DEF SearchInv
  <2>4. ChoiceInv(p)'
    BY <1>3, <1>4, <2>1 DEF ChoiceInv, MayLoad, File
  <2>5. TablesInv(p)'
    BY <1>1, <1>3, <1>4 DEF PlanInv, TablesInv
  <2> QED BY <2>2, <2>3, <2>4, <2>5 DEF PlanInv
<1>6. BalanceInv' /\ refs' \in [Modules -> Int]
  BY <1>2, <1>3, SameModule DEF IInv, TypeInv
<1> QED BY <1>2, <1>3, <1>5, <1>6, EarlyStep DEF Early

LEMMA SelectStep ==
    ASSUME IInv, NEW p \in Plans, Select(p)
    PROVE  IInv'
<1> DEFINE preferred == plan[p].request.preferred
<1>1. plan[p] \in PlanType /\ PlanInv(p) /\ plan[p].pc = "select"
  BY DEF IInv, TypeInv, Select
<1>2. UNCHANGED <<env, memory, failures>> /\ failures' \in Nat
  BY DEF Select, IInv, TypeInv
<1>3. CASE preferred = "portable_sycl" /\ Goto(p, "portable") /\ refs' = refs
  <2> DEFINE record == [plan[p] EXCEPT !.pc = "portable"]
  <2>1. plan' = [plan EXCEPT ![p] = record]
    BY <1>3 DEF Goto, Become
  <2>2. /\ record \in PlanType
        /\ record.pc = "portable" /\ record.request = plan[p].request
        /\ record.module = plan[p].module /\ record.handle = plan[p].handle
        /\ record.selected = plan[p].selected /\ record.error = plan[p].error
        /\ record.scratch = plan[p].scratch /\ record.tables = plan[p].tables
        /\ record.uploaded = plan[p].uploaded /\ record.entries = plan[p].entries
    BY <1>1 DEF PlanType, Places
  <2> HIDE DEF record
  <2>3. plan'[p] = record
    BY <2>1 DEF IInv, TypeInv
  <2>4. PlanInv(p)'
    <3>1. plan[p].module = NoModule /\ plan[p].error = "none" /\ plan[p].handle = "none"
      BY <1>1 DEF PlanInv, ModuleInv, ErrorInv
    <3> QED BY <1>1, <1>3, <2>2, <2>3, <3>1
          DEF PlanInv, ModuleInv, SearchInv, ChoiceInv, MayBePortable, ErrorInv, TablesInv
  <2>5. BalanceInv' /\ refs' \in [Modules -> Int]
    BY <1>3, <2>1, <2>2, SameModule DEF IInv, TypeInv
  <2> QED BY <1>1, <1>2, <2>1, <2>2, <2>4, <2>5, EarlyStep DEF Early
<1>4. CASE /\ preferred \in {"automatic", "cufft"}
           /\ IF env.backend = "cuda" /\ "cufft" \in env.built
              THEN SearchFor(p, "cufft") /\ refs' = refs
              ELSE Unavailable(p, "provider_unavailable")
  <2>1. File(p) = "cufft"
    BY <1>4 DEF File
  <2>2. CASE env.backend = "cuda" /\ "cufft" \in env.built
    BY <1>1, <1>2, <1>4, <2>1, <2>2, SearchForStep DEF MayLoad, Files
  <2>3. CASE ~ (env.backend = "cuda" /\ "cufft" \in env.built)
    <3>1. ~ Available("cufft")
      BY <2>3 DEF Available
    <3> QED BY <1>1, <1>2, <1>4, <2>1, <2>3, <3>1, UnavailableStep DEF Codes
  <2> QED BY <2>2, <2>3
<1>5. CASE /\ preferred = "fftw"
           /\ IF env.backend = "cpu" /\ "fftw" \in env.built
              THEN SearchFor(p, "fftw") /\ refs' = refs
              ELSE Unavailable(p, "provider_unavailable")
  <2>1. File(p) = "fftw"
    BY <1>5 DEF File
  <2>2. CASE env.backend = "cpu" /\ "fftw" \in env.built
    BY <1>1, <1>2, <1>5, <2>1, <2>2, SearchForStep DEF MayLoad, Files
  <2>3. CASE ~ (env.backend = "cpu" /\ "fftw" \in env.built)
    <3>1. ~ Available("fftw")
      BY <2>3 DEF Available
    <3> QED BY <1>1, <1>2, <1>5, <2>1, <2>3, <3>1, UnavailableStep DEF Codes
  <2> QED BY <2>2, <2>3
<1>6. CASE preferred \in {"rocfft", "onemkl"} /\ Throws(p, "provider_unavailable")
  <2>1. ~ Available(preferred)
    BY <1>6 DEF Available
  <2> QED BY <1>1, <1>2, <1>6, <2>1, ThrowsEarly DEF Codes
<1> QED BY <1>3, <1>4, <1>5, <1>6 DEF Select

\* The search is over when no directory is left: then query_providers would not
\* have found the provider either.
LEMMA SearchStep ==
    ASSUME IInv, NEW p \in Plans, Search(p)
    PROVE  IInv'
<1>a. PICK at \in Nat : at = plan[p].at
  BY DEF IInv, TypeInv, PlanType
<1>b. PICK module : module = <<File(p), SearchPaths[at]>>
  OBVIOUS
<1>1. plan[p] \in PlanType /\ PlanInv(p) /\ plan[p].pc = "search"
  BY DEF IInv, TypeInv, Search
<1>2. UNCHANGED <<env, memory, failures>> /\ env \in Environments
  BY DEF Search, IInv, TypeInv
<1>3. /\ at \in 1..(Len(SearchPaths) + 1) /\ Passed(p, at) /\ MayLoad(p)
      /\ plan[p].module = NoModule /\ plan[p].error = "none" /\ plan[p].handle = "none"
      /\ plan[p].request \in Requests[p]
      /\ plan[p].selected = IF File(p) = "fftw" THEN "fftw" ELSE "portable_sycl"
  BY <1>1, <1>a DEF PlanInv, ModuleInv, SearchInv, ChoiceInv, ErrorInv
<1>4. /\ SearchPaths \in Seq(Directories) /\ Len(SearchPaths) \in Nat
      /\ DOMAIN SearchPaths = 1..Len(SearchPaths)
  BY <1>2, SearchPathsFacts
<1>5. File(p) \in Files /\ plan[p].request.preferred \in {"automatic", "cufft", "fftw"}
  BY <1>3 DEF File, Files, MayLoad
<1>6. CASE at > Len(SearchPaths)
  <2>1. Unavailable(p, "provider_unavailable")
    BY <1>6, <1>a DEF Search
  <2>2. \A j \in 1..Len(SearchPaths) : Useless(<<File(p), SearchPaths[j]>>)
    BY <1>3, <1>4, <1>6 DEF Passed
  <2>3. ~ Available(File(p))
    BY <1>4, <1>5, <2>2 DEF Available, Finds, Files
  <2> QED BY <1>1, <1>2, <1>5, <2>1, <2>3, UnavailableStep DEF Codes
<1>7. CASE at <= Len(SearchPaths) /\ Useless(module)
  <2> DEFINE record == [plan[p] EXCEPT !.at = @ + 1]
  <2>1. plan' = [plan EXCEPT ![p] = record] /\ refs' = refs
    BY <1>3, <1>4, <1>7, <1>a, <1>b DEF Search, Become
  <2>2. /\ record \in PlanType
        /\ record.pc = "search" /\ record.request = plan[p].request /\ record.at = at + 1
        /\ record.module = plan[p].module /\ record.handle = plan[p].handle
        /\ record.selected = plan[p].selected /\ record.error = plan[p].error
        /\ record.scratch = plan[p].scratch /\ record.tables = plan[p].tables
        /\ record.uploaded = plan[p].uploaded /\ record.entries = plan[p].entries
    BY <1>1, <1>a DEF PlanType
  <2> HIDE DEF record
  <2>3. plan'[p] = record
    BY <2>1 DEF IInv, TypeInv
  <2>4. PlanInv(p)'
    <3>1. ModuleInv(p)' /\ ErrorInv(p)'
      BY <1>3, <2>2, <2>3 DEF ModuleInv, ErrorInv
    <3>2. SearchInv(p)'
      <4>1. File(p)' = File(p) /\ SearchPaths' = SearchPaths
        BY <2>2, <2>3, AvailableKeeps, <1>2 DEF File
      <4>2. \A j \in 1..at : Useless(<<File(p), SearchPaths[j]>>)
        <5> SUFFICES ASSUME NEW j \in 1..at PROVE Useless(<<File(p), SearchPaths[j]>>)
          OBVIOUS
        <5>1. CASE j = at
          BY <1>7, <1>b, <5>1
        <5>2. CASE j # at
          <6>1. j \in 1..(at - 1)
            BY <5>2
          <6> QED BY <1>3, <6>1 DEF Passed
        <5> QED BY <5>1, <5>2
      <4>3. \A j \in 1..at : Useless(<<File(p), SearchPaths[j]>>)'
        BY <1>2, <4>1, <4>2, AvailableKeeps
      <4>4. plan'[p].at = at + 1 /\ at + 1 - 1 = at /\ at + 1 \in 1..(Len(SearchPaths) + 1)
        BY <1>3, <1>4, <1>7, <2>2, <2>3
      <4>5. Passed(p, plan[p].at)'
        BY <4>3, <4>4 DEF Passed
      <4> QED BY <1>3, <2>2, <2>3, <4>1, <4>4, <4>5 DEF SearchInv
    <3>3. ChoiceInv(p)'
      BY <1>2, <1>3, <2>2, <2>3 DEF ChoiceInv, MayLoad, File
    <3>4. TablesInv(p)'
      BY <1>1, <2>2, <2>3 DEF PlanInv, TablesInv
    <3> QED BY <3>1, <3>2, <3>3, <3>4 DEF PlanInv
  <2>5. BalanceInv' /\ refs' \in [Modules -> Int]
    BY <2>1, <2>2, SameModule DEF IInv, TypeInv
  <2> QED BY <1>1, <1>2, <2>1, <2>2, <2>4, <2>5, EarlyStep DEF Early
<1>8. CASE at <= Len(SearchPaths) /\ ~ Useless(module)
  <2> DEFINE record == [plan[p] EXCEPT !.pc = "opened", !.module = module]
  <2>1. plan' = [plan EXCEPT ![p] = record] /\ refs' = [refs EXCEPT ![module] = @ + 1]
    BY <1>3, <1>4, <1>8, <1>a, <1>b DEF Search, Become
  <2>2. at \in DOMAIN SearchPaths /\ SearchPaths[at] \in Directories
    BY <1>3, <1>4, <1>8
  <2>3. module \in Modules
    BY <1>5, <1>b, <2>2 DEF Modules
  <2>4. /\ record \in PlanType
        /\ record.pc = "opened" /\ record.request = plan[p].request
        /\ record.module = module /\ record.handle = plan[p].handle
        /\ record.selected = plan[p].selected /\ record.error = plan[p].error
        /\ record.scratch = plan[p].scratch /\ record.tables = plan[p].tables
        /\ record.uploaded = plan[p].uploaded /\ record.entries = plan[p].entries
    BY <1>1, <2>3 DEF PlanType, Places
  <2> HIDE DEF record
  <2>5. plan'[p] = record
    BY <2>1 DEF IInv, TypeInv
  <2>6. PlanInv(p)'
    <3>1. ModuleInv(p)' /\ ErrorInv(p)'
      BY <1>3, <2>3, <2>4, <2>5, NoModuleIsNone DEF ModuleInv, ErrorInv
    <3>2. SearchInv(p)'
      <4>1. File(p)' = File(p) /\ SearchPaths' = SearchPaths
        BY <2>4, <2>5, AvailableKeeps, <1>2 DEF File
      <4>2. Passed(p, at)'
        <5> SUFFICES ASSUME NEW j \in 1..(at - 1)
                     PROVE  Useless(<<File(p), SearchPaths[j]>>)'
          BY DEF Passed
        <5>1. Useless(<<File(p), SearchPaths[j]>>)
          BY <1>3 DEF Passed
        <5> QED BY <1>2, <4>1, <5>1, AvailableKeeps
      <4> QED BY <1>2, <1>8, <1>b, <2>2, <2>4, <2>5, <4>1, <4>2, AvailableKeeps DEF SearchInv
    <3>3. ChoiceInv(p)'
      BY <1>2, <1>3, <2>4, <2>5 DEF ChoiceInv, MayLoad, File
    <3>4. TablesInv(p)'
      BY <1>1, <2>4, <2>5 DEF PlanInv, TablesInv
    <3> QED BY <3>1, <3>2, <3>3, <3>4 DEF PlanInv
  <2>7. BalanceInv'
    BY <1>3, <2>1, <2>3, <2>4, OpensModule
  <2>8. refs' \in [Modules -> Int]
    <3>1. refs \in [Modules -> Int]
      BY DEF IInv, TypeInv
    <3> QED BY <2>1, <2>3, <3>1
  <2> QED BY <1>1, <1>2, <2>1, <2>4, <2>6, <2>7, <2>8, EarlyStep DEF Early
<1> QED BY <1>3, <1>4, <1>6, <1>7, <1>8

-----------------------------------------------------------------------------
(* The steps with a module that was found, and the provider's own plan.     *)

\* What the search finds is what query_providers judges the provider by.
LEMMA FirstFound ==
    ASSUME env \in Environments, NEW file, NEW statuses, NEW i \in DOMAIN SearchPaths,
           ~ Useless(<<file, SearchPaths[i]>>),
           \A j \in 1..(i - 1) : Useless(<<file, SearchPaths[j]>>)
    PROVE  Finds(file, statuses) <=> Status(<<file, SearchPaths[i]>>) \in statuses
<1>1. DOMAIN SearchPaths = 1..Len(SearchPaths) /\ Len(SearchPaths) \in Nat
  BY SearchPathsFacts
<1>2. ASSUME NEW k \in DOMAIN SearchPaths, ~ Useless(<<file, SearchPaths[k]>>),
             \A j \in 1..(k - 1) : Useless(<<file, SearchPaths[j]>>)
      PROVE  k = i
  <2>1. k \in Nat /\ i \in Nat /\ k >= 1 /\ i >= 1
    BY <1>1
  <2>2. ~ (k < i) /\ ~ (i < k)
    BY <1>2, <2>1
  <2> QED BY <2>1, <2>2
<1>3. Finds(file, statuses) => Status(<<file, SearchPaths[i]>>) \in statuses
  BY <1>2 DEF Finds
<1>4. Status(<<file, SearchPaths[i]>>) \in statuses => Finds(file, statuses)
  BY DEF Finds
<1> QED BY <1>3, <1>4

LEMMA OpenedStep ==
    ASSUME IInv, NEW p \in Plans, Opened(p)
    PROVE  IInv'
<1>1. plan[p] \in PlanType /\ PlanInv(p) /\ plan[p].pc = "opened"
  BY DEF IInv, TypeInv, Opened
<1>2. UNCHANGED <<env, memory, failures>> /\ env \in Environments
  BY DEF Opened, IInv, TypeInv
<1>3. /\ MayLoad(p) /\ plan[p].module # NoModule
      /\ plan[p].error = "none" /\ plan[p].handle = "none"
      /\ plan[p].request \in Requests[p] /\ ~ Useless(plan[p].module)
  BY <1>1 DEF PlanInv, ModuleInv, SearchInv, ChoiceInv, ErrorInv
<1>4. PICK i \in DOMAIN SearchPaths :
        plan[p].module = <<File(p), SearchPaths[i]>> /\ Passed(p, i)
  BY <1>1, <1>3 DEF PlanInv, SearchInv
<1>5. File(p) \in Files /\ plan[p].request.preferred \in {"automatic", "cufft", "fftw"}
  BY <1>3 DEF File, Files, MayLoad
<1>6. \A statuses : Finds(File(p), statuses) <=> Status(plan[p].module) \in statuses
  BY <1>2, <1>3, <1>4, FirstFound DEF Passed
<1>7. CASE Status(plan[p].module) = "bad_abi"
  <2>1. ~ Available(File(p))
    BY <1>5, <1>6, <1>7 DEF Available, Files
  <2>2. Unavailable(p, "plugin_error")
    BY <1>7 DEF Opened
  <2> QED BY <1>1, <1>2, <1>5, <2>1, <2>2, UnavailableStep DEF Codes
<1>8. CASE Status(plan[p].module) # "bad_abi" /\ File(p) = "cufft" /\ ~ env.supports
  <2>1. ~ Available(File(p))
    BY <1>8 DEF Available
  <2>2. Unavailable(p, "provider_unavailable")
    BY <1>8 DEF Opened
  <2> QED BY <1>1, <1>2, <1>5, <2>1, <2>2, UnavailableStep DEF Codes
<1>9. CASE Status(plan[p].module) # "bad_abi" /\ ~ (File(p) = "cufft" /\ ~ env.supports)
  <2>1. Status(plan[p].module) \in Statuses \ Lacking
    <3>1. env.holds \in [Files -> [Directories -> Statuses]]
      BY <1>2, EnvironmentsAssumption
    <3>2. SearchPaths[i] \in Directories
      BY <1>2, <1>4, SearchPathsFacts
    <3>3. Status(plan[p].module) = env.holds[File(p)][SearchPaths[i]]
      BY <1>4 DEF Status
    <3>4. env.holds[File(p)] \in [Directories -> Statuses]
      BY <1>5, <3>1
    <3>5. env.holds[File(p)][SearchPaths[i]] \in Statuses
      BY <3>2, <3>4
    <3>6. Status(plan[p].module) \notin Lacking
      BY <1>3 DEF Useless
    <3> QED BY <3>3, <3>5, <3>6
  <2>2. Status(plan[p].module) = "good"
    BY <1>9, <2>1 DEF Statuses, Lacking
  <2>3. MayLoad(p) => Available(File(p))
    BY <1>5, <1>6, <1>9, <2>2 DEF Available, MayLoad, File, Files
  <2> DEFINE record == [plan[p] EXCEPT !.pc = "create", !.selected = File(p)]
  <2>4. plan' = [plan EXCEPT ![p] = record] /\ refs' = refs
    BY <1>9 DEF Opened, Become
  <2>5. /\ record \in PlanType
        /\ record.pc = "create" /\ record.request = plan[p].request
        /\ record.module = plan[p].module /\ record.handle = plan[p].handle
        /\ record.selected = File(p) /\ record.error = plan[p].error
        /\ record.scratch = plan[p].scratch /\ record.tables = plan[p].tables
        /\ record.uploaded = plan[p].uploaded /\ record.entries = plan[p].entries
    BY <1>1, <1>5 DEF PlanType, Places, Files, Providers
  <2> HIDE DEF record
  <2>6. plan'[p] = record
    BY <2>4 DEF IInv, TypeInv
  <2>7. PlanInv(p)'
    <3>1. ModuleInv(p)' /\ ErrorInv(p)'
      BY <1>3, <2>5, <2>6 DEF ModuleInv, ErrorInv
    <3>2. SearchInv(p)'
      <4>1. File(p)' = File(p) /\ SearchPaths' = SearchPaths
        BY <2>5, <2>6, AvailableKeeps, <1>2 DEF File
      <4>2. \A n : Passed(p, n)' <=> Passed(p, n)
        BY <1>2, <4>1, AvailableKeeps DEF Passed
      <4> QED BY <1>1, <1>2, <2>5, <2>6, <4>1, <4>2, AvailableKeeps DEF PlanInv, SearchInv
    <3>3. ChoiceInv(p)'
      <4>1. File(p)' = File(p) /\ MayLoad(p)'
        BY <1>2, <1>3, <2>5, <2>6 DEF File, MayLoad
      <4> QED BY <1>2, <1>3, <2>3, <2>5, <2>6, <4>1, AvailableKeeps DEF ChoiceInv
    <3>4. TablesInv(p)'
      BY <1>1, <2>5, <2>6 DEF PlanInv, TablesInv
    <3> QED BY <3>1, <3>2, <3>3, <3>4 DEF PlanInv
  <2>8. BalanceInv' /\ refs' \in [Modules -> Int]
    BY <2>4, <2>5, SameModule DEF IInv, TypeInv
  <2> QED BY <1>1, <1>2, <2>4, <2>5, <2>7, <2>8, EarlyStep DEF Early
<1> QED BY <1>7, <1>8, <1>9

LEMMA CreateStep ==
    ASSUME IInv, NEW p \in Plans, Create(p)
    PROVE  IInv'
<1> DEFINE record == [plan[p] EXCEPT !.pc = "live", !.handle = File(p)]
<1>1. plan[p] \in PlanType /\ PlanInv(p) /\ plan[p].pc = "create"
  BY DEF IInv, TypeInv, Create
<1>2. plan' = [plan EXCEPT ![p] = record] /\ UNCHANGED <<env, memory, refs, failures>>
  BY DEF Create, Become
<1>3. File(p) \in Files
  BY DEF File, Files
<1>4. /\ record \in PlanType
      /\ record.pc = "live" /\ record.request = plan[p].request
      /\ record.module = plan[p].module /\ record.handle = File(p)
      /\ record.selected = plan[p].selected /\ record.error = plan[p].error
      /\ record.scratch = plan[p].scratch /\ record.tables = plan[p].tables
      /\ record.uploaded = plan[p].uploaded /\ record.entries = plan[p].entries
  BY <1>1, <1>3 DEF PlanType, Places
<1> HIDE DEF record
<1>5. plan'[p] = record
  BY <1>2 DEF IInv, TypeInv
<1>6. /\ plan[p].module # NoModule /\ plan[p].error = "none" /\ plan[p].request \in Requests[p]
      /\ plan[p].selected = File(p) /\ MayLoad(p) /\ Available(File(p))
  BY <1>1 DEF PlanInv, ModuleInv, ErrorInv, ChoiceInv
<1>7. File(p)' = File(p) /\ SearchPaths' = SearchPaths /\ MayLoad(p)'
  BY <1>2, <1>4, <1>5, <1>6, AvailableKeeps DEF File, MayLoad
<1>8. PlanInv(p)'
  <2>1. ModuleInv(p)' /\ ErrorInv(p)'
    BY <1>4, <1>5, <1>6 DEF ModuleInv, ErrorInv
  <2>2. SearchInv(p)'
    <3>1. \A n : Passed(p, n)' <=> Passed(p, n)
      BY <1>2, <1>7, AvailableKeeps DEF Passed
    <3> QED BY <1>1, <1>2, <1>4, <1>5, <1>7, <3>1, AvailableKeeps DEF PlanInv, SearchInv
  <2>3. ChoiceInv(p)'
    BY <1>2, <1>4, <1>5, <1>6, <1>7, AvailableKeeps DEF ChoiceInv
  <2>4. TablesInv(p)'
    BY <1>1, <1>3, <1>4, <1>5, <1>6 DEF PlanInv, TablesInv, Files
  <2> QED BY <2>1, <2>2, <2>3, <2>4 DEF PlanInv
<1>9. BalanceInv' /\ refs' \in [Modules -> Int]
  BY <1>2, <1>4, SameModule DEF IInv, TypeInv
<1> QED BY <1>1, <1>2, <1>4, <1>8, <1>9, EarlyStep DEF Early

LEMMA CreateFailsStep ==
    ASSUME IInv, NEW p \in Plans, CreateFails(p)
    PROVE  IInv'
<1>1. plan[p].pc = "create" /\ Throws(p, "planning_failed")
      /\ env' = env /\ memory' = memory /\ failures' \in Nat
  BY DEF CreateFails, Failing, IInv, TypeInv
<1> QED BY <1>1, ThrowsEarly DEF Codes

\* The portable provider needs unified shared memory: the code names it
\* unavailable without.
LEMMA PortableStep ==
    ASSUME IInv, NEW p \in Plans, Portable(p)
    PROVE  IInv'
<1>1. plan[p] \in PlanType /\ PlanInv(p) /\ plan[p].pc = "portable"
  BY DEF IInv, TypeInv, Portable
<1>2. UNCHANGED <<env, memory, failures>> /\ failures' \in Nat
  BY DEF Portable, IInv, TypeInv
<1>3. /\ plan[p].module = NoModule /\ plan[p].error = "none" /\ plan[p].handle = "none"
      /\ plan[p].request \in Requests[p]
      /\ plan[p].selected = "portable_sycl" /\ MayBePortable(p)
      /\ plan[p].tables = 0 /\ plan[p].uploaded = {} /\ plan[p].entries = <<>>
      /\ plan[p].scratch = {}
  BY <1>1 DEF PlanInv, ModuleInv, ErrorInv, ChoiceInv, TablesInv
<1>4. CASE ~ env.usm
  <2>1. plan[p].request.preferred = "automatic" \/ ~ Available(plan[p].request.preferred)
    BY <1>3, <1>4 DEF MayBePortable, Available
  <2> QED BY <1>1, <1>2, <1>4, <2>1, ThrowsEarly DEF Portable, Codes
<1>5. CASE env.usm
  <2> DEFINE record == [plan[p] EXCEPT !.pc = "tables"]
  <2>1. plan' = [plan EXCEPT ![p] = record] /\ refs' = refs
    BY <1>5 DEF Portable, Goto, Become
  <2>2. /\ record \in PlanType
        /\ record.pc = "tables" /\ record.request = plan[p].request
        /\ record.module = plan[p].module /\ record.handle = plan[p].handle
        /\ record.selected = plan[p].selected /\ record.error = plan[p].error
        /\ record.scratch = plan[p].scratch /\ record.tables = plan[p].tables
        /\ record.uploaded = plan[p].uploaded /\ record.entries = plan[p].entries
    BY <1>1 DEF PlanType, Places
  <2> HIDE DEF record
  <2>3. plan'[p] = record
    BY <2>1 DEF IInv, TypeInv
  <2>4. PlanInv(p)'
    <3>1. ModuleInv(p)' /\ SearchInv(p)' /\ ErrorInv(p)'
      BY <1>3, <2>2, <2>3 DEF ModuleInv, SearchInv, ErrorInv
    <3>2. ChoiceInv(p)'
      <4>1. MayBePortable(p)'
        BY <1>2, <1>3, <2>2, <2>3, AvailableKeeps DEF MayBePortable
      <4> QED BY <1>2, <1>3, <1>5, <2>2, <2>3, <4>1 DEF ChoiceInv
    <3>3. TablesInv(p)'
      <4>1. InProgress(p, 0)'
        <5>1. Len(plan'[p].entries) = 0 /\ plan'[p].tables = 0 /\ plan'[p].uploaded = {}
          BY <1>3, <2>2, <2>3
        <5>2. (0 - 0 + 1)..0 = {} /\ 1..0 = {}
          OBVIOUS
        <5>3. EntriesInv(p, plan[p].tables - 0)'
          BY <5>1, <5>2 DEF EntriesInv
        <5> QED BY <5>1, <5>2, <5>3 DEF InProgress
      <4>2. Len(plan'[p].entries) <= Len(plan'[p].request.lengths)
        <5>1. Len(plan[p].request.lengths) \in Nat
          BY <1>3, RequestFacts
        <5> QED BY <1>3, <2>2, <2>3, <5>1
      <4> QED BY <1>3, <2>2, <2>3, <4>1, <4>2 DEF TablesInv
    <3> QED BY <3>1, <3>2, <3>3 DEF PlanInv
  <2>5. BalanceInv' /\ refs' \in [Modules -> Int]
    BY <2>1, <2>2, SameModule DEF IInv, TypeInv
  <2> QED BY <1>1, <1>2, <2>1, <2>2, <2>4, <2>5, EarlyStep DEF Early
<1> QED BY <1>4, <1>5

-----------------------------------------------------------------------------
(* The steps of the portable provider: its tables and its scratch.          *)

\* The tables a plan has room for, whatever axes its request has.
LEMMA TablesFit ==
    ASSUME IInv, NEW p \in Plans, plan[p].pc = "tables", AxesLeft(p)
    PROVE  /\ plan[p].tables + 1 \in 1..MaxTables
           /\ <<p, Table(plan[p].tables + 1)>> \in Pointers
<1>1. plan[p] \in PlanType /\ PlanInv(p)
  BY DEF IInv, TypeInv
<1>2. plan[p].tables \in Nat /\ Len(plan[p].entries) \in Nat
  BY <1>1 DEF PlanType
<1>3. PICK k \in 0..2 : plan[p].tables <= 3 * Len(plan[p].entries) + k
  BY <1>1 DEF PlanInv, TablesInv, InProgress
<1>4. /\ Len(plan[p].request.lengths) \in Nat /\ 3 * Len(plan[p].request.lengths) <= MaxTables
      /\ Len(plan[p].entries) + 1 <= Len(plan[p].request.lengths)
  BY <1>1, RequestFacts DEF PlanInv, ModuleInv, AxesLeft, Axis
<1>5. plan[p].tables + 1 \in 1..MaxTables
  <2>1. PICK t \in Nat, n \in Nat, a \in Nat :
          t = plan[p].tables /\ n = Len(plan[p].entries) /\ a = Len(plan[p].request.lengths)
    BY <1>2, <1>4
  <2>2. t <= 3 * n + k /\ 3 * a <= MaxTables /\ n + 1 <= a
    BY <1>3, <1>4, <2>1
  <2>3. t + 1 <= MaxTables
    BY <2>2, BoundAssumption
  <2> QED BY <2>1, <2>3, BoundAssumption
<1> QED BY <1>5, PointersFacts

LEMMA AllocatesTable ==
    ASSUME IInv, NEW p \in Plans, NEW record, plan' = [plan EXCEPT ![p] = record],
           plan[p].pc = "tables", AxesLeft(p), record.pc \in {"tables", "clean_up"},
           record.scratch = plan[p].scratch, record.tables = plan[p].tables + 1,
           memory' = [memory EXCEPT ![<<p, Table(plan[p].tables + 1)>>] = @ + 1]
    PROVE  MemoryInv' /\ memory' \in [Pointers -> Int]
<1>1. PICK t \in Nat : t = plan[p].tables
  BY DEF IInv, TypeInv, PlanType
<1>2. t + 1 \in 1..MaxTables /\ <<p, Table(t + 1)>> \in Pointers
  BY <1>1, TablesFit
<1>3. plan'[p] = record /\ \A q \in Plans : q # p => plan'[q] = plan[q]
  BY DEF IInv, TypeInv
<1>4. \A q \in Plans : q # p => Held(q)' = Held(q)
  BY <1>3 DEF Held, Tables
<1>5. Tables(p)' = Tables(p) \union {Table(t + 1)}
  <2>1. 1..(t + 1) = (1..t) \union {t + 1}
    OBVIOUS
  <2>2. plan'[p].tables = t + 1
    BY <1>1, <1>3
  <2> QED BY <1>1, <2>1, <2>2 DEF Tables
<1>6. Held(p) = plan[p].scratch \union Tables(p)
  BY DEF Held
<1>7. Held(p)' = Held(p) \union {Table(t + 1)}
  <2>1. Held(p)' = record.scratch \union Tables(p)'
    BY <1>3 DEF Held
  <2> QED BY <1>5, <1>6, <2>1
<1>8. Table(t + 1) \notin Held(p)
  <2>1. plan[p].scratch \subseteq Scratch
    BY DEF IInv, TypeInv, PlanType
  <2>2. Table(t + 1) \notin Tables(p)
    BY <1>1, PointersFacts DEF Tables
  <2> QED BY <1>6, <2>1, <2>2, PointersFacts
<1>9. memory' = [memory EXCEPT ![<<p, Table(t + 1)>>] = @ + 1] /\ memory \in [Pointers -> Int]
  BY <1>1 DEF IInv, TypeInv
<1>10. MemoryInv'
  <2> SUFFICES ASSUME NEW x \in Pointers
               PROVE  memory'[x] = IF x[2] \in Held(x[1])' THEN 1 ELSE 0
    BY DEF MemoryInv
  <2>1. memory[x] = IF x[2] \in Held(x[1]) THEN 1 ELSE 0
    BY DEF IInv, MemoryInv
  <2>2. CASE x = <<p, Table(t + 1)>>
    <3>1. x[1] = p /\ x[2] = Table(t + 1)
      BY <2>2
    <3> QED BY <1>7, <1>8, <1>9, <2>1, <2>2, <3>1
  <2>3. CASE x # <<p, Table(t + 1)>>
    <3>1. memory'[x] = memory[x]
      BY <1>9, <2>3
    <3>2. x[1] = p => x[2] # Table(t + 1)
      BY <2>3, PointersFacts
    <3>3. x[2] \in Held(x[1])' <=> x[2] \in Held(x[1])
      BY <1>4, <1>7, <3>2, PointersFacts
    <3> QED BY <2>1, <3>1, <3>3
  <2> QED BY <2>2, <2>3
<1>11. memory' \in [Pointers -> Int]
  BY <1>2, <1>9
<1> QED BY <1>10, <1>11

\* The axis in progress gets its entry with its last table, or one table more.
LEMMA UploadedTables ==
    ASSUME IInv, NEW p \in Plans, plan[p].pc = "tables", AxesLeft(p), NEW k \in 0..2,
           InProgress(p, k)
    PROVE  /\ plan[p].uploaded \union {plan[p].tables + 1}
                = (plan[p].tables - k + 1)..(plan[p].tables + 1)
           /\ Cardinality(plan[p].uploaded \union {plan[p].tables + 1}) = k + 1
           /\ KindInProgress(p) \in AxisKinds
           /\ TablesOf(KindInProgress(p)) \in {1, 3}
           /\ k + 1 # TablesOf(KindInProgress(p)) =>
                k < 2 /\ TablesOf(KindInProgress(p)) = 3
<1>1. PICK t \in Nat : t = plan[p].tables
  BY DEF IInv, TypeInv, PlanType
<1>2. k <= t /\ plan[p].uploaded = (t - k + 1)..t
  BY <1>1 DEF InProgress
<1>3. plan[p].uploaded \union {t + 1} = (t - k + 1)..(t + 1)
  BY <1>2
<1>4. Cardinality((t - k + 1)..(t + 1)) = k + 1
  <2>1. t - k + 1 \in Int /\ t + 1 \in Int /\ t - k + 1 <= t + 1
    BY <1>2
  <2>2. Cardinality((t - k + 1)..(t + 1)) = (t + 1) - (t - k + 1) + 1
    BY <2>1, FS_Interval
  <2> QED BY <2>2
<1>5. KindInProgress(p) \in AxisKinds
  BY DEF KindInProgress, TableKind, AxisKinds
<1>6. TablesOf(KindInProgress(p)) \in {1, 3}
  BY <1>5, AxesTables
<1>7. k > 0 => TablesOf(KindInProgress(p)) = 3
  BY DEF InProgress
<1>8. k + 1 # TablesOf(KindInProgress(p)) =>
        k < 2 /\ TablesOf(KindInProgress(p)) = 3
  BY <1>6, <1>7
<1>9. plan[p].uploaded \union {plan[p].tables + 1} = (t - k + 1)..(t + 1)
  BY <1>1, <1>3
<1> QED BY <1>1, <1>4, <1>5, <1>6, <1>8, <1>9

LEMMA UploadTableStep ==
    ASSUME IInv, NEW p \in Plans, UploadTable(p)
    PROVE  IInv'
<1>1. /\ plan[p] \in PlanType /\ PlanInv(p) /\ plan[p].pc = "tables" /\ AxesLeft(p)
      /\ UNCHANGED <<env, refs, failures>>
  BY DEF IInv, TypeInv, UploadTable
<1>2. PICK k \in 0..2 : InProgress(p, k)
  BY <1>1 DEF PlanInv, TablesInv
<1>a. PICK t \in Nat, n \in Nat : t = plan[p].tables /\ n = Len(plan[p].entries)
  BY <1>1 DEF PlanType
<1>b. PICK kind : kind = KindInProgress(p)
  OBVIOUS
<1>c. PICK tables : tables = plan[p].uploaded \union {plan[p].tables + 1}
  OBVIOUS
<1>3. /\ kind = KindInProgress(p) /\ t = plan[p].tables
      /\ n = Len(plan[p].entries) /\ tables = plan[p].uploaded \union {plan[p].tables + 1}
  BY <1>a, <1>b, <1>c
<1>d. PICK u \in Nat : u = t + 1
  OBVIOUS
<1>4. /\ tables = (t - k + 1)..(t + 1) /\ Cardinality(tables) = k + 1
      /\ kind \in AxisKinds /\ TablesOf(kind) \in {1, 3}
      /\ k + 1 # TablesOf(kind) => k < 2 /\ TablesOf(kind) = 3
  BY <1>1, <1>2, <1>3, UploadedTables
<1>5. /\ k <= t /\ t <= 3 * n + k /\ EntriesInv(p, t - k)
      /\ n + 1 <= Len(plan[p].request.lengths) /\ Len(plan[p].request.lengths) \in Nat
  BY <1>1, <1>2, <1>3, RequestFacts DEF InProgress, AxesLeft, Axis, PlanInv, ModuleInv
<1>6. /\ plan[p].module = NoModule /\ plan[p].error = "none" /\ plan[p].handle = "none"
      /\ plan[p].request \in Requests[p] /\ plan[p].scratch = {}
      /\ plan[p].selected = "portable_sycl" /\ MayBePortable(p) /\ env.usm
  BY <1>1 DEF PlanInv, ModuleInv, ErrorInv, ChoiceInv, TablesInv
<1>7. memory' = [memory EXCEPT ![<<p, Table(plan[p].tables + 1)>>] = @ + 1]
  BY DEF UploadTable
<1> DEFINE entry == [axis |-> n + 1, kind |-> kind, tables |-> tables]
           complete == [plan[p] EXCEPT !.tables = u, !.uploaded = {},
                                       !.entries = Append(@, entry)]
           partial == [plan[p] EXCEPT !.tables = u, !.uploaded = tables]
<1>8. plan' = [plan EXCEPT ![p] = IF k + 1 = TablesOf(kind) THEN complete ELSE partial]
  BY <1>1, <1>3, <1>4, <1>d DEF UploadTable, Become, Axis
<1>9. ASSUME NEW record \in PlanType, plan' = [plan EXCEPT ![p] = record],
             record.pc = "tables", record.request = plan[p].request,
             record.module = plan[p].module, record.handle = plan[p].handle,
             record.selected = plan[p].selected, record.error = plan[p].error,
             record.scratch = plan[p].scratch, record.tables = t + 1,
             Len(record.entries) <= Len(record.request.lengths),
             \E l \in 0..2 : InProgress(p, l)'
      PROVE  IInv'
  <2>1. plan'[p] = record /\ plan' \in [Plans -> PlanType]
    BY <1>9, PlanRecord DEF IInv, TypeInv
  <2>2. ModuleInv(p)' /\ SearchInv(p)' /\ ErrorInv(p)'
    BY <1>6, <1>9, <2>1 DEF ModuleInv, SearchInv, ErrorInv
  <2>3. MayBePortable(p)'
    BY <1>1, <1>6, <1>9, <2>1, AvailableKeeps DEF MayBePortable
  <2>4. ChoiceInv(p)'
    BY <1>1, <1>6, <1>9, <2>1, <2>3 DEF ChoiceInv
  <2>5. TablesInv(p)'
    BY <1>6, <1>9, <2>1 DEF TablesInv
  <2>6. \A q \in Plans : PlanInv(q)'
    BY <1>1, <1>9, <2>2, <2>4, <2>5, PlanKeeps DEF PlanInv
  <2>7. BalanceInv'
    BY <1>1, <1>9, SameModule
  <2>8. MemoryInv' /\ memory' \in [Pointers -> Int]
    BY <1>1, <1>3, <1>7, <1>9, AllocatesTable
  <2>9. TypeInv'
    BY <1>1, <2>1, <2>8 DEF IInv, TypeInv
  <2> QED BY <2>6, <2>7, <2>8, <2>9 DEF IInv
<1>10. CASE k + 1 = TablesOf(kind)
  <2>1. tables \subseteq 1..(t + 1) /\ tables \subseteq Nat
    BY <1>4, <1>5
  <2>2. entry \in Entry
    BY <1>4, <2>1 DEF Entry
  <2>3. /\ plan[p].entries \in Seq(Entry) /\ Append(plan[p].entries, entry) \in Seq(Entry)
        /\ Len(Append(plan[p].entries, entry)) = n + 1
        /\ \A i \in 1..n : Append(plan[p].entries, entry)[i] = plan[p].entries[i]
        /\ Append(plan[p].entries, entry)[n + 1] = entry
    <3>1. plan[p].entries \in Seq(Entry)
      BY <1>1 DEF PlanType
    <3> HIDE DEF entry
    <3> QED BY <1>3, <2>2, <3>1
  <2>4. /\ complete \in PlanType
        /\ complete.pc = "tables" /\ complete.request = plan[p].request
        /\ complete.module = plan[p].module /\ complete.handle = plan[p].handle
        /\ complete.selected = plan[p].selected /\ complete.error = plan[p].error
        /\ complete.scratch = plan[p].scratch /\ complete.tables = u
        /\ complete.uploaded = {} /\ complete.entries = Append(plan[p].entries, entry)
    <3>1. {} \in SUBSET Nat
      OBVIOUS
    <3> HIDE DEF entry
    <3> QED BY <1>1, <2>3, <3>1 DEF PlanType
  <2>5. /\ entry.axis = n + 1 /\ entry.kind = kind /\ entry.tables = tables
    OBVIOUS
  <2> HIDE DEF entry, complete, partial
  <2>6. plan' = [plan EXCEPT ![p] = complete]
    BY <1>8, <1>10
  <2>7. plan'[p] = complete
    BY <2>6 DEF IInv, TypeInv
  <2>8. EntriesInv(p, t + 1)'
    <3>1. PICK new : new = plan'[p].entries
      OBVIOUS
    <3>2. /\ Len(new) = n + 1 /\ \A i \in 1..n : new[i] = plan[p].entries[i]
          /\ new[n + 1] = entry
      BY <2>3, <2>4, <2>7, <3>1
    <3>3. \A i \in 1..n : /\ new[i].axis = i /\ new[i].kind = TableKind(plan[p].request.lengths[i])
                          /\ new[i].tables \subseteq 1..(t - k)
                          /\ Cardinality(new[i].tables) = TablesOf(new[i].kind)
      BY <1>3, <1>5, <3>2 DEF EntriesInv
    <3>4. \A i, j \in 1..n : i # j => new[i].tables \intersect new[j].tables = {}
      BY <1>3, <1>5, <3>2 DEF EntriesInv
    <3>5. /\ new[n + 1].axis = n + 1 /\ new[n + 1].kind = TableKind(plan[p].request.lengths[n + 1])
          /\ new[n + 1].tables \subseteq 1..(t + 1)
          /\ Cardinality(new[n + 1].tables) = TablesOf(new[n + 1].kind)
      BY <1>3, <1>4, <1>10, <2>1, <2>5, <3>2 DEF Axis, KindInProgress
    <3>6. \A i \in 1..n : new[i].tables \intersect new[n + 1].tables = {}
      <4>1. (1..(t - k)) \intersect tables = {}
        BY <1>4, <1>5
      <4> QED BY <2>5, <3>2, <3>3, <4>1
    <3>7. 1..(t - k) \subseteq 1..(t + 1)
      BY <1>5
    <3>8. \A i \in 1..(n + 1) : /\ new[i].axis = i /\ new[i].kind = TableKind(plan[p].request.lengths[i])
                                /\ new[i].tables \subseteq 1..(t + 1)
                                /\ Cardinality(new[i].tables) = TablesOf(new[i].kind)
      <4> SUFFICES ASSUME NEW i \in 1..(n + 1)
                   PROVE  /\ new[i].axis = i /\ new[i].kind = TableKind(plan[p].request.lengths[i])
                          /\ new[i].tables \subseteq 1..(t + 1)
                          /\ Cardinality(new[i].tables) = TablesOf(new[i].kind)
        OBVIOUS
      <4>1. i \in 1..n \/ i = n + 1
        OBVIOUS
      <4> QED BY <3>3, <3>5, <3>7, <4>1
    <3>9. \A i, j \in 1..(n + 1) : i # j => new[i].tables \intersect new[j].tables = {}
      <4> SUFFICES ASSUME NEW i \in 1..(n + 1), NEW j \in 1..(n + 1), i # j
                   PROVE  new[i].tables \intersect new[j].tables = {}
        OBVIOUS
      <4>1. (i \in 1..n \/ i = n + 1) /\ (j \in 1..n \/ j = n + 1)
        OBVIOUS
      <4> QED BY <3>4, <3>6, <4>1
    <3>10. plan'[p].request = plan[p].request
      BY <2>4, <2>7
    <3> QED BY <3>1, <3>2, <3>8, <3>9, <3>10 DEF EntriesInv
  <2>9. InProgress(p, 0)'
    <3>1. /\ plan'[p].tables = t + 1 /\ plan'[p].uploaded = {}
          /\ Len(plan'[p].entries) = n + 1
      BY <1>d, <2>3, <2>4, <2>7
    <3>2. ((t + 1) - 0 + 1)..(t + 1) = {} /\ t + 1 - 0 = t + 1 /\ t + 1 <= 3 * (n + 1) + 0
      BY <1>5
    <3>3. EntriesInv(p, plan[p].tables - 0)'
      BY <2>8, <3>1, <3>2
    <3> QED BY <3>1, <3>2, <3>3 DEF InProgress
  <2>10. Len(complete.entries) <= Len(complete.request.lengths)
    BY <1>5, <2>3, <2>4
  <2>11. \E l \in 0..2 : InProgress(p, l)'
    <3>1. 0 \in 0..2
      OBVIOUS
    <3> QED BY <2>9, <3>1
  <2>12. complete \in PlanType /\ complete.tables = t + 1
    BY <1>d, <2>4
  <2> QED BY <1>9, <2>4, <2>6, <2>10, <2>11, <2>12
<1>11. CASE k + 1 # TablesOf(kind)
  <2>1. /\ partial \in PlanType
        /\ partial.pc = "tables" /\ partial.request = plan[p].request
        /\ partial.module = plan[p].module /\ partial.handle = plan[p].handle
        /\ partial.selected = plan[p].selected /\ partial.error = plan[p].error
        /\ partial.scratch = plan[p].scratch /\ partial.tables = u
        /\ partial.uploaded = tables /\ partial.entries = plan[p].entries
    <3>1. tables \in SUBSET Nat
      BY <1>4, <1>5
    <3> QED BY <1>1, <3>1 DEF PlanType
  <2> HIDE DEF entry, complete, partial
  <2>2. plan' = [plan EXCEPT ![p] = partial]
    BY <1>8, <1>11
  <2>3. plan'[p] = partial
    BY <2>2 DEF IInv, TypeInv
  <2>4. InProgress(p, k + 1)'
    <3>1. /\ plan'[p].tables = t + 1 /\ plan'[p].uploaded = tables
          /\ plan'[p].entries = plan[p].entries /\ plan'[p].request = plan[p].request
      BY <1>d, <2>1, <2>3
    <3>2. /\ (t + 1) - (k + 1) + 1 = t - k + 1 /\ (t + 1) - (k + 1) = t - k
          /\ k + 1 <= t + 1 /\ t + 1 <= 3 * n + (k + 1)
      BY <1>5
    <3>3. EntriesInv(p, t - k)'
      BY <1>5, <3>1 DEF EntriesInv
    <3>4. AxesLeft(p)' /\ Axis(p)' = Axis(p)
      BY <1>1, <3>1 DEF AxesLeft, Axis
    <3>5. TablesOf(KindInProgress(p))' = 3
      BY <1>3, <1>4, <1>11, <3>1, <3>4 DEF KindInProgress
    <3>6. EntriesInv(p, plan[p].tables - (k + 1))'
      BY <3>1, <3>2, <3>3
    <3>7. plan'[p].uploaded = (plan'[p].tables - (k + 1) + 1)..plan'[p].tables
      BY <1>4, <3>1, <3>2
    <3>8. plan'[p].tables <= 3 * Len(plan'[p].entries) + (k + 1) /\ k + 1 <= plan'[p].tables
      BY <1>3, <3>1, <3>2
    <3> QED BY <3>4, <3>5, <3>6, <3>7, <3>8 DEF InProgress
  <2>5. k + 1 \in 0..2
    BY <1>4, <1>11
  <2>6. Len(partial.entries) <= Len(partial.request.lengths)
    BY <1>3, <1>5, <2>1
  <2> QED BY <1>9, <1>d, <2>1, <2>2, <2>4, <2>5, <2>6
<1> QED BY <1>10, <1>11

\* What is allocated so far is freed, whatever it is.
LEMMA GivesUp ==
    ASSUME IInv, NEW p \in Plans, NEW record \in PlanType, plan' = [plan EXCEPT ![p] = record],
           env' = env, refs' = refs, failures' \in Nat, plan[p].pc = "tables",
           record.pc = "clean_up", record.request = plan[p].request,
           record.module = plan[p].module, record.handle = plan[p].handle,
           record.selected = plan[p].selected, record.error = plan[p].error,
           MemoryInv', memory' \in [Pointers -> Int]
    PROVE  IInv'
<1>1. plan[p] \in PlanType /\ PlanInv(p)
  BY DEF IInv, TypeInv
<1>2. plan'[p] = record /\ plan' \in [Plans -> PlanType]
  BY PlanRecord DEF IInv, TypeInv
<1>3. /\ plan[p].module = NoModule /\ plan[p].error = "none" /\ plan[p].handle = "none"
      /\ plan[p].request \in Requests[p]
      /\ plan[p].selected = "portable_sycl" /\ MayBePortable(p) /\ env.usm
  BY <1>1 DEF PlanInv, ModuleInv, ErrorInv, ChoiceInv
<1>4. ModuleInv(p)' /\ SearchInv(p)' /\ ErrorInv(p)' /\ TablesInv(p)'
  BY <1>2, <1>3 DEF ModuleInv, SearchInv, ErrorInv, TablesInv
<1>5. MayBePortable(p)'
  BY <1>2, <1>3, AvailableKeeps DEF MayBePortable
<1>6. ChoiceInv(p)'
  BY <1>2, <1>3, <1>5 DEF ChoiceInv
<1>7. \A q \in Plans : PlanInv(q)'
  BY <1>4, <1>6, PlanKeeps DEF PlanInv
<1>8. BalanceInv'
  BY SameModule
<1>9. TypeInv'
  BY <1>2 DEF IInv, TypeInv
<1> QED BY <1>7, <1>8, <1>9 DEF IInv

\* A plan that gives up without having allocated anything more.
LEMMA GivesUpAtOnce ==
    ASSUME IInv, NEW p \in Plans, plan[p].pc = "tables", Goto(p, "clean_up"),
           UNCHANGED <<env, memory, refs>>, failures' \in Nat
    PROVE  IInv'
<1> DEFINE record == [plan[p] EXCEPT !.pc = "clean_up"]
<1>1. plan' = [plan EXCEPT ![p] = record]
  BY DEF Goto, Become
<1>2. plan[p] \in PlanType
  BY DEF IInv, TypeInv
<1>3. /\ record \in PlanType
      /\ record.pc = "clean_up" /\ record.request = plan[p].request
      /\ record.module = plan[p].module /\ record.handle = plan[p].handle
      /\ record.selected = plan[p].selected /\ record.error = plan[p].error
      /\ record.scratch = plan[p].scratch /\ record.tables = plan[p].tables
  BY <1>2 DEF PlanType, Places
<1> HIDE DEF record
<1>4. plan'[p] = record
  BY <1>1 DEF IInv, TypeInv
<1>5. Held(p)' = Held(p)
  BY <1>3, <1>4 DEF Held, Tables
<1>6. MemoryInv' /\ memory' \in [Pointers -> Int]
  BY <1>1, <1>5, SameMemory DEF IInv, TypeInv
<1> QED BY <1>1, <1>3, <1>6, GivesUp

LEMMA UploadFailsStep ==
    ASSUME IInv, NEW p \in Plans, UploadFails(p)
    PROVE  IInv'
<1>1. /\ plan[p] \in PlanType /\ plan[p].pc = "tables" /\ AxesLeft(p)
      /\ env' = env /\ refs' = refs /\ failures' \in Nat
  BY DEF IInv, TypeInv, UploadFails, Failing
<1>2. CASE Goto(p, "clean_up") /\ UNCHANGED memory
  BY <1>1, <1>2, GivesUpAtOnce
<1>3. CASE /\ memory' = [memory EXCEPT ![<<p, Table(plan[p].tables + 1)>>] = @ + 1]
           /\ Become(p, [plan[p] EXCEPT !.pc = "clean_up", !.tables = @ + 1])
  <2>a. PICK t \in Nat : t = plan[p].tables
    BY <1>1 DEF PlanType
  <2>b. PICK u \in Nat : u = t + 1
    OBVIOUS
  <2> DEFINE record == [plan[p] EXCEPT !.pc = "clean_up", !.tables = u]
  <2>1. plan' = [plan EXCEPT ![p] = record]
    BY <1>3, <2>a, <2>b DEF Become
  <2>2. /\ record \in PlanType
        /\ record.pc = "clean_up" /\ record.request = plan[p].request
        /\ record.module = plan[p].module /\ record.handle = plan[p].handle
        /\ record.selected = plan[p].selected /\ record.error = plan[p].error
        /\ record.scratch = plan[p].scratch /\ record.tables = u
    BY <1>1 DEF PlanType, Places
  <2> HIDE DEF record
  <2>3. MemoryInv' /\ memory' \in [Pointers -> Int]
    BY <1>1, <1>3, <2>a, <2>b, <2>1, <2>2, AllocatesTable
  <2> QED BY <1>1, <2>1, <2>2, <2>3, GivesUp
<1> QED BY <1>2, <1>3 DEF UploadFails

LEMMA OversizedStep ==
    ASSUME IInv, NEW p \in Plans, Oversized(p)
    PROVE  IInv'
BY GivesUpAtOnce DEF Oversized, IInv, TypeInv

LEMMA AllocateScratchStep ==
    ASSUME IInv, NEW p \in Plans, NEW got \in SUBSET Scratch, AllocateScratch(p, got)
    PROVE  IInv'
<1>1. /\ plan[p] \in PlanType /\ PlanInv(p) /\ plan[p].pc = "tables" /\ ~ AxesLeft(p)
      /\ env' = env /\ refs' = refs /\ env \in Environments
  BY DEF IInv, TypeInv, AllocateScratch
<1>2. failures' \in Nat
  BY DEF IInv, TypeInv, AllocateScratch, Failing
<1> DEFINE place == IF got = Scratch THEN "live" ELSE "clean_up"
           record == [plan[p] EXCEPT !.scratch = got, !.pc = place]
<1>3. plan' = [plan EXCEPT ![p] = record]
  BY DEF AllocateScratch, Become
<1>4. /\ record \in PlanType
      /\ record.pc = place /\ record.request = plan[p].request
      /\ record.module = plan[p].module /\ record.handle = plan[p].handle
      /\ record.selected = plan[p].selected /\ record.error = plan[p].error
      /\ record.scratch = got /\ record.tables = plan[p].tables
      /\ record.entries = plan[p].entries
  BY <1>1 DEF PlanType, Places
<1> HIDE DEF record
<1>5. plan'[p] = record /\ \A q \in Plans : q # p => plan'[q] = plan[q]
  BY <1>3 DEF IInv, TypeInv
<1>6. MemoryInv' /\ memory' \in [Pointers -> Int]
  <2>1. \A q \in Plans : q # p => Held(q)' = Held(q)
    BY <1>5 DEF Held, Tables
  <2>2. Held(p) = Tables(p)
    BY <1>1 DEF Held, PlanInv, TablesInv
  <2>3. Held(p)' = got \union Tables(p)
    BY <1>4, <1>5 DEF Held, Tables
  <2>4. \A a \in Tables(p) : a \notin got
    BY PointersFacts DEF Tables
  <2>5. \A x \in Pointers :
          memory'[x] = IF x[1] = p /\ x[2] \in got THEN memory[x] + 1 ELSE memory[x]
    BY DEF AllocateScratch
  <2>6. MemoryInv'
    <3> SUFFICES ASSUME NEW x \in Pointers
                 PROVE  memory'[x] = IF x[2] \in Held(x[1])' THEN 1 ELSE 0
      BY DEF MemoryInv
    <3>1. memory[x] = IF x[2] \in Held(x[1]) THEN 1 ELSE 0
      BY DEF IInv, MemoryInv
    <3>2. CASE x[1] = p
      BY <2>2, <2>3, <2>4, <2>5, <3>1, <3>2
    <3>3. CASE x[1] # p
      <4>1. Held(x[1])' = Held(x[1])
        BY <2>1, <3>3, PointersFacts
      <4> QED BY <2>5, <3>1, <3>3, <4>1
    <3> QED BY <3>2, <3>3
  <2>7. memory' \in [Pointers -> Int]
    BY DEF AllocateScratch, IInv, TypeInv
  <2> QED BY <2>6, <2>7
<1>7. CASE got # Scratch
  BY <1>1, <1>2, <1>3, <1>4, <1>6, <1>7, GivesUp
<1>8. CASE got = Scratch
  <2>1. /\ plan[p].module = NoModule /\ plan[p].error = "none" /\ plan[p].handle = "none"
        /\ plan[p].request \in Requests[p]
        /\ plan[p].selected = "portable_sycl" /\ MayBePortable(p) /\ env.usm
    BY <1>1 DEF PlanInv, ModuleInv, ErrorInv, ChoiceInv
  <2>2. ModuleInv(p)' /\ SearchInv(p)' /\ ErrorInv(p)'
    BY <1>4, <1>5, <1>8, <2>1 DEF ModuleInv, SearchInv, ErrorInv
  <2>3. MayBePortable(p)'
    BY <1>1, <1>4, <1>5, <2>1, AvailableKeeps DEF MayBePortable
  <2>4. ChoiceInv(p)'
    BY <1>1, <1>4, <1>5, <1>8, <2>1, <2>3 DEF ChoiceInv
  <2>5. TablesInv(p)'
    <3>1. PICK k \in 0..2 : InProgress(p, k)
      BY <1>1 DEF PlanInv, TablesInv
    <3>2. k = 0
      BY <1>1, <3>1 DEF InProgress
    <3>3. PICK t \in Nat, n \in Nat, a \in Nat :
            t = plan[p].tables /\ n = Len(plan[p].entries) /\ a = Len(plan[p].request.lengths)
      BY <1>1, <2>1, RequestFacts DEF PlanType
    <3>4. n <= a /\ ~ (n + 1 <= a) /\ t <= 3 * n + 0 /\ 3 * a <= MaxTables
      BY <1>1, <2>1, <3>1, <3>2, <3>3, RequestFacts
         DEF PlanInv, TablesInv, InProgress, AxesLeft, Axis
    <3>5. n = a /\ t <= MaxTables
      BY <3>4, BoundAssumption
    <3>6. EntriesInv(p, t)
      BY <3>1, <3>2, <3>3 DEF InProgress
    <3>7. EntriesInv(p, plan[p].tables)'
      BY <1>4, <1>5, <3>3, <3>6 DEF EntriesInv
    <3> QED BY <1>4, <1>5, <1>8, <3>3, <3>5, <3>7 DEF TablesInv
  <2>6. \A q \in Plans : PlanInv(q)'
    BY <1>1, <1>3, <2>2, <2>4, <2>5, PlanKeeps DEF PlanInv
  <2>7. BalanceInv'
    BY <1>1, <1>3, <1>4, SameModule
  <2>8. TypeInv'
    <3>1. plan' \in [Plans -> PlanType]
      BY <1>3, <1>4, PlanRecord
    <3> QED BY <1>1, <1>2, <1>6, <3>1 DEF IInv, TypeInv
  <2> QED BY <1>6, <2>6, <2>7, <2>8 DEF IInv
<1> QED BY <1>7, <1>8

-----------------------------------------------------------------------------
(* The steps that release what a plan holds.                                *)

LEMMA CleanUpStep ==
    ASSUME IInv, NEW p \in Plans, CleanUp(p)
    PROVE  IInv'
<1>1. /\ plan[p].pc = "clean_up" /\ Throws(p, "planning_failed")
      /\ env' = env /\ failures' = failures
      /\ memory' = Freed(p, plan[p].scratch \union Tables(p))
  BY DEF CleanUp
<1>2. /\ \A q \in Plans : PlanInv(q)'
      /\ plan' \in [Plans -> PlanType] /\ refs' \in [Modules -> Int]
      /\ BalanceInv' /\ Held(p)' = {}
  BY <1>1, ThrowsStep DEF Codes
<1>3. MemoryInv' /\ memory' \in [Pointers -> Int]
  BY <1>1, <1>2, FreesAll DEF Throws, Become
<1>4. TypeInv'
  BY <1>1, <1>2, <1>3 DEF IInv, TypeInv
<1> QED BY <1>2, <1>3, <1>4 DEF IInv

LEMMA DestroyStep ==
    ASSUME IInv, NEW p \in Plans, Destroy(p)
    PROVE  IInv'
<1> DEFINE record == [plan[p] EXCEPT !.pc = "destroying", !.handle = "none"]
<1>1. /\ plan[p] \in PlanType /\ PlanInv(p) /\ plan[p].pc = "live"
      /\ UNCHANGED <<env, refs, failures>> /\ plan' = [plan EXCEPT ![p] = record]
      /\ memory' = Freed(p, plan[p].scratch \union Tables(p))
  BY DEF IInv, TypeInv, Destroy, Become
<1>2. /\ record \in PlanType
      /\ record.pc = "destroying" /\ record.request = plan[p].request
      /\ record.module = plan[p].module /\ record.handle = "none"
      /\ record.selected = plan[p].selected /\ record.error = plan[p].error
  BY <1>1 DEF PlanType, Places
<1> HIDE DEF record
<1>3. plan'[p] = record /\ plan' \in [Plans -> PlanType]
  BY <1>1, <1>2, PlanRecord DEF IInv, TypeInv
<1>4. ModuleInv(p)' /\ ChoiceInv(p)' /\ ErrorInv(p)' /\ TablesInv(p)'
  BY <1>1, <1>2, <1>3 DEF PlanInv, ModuleInv, ChoiceInv, ErrorInv, TablesInv
<1>5. SearchInv(p)'
  <2>1. File(p)' = File(p) /\ SearchPaths' = SearchPaths
    BY <1>1, <1>2, <1>3, AvailableKeeps DEF File
  <2>2. \A n : Passed(p, n)' <=> Passed(p, n)
    BY <1>1, <2>1, AvailableKeeps DEF Passed
  <2> QED BY <1>1, <1>2, <1>3, <2>1, <2>2, AvailableKeeps DEF PlanInv, SearchInv
<1>6. \A q \in Plans : PlanInv(q)'
  BY <1>1, <1>4, <1>5, PlanKeeps DEF PlanInv
<1>7. BalanceInv'
  BY <1>1, <1>2, SameModule
<1>8. Held(p)' = {}
  BY <1>2, <1>3 DEF Held
<1>9. MemoryInv' /\ memory' \in [Pointers -> Int]
  BY <1>1, <1>8, FreesAll
<1>10. TypeInv'
  BY <1>1, <1>3, <1>9 DEF IInv, TypeInv
<1> QED BY <1>6, <1>7, <1>9, <1>10 DEF IInv

LEMMA CloseModuleStep ==
    ASSUME IInv, NEW p \in Plans, CloseModule(p)
    PROVE  IInv'
<1> DEFINE record == [plan[p] EXCEPT !.pc = "destroyed", !.module = NoModule]
<1>1. /\ plan[p] \in PlanType /\ PlanInv(p) /\ plan[p].pc = "destroying"
      /\ UNCHANGED <<env, memory, failures>> /\ plan' = [plan EXCEPT ![p] = record]
      /\ refs' = Closed(plan[p].module)
  BY DEF IInv, TypeInv, CloseModule, Become
<1>2. /\ record \in PlanType
      /\ record.pc = "destroyed" /\ record.request = plan[p].request
      /\ record.module = NoModule /\ record.handle = plan[p].handle
      /\ record.error = plan[p].error
  BY <1>1 DEF PlanType, Places
<1> HIDE DEF record
<1>3. plan'[p] = record /\ plan' \in [Plans -> PlanType]
  BY <1>1, <1>2, PlanRecord DEF IInv, TypeInv
<1>4. PlanInv(p)'
  BY <1>1, <1>2, <1>3 DEF PlanInv, ModuleInv, SearchInv, ChoiceInv, ErrorInv, TablesInv
<1>5. \A q \in Plans : PlanInv(q)'
  BY <1>1, <1>4, PlanKeeps
<1>6. BalanceInv' /\ refs' \in [Modules -> Int]
  BY <1>1, <1>2, ClosesModule
<1>7. Held(p)' = Held(p)
  BY <1>1, <1>2, <1>3 DEF Held
<1>8. MemoryInv'
  BY <1>1, <1>7, SameMemory
<1>9. TypeInv'
  BY <1>1, <1>3, <1>6 DEF IInv, TypeInv
<1> QED BY <1>5, <1>6, <1>8, <1>9 DEF IInv

-----------------------------------------------------------------------------
(* The invariant holds initially and after every step.                      *)

LEMMA Initial == Init => IInv
<1> SUFFICES ASSUME Init PROVE IInv
  OBVIOUS
<1>1. /\ env \in Environments /\ plan = [p \in Plans |-> NewPlan]
      /\ memory = [x \in Pointers |-> 0] /\ refs = [m \in Modules |-> 0] /\ failures = 0
  BY DEF Init
<1>2. NewPlan \in PlanType
  <2>1. <<>> \in Seq(Entry) /\ {} \in SUBSET Nat /\ {} \in SUBSET Scratch
    OBVIOUS
  <2>2. /\ "none" \in Places /\ "none" \in Codes /\ "none" \in Files \union {"none"}
        /\ "portable_sycl" \in Providers
    BY DEF Places, Codes, Providers
  <2>3. /\ NoModule \in Modules \union {NoModule} /\ 0 \in Nat
        /\ <<>> \in (UNION {Requests[q] : q \in Plans}) \union {<<>>}
    OBVIOUS
  <2> QED BY <2>1, <2>2, <2>3 DEF NewPlan, PlanType
<1>3. \A p \in Plans : plan[p] = NewPlan
  BY <1>1
<1>4. TypeInv
  BY <1>1, <1>2 DEF TypeInv
<1>5. \A p \in Plans : PlanInv(p)
  BY <1>3 DEF NewPlan, PlanInv, ModuleInv, SearchInv, ChoiceInv, ErrorInv, TablesInv
<1>6. BalanceInv
  <2>1. \A m \in Modules : Holders(m) = {}
    BY <1>3, NoModuleIsNone DEF Holders, NewPlan
  <2> QED BY <1>1, <2>1, FS_EmptySet DEF BalanceInv
<1>7. MemoryInv
  <2> SUFFICES ASSUME NEW x \in Pointers
               PROVE  memory[x] = IF x[2] \in Held(x[1]) THEN 1 ELSE 0
    BY DEF MemoryInv
  <2>1. plan[x[1]].scratch = {} /\ plan[x[1]].tables = 0
    BY <1>3, PointersFacts DEF NewPlan
  <2>2. 1..0 = {}
    OBVIOUS
  <2>3. Held(x[1]) = {}
    BY <2>1, <2>2 DEF Held, Tables
  <2> QED BY <1>1, <2>3
<1> QED BY <1>4, <1>5, <1>6, <1>7 DEF IInv

LEMMA Stutter ==
    ASSUME IInv, UNCHANGED vars
    PROVE  IInv'
<1>1. env' = env /\ plan' = plan /\ memory' = memory /\ refs' = refs /\ failures' = failures
  BY DEF vars
<1>2. \A module : Useless(module)' <=> Useless(module)
  BY <1>1, AvailableKeeps
<1>3. SearchPaths' = SearchPaths /\ \A provider : Available(provider)' <=> Available(provider)
  BY <1>1, AvailableKeeps
<1>4. \A p \in Plans : ModuleInv(p)' /\ ErrorInv(p)' /\ TablesInv(p)'
  BY <1>1, <1>3 DEF IInv, PlanInv, ModuleInv, ErrorInv, TablesInv, InProgress, EntriesInv,
     AxesLeft, KindInProgress, Axis
<1>5. \A p \in Plans : SearchInv(p)'
  <2>1. \A p : File(p)' = File(p)
    BY <1>1 DEF File
  <2>2. \A p, n : Passed(p, n)' <=> Passed(p, n)
    BY <1>2, <1>3, <2>1 DEF Passed
  <2> QED BY <1>1, <1>2, <1>3, <2>1, <2>2 DEF IInv, PlanInv, SearchInv
<1>6. \A p \in Plans : ChoiceInv(p)'
  BY <1>1, <1>3 DEF IInv, PlanInv, ChoiceInv, MayLoad, MayBePortable, File
<1>7. TypeInv'
  BY <1>1 DEF IInv, TypeInv
<1>8. BalanceInv' /\ MemoryInv'
  BY <1>1 DEF IInv, BalanceInv, Holders, MemoryInv, Held, Tables
<1> QED BY <1>4, <1>5, <1>6, <1>7, <1>8 DEF IInv, PlanInv

LEMMA Preserved == IInv /\ [Next]_vars => IInv'
<1> SUFFICES ASSUME IInv, [Next]_vars PROVE IInv'
  OBVIOUS
<1>1. ASSUME NEW p \in Plans, NEW r \in Requests[p], Begin(p, r) PROVE IInv'
  BY <1>1, BeginStep
<1>2. ASSUME NEW p \in Plans, Construction(p) PROVE IInv'
  <2>1. CASE Check(p)
    BY <2>1, CheckStep
  <2>2. CASE Select(p)
    BY <2>2, SelectStep
  <2>3. CASE Search(p)
    BY <2>3, SearchStep
  <2>4. CASE Opened(p)
    BY <2>4, OpenedStep
  <2>5. CASE Create(p)
    BY <2>5, CreateStep
  <2>6. CASE Portable(p)
    BY <2>6, PortableStep
  <2>7. CASE UploadTable(p)
    BY <2>7, UploadTableStep
  <2>8. CASE Oversized(p)
    BY <2>8, OversizedStep
  <2>9. CASE CleanUp(p)
    BY <2>9, CleanUpStep
  <2>10. ASSUME NEW got \in SUBSET Scratch, AllocateScratch(p, got) PROVE IInv'
    BY <2>10, AllocateScratchStep
  <2> QED BY <1>2, <2>1, <2>2, <2>3, <2>4, <2>5, <2>6, <2>7, <2>8, <2>9, <2>10 DEF Construction
<1>3. ASSUME NEW p \in Plans, CreateFails(p) PROVE IInv'
  BY <1>3, CreateFailsStep
<1>4. ASSUME NEW p \in Plans, UploadFails(p) PROVE IInv'
  BY <1>4, UploadFailsStep
<1>5. ASSUME NEW p \in Plans, Destroy(p) PROVE IInv'
  BY <1>5, DestroyStep
<1>6. ASSUME NEW p \in Plans, CloseModule(p) PROVE IInv'
  BY <1>6, CloseModuleStep
<1>7. CASE Terminated \/ UNCHANGED vars
  BY <1>7, Stutter DEF Terminated
<1> QED BY <1>1, <1>2, <1>3, <1>4, <1>5, <1>6, <1>7 DEF Next

\* The invariant of construction and destruction: what each step of the
\* constructor, its catch block and the destructor (sycl.cpp:363-613) leaves for
\* the next one, for plans that share modules.
THEOREM ConstructionInvariance == Spec => []IInv
BY Initial, Preserved, PTL DEF Spec

-----------------------------------------------------------------------------
(* The properties.                                                          *)

\* A plan that is destroyed or whose constructor threw leaves nothing behind:
\* no device memory, no provider's plan, no module (sycl.cpp:576-613).
THEOREM ConstructionLeaksNothing == Spec => []NothingLeaks
<1>1. IInv => NothingLeaks
  <2> SUFFICES ASSUME IInv, NEW p \in Plans, plan[p].pc \in Ended
               PROVE  /\ \A x \in Pointers : x[1] = p => memory[x] = 0
                      /\ plan[p].handle = "none" /\ plan[p].module = NoModule
    BY DEF NothingLeaks
  <2>1. plan[p].handle = "none" /\ plan[p].module = NoModule
    BY DEF IInv, PlanInv, ModuleInv, Ended
  <2>2. Held(p) = {}
    BY DEF Held, Ended
  <2>3. \A x \in Pointers : x[1] = p => memory[x] = 0
    BY <2>2 DEF IInv, MemoryInv
  <2> QED BY <2>1, <2>3
<1> QED BY <1>1, ConstructionInvariance, PTL

\* No allocation is freed that was not made, and none twice, whether the catch
\* block or the destructor frees it (sycl.cpp:577-585, 601-609).
THEOREM ConstructionFreesOnce == Spec => []FreedOnce
<1>1. IInv => FreedOnce
  BY DEF IInv, MemoryInv, FreedOnce
<1> QED BY <1>1, ConstructionInvariance, PTL

\* A module is open as often as plans hold it (provider_loader.cpp:198-228).
THEOREM ConstructionBalancesModules == Spec => []ModulesBalanced
<1>1. IInv => ModulesBalanced
  BY DEF IInv, BalanceInv, Holders, ModulesBalanced
<1> QED BY <1>1, ConstructionInvariance, PTL

\* The code that destroys a provider's plan is loaded as long as the plan
\* exists, though other plans close the same module (sycl.cpp:593-613).
THEOREM ConstructionKeepsModuleLoaded == Spec => []HandleInLoadedModule
<1>1. IInv => HandleInLoadedModule
  <2> SUFFICES ASSUME IInv, NEW p \in Plans, plan[p].handle # "none"
               PROVE  plan[p].module # NoModule /\ refs[plan[p].module] > 0
    BY DEF HandleInLoadedModule
  <2>1. plan[p].module # NoModule
    BY DEF IInv, PlanInv, ModuleInv
  <2>2. PICK m \in Modules : m = plan[p].module
    BY <2>1 DEF IInv, TypeInv, PlanType
  <2>3. IsFiniteSet(Holders(m)) /\ refs[m] = Cardinality(Holders(m)) /\ p \in Holders(m)
    BY <2>2 DEF IInv, BalanceInv, Holders
  <2>4. Cardinality(Holders(m)) \in Nat /\ Cardinality(Holders(m)) # 0
    BY <2>3, FS_EmptySet, FS_CardinalityType
  <2> QED BY <2>1, <2>2, <2>3, <2>4
<1> QED BY <1>1, ConstructionInvariance, PTL

\* A module comes from the first directory of SYCLFFT_PLUGIN_PATH that has it,
\* then from the installed one, never by the system's default search, for any
\* list of directories (provider_loader.cpp:20-66, 168-228).
THEOREM ConstructionFindsAsDocumented == Spec => []FoundWhereDocumented
<1>1. IInv => FoundWhereDocumented
  <2> SUFFICES ASSUME IInv, NEW p \in Plans, plan[p].module # NoModule
               PROVE  LET NothingBefore(i) == \A j \in 1..(i - 1) :
                              env.path[j] # "" =>
                                  env.holds[plan[p].module[1]][env.path[j]] \in Lacking
                      IN  \/ /\ plan[p].module[2] # ""
                             /\ \E i \in DOMAIN env.path :
                                  env.path[i] = plan[p].module[2] /\ NothingBefore(i)
                          \/ /\ plan[p].module[2] = "installed" /\ env.libraryKnown
                             /\ NothingBefore(Len(env.path) + 1)
    BY DEF FoundWhereDocumented
  <2>1. env \in Environments /\ ~ Useless(plan[p].module)
    BY DEF IInv, TypeInv, PlanInv, SearchInv
  <2>2. PICK k \in DOMAIN SearchPaths :
          plan[p].module = <<File(p), SearchPaths[k]>> /\ Passed(p, k)
    BY DEF IInv, PlanInv, SearchInv
  <2>3. PICK n \in Nat, m \in Nat : n = Len(env.path) /\ m = Len(SearchPaths)
    BY <2>1, SearchPathsFacts
  <2>4. /\ DOMAIN env.path = 1..n /\ k \in 1..m
        /\ m = IF env.libraryKnown THEN n + 1 ELSE n
        /\ \A i \in 1..n : SearchPaths[i] = env.path[i]
        /\ env.libraryKnown => SearchPaths[n + 1] = "installed"
    <3>1. env.path \in Seq(Directories \ {"installed"}) /\ SearchPaths \in Seq(Directories)
      BY <2>1, SearchPathsFacts, EnvironmentsAssumption
    <3>2. DOMAIN env.path = 1..n /\ k \in 1..m
      BY <2>2, <2>3, <3>1
    <3> QED BY <2>1, <2>3, <3>2, SearchPathsFacts
  <2>5. /\ plan[p].module[1] = File(p) /\ plan[p].module[2] = SearchPaths[k]
        /\ plan[p].module[2] # ""
    <3>2. plan[p].module[2] # ""
      BY <2>1 DEF Useless
    <3>3. PICK f, d : f = File(p) /\ d = SearchPaths[k]
      OBVIOUS
    <3>4. plan[p].module = <<f, d>>
      BY <2>2, <3>3
    <3>5. plan[p].module[1] = f
      BY <3>4
    <3>6. plan[p].module[2] = d
      BY <3>4
    <3> QED BY <3>2, <3>3, <3>5, <3>6
  <2>6. ASSUME NEW j \in 1..(k - 1), env.path[j] # ""
        PROVE  env.holds[plan[p].module[1]][env.path[j]] \in Lacking
    <3>1. j \in 1..n
      BY <2>4
    <3>2. Useless(<<File(p), env.path[j]>>)
      BY <2>2, <2>4, <3>1 DEF Passed
    <3> QED BY <2>5, <2>6, <3>2 DEF Useless, Status
  <2>7. CASE k \in 1..n
    BY <2>4, <2>5, <2>6, <2>7
  <2>8. CASE k \notin 1..n
    <3>1. k = n + 1 /\ env.libraryKnown
      BY <2>4, <2>8
    <3> QED BY <2>3, <2>4, <2>5, <2>6, <3>1
  <2> QED BY <2>7, <2>8
<1> QED BY <1>1, ConstructionInvariance, PTL

\* A live portable plan has for every axis exactly the entry execute looks up,
\* with tables that are allocated and that no other entry shares, and both
\* scratch allocations (sycl.cpp:710-713, 745-747).
THEOREM ConstructionMakesTables == Spec => []TablesFound
<1>1. IInv => TablesFound
  <2> SUFFICES ASSUME IInv, NEW p \in Plans,
                      plan[p].pc = "live", plan[p].selected = "portable_sycl"
               PROVE  /\ plan[p].scratch = Scratch
                      /\ \A a \in DOMAIN plan[p].request.lengths :
                           LET wanted == AxisKind(plan[p].request.lengths[a])
                               matches == {i \in DOMAIN plan[p].entries :
                                             /\ plan[p].entries[i].axis = a
                                             /\ plan[p].entries[i].kind = wanted}
                           IN  /\ Cardinality(matches) = 1
                               /\ \A i \in matches :
                                    LET own == plan[p].entries[i].tables
                                    IN  /\ Cardinality(own) = IF wanted = "direct" THEN 1 ELSE 3
                                        /\ \A t \in own : memory[<<p, Table(t)>>] = 1
                                        /\ \A j \in DOMAIN plan[p].entries \ {i} :
                                             own \intersect plan[p].entries[j].tables = {}
    BY DEF TablesFound
  <2>1. /\ plan[p].scratch = Scratch /\ Len(plan[p].entries) = Len(plan[p].request.lengths)
        /\ plan[p].tables <= MaxTables /\ EntriesInv(p, plan[p].tables)
    BY DEF IInv, PlanInv, TablesInv
  <2>2. /\ plan[p].tables \in Nat /\ plan[p].entries \in Seq(Entry)
        /\ plan[p].request \in Requests[p]
    BY DEF IInv, TypeInv, PlanType, PlanInv, ModuleInv
  <2>3. /\ DOMAIN plan[p].entries = 1..Len(plan[p].entries)
        /\ DOMAIN plan[p].request.lengths = 1..Len(plan[p].entries)
    BY <2>1, <2>2, RequestFacts
  <2> SUFFICES ASSUME NEW a \in 1..Len(plan[p].entries)
               PROVE  LET wanted == AxisKind(plan[p].request.lengths[a])
                          matches == {i \in DOMAIN plan[p].entries :
                                        /\ plan[p].entries[i].axis = a
                                        /\ plan[p].entries[i].kind = wanted}
                      IN  /\ Cardinality(matches) = 1
                          /\ \A i \in matches :
                               LET own == plan[p].entries[i].tables
                               IN  /\ Cardinality(own) =
                                        IF wanted = "direct" THEN 1 ELSE 3
                                   /\ \A t \in own : memory[<<p, Table(t)>>] = 1
                                   /\ \A j \in DOMAIN plan[p].entries \ {i} :
                                        own \intersect plan[p].entries[j].tables = {}
    BY <2>1, <2>3
  <2> DEFINE wanted == AxisKind(plan[p].request.lengths[a])
             matches == {i \in DOMAIN plan[p].entries :
                           /\ plan[p].entries[i].axis = a
                           /\ plan[p].entries[i].kind = wanted}
             own == plan[p].entries[a].tables
\* The condition of execute is the one of the constructor.
  <2>4. wanted = TableKind(plan[p].request.lengths[a])
    BY DEF AxisKind, TableKind
  <2>5. matches = {a}
    BY <2>1, <2>3, <2>4 DEF EntriesInv
  <2>6. Cardinality(matches) = 1
    BY <2>5, FS_Singleton
  <2>7. Cardinality(own) = IF wanted = "direct" THEN 1 ELSE 3
    BY <2>1, <2>4 DEF EntriesInv, TablesOf
  <2>8. ASSUME NEW t \in own PROVE memory[<<p, Table(t)>>] = 1
    <3>1. t \in 1..plan[p].tables
      BY <2>1 DEF EntriesInv
    <3>2. <<p, Table(t)>> \in Pointers
      BY <2>1, <2>2, <3>1, BoundAssumption, PointersFacts
    <3>3. Table(t) \in Held(p)
      BY <3>1 DEF Held, Tables
    <3>4. <<p, Table(t)>>[1] = p /\ <<p, Table(t)>>[2] = Table(t)
      OBVIOUS
    <3> QED BY <3>2, <3>3, <3>4 DEF IInv, MemoryInv
  <2>9. \A j \in DOMAIN plan[p].entries \ {a} : own \intersect plan[p].entries[j].tables = {}
    BY <2>1, <2>3 DEF EntriesInv
  <2> QED BY <2>5, <2>6, <2>7, <2>8, <2>9
<1> QED BY <1>1, ConstructionInvariance, PTL

\* The provider of a live plan is the one README.md:63-68 names: an explicit
\* request never falls back, and an automatic one takes cuFFT if it can be had.
THEOREM ConstructionChoosesAsDocumented == Spec => []ProviderAsDocumented
<1>1. IInv => ProviderAsDocumented
  BY DEF IInv, PlanInv, ChoiceInv, MayLoad, MayBePortable, File, ProviderAsDocumented
<1> QED BY <1>1, ConstructionInvariance, PTL

\* query_providers and the constructor agree on what is available
\* (sycl.cpp:909-947 against 447-497).
THEOREM ConstructionQueryTellsTruth == Spec => []QueryTellsTruth
<1>1. IInv => QueryTellsTruth
  <2> SUFFICES ASSUME IInv, NEW p \in Plans, plan[p].request.preferred # "automatic"
               PROVE  /\ Available(plan[p].request.preferred) =>
                           plan[p].error \notin {"provider_unavailable", "plugin_error"}
                      /\ plan[p].pc = "live" => Available(plan[p].request.preferred)
    BY DEF QueryTellsTruth
  <2>1. ErrorInv(p) /\ ChoiceInv(p)
    BY DEF IInv, PlanInv
  <2>2. plan[p].pc = "live" => Available(plan[p].request.preferred)
    <3>1. env.usm => Available("portable_sycl")
      BY DEF Available
    <3> QED BY <2>1, <3>1 DEF ChoiceInv, MayLoad, MayBePortable, File
  <2> QED BY <2>1, <2>2 DEF ErrorInv
<1> QED BY <1>1, ConstructionInvariance, PTL
=============================================================================
