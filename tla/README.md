# A formal model of syclfft

TLA+ specifications of the FFT library `syclfft`: the plan object that threads
share, the order of its kernels on the device, what those kernels compute, how
plans are constructed and destroyed on top of loadable providers, the sizes that
constructors compute, the host plan on FFTW, and the SYCL plan that waits for
its queue and calls it. TLC checks each module on small instances; TLAPS proves for
all instances every safety property but one: the execution model, the blocking
branch and the host plan on FFTW, with the steps of their refinement of one abstract
plan; construction and destruction; the sizes; and of the kernels that they stay
within their arrays and that their work items are independent. What is left to TLC
alone is that the kernels' arithmetic adds up to the Fourier transform. File
names below are relative to the
repository; `sycl.cpp` is `src/sycl/sycl.cpp`, `host.cpp` is
`src/host/host.cpp`, `fftw_provider.cpp` and `cufft_provider.cpp` are the files
of those names under `src/providers`, `provider_loader.cpp` is in `src/core`.

## Inventory of the system

| Component | State | Operations | Interaction |
|---|---|---|---|
| SYCL plan, `plan::impl` in `sycl.cpp` | `mutex_`, `last_event_`, `scratch_a_`, `scratch_b_`, tables, provider handle | six overloads of `execute`, destructor, accessors | submits kernels to the program's queue; each `execute` returns an event the program may pass to the next |
| SYCL plan construction | members above, half filled | constructor, its `catch (...)`, `query_providers` | chooses a provider, loads its module, allocates tables and scratch |
| Portable provider | scratch contents, twiddle and chirp tables | radix-2, mixed-radix 2/3/5/7 and Bluestein kernels, scaled copy | one `queue.submit` per kernel, each depending on one event |
| cuFFT provider | one native handle with one work area | `supports`, `create`, `execute`, `destroy` | one native command on the same queue |
| FFTW provider | native plans `aligned_`, `unaligned_`; process-wide planner mutex | create, execute, destroy | called through a C table of functions by the host plan |
| Host plan, `host::plan::impl` | `mutex_`, provider handle, module | `execute` (blocking), destructor | used by programs and by the SYCL plan on CPU queues |
| Provider loader | module reference counts kept by `dlopen`, the environment variable | list and search of directories, entry point, ABI check | called by both kinds of plan and by `query_providers` |
| Size arithmetic | `element_count_`, `transform_size_`, `scratch_elements_`, ints for FFTW and cuFFT | checks of products, narrowing | every constructor, before anything is allocated |
| Common types, span, tracing, error buffers | none that outlives a call | | |

What is hard here: calls of `execute` from several threads end up on one
*out-of-order* queue, so the mutex protects only the submission and the
execution order rests on a chain of events; exceptions leave a chain half
submitted; the scratch is reused by every axis and every execution; FFTW's
planner is not thread-safe across plans while execution is; the constructor can
fail after any of many allocations; providers are shared libraries whose code
must outlive the objects it made; the blocking branch for FFTW waits for whole
queues and takes three nested locks; sizes are products of numbers the caller
chooses; and the kernels' index arithmetic must be right for every stride and
batch, in parallel. Nothing is persisted and nothing
is retried or timed out, so there is no crash recovery or timeout to model.

Correctness, per component:

- plan execution: executions take effect one after the other in the order in
  which they were accepted; kernels that touch the same memory never overlap;
  a returned event covers its execution; nothing in use is freed; calls and
  the destructor complete;
- construction: every failure releases everything once; the tables that
  `execute` looks up exist; explicit requests never fall back; discovery and
  construction agree; sizes are exact or refused, and nothing that fits is;
- blocking execution: the host never works on a buffer that a command still
  fills; the host plan accepts what the SYCL plan passes on; every call returns;
- kernels: they compute the discrete Fourier transform, within their scratch,
  and their work items are independent;
- FFTW: the planner is entered by one thread at a time; native plans are
  neither lost nor used after destruction; an output that is still to be
  normalized is in the hands of one thread;
- loader: reference counts are exact; modules come from the documented places.

## Modules

| Module | Models | Kind |
|---|---|---|
| `SerialPlan` | README.md:45-46: a log of executions applied atomically in order | abstract specification |
| `PlanExecution` | `execute` and `~impl` for `portable_sycl` and `cufft` (sycl.cpp:87-339, 593-776; cufft_provider.cpp:115-175) | state machine, refines `SerialPlan` |
| `PlanExecutionInv` | its inductive invariants: `IInv`, `CallInvariant`, `DataInv`, `FlowInv`, `PairsInv` | invariants |
| `PlanExecutionProofs` | its theorems about order, overlap, destruction and events | proofs |
| `PlanExecutionSerialProofs` | what users see in memory: the refinement of `SerialPlan`, `QuiescentMemory` | proofs |
| `PortableTransform` | tables and kernels over a finite field (sycl.cpp:26-339, 509-569, 688-776) | state machine, one step per kernel |
| `PortableTransformProofs` | its inductive invariant and theorems | proofs |
| `Induction` | induction over sets of numbers, recursive functions and folds | lemmas |
| `PlanConstruction` | constructor, destructor, provider search and `query_providers` (sycl.cpp:347-613, 909-947; provider_loader.cpp:20-66, 168-232) | state machine |
| `PlanConstructionProofs` | its inductive invariant and theorems | proofs |
| `PlanSizes` | the sizes constructors compute (provider_loader.cpp:112-132; common.hpp:120-127; sycl.cpp:34-46, 520-544; fftw_provider.cpp:145-171; cufft_provider.cpp:72-105) | state machine, one step per iteration |
| `PlanSizesProofs` | its inductive invariant and theorems | proofs |
| `FftwPlan` | host plan and FFTW provider (host.cpp:41-137; fftw_provider.cpp) | state machine |
| `FftwPlanSerial` | the refinement mapping of its only plan, and the invariants behind it | refines `SerialPlan` |
| `FftwPlanProofs` | their inductive invariants and theorems | proofs |
| `BlockingPlan` | the FFTW branch of `execute` (sycl.cpp:593-668) | state machine, composed with `FftwPlan` by `INSTANCE`, refines `SerialPlan` |
| `BlockingPlanProofs` | its inductive invariants and theorems | proofs |
| `MC...` | values of constants and symmetry | model-checking modules |

`SerialPlan` keeps apart what a plan does (`Safety`) and that it goes on doing it
(`Fairness`): the refinements of the first are proved, the runs check both.

### PlanExecution

`pc[t]`, `request[t]` and `frame` are the program counter, the arguments and the
local variables of a call; `mutex`, `lastEvent` and `lifetime` the plan's
members. `tasks` is the queue: every command ever submitted, with the events it
depends on; an event is a position in `tasks`, 0 is the empty optional.
`running` and `done` are the device. `mem` abstracts the contents of an
allocation to where they come from, how many complete transforms they went
through, and how many kernels of the one in progress.

| Code | Actions |
|---|---|
| argument checks, sycl.cpp:619-635 | `Reject`, guard of `Enter` |
| lock and `all_dependencies`, 637-641 | `Enter` |
| loop over the axes, 692-767 | `BeginAxis`, `SubmitKernel` |
| final scaled copy, 769-776 | `SubmitFinalCopy` |
| cuFFT branch, 670-686 | `SubmitNative`, `SubmitScale` |
| an exception out of `queue.submit` or the provider | `Throw` |
| `~impl`, 593-613 | `DestroyBegin`, `FreeAll` |
| SYCL runtime and device | `Start`, `Finish` |

The device starts any command whose dependencies are complete and runs any
number at once; when two commands that conflict overlap, what they leave is
garbage. The program may pass any events it holds and *must* pass those of its
own kernels that fill the buffers it names, since a SYCL program has to.

### PortableTransform

The algorithms use addition, multiplication and roots of unity, and the
conjugate of a root as its inverse; a prime field has all of these exactly, so
the result can be compared with the *definition* of the transform by equality.
A kernel is a record; `Reads`, `Writes` and `Computed` translate the body of
its `parallel_for` for one work item. `RunKernel` runs all items of one kernel
in one step; that this is the same as any parallel execution is
`WorkItemsIndependent`, which is checked for every kernel before it runs and
proved of every kernel. `Results` is what one item leaves, `Ran` the array after
all of them. Powers of two are products of twos (`Twos`), as the code forms them by
shifting.
Kernels run in submission order, which is what `PlanExecution` establishes.
Overflow is the subject of `PlanSizes`; rounding and the orthogonal
normalization (a square root) are left out.

### PlanConstruction

One record per plan holds its progress and members; `memory` counts
allocations minus frees per pointer, `refs` is the reference count of each
module. The environment (device, build options, what each directory holds) is
chosen in the initial state. `SearchPaths` makes the list of directories out of
the items of `SYCLFFT_PLUGIN_PATH`, of which `split_paths` drops the empty ones
(`Useless`), and the directory beside the core library, which `dladdr` may not
know. `Throws` is the unwinding: members constructed so
far are destroyed, the destructor body does not run. A request has the lengths of
its axes; `SupportedFactors` is the code's function, and the algorithm of an axis is
decided twice, by `TableKind` in the constructor and by `AxisKind` in `execute`,
which is what `TablesFound` compares. Which sizes overflow is left to `PlanSizes`:
here a request says which of its axes do if they take Bluestein's algorithm, and
`Overflows` is the test that comes before any table of such an axis. Failures of allocations,
uploads and `create` are separate actions bounded by `MaxFailures`. Host memory
is assumed not to run out: sycl.cpp:504 would leak one allocation otherwise.

### FftwPlan

Threads create, execute and destroy host plans. Each call of FFTW's planner is
an interval between `EnterPlanner`, which takes the process-wide mutex at one of three
places (`PlanFirst` in the constructor, `PlanLate` in `execute`, `GiveBack` in the
destructor), and the action that leaves it. The nested acquisition in `execute` is `Enter`,
`Select`, `EnterPlanner`, `PlannedUnaligned`. The transform and its
normalization are two steps, `Transform` and `Finish`. The program does not
share buffers between simultaneous executions of *different* plans; sharing one
plan and its buffers is allowed.

### BlockingPlan

The host plan's whole state and steps come from `FftwPlan`, instantiated with two
host plans: `Inner`, the member `host_plan_`, and `Other`, which the program uses
by itself and which competes for the planner's lock. `place[t]` says where a
thread is in the SYCL plan, `pc[t]` where it is in the host plan.

| Code | Actions |
|---|---|
| argument checks, sycl.cpp:619-635 | `Reject`, guard of `Enter` |
| lock and `all_dependencies`, 637-641 | `Enter` |
| waiting for every dependency, 645-647 | `AwaitDependencies` |
| waiting for the queue, then the pointer check, 648-655 | `RefuseDeviceUsm`, guard of `CallHost` |
| `host_plan_->execute`, 656-662 | `CallHost`, `HostWorks`, `HostReturns`, `HostThrows` |
| empty command, 663-666 | `SubmitCompleted` |
| an exception out of a wait or the submission | `Throw` |
| `~impl`, then the destructor of `host_plan_` to its end, under the planner's lock | `Destroy`, `DestroyHostPlan`, `PlansStep`, `HostPlanDestroyed` |

`queue_.wait_and_throw` waits for the commands the queue holds when it is called;
the program may submit more at any time. The program fills its buffers by
commands on the plan's queue, which it need not name because the queue is
drained, or on another queue, whose events it has to name. The asynchronous error
of any command may come out of either wait.

### PlanSizes

`SizeMax` and `IntMax` are the greatest `std::size_t` and `int`; `Wrapped` and
`ToInt` are what the compiler does with a result that does not fit. The
constructors' loops follow each other: the checked count, the unchecked size of
one transform, then the axes of the portable provider (with the doubling of
`next_power_of_two`) or the conversions of FFTW's or cuFFT's provider. `Smooth`
stands for the lengths with supported factors, which `PortableTransform`
computes. A request for one provider is checked by its own path: automatic
selection adds nothing to the arithmetic.

## Runs

All runs check deadlock except for states in which everything is over, where
`Terminated` stutters.

| Run | Shows | Bounds and why they suffice |
|---|---|---|
| `portable_refines` | `DataInv`, `IInv` (with `TypeOK`), `SerialExecution`, `NoRace`, `NoUseAfterFree`, `ImplementsSerialPlan` | two threads, two calls, two buffers, one pending kernel of the program: two executions are enough for any pair of kernels; three axes, a Bluestein, a mixed-radix and one of length one, leave the source in each allocation; each buffer is filled by at most one pending kernel (`OwnKernelsApart`), no exception and the portable provider (`WritesOnce`), as the theorems about data assume |
| `cufft` | `QuiescentMemory`, which fails as soon as two native tasks meet on the handle; `EventCoversExecution`: the event a call returns is that of its scaling kernel | three calls, out of place, with the scaling kernel, one pending kernel of the program |
| `portable_faults` | `EventCoversExecution`, `CallInvariant`, `CallsReturn`, `DestructorReturns` with one exception, in place | one exception at any submission of either call |
| `portable_faults_serial` | finding 1 | |
| `transform_radix` | `OutputIsSpectrum`, `WorkItemsIndependent` | lengths 1 to 12 made of 2, 3, 5, 7, up to three axes, batches of 1 and 2; unit inputs span all inputs, because the transform is linear, and stale scratch would add a constant |
| `transform_bluestein` | the same for lengths with a large prime, and `InBounds` | 11 is the first length that needs Bluestein; alone, before and after another axis |
| `construction` | `NothingLeaks`, `FreedOnce`, `ModulesBalanced`, `HandleInLoadedModule`, `FoundWhereDocumented`, `TablesFound`, `ProviderAsDocumented`, `QueryTellsTruth` | two plans, the first with any request, the second on a module it may share; every device and build, every state of the modules in two directories, empty and repeated items in the path, two failures anywhere; two axes, of length 1, a product of radices, another prime or a product of both, so that each algorithm and each reason for it occurs, and a second axis that overflows; `MaxTables` = 6 has room for three tables on each, as `TablesFound` needs |
| `fftw_two_plans` | `TypeOK`, `PlannerExclusive`, `NoNativePlanLost`, `UnscaledIsPrivate` | two threads, two plans, three calls, one aligned and one unaligned buffer, one failure of FFTW |
| `fftw_shared_plan` | `ImplementsSerialPlan`, `CallsReturn` | one plan, two threads |
| `fftw_same_array` | finding 2 | |
| `blocking` | `HostWorksAlone`, `HostPlanReady`, `CallsReturn`, `ImplementsSerialPlan` | two threads, two calls, out of place, an aligned, an unaligned and a device buffer, one command that fills a buffer on each of two queues, one more command of the program, submitted while there are fewer than `MaxCommands`, one wait or submission that throws, one failure of FFTW |
| `sizes` | `CountsExact`, `RefusedForCause`, `ConvolutionFits`, `ScratchCovers`, `NativeExact` | 9-bit sizes, 6-bit ints: every length on one axis; on two and three axes the lengths on both sides of each limit, with primes that expand differently; batches up to the limit. The width enters only through `SizeMax` and `IntMax` |

Symmetry over threads is used in runs that check invariants only.

### Fairness

`PlanExecution` assumes that the device keeps starting and finishing commands
that are ready (a SYCL queue makes progress), that a thread inside `execute`
keeps running, and that the destructor returns once its wait is over. Nothing
makes a program call `execute` or destroy a plan, and nothing makes a
submission throw. `FftwPlan` assumes that threads inside the library keep
running and that the planner returns. `BlockingPlan` assumes the same of its
threads, and that the queues complete what they hold; the program's own commands
are bounded, so a queue that is refilled for ever while the plan waits for it is
excluded. Weak fairness suffices because the number
of calls is bounded: a mutex that is handed on finitely often is free forever
at some point. `std::mutex` promises no more, so a thread could starve behind
callers that never stop; the runs do not exclude that. `CallsReturn` of `FftwPlan` and
`BlockingPlan` covers the constructors and destructors of host plans, in the latter
as part of those of the SYCL plan; `PlanConstruction` has no liveness property.

### Findings

1. `portable_faults_serial`: `execute` stores `last_event_` only after its last
   submission (sycl.cpp:774). If an earlier `queue.submit` of the same call
   throws, the kernels already in the queue are forgotten and the next
   execution does not wait for them, against README.md:45-46, "A plan
   serializes executions which share its internal scratch."
2. `fftw_same_array`: `host::plan::execute(p, p)` on an out-of-place plan passes
   the check whose message is "Out-of-place plan requires distinct input and
   output arguments" (host.cpp:108-112); only the number of arguments is
   tested. The SYCL plan tests the pointers (sycl.cpp:631-635).

## Theorems

The theorems hold for every set of threads, plans and buffers, every list of axes
and stages, every provider and placement, and every bound; those of `PlanSizes`
for every width of the integers, those of `PlanConstruction` for every
environment, those of `PortableTransform` for every shape of up to three axes of any
lengths, every batch and every modulus. What they assume are the named assumptions of the modules that
declare the constants, and the hypotheses in the table.

| Theorem | States |
|---|---|
| *PlanExecutionProofs* | |
| `Invariance` | `Spec => []IInv` |
| `TypeCorrect` | `Spec => []TypeOK` |
| `Serialization` | no exception so far implies `SerialExecution` |
| `RaceFreedom` | no exception so far implies `NoRace` |
| `SafeDestruction` | no exception so far implies `NoUseAfterFree` |
| `CallInvariance` | `Spec => []CallInvariant` |
| `EventCoverage` | `Spec => []EventCoversExecution`, also after exceptions |
| *PlanExecutionSerialProofs* | |
| `DataInvariance` | no exception so far implies `DataInv`, if `WritesOnce` |
| `ImplementsSerial` | a behaviour of `Spec` without exceptions satisfies `Serial!Safety`, if `WritesOnce` and `OwnKernelsApart` |
| `FlowInvariance` | no exception so far implies `FlowInv` |
| `MemoryAtRest` | no exception so far implies `QuiescentMemory`, if `OwnKernelsApart` |
| *PortableTransformProofs* | |
| `KernelsInBounds` | `Spec => []InBounds` |
| `ItemsIndependent` | `Spec => []WorkItemsIndependent` |
| `InputUntouched` | `Spec => []InputKept`, a part of `OutputIsSpectrum` |
| *PlanConstructionProofs* | |
| `ConstructionInvariance` | `Spec => []IInv` |
| `ConstructionLeaksNothing`, `ConstructionFreesOnce` | `NothingLeaks`, `FreedOnce` |
| `ConstructionBalancesModules` | `ModulesBalanced` |
| `ConstructionKeepsModuleLoaded` | `HandleInLoadedModule` |
| `ConstructionFindsAsDocumented` | `FoundWhereDocumented` |
| `ConstructionMakesTables` | `TablesFound` |
| `ConstructionChoosesAsDocumented` | `ProviderAsDocumented` |
| `ConstructionQueryTellsTruth` | `QueryTellsTruth` |
| *PlanSizesProofs* | |
| `SizesInvariance` | `Spec => []IInv` |
| `ExactCounts`, `RefusalsJustified` | `CountsExact`, `RefusedForCause` |
| `ConvolutionsFit`, `ScratchSuffices`, `NativeIntsExact` | `ConvolutionFits`, `ScratchCovers`, `NativeExact` |
| *FftwPlanProofs* | |
| `FftwInvariance`, `FftwTypes` | `IInv`, `TypeOK` |
| `PlannerIsExclusive`, `NativePlansKept`, `UnscaledStaysPrivate` | `PlannerExclusive`, `NoNativePlanLost`, `UnscaledIsPrivate` |
| `OrderInvariance` | `Spec => []OrderInv` (`ArgsInv` and `LogInv`) |
| `HostImplementsSerial` | `Spec => Serial!Safety`, if there is one plan, in place or given two arrays |
| *BlockingPlanProofs* | |
| `BlockingInvariance` | `Spec => []IInv` |
| `BlockingHostWorksAlone`, `BlockingHostPlanReady` | `HostWorksAlone`, `HostPlanReady` |
| `BlockingData` | `Spec => []DataInv` |
| `BlockingImplementsSerial` | `Spec => Serial!Safety` |

### Execution

The premise "no exception so far" (`faults = 0`) is needed: finding 1 is the
counterexample without it.

None of the three safety properties is inductive. The reason they hold is that
the plan's commands form one chain, each waiting for the one before, behind the
program's kernels; and the chain survives from call to call because whoever
holds the mutex finds its last link in `last_event_`. `IInv` says so:
`Chained` (each command of the plan waits for its predecessor), `LastIsEnd`
(`last_event_` is the end of the chain whenever a call has submitted nothing
yet), `LockHeld` and `FrameInv` (what the local variables of the call that holds
the mutex know of the queue), `FirstAwaits` and `RequestsAwait` (the first
command of a call waits for the program's kernels that fill its buffers, on
behalf of all later ones), and `DeviceOrder` (the device executes the chain from
the front). Each action preserves it, proved conjunct by conjunct; the run
`portable_refines` checks the same `IInv` with TLC.

`EventCoversExecution` needs no such premise: an exception cuts the chain
between two calls, never inside one. `CallInvariant` is the argument: calls have
identities of their own (`IdsUnique`), the tasks of the call that holds the
mutex are the last ones of the queue (`OwnTasks`), so the tasks of one call are
consecutive and each waits for the one before (`CallChained`), the device runs
them in that order (`CallOrder`), and a call returns the event of its last one
(`LastOfCall`). It is proved on top of `IInv`; `portable_faults` checks it.

### The plan implements `SerialPlan`

The order of commands says nothing yet of the data. `DataInv` does: each kernel
of a call reads where the one before it wrote (`HandOver`), whatever mixture of
axes the ping-pong between the two scratch allocations has gone through; the
calls stand in the log in the order of their last kernels (`CallsInOrder`); the
local variables of the call that holds the mutex lead to where its next kernel
reads (`FrameLeads`); the user's buffers hold whole transforms (`BuffersWhole`);
and the kernel at the front of the chain finds its input after exactly the kernels
that come before it (`FrontHolds`). Then the end of a call's last kernel is
`Apply` of the abstract plan, the end of a kernel of the program is `Produce`, the
submission of the last kernel is `Accept`, and every other step stutters. The
hypotheses are what the argument rests on:

- `WritesOnce`: only the last command of a call writes the output. It excludes
  cuFFT with a scale, where a second kernel scales the output in place, so that
  the buffer holds an unscaled transform in between;
- no submission throws (`faults` stays 0): finding 1 again;
- `OwnKernelsApart`: no two pending kernels of the program fill the same buffer.
  Otherwise the program races with itself.

`HostImplementsSerial` and `BlockingImplementsSerial` are the same statement about
the other two machines. There the log grows when a native plan is chosen, under the
host plan's mutex, and an execution takes effect when FFTW has written the output;
the normalization that follows is a stutter, because nobody reads the buffer before
it. `LogInv` says that only the last entry of the log can be due; `ScaledInv` (in
`BlockingPlan`, `ContentInv`) and the mutex that only one thread is past say that an
input is never unscaled; `ArgsInv` that an out-of-place transform has two arrays. In
`BlockingPlan` that is the SYCL plan's own check and no hypothesis, `HostWorksAlone`
is why the program's commands that fill the buffers are complete, and waits or
submissions that throw do no harm.

### Memory at rest

A cuFFT plan with a scale does not implement `SerialPlan`, since its users could see
the unscaled output, but what they find once the queue is empty is the same, and
`MemoryAtRest` says so of every plan. The invariant speaks of the calls that are
replayed: `Replays(F, calls)` says that `F[n]` is what the first `n` calls leave in
the buffers, one after the other (`ReplaysAlike`: there is one such `F`, and
`FoldReplays`: the fold in `QuiescentMemory` is its last value). `Shows(F, n)` says
that the first `n` calls are complete and that the buffers hold `F[n]`, but for the
one that the call after them has begun to write (`AtFront`): that one holds the
input of this call, so many kernels further. `ReplayInv` says that such an `n`
exists. The last kernel of a call turns `n` into `n + 1`, every other step keeps it,
and a kernel of the program fills a buffer that no complete call has used.

What this needs of the queue is `FlowInv`: the kernels of a call lead from its input
to its output, and a kernel that follows an incomplete one whose destination is a
buffer belongs to the same call and writes the same buffer. Of the plans that write
once it follows from `DataInv`; of the others from `PairsInv`, that the queue
consists of pairs of a native transform and the scaling of its output, but for a
pair that the holder of the mutex has begun.

### Kernels

The induction theorems of the library quantify over operators, which no backend
instantiates. `Induction` says the same of sets and functions: a set of numbers
with 0 and with the successor of each holds them all; a function that is defined by
recursion exists if its argument shrinks (`RecursionExists`), which is what a proof
needs of the functions of a model; a fold is the last of the values it goes through.
With these, `PortableTransformProofs` proves what the planner's loops return for
every length: the radices of `supported_factors` multiply to the length if no other
factor is left (`SupportedFactors`), `next_power_of_two` is a power of two and not
below its argument, and the reversed index of an element is the index of an element,
whatever the radices.

The indices of a kernel are numerals in a mixed radix: block, place in the line and
offset below the stride, the place of a butterfly being again a group, a leg and an
offset below the part. A numeral is below the product of its radices (`Below`), which
is `InBounds`, and its digits are unique (`Digits`), so that two items, or two legs
of one, have different elements: `WorkItemsIndependent`. The product of the radices
is the number of elements because the stages multiply to the length and the length
of each axis divides the product of all (`MultipliesAlike`).

`InBounds` and `WorkItemsIndependent` speak of the next kernel; the invariant speaks
of all that are left of the axis in progress (`KernelsInv`: each of them fits the two
arrays it is given, writes scratch, and is in place only if it is of a kind that may
be). `MemInv` says that the arrays keep their sizes, where the scratch is large
enough for the axis that needs most because `ScratchElements` is a maximum over the
axes; `AxisInv` that an axis reads the input or scratch; `PlanInv` that the tables are
those of the lengths; and `KeptInv`, which is `InputUntouched`, that nothing but the
scaled copy of an in-place plan has written the input.

### Host plan on FFTW

In `FftwPlan`, `unaligned_` is tested before the planner's lock is taken and not
tested again under it. What makes this right is `HostInv` (a thread that is past
the lock of its plan is the owner in `hostMutex`, so two such threads are at
different plans) with `PlannedInv` (from the test to the choice of a native plan
the plan knows what the test said, and FFTW keeps exactly what the plan knows).
`LifeInv` and `AloneInv` say that one thread creates a plan, one destroys it, and
nobody executes it meanwhile; `PlannerInv` is the planner's lock; `ScaledInv` finds
for each unscaled buffer the thread that will scale it. That this thread is the only
one with that buffer (`UnscaledIsPrivate`) is `HostInv` for threads that share the
plan, which are kept out until the scaling is done, and `ApartInv` for threads at
other plans, whose buffers the program keeps apart.

### Blocking branch

`WaitInv` says what a call knows of the commands that are not complete at each of
its points: before the first wait, that the dependencies it was given name those on
other queues; after it, that those are done and the wait for the queue covers the
others; in the host plan, that both are done. `HolderInv` gives the SYCL plan's mutex
to one such call, with arguments that were checked. `HostingInv`, `LockInv`
and `ServedInv` connect the two plans: the host plan works on the arguments of the
call that holds the SYCL plan's mutex, its own mutex is held by nobody else, and it
is alive as long as a call is inside; `DestroyInv`, `LifeInv` and `AloneInv` say why
the destructor meets nobody.

### Construction

Plans meet in two places only, the reference counts and the memory, and the
invariant has one part for each. `BalanceInv`: the count of a module is the number
of plans that hold it (and that number is finite, without any assumption about the
set of plans). `MemoryInv`: a pointer is allocated exactly while its plan holds it.
`NothingLeaks`, `FreedOnce` and `ModulesBalanced` follow from these once `ModuleInv`
says between which points a plan holds a module and a provider's plan.

The rest is a statement about each plan by itself. `SearchInv`: the directories
passed so far had no use for it, and the module it holds is the first that had.
`ChoiceInv`: what the choice of a provider rested on (`MayLoad`, `MayBePortable`) is
still true at the end; that an automatic request settles for the portable provider
only if cuFFT is not available is the part that needs `SearchInv`. `ErrorInv` says
the same of a constructor that threw. `TablesInv`: the entries are those of the first
axes, in order, with tables of their own, and the last `k` allocations belong to the
axis in progress; it also bounds the allocations by three for each axis, which is why
`RequestsAssumption` asks that much of the bound `MaxTables`.

### Sizes

The invariant of `PlanSizes` says at each loop which part of a product its
variable holds (`CountInv`, `SizeInv`, `NativeInv`) and, once the count is
known, that no partial product exceeds it: that is why the later loops need no
test of their own, and why FFTW's second test never fires. `PowerInv` bounds the
doubling from both sides; `TablesInv` keeps, for every table, the inequality
that `ScratchCovers` needs, which rests on the length of an axis dividing the
count exactly. `SizeAssumption`, that `SizeMax` is odd (2^w - 1 is), is what makes
the test of sycl.cpp:530 exact.

### Only model-checked

`OutputIsSpectrum`, but for the part `InputUntouched`: that the stages of an FFT add
up to the sum that defines the transform needs the laws of finite sums and of roots
of unity in a prime field, for which there is no library, and a proof of Cooley and
Tukey's and of Bluestein's algorithm on top of them. And all liveness (fairness and
`ENABLED` are out of the provers' reach): `CallsReturn`, `DestructorReturns`, and that the plans implement the fairness of `SerialPlan`, which
`ImplementsSerialPlan` checks together with its safety.

## Not modelled

- The vendored complex numbers, tracing, error text, `span`, accessors of plans,
  tests, examples and packaging.
- The Windows branch of the loader (provider_loader.cpp:73-106), which pins a
  module for the life of the process: nothing is ever unloaded there.
- Rounding, and with it the loss of digits in the chirp (sycl.cpp:552) and the
  orthogonal normalization.
- Products of a count and the size of an element: fftw_provider.cpp:179 forms one for
  the planning buffers and sycl.cpp:505 one for the copy of a table, neither of them
  tested, `malloc_device` forms those of the scratch and the tables, and
  `scratch_size_bytes` only reports one. `PlanSizes` counts elements.
- Errors that CUDA reports inside a native task, and those of the asynchronous
  providers' commands; in `BlockingPlan` the errors that a wait reports are.
- The moved-from plan (every operation tests for it first and throws).
- Exhaustion of host memory.

## Plan

1. Done: `SerialPlan`, `PlanExecution` with its invariants, `PortableTransform`,
   `PlanConstruction` with the list of directories, `FftwPlan`, `BlockingPlan`,
   `PlanSizes`; the proofs of every invariant the runs check but `OutputIsSpectrum`,
   and of the steps of the three refinements of `SerialPlan`.
2. Left: the kernels of `PortableTransform` shown to be the ones `PlanExecution`
   submits; concurrent `query_providers` beside `PlanConstruction`; a theory of
   finite sums over a field, and with it `OutputIsSpectrum` for one radix-2 axis.
