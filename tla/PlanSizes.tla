----------------------------- MODULE PlanSizes -----------------------------
(***************************************************************************)
(* The size arithmetic of constructing a plan, in unsigned integers that   *)
(* wrap around: the checked number of elements                             *)
(* (src/core/provider_loader.cpp), the size of one transform, then per     *)
(* provider either the convolution lengths and the scratch of the portable *)
(* provider (src/sycl/sycl.cpp) or the conversions to int of the FFTW and  *)
(* cuFFT providers.  One step per iteration of each loop.                  *)
(***************************************************************************)
EXTENDS Integers, Sequences

CONSTANTS
    SizeMax,    \* the greatest std::size_t
    IntMax,     \* the greatest int
    Smooth,     \* the lengths with supported factors, and 1
    Requests    \* what a program asks for

Providers == {"portable_sycl", "fftw", "cufft"}

ASSUME SizeAssumption ==
    /\ SizeMax \in Nat /\ SizeMax % 2 = 1
    /\ IntMax \in Nat /\ IntMax < SizeMax
    /\ 1 \in Smooth
ASSUME RequestsAssumption == \A r \in Requests :
    /\ r.provider \in Providers
    /\ r.lengths \in Seq(0..SizeMax) /\ r.batch \in 0..SizeMax

VARIABLES
    request,    \* lengths_, batch_count_ and the provider
    pc,         \* which loop the constructor is in
    axis,       \* the loop's index, from 1
    count,      \* element_count_
    size,       \* transform_size_
    power,      \* result of next_power_of_two
    tables,     \* bluestein_tables_: the axis and its convolution_length
    scratch,    \* scratch_elements_
    elements,   \* elements of fftw_plan_holder's constructor
    native,     \* what the provider passes to FFTW or cuFFT as int
    refusal     \* why the constructor throws

vars == <<request, pc, axis, count, size, power, tables, scratch, elements, native, refusal>>

Nothing == [lengths |-> <<>>, batch |-> 0, distance |-> 0]

Init ==
    /\ request \in Requests
    /\ pc = "arguments" /\ axis = 1
    /\ count = 0 /\ size = 1 /\ power = 1 /\ tables = {} /\ scratch = 0 /\ elements = 0
    /\ native = Nothing
    /\ refusal = "none"

Wrapped(n) == n % (SizeMax + 1)

\* a > std::numeric_limits<std::size_t>::max() / b
OverflowsWhenSmaller(a, b) == Wrapped(a * b) < a
OverflowsEarly(a, b) == a >= SizeMax \div b
Overflows(a, b) == a > SizeMax \div b

\* static_cast<int> of a std::size_t.
ToInt(n) == ((n + IntMax + 1) % (2 * (IntMax + 1))) - (IntMax + 1)

Rank == Len(request.lengths)
Length == request.lengths[axis]

\* The constructor leaves a loop for the next one, or throws.
Loop(where) == pc' = where /\ axis' = 1 /\ UNCHANGED refusal
Again == axis' = axis + 1 /\ UNCHANGED <<pc, refusal>>
Refuse(why) ==
    /\ pc' = "refused" /\ refusal' = why
    /\ UNCHANGED <<request, axis, count, size, power, tables, scratch, elements, native>>

-----------------------------------------------------------------------------
(* checked_element_count and transform_size.                                *)

CheckArguments ==
    /\ pc = "arguments"
    /\ IF Rank = 0 \/ Rank > 3 \/ request.batch = 0
       THEN Refuse("argument")
       ELSE /\ Loop("count") /\ count' = request.batch
            /\ UNCHANGED <<request, size, power, tables, scratch, elements, native>>

CountLength ==
    /\ pc = "count" /\ axis <= Rank
    /\ IF Length = 0 THEN Refuse("argument")
       ELSE IF Overflows(count, Length) THEN Refuse("count")
       ELSE /\ Again /\ count' = Wrapped(count * Length)
            /\ UNCHANGED <<request, size, power, tables, scratch, elements, native>>

Counted ==
    /\ pc = "count" /\ axis > Rank
    /\ Loop("size")
    /\ UNCHANGED <<request, count, size, power, tables, scratch, elements, native>>

\* transform_size tests nothing: it relies on the count.
MultiplyLength ==
    /\ pc = "size" /\ axis <= Rank
    /\ Again /\ size' = Wrapped(size * Length)
    /\ UNCHANGED <<request, count, power, tables, scratch, elements, native>>

Multiplied ==
    /\ pc = "size" /\ axis > Rank
    /\ Loop(request.provider)
    /\ scratch' = IF request.provider = "portable_sycl" THEN count ELSE scratch
    /\ elements' = IF request.provider = "fftw" THEN request.batch ELSE elements
    /\ UNCHANGED <<request, count, size, power, tables, native>>

-----------------------------------------------------------------------------
(* The portable provider.                                                   *)

DirectAxis ==
    /\ pc = "portable_sycl" /\ axis <= Rank /\ Length \in Smooth
    /\ Again
    /\ UNCHANGED <<request, count, size, power, tables, scratch, elements, native>>

TooLongNever(length) == FALSE
TooLong(length) == length > (SizeMax \div 2) + 1

\* The argument of next_power_of_two, 2 * length - 1.
Needed == Wrapped(Wrapped(2 * Length) - 1)

BluesteinAxis ==
    /\ pc = "portable_sycl" /\ axis <= Rank /\ Length \notin Smooth
    /\ IF TooLong(Length) THEN Refuse("convolution")
       ELSE /\ pc' = "doubling" /\ power' = 1
            /\ UNCHANGED <<request, axis, count, size, tables, scratch, elements, native, refusal>>

Double ==
    /\ pc = "doubling" /\ power < Needed
    /\ IF power > SizeMax \div 2 THEN Refuse("convolution")
       ELSE /\ power' = Wrapped(power * 2)
            /\ UNCHANGED <<request, pc, axis, count, size, tables, scratch, elements, native,
                           refusal>>

Lines == count \div Length
Latest(a, b) == b
Larger(a, b) == IF a < b THEN b ELSE a

Doubled ==
    /\ pc = "doubling" /\ power >= Needed
    /\ IF Overflows(Lines, power) THEN Refuse("scratch")
       ELSE /\ scratch' = Larger(scratch, Wrapped(Lines * power))
            /\ tables' = tables \union {[axis |-> axis, convolution |-> power]}
            /\ pc' = "portable_sycl" /\ axis' = axis + 1
            /\ UNCHANGED <<request, count, size, power, elements, native, refusal>>

AxesDone ==
    /\ pc = "portable_sycl" /\ axis > Rank
    /\ Loop("ready")
    /\ UNCHANGED <<request, count, size, power, tables, scratch, elements, native>>

-----------------------------------------------------------------------------
(* The providers that pass ints on: FFTW's counts the elements again, to    *)
(* tell FFTW the distance between two transforms.                           *)

ConvertFftwLength ==
    /\ pc = "fftw" /\ axis <= Rank
    /\ IF Length > IntMax THEN Refuse("int")
       ELSE IF Overflows(elements, Length) THEN Refuse("recount")
       ELSE /\ Again
            /\ elements' = Wrapped(elements * Length)
            /\ native' = [native EXCEPT !.lengths = Append(@, ToInt(Length))]
            /\ UNCHANGED <<request, count, size, power, tables, scratch>>

DistanceOfElements == elements
Distance == elements \div request.batch

ConvertFftwBatch ==
    /\ pc = "fftw" /\ axis > Rank
    /\ IF request.batch > IntMax \/ Distance > IntMax THEN Refuse("int")
       ELSE /\ Loop("ready")
            /\ native' = [native EXCEPT !.batch = ToInt(request.batch),
                                        !.distance = ToInt(Distance)]
            /\ UNCHANGED <<request, count, size, power, tables, scratch, elements>>

ConvertCufftLength ==
    /\ pc = "cufft" /\ axis <= Rank
    /\ IF Length > IntMax THEN Refuse("int")
       ELSE /\ Again
            /\ native' = [native EXCEPT !.lengths = Append(@, ToInt(Length))]
            /\ UNCHANGED <<request, count, size, power, tables, scratch, elements>>

ConvertCufftBatch ==
    /\ pc = "cufft" /\ axis > Rank
    /\ IF request.batch > IntMax THEN Refuse("int")
       ELSE /\ Loop("ready")
            /\ native' = [native EXCEPT !.batch = ToInt(request.batch)]
            /\ UNCHANGED <<request, count, size, power, tables, scratch, elements>>

-----------------------------------------------------------------------------
Terminated == pc \in {"ready", "refused"} /\ UNCHANGED vars

Next ==
    \/ CheckArguments \/ CountLength \/ Counted \/ MultiplyLength \/ Multiplied
    \/ DirectAxis \/ BluesteinAxis \/ Double \/ Doubled \/ AxesDone
    \/ ConvertFftwLength \/ ConvertFftwBatch \/ ConvertCufftLength \/ ConvertCufftBatch
    \/ Terminated

Spec == Init /\ [][Next]_vars

-----------------------------------------------------------------------------
(* Properties: what the loops compute, in integers that do not wrap.        *)

\* The product of the first k lengths, of which there are at most three.
Product(l, k) ==
    IF k = 0 THEN 1 ELSE IF k = 1 THEN l[1] ELSE IF k = 2 THEN l[1] * l[2]
    ELSE l[1] * l[2] * l[3]
Size == Product(request.lengths, Rank)

\* Past the loops element_count_ is the number of elements and transform_size_
\* the size of one transform, although only the first loop tests for overflow
\* (provider_loader.cpp:120-131, common.hpp:120-127).
CountsExact ==
    /\ pc \in {"size", "doubling", "ready"} \union Providers =>
          count = request.batch * Size /\ count <= SizeMax
    /\ pc \in {"doubling", "ready"} \union Providers => size = Size

\* No size is refused that fits: each test throws only when what it guards
\* exceeds its type, and FFTW's own count never overflows, because the host plan
\* has counted before (provider_loader.cpp:126, sycl.cpp:38, 530-542,
\* fftw_provider.cpp:149-170, cufft_provider.cpp:76-86).
RefusedForCause ==
    /\ refusal = "count" => request.batch * Product(request.lengths, axis) > SizeMax
    /\ refusal = "convolution" =>
          2 * Length - 1 > SizeMax \/ (power < 2 * Length - 1 /\ 2 * power > SizeMax)
    /\ refusal = "scratch" => (request.batch * Size * power) \div Length > SizeMax
    /\ refusal = "int" =>
          \/ \E i \in DOMAIN request.lengths : request.lengths[i] > IntMax
          \/ request.batch > IntMax \/ Size > IntMax
    /\ refusal # "recount"

\* The convolution of Bluestein's algorithm never wraps around onto itself: its
\* length is at least twice the axis' less one, though the compiler computes
\* that modulo 2^w, and less than twice what is needed (sycl.cpp:530-535).
ConvolutionFits ==
    \A t \in tables :
        LET needed == 2 * request.lengths[t.axis] - 1
        IN  needed <= t.convolution /\ t.convolution < 2 * needed

\* The scratch holds the input, and every line of each axis expanded to its
\* convolution length (sycl.cpp:520-544).
ScratchCovers ==
    pc = "ready" /\ request.provider = "portable_sycl" =>
        /\ scratch >= request.batch * Size
        /\ \A t \in tables :
             scratch * request.lengths[t.axis] >= request.batch * Size * t.convolution

\* FFTW and cuFFT get the lengths and the batch of the plan as positive ints,
\* and FFTW the distance between two entries of the batch, which is the size of
\* one transform (fftw_provider.cpp:149-171, cufft_provider.cpp:76-105).
NativeExact ==
    pc = "ready" /\ request.provider # "portable_sycl" =>
        /\ native.lengths = request.lengths
        /\ native.batch = request.batch
        /\ request.provider = "fftw" => native.distance = Size /\ elements = request.batch * Size
=============================================================================
