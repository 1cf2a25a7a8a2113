------------------------- MODULE PortableTransform -------------------------
(***************************************************************************)
(* What the kernels of the portable provider compute (src/sycl/sycl.cpp):  *)
(* the tables the constructor prepares, the kernels of the radix-2, the    *)
(* mixed-radix and the Bluestein algorithm, and the loop of execute over   *)
(* the axes.  One step runs one kernel, in the order PlanExecution shows   *)
(* the queue to respect; the work items of a kernel are a set, and that    *)
(* they do not disturb each other is a property.                           *)
(*                                                                         *)
(* Complex numbers are replaced by the integers modulo a prime, where the  *)
(* roots of unity that the tables hold exist and arithmetic is exact: the  *)
(* algorithms use nothing else of the complex numbers (conjugation of a    *)
(* root is its inverse).                                                   *)
(***************************************************************************)
EXTENDS Integers, Sequences, FiniteSets, SequencesExt

CONSTANTS
    Modulus,        \* a prime
    Generator,      \* of the multiplicative group of that prime
    Shapes,         \* the shapes (lengths_) of the plans
    Batches,        \* batch_count_
    Placements,     \* options_.placement
    Normalizations, \* options_.normalization
    Stale           \* what uninitialized scratch memory holds

ASSUME FieldAssumption ==
    /\ \A n \in 2..(Modulus - 1) : Modulus % n # 0
    /\ Stale \in 0..(Modulus - 1)
ASSUME PlansAssumption ==
    /\ \A shape \in Shapes : shape \in Seq(Nat \ {0}) /\ Len(shape) \in 1..3
    /\ Batches \subseteq Nat \ {0}
    /\ Placements \subseteq {"in_place", "out_of_place"}
    /\ Normalizations \subseteq {"none", "forward", "backward"}

VARIABLES
    plan,       \* the options of the plan and its tables
    argument,   \* what the input array held when execute was called
    mem,        \* the contents of the user's arrays and of the scratch
    axis,       \* the axes begun so far
    source,     \* current_input
    todo,       \* the kernels submitted for this axis and not run yet
    phase       \* "axes", "done"

vars == <<plan, argument, mem, axis, source, todo, phase>>

Indices(n) == 0..(n - 1)
UpTo(n) == [i \in 1..n |-> i]
Product(s) == FoldLeft(LAMBDA a, b : a * b, 1, s)
Sum(s) == FoldLeft(LAMBDA a, b : (a + b) % Modulus, 0, s)

\* Generator ^ e
Power[e \in Nat] ==
    IF e = 0 THEN 1
    ELSE LET half == Power[e \div 2]
         IN  (((half * half) % Modulus) * (IF e % 2 = 1 THEN Generator ELSE 1)) % Modulus

\* The e-th power of exp(2 pi i / n).
Root(n, e) == Power[(e * ((Modulus - 1) \div n)) % (Modulus - 1)]
InverseOf(x) == CHOOSE y \in Indices(Modulus) : (x * y) % Modulus = 1

Sign(direction) == IF direction = "forward" THEN -1 ELSE 1

-----------------------------------------------------------------------------
(* The constructor: how the lengths decompose, and the tables.              *)

\* How often radix divides a length, which is never zero.
Multiplicity(length, radix) ==
    LET times[value \in Nat] ==
          IF value > 0 /\ value % radix = 0 THEN 1 + times[value \div radix] ELSE 0
    IN  times[length]

\* The prime factors of value, or none if one of them is not in radices.
FactorsAmong(value, radices) ==
    LET stages == FlattenSeq([i \in DOMAIN radices |->
                     [k \in 1..Multiplicity(value, radices[i]) |-> radices[i]]])
    IN  IF Product(stages) = value THEN stages ELSE <<>>
SupportedFactorsUpTo5(value) == FactorsAmong(value, <<2, 3, 5>>)
SupportedFactors(value) == FactorsAmong(value, <<2, 3, 5, 7>>)

NextPowerOfTwo(value) ==
    LET doubled[result \in Nat] == IF result < value THEN doubled[2 * result] ELSE result
    IN  doubled[1]

Log2[value \in Nat] == IF value > 1 THEN 1 + Log2[value \div 2] ELSE 0
Twos(n) == [i \in 1..n |-> 2]
IsPowerOfTwo(value) == Product(Twos(Log2[value])) = value

Direct(length) == SupportedFactors(length) # <<>> \/ length = 1

ElementCount(shape, batch) == batch * Product(shape)
AxisStride(shape, a) == Product(SubSeq(shape, a + 1, Len(shape)))

ConvolutionLength(length) == NextPowerOfTwo(2 * length - 1)

ScratchOfInput(shape, batch) == ElementCount(shape, batch)
ScratchElements(shape, batch) ==
    LET total == ElementCount(shape, batch)
        needed(a) == IF Direct(shape[a]) THEN total
                     ELSE (total \div shape[a]) * ConvolutionLength(shape[a])
    IN  Max({total} \union {needed(a) : a \in 1..Len(shape)})

Twiddles(length, sign) == [e \in Indices(length) |-> Root(length, sign * e)]

\* The loop that swaps each value with the one at the reversed index, which it
\* counts up from the top bit.
CountReversed[reversed \in Nat, bit \in Nat] ==
    IF bit # 0 /\ (reversed \div bit) % 2 = 1
    THEN CountReversed[reversed - bit, bit \div 2]
    ELSE reversed + bit
SwapReversed(values, length) ==
    LET step(acc, index) ==
          LET r == CountReversed[acc.reversed, length \div 2]
              v == acc.values
          IN  [reversed |-> r,
               values |-> IF index < r THEN [v EXCEPT ![index] = v[r], ![r] = v[index]] ELSE v]
    IN  FoldLeft(step, [reversed |-> 0, values |-> values], UpTo(length - 1)).values

\* host_radix2_fft, always forward.
HostFft(values, length) ==
    LET stages == [s \in 1..Log2[length] |-> Product(Twos(s))]
        butterflies(v, stage) ==
          LET half == stage \div 2
              rhs(i) == v[i] * Root(stage, -(i % half))
          IN  [i \in Indices(length) |->
                 (IF i % stage < half THEN v[i] + rhs(i + half) ELSE v[i - half] - rhs(i)) % Modulus]
    IN  FoldLeft(butterflies, SwapReversed(values, length), stages)

\* The tables of one axis.  The chirp is a root of order 2 * length.
Chirp(length, sign) == [k \in Indices(length) |-> Root(2 * length, sign * k * k)]
ConvolutionKernelOneSided(length, sign) ==
    LET n == ConvolutionLength(length)
    IN  [k \in Indices(n) |-> IF k < length THEN Root(2 * length, -(sign * k * k)) ELSE 0]
ConvolutionKernel(length, sign) ==
    LET n == ConvolutionLength(length)
    IN  [k \in Indices(n) |->
           IF k < length THEN Root(2 * length, -(sign * k * k))
           ELSE IF n - k < length THEN Root(2 * length, -(sign * (n - k) * (n - k)))
           ELSE 0]

Tables(length, sign) ==
    IF Direct(length) THEN [twiddles |-> Twiddles(length, sign)]
    ELSE LET n == ConvolutionLength(length)
         IN  [convolution_length |-> n,
              chirp |-> Chirp(length, sign),
              kernel_spectrum |-> HostFft(ConvolutionKernel(length, sign), n),
              twiddles |-> Twiddles(n, -1)]

\* normalization_scale
Scale(normalization, direction, size) ==
    IF normalization = direction THEN InverseOf(size) ELSE 1

-----------------------------------------------------------------------------
(* Kernels.  A kernel reads array src and writes array dst; item i of it    *)
(* reads the elements Reads(k, i), writes the elements Writes(k, i), and    *)
(* leaves there what Computed says of the values it read.                   *)

Coordinate(k, linear) == (linear \div k.stride) % k.length
Base(k, linear) == linear - Coordinate(k, linear) * k.stride

ReversedBits(value, bits) ==
    FoldLeft(LAMBDA acc, b : [reversed |-> 2 * acc.reversed + (acc.value % 2),
                              value |-> acc.value \div 2],
             [reversed |-> 0, value |-> value], UpTo(bits)).reversed

\* The digits of the mixed-radix number, least significant first, become the
\* most significant ones.
ReversedDigitsDescending(value, factors, length) ==
    FoldLeft(LAMBDA acc, radix : [result |-> acc.result * radix + (acc.digits % radix),
                                  digits |-> acc.digits \div radix],
             [result |-> 0, digits |-> value], Reverse(factors)).result
ReversedDigits(value, factors, length) ==
    FoldLeft(LAMBDA acc, radix :
               [remaining |-> acc.remaining \div radix,
                result |-> acc.result + (acc.digits % radix) * (acc.remaining \div radix),
                digits |-> acc.digits \div radix],
             [remaining |-> length, result |-> 0, digits |-> value], factors).result

\* The first of the elements a butterfly works on, and j, its place in the group.
ButterflyOfUnitStride(k, i) ==
    LET perLine == k.length \div k.radix
        inLine == i % perLine
        group == inLine \div k.part
        j == inLine % k.part
    IN  [j |-> j, base |-> (i \div perLine) * k.length + (group * k.part * k.radix + j) * k.stride]
Butterfly(k, i) ==
    LET perLine == k.length \div k.radix
        line == i \div perLine
        inLine == i % perLine
        group == inLine \div k.part
        j == inLine % k.part
    IN  [j |-> j,
         base |-> (line \div k.stride) * k.length * k.stride + (line % k.stride)
                    + (group * k.part * k.radix + j) * k.stride]

\* The element of the unpadded array that coordinate c of a line stands for.
Unpadded(k, line, c) ==
    (line \div k.stride) * k.length * k.stride + (line % k.stride) + c * k.stride

ItemCount(k) ==
    CASE k.op \in {"radix2_stage", "mixed_stage"} -> (k.total \div k.length) * (k.length \div k.radix)
      [] k.op = "expand" -> (k.total \div k.length) * k.convolution_length
      [] OTHER -> k.total
Items(k) == Indices(ItemCount(k))

Reads(k, i) ==
    CASE k.op = "radix2_gather" -> <<Base(k, i) + ReversedBits(Coordinate(k, i), Log2[k.length]) * k.stride>>
      [] k.op = "mixed_gather" ->
           <<Base(k, i) + ReversedDigits(Coordinate(k, i), k.factors, k.length) * k.stride>>
      [] k.op \in {"radix2_stage", "mixed_stage"} ->
           [q \in 1..k.radix |-> Butterfly(k, i).base + (q - 1) * k.part * k.stride]
      [] k.op = "expand" ->
           LET c == i % k.convolution_length
           IN  IF c < k.length THEN <<Unpadded(k, i \div k.convolution_length, c)>> ELSE <<>>
      [] k.op = "contract" ->
           LET line == (i \div (k.length * k.stride)) * k.stride + (i % k.stride)
           IN  <<line * k.convolution_length + Coordinate(k, i)>>
      [] OTHER -> <<i>>

Writes(k, i) == IF k.op \in {"radix2_stage", "mixed_stage"} THEN Reads(k, i) ELSE <<i>>

Radix2Values(k, i, v) ==
    LET twiddle == k.twiddles[Butterfly(k, i).j * (k.length \div (2 * k.part))]
        rhs == v[2] * (IF k.conjugate THEN InverseOf(twiddle) ELSE twiddle)
    IN  <<(v[1] + rhs) % Modulus, (v[1] - rhs) % Modulus>>

MixedValues(k, i, v) ==
    LET j == Butterfly(k, i).j
        stage == k.part * k.radix
        twiddle(e) == k.twiddles[e % k.length]
        values == [q \in 1..k.radix |->
                     (v[q] * twiddle((q - 1) * j * (k.length \div stage))) % Modulus]
    IN  [p \in 1..k.radix |->
           Sum([q \in 1..k.radix |->
                  values[q] * twiddle((q - 1) * (p - 1) * (k.length \div k.radix))])]

Computed(k, i, v) ==
    CASE k.op \in {"radix2_gather", "mixed_gather"} -> v
      [] k.op = "radix2_stage" -> Radix2Values(k, i, v)
      [] k.op = "mixed_stage" -> MixedValues(k, i, v)
      [] k.op = "expand" ->
           IF v = <<>> THEN <<0>> ELSE <<(v[1] * k.chirp[i % k.convolution_length]) % Modulus>>
      [] k.op = "multiply" -> <<(v[1] * k.kernel_spectrum[i % k.convolution_length]) % Modulus>>
      [] k.op = "contract" -> <<(v[1] * ((k.chirp[Coordinate(k, i)] * k.scale) % Modulus)) % Modulus>>
      [] k.op = "copy" -> <<(v[1] * k.scale) % Modulus>>

\* The array after all items: the elements that an item writes hold what it
\* computed of the values it read.
Results(k, i) ==
    LET w == Writes(k, i)
        v == Computed(k, i, [r \in DOMAIN Reads(k, i) |-> mem[k.src][Reads(k, i)[r]]])
    IN  {[at |-> w[r], value |-> v[r]] : r \in DOMAIN w}
Ran(k) ==
    LET results == UNION {Results(k, i) : i \in Items(k)}
    IN  [e \in DOMAIN mem[k.dst] |->
           IF \E r \in results : r.at = e
           THEN (CHOOSE r \in results : r.at = e).value ELSE mem[k.dst][e]]

-----------------------------------------------------------------------------
(* The kernels of one axis.                                                 *)

Radix2Kernels(src, dst, total, length, stride, twiddles, conjugate) ==
    <<[op |-> "radix2_gather", src |-> src, dst |-> dst,
       total |-> total, length |-> length, stride |-> stride]>>
    \o [s \in 1..Log2[length] |->
          [op |-> "radix2_stage", src |-> dst, dst |-> dst, total |-> total, length |-> length,
           stride |-> stride, radix |-> 2, part |-> Product(Twos(s - 1)), twiddles |-> twiddles,
           conjugate |-> conjugate]]

MixedKernels(src, dst, total, length, stride, twiddles, factors) ==
    <<[op |-> "mixed_gather", src |-> src, dst |-> dst, factors |-> factors,
       total |-> total, length |-> length, stride |-> stride]>>
    \o [s \in 1..Len(factors) |->
          [op |-> "mixed_stage", src |-> dst, dst |-> dst, total |-> total, length |-> length,
           stride |-> stride, radix |-> factors[s], part |-> Product(SubSeq(factors, 1, s - 1)),
           twiddles |-> twiddles]]

BluesteinKernels(src, first, second, total, length, stride, table) ==
    LET n == table.convolution_length
        expanded == (total \div length) * n
        common == [total |-> total, length |-> length, stride |-> stride, convolution_length |-> n]
        scratch(a, b, conjugate) ==
            Radix2Kernels(a, b, expanded, n, 1, table.twiddles, conjugate)
    IN  <<[op |-> "expand", src |-> src, dst |-> first, total |-> total, length |-> length,
           stride |-> stride, convolution_length |-> n, chirp |-> table.chirp]>>
        \o scratch(first, second, FALSE)
        \o <<[op |-> "multiply", src |-> second, dst |-> second, total |-> expanded,
              convolution_length |-> n, kernel_spectrum |-> table.kernel_spectrum]>>
        \o scratch(second, first, TRUE)
        \o <<[op |-> "contract", src |-> first, dst |-> second, total |-> total, length |-> length,
              stride |-> stride, convolution_length |-> n, chirp |-> table.chirp,
              scale |-> InverseOf(n)]>>

OtherFirstAlways(array) == "scratch_a"
Other(array) == IF array = "scratch_a" THEN "scratch_b" ELSE "scratch_a"

AxisKernels(a) ==
    LET length == plan.shape[a]
        stride == AxisStride(plan.shape, a)
        total == ElementCount(plan.shape, plan.batch)
        table == plan.tables[a]
        dst == Other(source)
    IN  IF ~ Direct(length)
        THEN BluesteinKernels(source, dst, Other(dst), total, length, stride, table)
        ELSE IF IsPowerOfTwo(length)
        THEN Radix2Kernels(source, dst, total, length, stride, table.twiddles, FALSE)
        ELSE MixedKernels(source, dst, total, length, stride, table.twiddles,
                          SupportedFactors(length))

Output == IF plan.placement = "in_place" THEN "input" ELSE "output"

FinalCopy ==
    [op |-> "copy", src |-> source, dst |-> Output,
     total |-> ElementCount(plan.shape, plan.batch),
     scale |-> Scale(plan.normalization, plan.direction, Product(plan.shape))]

-----------------------------------------------------------------------------
\* Transforms are linear: the unit arrays stand for every input, and one dense
\* array is added to see stale values that a unit array might hide.
Unit(n, at) == [i \in Indices(n) |-> IF i = at THEN 1 ELSE 0]
Dense(n) == [i \in Indices(n) |-> (i * i + 3 * i + 1) % Modulus]
UserInputs(n) == {Unit(n, at) : at \in Indices(n)} \union {Dense(n)}

Init ==
    /\ \E shape \in Shapes, batch \in Batches, direction \in {"forward", "backward"},
          placement \in Placements, normalization \in Normalizations :
         LET n == ElementCount(shape, batch)
             scratch == [i \in Indices(ScratchElements(shape, batch)) |-> Stale]
         IN  /\ argument \in UserInputs(n)
             /\ plan = [shape |-> shape, batch |-> batch, direction |-> direction,
                        placement |-> placement, normalization |-> normalization,
                        tables |-> [a \in DOMAIN shape |-> Tables(shape[a], Sign(direction))]]
             /\ mem = [input |-> argument, output |-> [i \in Indices(n) |-> Stale],
                       scratch_a |-> scratch, scratch_b |-> scratch]
    /\ axis = 0
    /\ source = "input"
    /\ todo = <<>>
    /\ phase = "axes"

BeginAxis ==
    /\ phase = "axes" /\ todo = <<>>
    /\ axis < Len(plan.shape)
    /\ axis' = axis + 1
    /\ todo' = AxisKernels(axis + 1)
    /\ source' = Last(AxisKernels(axis + 1)).dst
    /\ UNCHANGED <<plan, argument, mem, phase>>

RunKernel ==
    /\ phase = "axes" /\ todo # <<>>
    /\ mem' = [mem EXCEPT ![Head(todo).dst] = Ran(Head(todo))]
    /\ todo' = Tail(todo)
    /\ UNCHANGED <<plan, argument, axis, source, phase>>

RunFinalCopy ==
    /\ phase = "axes" /\ todo = <<>>
    /\ axis = Len(plan.shape)
    /\ mem' = [mem EXCEPT ![Output] = Ran(FinalCopy)]
    /\ phase' = "done"
    /\ UNCHANGED <<plan, argument, axis, source, todo>>

Terminated == phase = "done" /\ UNCHANGED vars

Next == BeginAxis \/ RunKernel \/ RunFinalCopy \/ Terminated

Spec == Init /\ [][Next]_vars

-----------------------------------------------------------------------------
(* Properties.                                                              *)

\* The discrete Fourier transform, by its definition: over the elements of the
\* batch entry that element i belongs to.
Coord(shape, a, i) == (i \div AxisStride(shape, a)) % shape[a]
Spectrum(i) ==
    LET shape == plan.shape
        first == (i \div Product(shape)) * Product(shape)
        term(n) ==
          FoldLeft(LAMBDA x, a : (x * Root(shape[a], Sign(plan.direction)
                                            * Coord(shape, a, i) * Coord(shape, a, n))) % Modulus,
                   argument[n], UpTo(Len(shape)))
    IN  Sum([m \in 1..Product(shape) |-> term(first + m - 1)])

\* Next kernel to run, if any.
Pending == IF todo # <<>> THEN <<Head(todo)>>
           ELSE IF phase = "axes" /\ axis = Len(plan.shape) THEN <<FinalCopy>> ELSE <<>>

\* An out-of-place execution leaves its input alone, because the axes ping-pong
\* between the scratch allocations only (sycl.cpp:688-775).
InputKept == plan.placement = "out_of_place" => mem.input = argument

\* After the scaled copy the output holds the discrete Fourier transform of the
\* input, normalized as the options say, for every batch entry, whatever
\* algorithm each axis uses and whatever the scratch held before, and the input
\* is kept where it should be (sycl.cpp:100-339, 509-569, 688-775).
OutputIsSpectrum ==
    /\ phase = "done" =>
        LET scale == Scale(plan.normalization, plan.direction, Product(plan.shape))
        IN  mem[Output] = [i \in DOMAIN argument |-> (Spectrum(i) * scale) % Modulus]
    /\ InputKept

\* The work items of a kernel can run in any order and at once: no element is
\* written by two of them, and a kernel that works in place reads in an item
\* only what that item writes (the parallel_for bodies of sycl.cpp:94-336).
WorkItemsIndependent ==
    \A p \in DOMAIN Pending :
        LET k == Pending[p]
            written == UNION {{<<i, n>> : n \in DOMAIN Writes(k, i)} : i \in Items(k)}
        IN  /\ Cardinality({Writes(k, w[1])[w[2]] : w \in written}) = Cardinality(written)
            /\ k.src = k.dst =>
                  \A i \in Items(k) : ToSet(Reads(k, i)) \subseteq ToSet(Writes(k, i))

\* No kernel touches an element beyond the array or the scratch allocation,
\* whose size the constructor took from the axis that needs most (sycl.cpp:520,
\* 543-544, 571-572).
InBounds ==
    \A p \in DOMAIN Pending :
        LET k == Pending[p]
        IN  \A i \in Items(k) :
              /\ ToSet(Reads(k, i)) \subseteq DOMAIN mem[k.src]
              /\ ToSet(Writes(k, i)) \subseteq DOMAIN mem[k.dst]
=============================================================================
