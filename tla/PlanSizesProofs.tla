--------------------------- MODULE PlanSizesProofs ---------------------------
(* Theorems about PlanSizes: what the loops compute, for every width of the *)
(* integers, every set of lengths with supported factors and all requests.  *)
EXTENDS PlanSizes, TLAPS

-----------------------------------------------------------------------------
(* The inductive invariant.                                                 *)

\* The constructor is past the loop that counts the elements.
Known == {"size", "doubling", "ready"} \union Providers

Lengths == request.lengths
Batch == request.batch

TypeInv ==
    /\ request \in Requests
    /\ pc \in {"arguments", "count", "refused"} \union Known
    /\ axis \in Nat \ {0}
    /\ count \in Nat /\ size \in Nat /\ power \in Nat /\ scratch \in Nat /\ elements \in Nat
    /\ refusal # "none" => pc = "refused"

\* Past the first checks the rank is 1, 2 or 3 and there is something to do.
ArgumentsInv == pc \notin {"arguments", "refused"} => Rank \in 1..3 /\ Batch > 0

\* Each loop has seen the axes before its index.
AxisInv ==
    /\ pc \in {"count", "size"} \union Providers => axis <= Rank + 1
    /\ pc = "doubling" => axis <= Rank
    /\ pc \in Providers => pc = request.provider
    /\ pc = "doubling" => request.provider = "portable_sycl"

CountInv ==
    /\ pc = "count" =>
         /\ \A i \in 1..(axis - 1) : Lengths[i] > 0
         /\ count = Batch * Product(Lengths, axis - 1)
         /\ count <= SizeMax
    /\ pc \in Known =>
         /\ \A i \in 1..Rank : Lengths[i] > 0
         /\ count = Batch * Size
         /\ count <= SizeMax

SizeInv ==
    /\ pc \in {"arguments", "count"} => size = 1
    /\ pc = "size" => size = Product(Lengths, axis - 1)
    /\ pc \in {"doubling", "ready"} \union Providers => size = Size

\* The doubling has not gone past twice what is needed.
PowerInv ==
    pc = "doubling" =>
        /\ Length >= 2 /\ 2 * Length - 1 <= SizeMax
        /\ power >= 1 /\ power <= SizeMax /\ power < 2 * (2 * Length - 1)

\* Each table has the length its axis needs, and the scratch holds every line
\* of the axis expanded to it.
TablesInv ==
    /\ pc \in {"arguments", "count", "size"} => tables = {}
    /\ request.provider = "portable_sycl" /\ pc \in {"portable_sycl", "doubling", "ready"} =>
         count <= scratch
    /\ \A t \in tables :
         /\ t.axis \in 1..Rank /\ t.convolution \in Nat
         /\ 2 * Lengths[t.axis] - 1 <= t.convolution
         /\ t.convolution < 2 * (2 * Lengths[t.axis] - 1)
         /\ (Batch * Size) * t.convolution <= scratch * Lengths[t.axis]

\* The lengths converted so far, and FFTW's own count.
NativeInv ==
    /\ pc \in {"arguments", "count", "size"} => native = Nothing
    /\ native \in [lengths : Seq(Int), batch : Int, distance : Int]
    /\ pc \in {"fftw", "cufft"} =>
         /\ Len(native.lengths) = axis - 1
         /\ \A i \in 1..(axis - 1) : native.lengths[i] = Lengths[i]
    /\ pc = "fftw" => elements = Batch * Product(Lengths, axis - 1)

IInv ==
    /\ TypeInv /\ ArgumentsInv /\ AxisInv /\ CountInv /\ SizeInv /\ PowerInv /\ TablesInv
    /\ NativeInv /\ NativeExact /\ RefusedForCause

-----------------------------------------------------------------------------
(* Arithmetic.                                                              *)

LEMMA DivisionTest ==
    ASSUME NEW a \in Nat, NEW b \in Nat, b > 0, NEW m \in Nat
    PROVE  (a > m \div b) <=> (a * b > m)
<1> DEFINE q == m \div b
<1>1. q \in Nat /\ b * q <= m /\ m < b * (q + 1)
  BY SMT
<1> HIDE DEF q
<1>2. CASE a > q
  <2>1. a >= q + 1
    BY <1>1, <1>2
  <2>2. b * a >= b * (q + 1)
    BY <1>1, <2>1
  <2> QED BY <1>1, <1>2, <2>2 DEF q
<1>3. CASE ~ (a > q)
  <2>1. a <= q
    BY <1>1, <1>3
  <2>2. b * a <= b * q
    BY <1>1, <2>1
  <2> QED BY <1>1, <1>3, <2>2 DEF q
<1> QED BY <1>2, <1>3

LEMMA ExactDivision ==
    ASSUME NEW k \in Nat, NEW b \in Nat, b > 0
    PROVE  (b * k) \div b = k
<1> DEFINE q == (b * k) \div b
<1>1. q \in Nat /\ b * q <= b * k /\ b * k < b * (q + 1)
  BY SMT
<1> HIDE DEF q
<1>2. q <= k
  BY <1>1
<1>3. k < q + 1
  BY <1>1
<1> QED BY <1>1, <1>2, <1>3 DEF q

LEMMA WrappedSmall ==
    ASSUME NEW n \in Nat, n <= SizeMax
    PROVE  Wrapped(n) = n
BY SizeAssumption DEF Wrapped

LEMMA ToIntSmall ==
    ASSUME NEW n \in Nat, n <= IntMax
    PROVE  ToInt(n) = n
<1> DEFINE w == IntMax + 1
<1>1. w \in Nat /\ n + w \in Nat /\ n + w < 2 * w
  BY SizeAssumption
<1>2. (n + w) % (2 * w) = n + w
  BY <1>1
<1> QED BY <1>1, <1>2, SizeAssumption DEF ToInt

LEMMA ProductStep ==
    ASSUME NEW l \in Seq(Nat), NEW k \in 0..2, k < Len(l)
    PROVE  /\ Product(l, k) \in Nat /\ Product(l, k + 1) \in Nat
           /\ Product(l, k + 1) = Product(l, k) * l[k + 1]
<1>1. CASE k = 0
  BY <1>1 DEF Product
<1>2. CASE k = 1
  BY <1>2 DEF Product
<1>3. CASE k = 2
  BY <1>3 DEF Product
<1> QED BY <1>1, <1>2, <1>3

LEMMA ProductPositive ==
    ASSUME NEW l \in Seq(Nat), NEW k \in 0..3, k <= Len(l), \A i \in 1..k : l[i] > 0
    PROVE  Product(l, k) \in Nat /\ Product(l, k) > 0
<1>1. CASE k = 0
  BY <1>1 DEF Product
<1>2. CASE k = 1
  BY <1>2 DEF Product
<1>3. CASE k = 2
  BY <1>3 DEF Product
<1>4. CASE k = 3
  <2>1. l[1] \in Nat /\ l[2] \in Nat /\ l[3] \in Nat /\ l[1] > 0 /\ l[2] > 0 /\ l[3] > 0
    BY <1>4
  <2>2. l[1] * l[2] \in Nat /\ l[1] * l[2] > 0
    BY <2>1
  <2>3. l[1] * l[2] * l[3] \in Nat /\ l[1] * l[2] * l[3] > 0
    BY <2>1, <2>2
  <2> QED BY <1>4, <2>3 DEF Product
<1> QED BY <1>1, <1>2, <1>3, <1>4

\* A length divides the product.
LEMMA ProductFactor ==
    ASSUME NEW l \in Seq(Nat), Len(l) \in 1..3, NEW a \in 1..Len(l)
    PROVE  \E k \in Nat : Product(l, Len(l)) = l[a] * k
<1>1. CASE Len(l) = 1
  BY <1>1 DEF Product
<1>2. CASE Len(l) = 2
  <2>1. Product(l, 2) = l[1] * l[2] /\ l[1] \in Nat /\ l[2] \in Nat
    BY <1>2 DEF Product
  <2>2. Product(l, 2) = l[2] * l[1]
    BY <2>1
  <2>3. a = 1 \/ a = 2
    BY <1>2
  <2> QED BY <1>2, <2>1, <2>2, <2>3
<1>3. CASE Len(l) = 3
  <2>1. l[1] \in Nat /\ l[2] \in Nat /\ l[3] \in Nat
    <3>1. 1 \in 1..Len(l) /\ 2 \in 1..Len(l) /\ 3 \in 1..Len(l)
      BY <1>3
    <3> QED BY <3>1
  <2>2. Product(l, 3) = l[1] * l[2] * l[3]
    BY DEF Product
  <2>3. Product(l, 3) = l[1] * (l[2] * l[3])
    BY <2>1, <2>2
  <2>4. Product(l, 3) = l[2] * (l[1] * l[3])
    BY <2>1, <2>2
  <2>5. Product(l, 3) = l[3] * (l[1] * l[2])
    BY <2>1, <2>2
  <2>6. \A m, n \in Nat : m * n \in Nat
    OBVIOUS
  <2>7. a = 1 \/ a = 2 \/ a = 3
    BY <1>3
  <2> QED BY <1>3, <2>1, <2>3, <2>4, <2>5, <2>6, <2>7
<1> QED BY <1>1, <1>2, <1>3

\* A natural number does not shrink when multiplied by a positive one.
LEMMA Grows == ASSUME NEW a \in Nat, NEW b \in Nat, b > 0 PROVE a <= a * b
<1>1. PICK c \in Nat : b = c + 1
  <2>1. b - 1 \in Nat /\ b = (b - 1) + 1
    OBVIOUS
  <2> QED BY <2>1
<1>2. a * b = a * c + a
  BY <1>1
<1>3. a * c \in Nat
  OBVIOUS
<1> QED BY <1>2, <1>3

LEMMA ProductGrows ==
    ASSUME NEW l \in Seq(Nat), Len(l) \in 1..3, \A i \in 1..Len(l) : l[i] > 0,
           NEW k \in 0..2, k < Len(l)
    PROVE  Product(l, k + 1) <= Product(l, Len(l))
<1>1. l[1] \in Nat /\ l[1] > 0
  OBVIOUS
<1>2. CASE k + 1 = Len(l)
  BY <1>2, ProductStep
<1>3. CASE k + 1 < Len(l) /\ Len(l) = 2
  <2>1. k = 0 /\ l[2] \in Nat /\ l[2] > 0
    BY <1>3
  <2>2. Product(l, 1) = l[1] /\ Product(l, 2) = l[1] * l[2]
    BY DEF Product
  <2>3. l[1] <= l[1] * l[2]
    BY <1>1, <2>1, Grows
  <2> QED BY <1>3, <2>1, <2>2, <2>3
<1>4. CASE k + 1 < Len(l) /\ Len(l) = 3
  <2>1. l[2] \in Nat /\ l[2] > 0 /\ l[3] \in Nat /\ l[3] > 0 /\ (k = 0 \/ k = 1)
    <3>1. 2 \in 1..Len(l) /\ 3 \in 1..Len(l)
      BY <1>4
    <3>2. k = 0 \/ k = 1
      BY <1>4
    <3> QED BY <3>1, <3>2
  <2>2. Product(l, 1) = l[1] /\ Product(l, 2) = l[1] * l[2] /\ Product(l, 3) = l[1] * l[2] * l[3]
    BY DEF Product
  <2>3. l[1] * l[2] \in Nat /\ l[1] <= l[1] * l[2]
    BY <1>1, <2>1, Grows
  <2>4. l[1] * l[2] <= l[1] * l[2] * l[3]
    <3>1. PICK m \in Nat : m = l[1] * l[2]
      BY <2>3
    <3>2. m <= m * l[3]
      BY <2>1, Grows
    <3> QED BY <3>1, <3>2
  <2> QED BY <1>1, <1>4, <2>1, <2>2, <2>3, <2>4
<1> QED BY <1>2, <1>3, <1>4

-----------------------------------------------------------------------------
(* Consequences of the invariant that the steps need.                       *)

LEMMA RequestTypes ==
    ASSUME TypeInv
    PROVE  /\ Lengths \in Seq(Nat) /\ Rank = Len(Lengths) /\ Rank \in Nat
           /\ \A i \in 1..Rank : Lengths[i] \in 0..SizeMax
           /\ Batch \in Nat /\ Batch <= SizeMax
           /\ request.provider \in Providers
<1>1. request \in Requests
  BY DEF TypeInv
<1>2. Lengths \in Seq(0..SizeMax) /\ Batch \in 0..SizeMax /\ request.provider \in Providers
  BY <1>1, RequestsAssumption DEF Lengths, Batch
<1>3. Len(Lengths) \in Nat /\ \A i \in 1..Len(Lengths) : Lengths[i] \in 0..SizeMax
  <2>1. \A S : \A l \in Seq(S) : Len(l) \in Nat /\ \A i \in 1..Len(l) : l[i] \in S
    OBVIOUS
  <2> QED BY <1>2, <2>1
<1>4. Lengths \in Seq(Nat)
  BY <1>2, SizeAssumption
<1> QED BY <1>2, <1>3, <1>4, SizeAssumption DEF Rank, Lengths

LEMMA SizeKnown ==
    ASSUME IInv, pc \in Known
    PROVE  /\ Rank \in 1..3 /\ Batch > 0 /\ Size \in Nat /\ Size > 0
           /\ count = Batch * Size /\ count <= SizeMax
           /\ \A i \in 1..Rank : Lengths[i] > 0
<1>1. Rank \in 1..3 /\ Batch > 0
  BY DEF IInv, ArgumentsInv, Known, Providers
<1>2. count = Batch * Size /\ count <= SizeMax /\ \A i \in 1..Rank : Lengths[i] > 0
  BY DEF IInv, CountInv
<1>3. Lengths \in Seq(Nat) /\ Rank = Len(Lengths) /\ Rank \in Nat
  BY RequestTypes DEF IInv
<1>4. Rank \in 0..3 /\ Rank <= Len(Lengths)
  BY <1>1, <1>3
<1>5. Product(Lengths, Rank) \in Nat /\ Product(Lengths, Rank) > 0
  BY <1>2, <1>3, <1>4, ProductPositive
<1> QED BY <1>1, <1>2, <1>5 DEF Size, Lengths

\* No entry of the batch is larger than the whole.
LEMMA SizeBounded ==
    ASSUME IInv, pc \in Known
    PROVE  Size <= SizeMax
<1>1. Batch \in Nat /\ Batch > 0 /\ Size \in Nat /\ Batch * Size <= SizeMax
  BY SizeKnown, RequestTypes DEF IInv
<1>2. Size <= Batch * Size
  BY <1>1
<1> QED BY <1>1, <1>2, SizeAssumption

\* A step that refuses disturbs nothing that still matters.
LEMMA RefuseStep ==
    ASSUME IInv, NEW why, Refuse(why), RefusedForCause'
    PROVE  IInv'
<1> USE DEF Refuse
<1>1. TypeInv'
  BY DEF IInv, TypeInv
<1>2. ArgumentsInv' /\ SizeInv' /\ PowerInv'
  BY DEF ArgumentsInv, SizeInv, PowerInv, Providers
<1>3. AxisInv' /\ CountInv'
  BY DEF AxisInv, CountInv, Known, Providers
<1>4. TablesInv'
  BY DEF IInv, TablesInv, Rank, Size, Lengths, Batch
<1>5. NativeInv' /\ NativeExact'
  BY DEF IInv, NativeInv, NativeExact, Lengths, Batch
<1> QED BY <1>1, <1>2, <1>3, <1>4, <1>5 DEF IInv

\* Nothing is said about a constructor that goes on.
LEMMA NotRefused ==
    ASSUME TypeInv, pc # "refused", UNCHANGED refusal
    PROVE  RefusedForCause'
BY DEF TypeInv, RefusedForCause

LEMMA SameRequest ==
    ASSUME UNCHANGED request
    PROVE  Rank' = Rank /\ Lengths' = Lengths /\ Batch' = Batch /\ Size' = Size
BY DEF Rank, Lengths, Batch, Size

\* The count is settled once the first loop is over.
LEMMA CountKept ==
    ASSUME IInv, pc \in Known, pc' \in Known, UNCHANGED <<request, count>>
    PROVE  CountInv' /\ ArgumentsInv'
<1>1. pc' # "count" /\ pc' # "arguments" /\ pc' # "refused"
  BY DEF Known, Providers
<1> QED BY <1>1, SameRequest, SizeKnown DEF CountInv, ArgumentsInv

LEMMA Initial == Init => IInv
<1> SUFFICES ASSUME Init PROVE IInv
  OBVIOUS
<1> USE DEF Init
<1>1. TypeInv
  BY DEF TypeInv
<1>2. ArgumentsInv /\ SizeInv /\ PowerInv /\ AxisInv
  BY DEF ArgumentsInv, SizeInv, PowerInv, AxisInv, Providers
<1>3. CountInv /\ TablesInv
  BY DEF CountInv, TablesInv, Known, Providers
<1>4. Nothing \in [lengths : Seq(Int), batch : Int, distance : Int]
  BY DEF Nothing
<1>5. NativeInv /\ NativeExact /\ RefusedForCause
  BY <1>4 DEF NativeInv, NativeExact, RefusedForCause
<1> QED BY <1>1, <1>2, <1>3, <1>5 DEF IInv

-----------------------------------------------------------------------------
(* The steps: counting.                                                     *)

LEMMA CheckArgumentsStep ==
    ASSUME IInv, CheckArguments
    PROVE  IInv'
<1>1. CASE Refuse("argument")
  <2>1. RefusedForCause'
    BY <1>1 DEF Refuse, RefusedForCause
  <2> QED BY <1>1, <2>1, RefuseStep
<1>2. CASE ~ Refuse("argument")
  <2>1. /\ Rank # 0 /\ ~ (Rank > 3) /\ request.batch # 0
        /\ pc = "arguments" /\ pc' = "count" /\ axis' = 1 /\ count' = request.batch
        /\ UNCHANGED <<refusal, request, size, power, tables, scratch, elements, native>>
    BY <1>2 DEF CheckArguments, Loop
  <2>2. Rank \in Nat /\ Batch \in Nat /\ Batch <= SizeMax
    BY RequestTypes DEF IInv
  <2>3. TypeInv'
    BY <2>1, <2>2 DEF IInv, TypeInv, Batch
  <2>4. ArgumentsInv' /\ AxisInv' /\ SizeInv' /\ PowerInv'
    <3>1. Rank' = Rank /\ Batch' = Batch /\ Rank \in 1..3 /\ Batch > 0
      <4>1. Rank' = Rank /\ Batch' = Batch
        BY <2>1 DEF Rank, Batch
      <4>2. Rank \in 1..3
        BY <2>1, <2>2
      <4>3. Batch > 0
        BY <2>1, <2>2 DEF Batch
      <4> QED BY <4>1, <4>2, <4>3
    <3>2. ArgumentsInv' /\ SizeInv' /\ PowerInv'
      BY <2>1, <3>1 DEF IInv, ArgumentsInv, SizeInv, PowerInv, Providers
    <3>3. AxisInv'
      BY <2>1, <3>1 DEF AxisInv, Providers
    <3> QED BY <3>2, <3>3
  <2>5. Product(Lengths', 0) = 1
    BY DEF Product
  <2>6. CountInv'
    BY <2>1, <2>2, <2>5 DEF CountInv, Known, Providers, Batch
  <2>7. TablesInv' /\ NativeInv'
    BY <2>1 DEF IInv, TablesInv, NativeInv, Rank, Size, Lengths, Batch
  <2>8. NativeExact' /\ RefusedForCause'
    BY <2>1, NotRefused DEF IInv, NativeExact
  <2> QED BY <2>3, <2>4, <2>6, <2>7, <2>8 DEF IInv
<1> QED BY <1>1, <1>2

LEMMA CountLengthStep ==
    ASSUME IInv, CountLength
    PROVE  IInv'
<1>1. pc = "count" /\ axis <= Rank /\ axis \in 1..3 /\ axis - 1 \in 0..2
  BY DEF IInv, TypeInv, ArgumentsInv, CountLength
<1>2. Lengths \in Seq(Nat) /\ Rank = Len(Lengths) /\ Batch \in Nat /\ Length = Lengths[axis]
      /\ Length \in Nat /\ SizeMax \in Nat
  BY <1>1, RequestTypes, SizeAssumption DEF IInv, Length, Lengths
<1>3. /\ count = Batch * Product(Lengths, axis - 1) /\ count <= SizeMax /\ count \in Nat
      /\ \A i \in 1..(axis - 1) : Lengths[i] > 0
  BY <1>1 DEF IInv, CountInv, TypeInv
<1>4. /\ Product(Lengths, axis - 1) \in Nat /\ Product(Lengths, axis) \in Nat
      /\ Product(Lengths, axis) = Product(Lengths, axis - 1) * Length
  <2>1. axis - 1 < Len(Lengths) /\ (axis - 1) + 1 = axis
    BY <1>1, <1>2
  <2> QED BY <1>1, <1>2, <2>1, ProductStep
<1>5. count * Length = Batch * Product(Lengths, axis)
  BY <1>2, <1>3, <1>4
<1>6. CASE Refuse("argument")
  <2>1. RefusedForCause'
    BY <1>6 DEF Refuse, RefusedForCause
  <2> QED BY <1>6, <2>1, RefuseStep
<1>7. CASE Length > 0 /\ Overflows(count, Length) /\ Refuse("count")
  <2>1. count * Length > SizeMax
    BY <1>2, <1>3, <1>7, DivisionTest DEF Overflows
  <2>2. RefusedForCause'
    BY <1>5, <1>7, <2>1 DEF Refuse, RefusedForCause, Lengths, Batch
  <2> QED BY <1>7, <2>2, RefuseStep
<1>8. CASE /\ Length > 0 /\ ~ Overflows(count, Length)
           /\ Again /\ count' = Wrapped(count * Length)
           /\ UNCHANGED <<request, size, power, tables, scratch, elements, native>>
  <2>1. ~ (count * Length > SizeMax)
    BY <1>2, <1>3, <1>8, DivisionTest DEF Overflows
  <2>2. count * Length \in Nat /\ count * Length <= SizeMax
    BY <1>2, <1>3, <2>1
  <2>3. count' = Batch * Product(Lengths, axis) /\ count' \in Nat /\ count' <= SizeMax
    BY <1>5, <1>8, <2>2, WrappedSmall
  <2>4. axis' = axis + 1 /\ UNCHANGED <<pc, refusal, request>>
    BY <1>8 DEF Again
  <2>5. TypeInv'
    BY <1>8, <2>3, <2>4 DEF IInv, TypeInv
  <2>6. ArgumentsInv' /\ SizeInv' /\ PowerInv'
    BY <1>1, <1>8, <2>4 DEF IInv, ArgumentsInv, SizeInv, PowerInv, Providers, Batch, Rank
  <2>11. AxisInv'
    <3>1. Rank' = Rank /\ axis' <= Rank + 1
      BY <1>1, <1>2, <2>4 DEF Rank
    <3> QED BY <1>1, <2>4, <3>1 DEF AxisInv, Providers
  <2>7. \A i \in 1..axis : Lengths[i] > 0
    BY <1>1, <1>2, <1>3, <1>8
  <2>8. CountInv'
    <3>1. axis' - 1 = axis /\ Lengths' = Lengths /\ Batch' = Batch
      BY <1>1, <2>4 DEF Lengths, Batch
    <3> QED BY <1>1, <2>3, <2>4, <2>7, <3>1 DEF CountInv, Known, Providers
  <2>9. TablesInv' /\ NativeInv'
    BY <1>1, <1>8, <2>4 DEF IInv, TablesInv, NativeInv, Rank, Size, Lengths, Batch
  <2>10. NativeExact' /\ RefusedForCause'
    BY <1>1, <2>4, NotRefused DEF IInv, NativeExact
  <2> QED BY <2>5, <2>6, <2>8, <2>9, <2>10, <2>11 DEF IInv
<1> QED
  <2>1. Length = 0 \/ Length > 0
    BY <1>2
  <2> QED BY <1>6, <1>7, <1>8, <2>1 DEF CountLength

LEMMA CountedStep ==
    ASSUME IInv, Counted
    PROVE  IInv'
<1>1. /\ pc = "count" /\ axis > Rank /\ pc' = "size" /\ axis' = 1
      /\ UNCHANGED <<refusal, request, count, size, power, tables, scratch, elements, native>>
  BY DEF Counted, Loop
<1>2. /\ Rank' = Rank /\ Lengths' = Lengths /\ Batch' = Batch /\ Size' = Size
  BY <1>1, SameRequest
<1>3. Rank \in 1..3 /\ Batch > 0 /\ axis = Rank + 1
  BY <1>1 DEF IInv, TypeInv, ArgumentsInv, AxisInv
<1>4. TypeInv'
  BY <1>1 DEF IInv, TypeInv, Known
<1>5. ArgumentsInv' /\ PowerInv'
  BY <1>1, <1>2, <1>3 DEF ArgumentsInv, PowerInv
<1>6. AxisInv'
  BY <1>1, <1>2, <1>3 DEF AxisInv, Providers
<1>7. CountInv'
  <2>1. /\ \A i \in 1..Rank : Lengths[i] > 0
        /\ count = Batch * Product(Lengths, Rank) /\ count <= SizeMax
    <3>1. axis - 1 = Rank
      BY <1>3
    <3> QED BY <1>1, <3>1 DEF IInv, CountInv
  <2>2. Product(Lengths, Rank) = Size
    BY DEF Size, Lengths
  <2> QED BY <1>1, <1>2, <2>1, <2>2 DEF CountInv
<1>8. SizeInv'
  <2>1. size = 1
    BY <1>1 DEF IInv, SizeInv
  <2> QED BY <1>1, <2>1 DEF SizeInv, Product, Providers
<1>9. TablesInv' /\ NativeInv'
  BY <1>1, <1>2 DEF IInv, TablesInv, NativeInv
<1>10. NativeExact' /\ RefusedForCause'
  BY <1>1, NotRefused DEF IInv, NativeExact
<1> QED BY <1>4, <1>5, <1>6, <1>7, <1>8, <1>9, <1>10 DEF IInv

LEMMA MultiplyLengthStep ==
    ASSUME IInv, MultiplyLength
    PROVE  IInv'
<1>1. /\ pc = "size" /\ axis <= Rank /\ pc' = pc /\ axis' = axis + 1
      /\ size' = Wrapped(size * Length)
      /\ UNCHANGED <<refusal, request, count, power, tables, scratch, elements, native>>
  BY DEF MultiplyLength, Again
<1>2. /\ Rank' = Rank /\ Lengths' = Lengths /\ Batch' = Batch /\ Size' = Size
  BY <1>1, SameRequest
<1>3. pc \in Known /\ axis \in 1..3 /\ axis - 1 \in 0..2 /\ Rank \in 1..3
  BY <1>1, SizeKnown DEF IInv, TypeInv, ArgumentsInv, Known
<1>4. /\ Lengths \in Seq(Nat) /\ Rank = Len(Lengths) /\ Length = Lengths[axis]
      /\ \A i \in 1..Len(Lengths) : Lengths[i] > 0
  BY <1>3, RequestTypes, SizeKnown DEF IInv, Length, Lengths
<1>5. /\ Product(Lengths, axis - 1) \in Nat /\ Product(Lengths, axis) \in Nat
      /\ Product(Lengths, axis) = Product(Lengths, axis - 1) * Length
      /\ Product(Lengths, axis) <= Size
  <2>1. axis - 1 < Len(Lengths) /\ (axis - 1) + 1 = axis
    BY <1>1, <1>3, <1>4
  <2>2. Size = Product(Lengths, Len(Lengths))
    BY <1>4 DEF Size, Lengths
  <2> QED BY <1>3, <1>4, <2>1, <2>2, ProductStep, ProductGrows
<1>6. size' = Product(Lengths, axis)
  <2>1. size = Product(Lengths, axis - 1)
    BY <1>1 DEF IInv, SizeInv
  <2>2. Product(Lengths, axis) <= SizeMax
    BY <1>3, <1>5, SizeBounded, SizeKnown, SizeAssumption
  <2> QED BY <1>1, <1>5, <2>1, <2>2, WrappedSmall
<1>7. TypeInv'
  BY <1>1, <1>5, <1>6 DEF IInv, TypeInv
<1>8. CountInv' /\ ArgumentsInv'
  BY <1>1, <1>3, CountKept
<1>9. AxisInv'
  BY <1>1, <1>2, <1>3 DEF AxisInv, Providers
<1>10. SizeInv' /\ PowerInv'
  <2>1. axis' - 1 = axis
    BY <1>1, <1>3
  <2> QED BY <1>1, <1>2, <1>6, <2>1 DEF SizeInv, PowerInv, Providers
<1>11. TablesInv' /\ NativeInv'
  BY <1>1, <1>2 DEF IInv, TablesInv, NativeInv
<1>12. NativeExact' /\ RefusedForCause'
  BY <1>1, NotRefused DEF IInv, NativeExact
<1> QED BY <1>7, <1>8, <1>9, <1>10, <1>11, <1>12 DEF IInv

LEMMA MultipliedStep ==
    ASSUME IInv, Multiplied
    PROVE  IInv'
<1>1. /\ pc = "size" /\ axis > Rank /\ pc' = request.provider /\ axis' = 1
      /\ scratch' = IF request.provider = "portable_sycl" THEN count ELSE scratch
      /\ elements' = IF request.provider = "fftw" THEN Batch ELSE elements
      /\ UNCHANGED <<refusal, request, count, size, power, tables, native>>
  BY DEF Multiplied, Loop, Batch
<1>2. /\ Rank' = Rank /\ Lengths' = Lengths /\ Batch' = Batch /\ Size' = Size
  BY <1>1, SameRequest
<1>3. pc \in Known /\ pc' \in Providers /\ pc' \in Known /\ pc' # "ready" /\ pc' # "doubling"
  BY <1>1, RequestTypes DEF IInv, Known, Providers
<1>4. Rank \in 1..3 /\ axis = Rank + 1 /\ Batch \in Nat
  BY <1>1, <1>3, SizeKnown, RequestTypes DEF IInv, TypeInv, AxisInv
<1>5. TypeInv'
  BY <1>1, <1>3, <1>4 DEF IInv, TypeInv
<1>6. CountInv' /\ ArgumentsInv'
  BY <1>1, <1>3, CountKept
<1>7. AxisInv'
  BY <1>1, <1>2, <1>3, <1>4 DEF AxisInv
<1>8. SizeInv' /\ PowerInv'
  <2>1. size = Product(Lengths, Rank)
    <3>1. axis - 1 = Rank
      BY <1>4
    <3> QED BY <1>1, <3>1 DEF IInv, SizeInv
  <2>2. size' = Size'
    BY <1>1, <1>2, <2>1 DEF Size, Lengths
  <2>3. pc' \notin {"arguments", "count", "size"}
    BY <1>3 DEF Providers
  <2> QED BY <1>3, <2>2, <2>3 DEF SizeInv, PowerInv
<1>9. TablesInv'
  <2>1. tables' = {} /\ pc' \notin {"arguments", "count", "size"}
    BY <1>1, <1>3 DEF IInv, TablesInv, Providers
  <2>2. count \in Nat
    BY DEF IInv, TypeInv
  <2> QED BY <1>1, <2>1, <2>2 DEF TablesInv
<1>10. NativeInv'
  <2>1. native = Nothing
    BY <1>1 DEF IInv, NativeInv
  <2>2. native \in [lengths : Seq(Int), batch : Int, distance : Int]
    BY DEF IInv, NativeInv
  <2>3. native.lengths = <<>> /\ axis' - 1 = 0
    BY <1>1, <2>1 DEF Nothing
  <2>4. Product(Lengths', 0) = 1
    BY DEF Product
  <2>5. pc' = "fftw" => elements' = Batch * 1
    BY <1>1, <1>4
  <2>6. Len(native.lengths) = 0 /\ 1..0 = {}
    BY <2>3
  <2> QED BY <1>1, <1>2, <2>1, <2>2, <2>3, <2>4, <2>5, <2>6 DEF NativeInv
<1>11. NativeExact' /\ RefusedForCause'
  BY <1>1, <1>3, NotRefused DEF IInv, NativeExact
<1> QED BY <1>5, <1>6, <1>7, <1>8, <1>9, <1>10, <1>11 DEF IInv

-----------------------------------------------------------------------------
(* The steps: the portable provider.                                        *)

\* SizeMax is odd, so the test is exact.
LEMMA LongestConvolution ==
    ASSUME NEW length \in Nat
    PROVE  TooLong(length) <=> 2 * length - 1 > SizeMax
<1> DEFINE h == SizeMax \div 2
<1>1. SizeMax \in Nat /\ SizeMax = 2 * h + 1 /\ h \in Nat
  BY SizeAssumption
<1> HIDE DEF h
<1>2. TooLong(length) <=> length > h + 1
  BY DEF TooLong, h
<1> QED BY <1>1, <1>2

LEMMA NeededExact ==
    ASSUME Length \in Nat, Length >= 2, 2 * Length - 1 <= SizeMax
    PROVE  Needed = 2 * Length - 1
<1> DEFINE w == SizeMax + 1
<1>1. SizeMax \in Nat /\ w \in Nat /\ w > 0 /\ SizeMax = w - 1
  BY SizeAssumption
<1>2. Needed = (((2 * Length) % w) - 1) % w
  BY DEF Needed, Wrapped
<1> HIDE DEF w
<1>3. CASE 2 * Length < w
  <2>1. (2 * Length) % w = 2 * Length
    BY <1>1, <1>3
  <2>2. (2 * Length - 1) % w = 2 * Length - 1
    BY <1>1, <1>3
  <2> QED BY <1>2, <2>1, <2>2
<1>4. CASE 2 * Length = w
  <2>1. (2 * Length) % w = 0
    BY <1>1, <1>4
  <2>2. (0 - 1) % w = w - 1
    BY <1>1
  <2> QED BY <1>2, <1>4, <2>1, <2>2
<1> QED BY <1>1, <1>3, <1>4

\* What an iteration over the axes knows of its axis.
LEMMA AxisKnown ==
    ASSUME IInv, pc \in Known, axis <= Rank
    PROVE  /\ axis \in 1..Rank /\ axis \in 1..3 /\ Length = Lengths[axis]
           /\ Length \in Nat /\ Length > 0 /\ Length <= SizeMax
<1>1. axis \in Nat \ {0} /\ Rank \in 1..3 /\ \A i \in 1..Rank : Lengths[i] > 0
  BY SizeKnown DEF IInv, TypeInv
<1>2. axis \in 1..Rank /\ axis \in 1..3
  BY <1>1
<1>3. Length = Lengths[axis]
  BY DEF Length, Lengths
<1>4. Lengths[axis] \in 0..SizeMax
  BY <1>2, RequestTypes DEF IInv
<1> QED BY <1>1, <1>2, <1>3, <1>4, SizeAssumption

LEMMA DirectAxisStep ==
    ASSUME IInv, DirectAxis
    PROVE  IInv'
<1>1. /\ pc = "portable_sycl" /\ axis <= Rank /\ pc' = pc /\ axis' = axis + 1
      /\ UNCHANGED <<refusal, request, count, size, power, tables, scratch, elements, native>>
  BY DEF DirectAxis, Again
<1>2. /\ Rank' = Rank /\ Lengths' = Lengths /\ Batch' = Batch /\ Size' = Size
  BY <1>1, SameRequest
<1>3. pc \in Known /\ axis \in 1..3 /\ Rank \in 1..3
  BY <1>1, SizeKnown, AxisKnown DEF Known, Providers
<1>4. TypeInv'
  BY <1>1, <1>3 DEF IInv, TypeInv
<1>5. CountInv' /\ ArgumentsInv'
  BY <1>1, <1>3, CountKept
<1>6. AxisInv'
  BY <1>1, <1>2, <1>3 DEF IInv, AxisInv
<1>7. SizeInv' /\ PowerInv'
  BY <1>1, <1>2 DEF IInv, SizeInv, PowerInv
<1>8. TablesInv' /\ NativeInv'
  BY <1>1, <1>2 DEF IInv, TablesInv, NativeInv
<1>9. NativeExact' /\ RefusedForCause'
  BY <1>1, NotRefused DEF IInv, NativeExact
<1> QED BY <1>4, <1>5, <1>6, <1>7, <1>8, <1>9 DEF IInv

LEMMA BluesteinAxisStep ==
    ASSUME IInv, BluesteinAxis
    PROVE  IInv'
<1>1. pc = "portable_sycl" /\ axis <= Rank /\ Length \notin Smooth
  BY DEF BluesteinAxis
<1>2. /\ pc \in Known /\ axis \in 1..3 /\ Rank \in 1..3 /\ Length \in Nat /\ Length > 0
      /\ Length = Lengths[axis] /\ request.provider = "portable_sycl"
  BY <1>1, SizeKnown, AxisKnown DEF IInv, AxisInv, Known, Providers
<1>3. CASE TooLong(Length) /\ Refuse("convolution")
  <2>1. 2 * Length - 1 > SizeMax
    BY <1>2, <1>3, LongestConvolution
  <2>2. UNCHANGED <<request, axis>> /\ refusal' = "convolution"
    BY <1>3 DEF Refuse
  <2>3. Length' = Length
    BY <2>2 DEF Length
  <2>4. RefusedForCause'
    BY <2>1, <2>2, <2>3 DEF RefusedForCause
  <2> QED BY <1>3, <2>4, RefuseStep
<1>4. CASE /\ ~ TooLong(Length) /\ pc' = "doubling" /\ power' = 1
           /\ UNCHANGED <<request, axis, count, size, tables, scratch, elements, native, refusal>>
  <2>1. /\ Rank' = Rank /\ Lengths' = Lengths /\ Batch' = Batch /\ Size' = Size
    BY <1>4, SameRequest
  <2>2. pc' \in Known
    BY <1>4 DEF Known
  <2>3. TypeInv'
    BY <1>1, <1>4, <2>2 DEF IInv, TypeInv
  <2>4. CountInv' /\ ArgumentsInv'
    BY <1>2, <1>4, <2>2, CountKept
  <2>5. AxisInv'
    BY <1>1, <1>2, <1>4, <2>1 DEF AxisInv, Providers
  <2>6. SizeInv'
    BY <1>1, <1>4, <2>1 DEF IInv, SizeInv, Providers
  <2>7. PowerInv'
    <3>1. Length # 1
      BY <1>1, SizeAssumption
    <3>2. 2 * Length - 1 <= SizeMax /\ Length >= 2 /\ SizeMax \in Nat
      BY <1>2, <1>4, <3>1, LongestConvolution, SizeAssumption
    <3>3. Length' = Length
      BY <1>4 DEF Length
    <3> QED BY <1>2, <1>4, <3>2, <3>3 DEF PowerInv
  <2>8. TablesInv' /\ NativeInv'
    BY <1>1, <1>4, <2>1 DEF IInv, TablesInv, NativeInv
  <2>9. NativeExact' /\ RefusedForCause'
    BY <1>1, <1>4, NotRefused DEF IInv, NativeExact
  <2> QED BY <2>3, <2>4, <2>5, <2>6, <2>7, <2>8, <2>9 DEF IInv
<1> QED BY <1>3, <1>4 DEF BluesteinAxis

LEMMA DoubleStep ==
    ASSUME IInv, Double
    PROVE  IInv'
<1>1. pc = "doubling" /\ power < Needed
  BY DEF Double
<1>2. /\ pc \in Known /\ axis <= Rank /\ Length \in Nat /\ Length >= 2
      /\ 2 * Length - 1 <= SizeMax /\ power \in Nat /\ power >= 1 /\ SizeMax \in Nat
  <2>1. pc \in Known /\ axis <= Rank
    BY <1>1 DEF IInv, AxisInv, Known
  <2>2. power \in Nat
    BY DEF IInv, TypeInv
  <2> QED BY <1>1, <2>1, <2>2, AxisKnown, SizeAssumption DEF IInv, PowerInv
<1>3. power < 2 * Length - 1
  BY <1>1, <1>2, NeededExact
<1>4. power > SizeMax \div 2 <=> power * 2 > SizeMax
  BY <1>2, DivisionTest
<1>5. CASE power > SizeMax \div 2 /\ Refuse("convolution")
  <2>1. UNCHANGED <<request, axis, power>> /\ refusal' = "convolution"
    BY <1>5 DEF Refuse
  <2>2. Length' = Length
    BY <2>1 DEF Length
  <2>3. 2 * power > SizeMax
    BY <1>2, <1>4, <1>5
  <2>4. RefusedForCause'
    BY <1>3, <2>1, <2>2, <2>3 DEF RefusedForCause
  <2> QED BY <1>5, <2>4, RefuseStep
<1>6. CASE /\ ~ (power > SizeMax \div 2) /\ power' = Wrapped(power * 2)
           /\ UNCHANGED <<request, pc, axis, count, size, tables, scratch, elements, native,
                          refusal>>
  <2>1. /\ Rank' = Rank /\ Lengths' = Lengths /\ Batch' = Batch /\ Size' = Size
    BY <1>6, SameRequest
  <2>2. power * 2 \in Nat /\ power * 2 <= SizeMax
    BY <1>2, <1>4, <1>6
  <2>3. power' = power * 2
    BY <1>6, <2>2, WrappedSmall
  <2>4. TypeInv'
    BY <1>6, <2>2, <2>3 DEF IInv, TypeInv
  <2>5. CountInv' /\ ArgumentsInv'
    BY <1>2, <1>6, CountKept
  <2>6. AxisInv' /\ SizeInv'
    BY <1>1, <1>6, <2>1 DEF IInv, AxisInv, SizeInv, Providers
  <2>7. PowerInv'
    <3>1. Length' = Length
      BY <1>6 DEF Length
    <3>2. power * 2 >= 1 /\ power * 2 < 2 * (2 * Length - 1)
      BY <1>2, <1>3
    <3> QED BY <1>2, <2>2, <2>3, <3>1, <3>2 DEF PowerInv
  <2>8. TablesInv' /\ NativeInv'
    BY <1>6, <2>1 DEF IInv, TablesInv, NativeInv
  <2>9. NativeExact' /\ RefusedForCause'
    BY <1>1, <1>6, NotRefused DEF IInv, NativeExact
  <2> QED BY <2>4, <2>5, <2>6, <2>7, <2>8, <2>9 DEF IInv
<1> QED BY <1>5, <1>6 DEF Double

LEMMA DoubledStep ==
    ASSUME IInv, Doubled
    PROVE  IInv'
<1>1. pc = "doubling" /\ power >= Needed
  BY DEF Doubled
<1>2. /\ pc \in Known /\ axis <= Rank /\ Length \in Nat /\ Length >= 2
      /\ 2 * Length - 1 <= SizeMax /\ power \in Nat /\ power < 2 * (2 * Length - 1)
      /\ axis \in 1..Rank /\ Length = Lengths[axis] /\ SizeMax \in Nat /\ Rank \in 1..3
      /\ request.provider = "portable_sycl" /\ axis \in 1..3
  <2>1. pc \in Known /\ axis <= Rank /\ request.provider = "portable_sycl"
    BY <1>1 DEF IInv, AxisInv, Known
  <2>2. power \in Nat
    BY DEF IInv, TypeInv
  <2>3. Length >= 2 /\ 2 * Length - 1 <= SizeMax /\ power < 2 * (2 * Length - 1)
    BY <1>1 DEF IInv, PowerInv
  <2> QED BY <2>1, <2>2, <2>3, AxisKnown, SizeKnown, SizeAssumption
<1>3. 2 * Length - 1 <= power
  BY <1>1, <1>2, NeededExact
<1>4. count = Batch * Size /\ Batch \in Nat /\ Size \in Nat /\ count \in Nat
  BY <1>2, SizeKnown, RequestTypes DEF IInv, TypeInv
\* The length of the axis divides the count.
<1>5. Lines \in Nat /\ count = Length * Lines
  <2>1. Lengths \in Seq(Nat) /\ Rank = Len(Lengths) /\ Size = Product(Lengths, Len(Lengths))
    BY RequestTypes DEF IInv, Size, Lengths
  <2>2. PICK k \in Nat : Size = Length * k
    BY <1>2, <2>1, ProductFactor
  <2>3. Batch * k \in Nat /\ count = Length * (Batch * k)
    BY <1>2, <1>4, <2>2
  <2>4. Lines = Batch * k
    BY <1>2, <2>3, ExactDivision DEF Lines
  <2> QED BY <2>3, <2>4
<1>6. Overflows(Lines, power) <=> Lines * power > SizeMax
  BY <1>2, <1>3, <1>5, DivisionTest DEF Overflows
<1>7. Lines * power \in Nat /\ count * power = Length * (Lines * power)
  BY <1>2, <1>5
<1>8. CASE Overflows(Lines, power) /\ Refuse("scratch")
  <2>1. UNCHANGED <<request, axis, power>> /\ refusal' = "scratch"
    BY <1>8 DEF Refuse
  <2>2. /\ Length' = Length /\ Size' = Size /\ Batch' = Batch
    BY <2>1, SameRequest DEF Length
  <2>3. ((Batch * Size) * power) \div Length = Lines * power
    BY <1>2, <1>4, <1>7, ExactDivision
  <2>4. RefusedForCause'
    BY <1>6, <1>8, <2>1, <2>2, <2>3 DEF RefusedForCause, Batch
  <2> QED BY <1>8, <2>4, RefuseStep
<1>9. CASE /\ ~ Overflows(Lines, power)
           /\ scratch' = Larger(scratch, Wrapped(Lines * power))
           /\ tables' = tables \union {[axis |-> axis, convolution |-> power]}
           /\ pc' = "portable_sycl" /\ axis' = axis + 1
           /\ UNCHANGED <<request, count, size, power, elements, native, refusal>>
  <2>1. /\ Rank' = Rank /\ Lengths' = Lengths /\ Batch' = Batch /\ Size' = Size
    BY <1>9, SameRequest
  <2>2. pc' \in Known
    BY <1>9 DEF Known, Providers
  <2>3. Wrapped(Lines * power) = Lines * power
    BY <1>2, <1>6, <1>7, <1>9, WrappedSmall
  <2>4. /\ scratch \in Nat /\ scratch' \in Nat /\ scratch <= scratch'
        /\ Lines * power <= scratch'
    <3>1. scratch \in Nat
      BY DEF IInv, TypeInv
    <3> QED BY <1>7, <1>9, <2>3, <3>1 DEF Larger
  <2>5. TypeInv'
    BY <1>1, <1>2, <1>9, <2>2, <2>4 DEF IInv, TypeInv
  <2>6. CountInv' /\ ArgumentsInv'
    BY <1>2, <1>9, <2>2, CountKept
  <2>7. AxisInv'
    BY <1>2, <1>9, <2>1 DEF AxisInv
  <2>8. SizeInv' /\ PowerInv'
    BY <1>1, <1>9, <2>1 DEF IInv, SizeInv, PowerInv
  <2>9. TablesInv'
    <3>1. count' <= scratch'
      <4>1. count <= scratch
        BY <1>1, <1>2 DEF IInv, TablesInv
      <4> QED BY <1>4, <1>9, <2>4, <4>1
    <3> DEFINE new == [axis |-> axis, convolution |-> power]
               Fits(t) == /\ t.axis \in 1..Rank /\ t.convolution \in Nat
                          /\ 2 * Lengths[t.axis] - 1 <= t.convolution
                          /\ t.convolution < 2 * (2 * Lengths[t.axis] - 1)
                          /\ (Batch * Size) * t.convolution <= scratch' * Lengths[t.axis]
    <3>2. Fits(new)
      <4>1. Length * (Lines * power) <= scratch' * Length
        BY <1>2, <1>7, <2>4
      <4> QED BY <1>2, <1>3, <1>4, <1>7, <4>1
    <3>3. ASSUME NEW t \in tables PROVE Fits(t)
      <4>1. /\ t.axis \in 1..Rank /\ t.convolution \in Nat
            /\ 2 * Lengths[t.axis] - 1 <= t.convolution
            /\ t.convolution < 2 * (2 * Lengths[t.axis] - 1)
            /\ (Batch * Size) * t.convolution <= scratch * Lengths[t.axis]
        BY DEF IInv, TablesInv
      <4>2. Lengths[t.axis] \in Nat
        BY <4>1, RequestTypes DEF IInv
      <4>3. scratch * Lengths[t.axis] <= scratch' * Lengths[t.axis]
        BY <2>4, <4>2
      <4>4. /\ (Batch * Size) * t.convolution \in Nat
            /\ scratch * Lengths[t.axis] \in Nat /\ scratch' * Lengths[t.axis] \in Nat
        BY <1>4, <2>4, <4>1, <4>2
      <4> QED BY <4>1, <4>3, <4>4
    <3>4. \A t \in tables' : Fits(t)
      BY <1>9, <3>2, <3>3
    <3> HIDE DEF new
    <3> QED BY <1>9, <2>1, <3>1, <3>4 DEF TablesInv
  <2>10. NativeInv'
    BY <1>9 DEF IInv, NativeInv
  <2>11. NativeExact' /\ RefusedForCause'
    BY <1>1, <1>9, NotRefused DEF IInv, NativeExact
  <2> QED BY <2>5, <2>6, <2>7, <2>8, <2>9, <2>10, <2>11 DEF IInv
<1> QED BY <1>8, <1>9 DEF Doubled

LEMMA AxesDoneStep ==
    ASSUME IInv, AxesDone
    PROVE  IInv'
<1>1. /\ pc = "portable_sycl" /\ pc' = "ready" /\ axis' = 1
      /\ UNCHANGED <<refusal, request, count, size, power, tables, scratch, elements, native>>
  BY DEF AxesDone, Loop
<1>2. /\ Rank' = Rank /\ Lengths' = Lengths /\ Batch' = Batch /\ Size' = Size
  BY <1>1, SameRequest
<1>3. pc \in Known /\ pc' \in Known /\ request.provider = "portable_sycl"
  BY <1>1 DEF IInv, AxisInv, Known, Providers
<1>4. TypeInv'
  BY <1>1, <1>3 DEF IInv, TypeInv
<1>5. CountInv' /\ ArgumentsInv'
  BY <1>1, <1>3, CountKept
<1>6. AxisInv' /\ SizeInv' /\ PowerInv'
  BY <1>1, <1>2 DEF IInv, AxisInv, SizeInv, PowerInv, Providers
<1>7. TablesInv'
  BY <1>1, <1>2, <1>3 DEF IInv, TablesInv
<1>8. NativeInv'
  BY <1>1, <1>2 DEF IInv, NativeInv
<1>9. NativeExact' /\ RefusedForCause'
  BY <1>1, <1>3, NotRefused DEF IInv, NativeExact
<1> QED BY <1>4, <1>5, <1>6, <1>7, <1>8, <1>9 DEF IInv

-----------------------------------------------------------------------------
(* The steps: the providers that take ints.                                 *)

\* A length that fits an int is appended as it is.
LEMMA LengthConverted ==
    ASSUME IInv, pc \in {"fftw", "cufft"}, axis <= Rank, ~ (Length > IntMax),
           axis' = axis + 1, native' = [native EXCEPT !.lengths = Append(@, ToInt(Length))]
    PROVE  /\ native' \in [lengths : Seq(Int), batch : Int, distance : Int]
           /\ Len(native'.lengths) = axis' - 1
           /\ \A i \in 1..(axis' - 1) : native'.lengths[i] = Lengths[i]
<1>1. pc \in Known
  BY DEF Known, Providers
<1>2. axis \in 1..3 /\ Length = Lengths[axis] /\ Length \in Nat
  BY <1>1, AxisKnown
<1>3. /\ native \in [lengths : Seq(Int), batch : Int, distance : Int]
      /\ Len(native.lengths) = axis - 1
      /\ \A i \in 1..(axis - 1) : native.lengths[i] = Lengths[i]
  BY DEF IInv, NativeInv
<1> DEFINE old == native.lengths
<1>4. old \in Seq(Int) /\ ToInt(Length) = Length /\ native'.lengths = Append(old, Length)
  <2>1. IntMax \in Nat /\ Length <= IntMax
    BY <1>2, SizeAssumption
  <2>2. ToInt(Length) = Length
    BY <1>2, <2>1, ToIntSmall
  <2> QED BY <1>3, <2>2
<1>5. native' \in [lengths : Seq(Int), batch : Int, distance : Int]
  <2>1. Append(old, Length) \in Seq(Int)
    BY <1>2, <1>4
  <2> QED BY <1>3, <1>4, <2>1
<1>6. /\ Len(Append(old, Length)) = axis
      /\ \A i \in 1..axis : Append(old, Length)[i] = Lengths[i]
  <2>1. Len(old) = axis - 1 /\ \A i \in 1..(axis - 1) : old[i] = Lengths[i]
    BY <1>3
  <2> HIDE DEF old
  <2>2. Len(Append(old, Length)) = axis
    BY <1>2, <1>4, <2>1
  <2>3. ASSUME NEW i \in 1..axis PROVE Append(old, Length)[i] = Lengths[i]
    <3>1. CASE i = axis
      BY <1>2, <1>4, <2>1, <3>1
    <3>2. CASE i # axis
      <4>1. i \in 1..(axis - 1)
        BY <1>2, <3>2
      <4>2. Append(old, Length)[i] = old[i]
        BY <1>2, <1>4, <2>1, <4>1
      <4> QED BY <2>1, <4>1, <4>2
    <3> QED BY <3>1, <3>2
  <2> QED BY <2>2, <2>3
<1>7. axis' - 1 = axis
  BY <1>2
<1> QED BY <1>4, <1>5, <1>6, <1>7

\* Once every length is converted the ints are the lengths.
LEMMA LengthsConverted ==
    ASSUME IInv, pc \in {"fftw", "cufft"}, axis > Rank
    PROVE  axis = Rank + 1 /\ native.lengths = request.lengths
<1>1. axis = Rank + 1 /\ axis - 1 = Rank /\ Rank \in Nat
  BY RequestTypes DEF IInv, TypeInv, AxisInv, Providers
<1>2. /\ native.lengths \in Seq(Int) /\ Len(native.lengths) = Rank
      /\ \A i \in 1..Rank : native.lengths[i] = Lengths[i]
  BY <1>1 DEF IInv, NativeInv
<1>3. Lengths \in Seq(Nat) /\ Len(Lengths) = Rank
  BY RequestTypes DEF IInv
<1>4. \A s \in Seq(Int), t \in Seq(Nat) :
        Len(s) = Len(t) /\ (\A i \in 1..Len(t) : s[i] = t[i]) => s = t
  OBVIOUS
<1>5. native.lengths = Lengths
  BY <1>2, <1>3, <1>4
<1> QED BY <1>1, <1>5 DEF Lengths

\* FFTW's provider counts again what was counted before.
LEMMA Recounted ==
    ASSUME IInv, pc = "fftw", axis <= Rank
    PROVE  /\ ~ Overflows(elements, Length)
           /\ Wrapped(elements * Length) = Batch * Product(Lengths, axis)
           /\ Batch * Product(Lengths, axis) \in Nat
<1>1. pc \in Known
  BY DEF Known, Providers
<1>2. /\ axis \in 1..3 /\ axis - 1 \in 0..2 /\ Length = Lengths[axis] /\ Length \in Nat
      /\ Length > 0 /\ SizeMax \in Nat
  BY <1>1, AxisKnown, SizeAssumption
<1>3. /\ Batch \in Nat /\ Size \in Nat /\ Batch * Size <= SizeMax
      /\ Lengths \in Seq(Nat) /\ Rank = Len(Lengths) /\ Rank \in 1..3
      /\ \A i \in 1..Len(Lengths) : Lengths[i] > 0
  BY <1>1, SizeKnown, RequestTypes DEF IInv
<1>4. elements = Batch * Product(Lengths, axis - 1) /\ elements \in Nat
  BY DEF IInv, NativeInv, TypeInv
<1>5. /\ Product(Lengths, axis - 1) \in Nat /\ Product(Lengths, axis) \in Nat
      /\ Product(Lengths, axis) = Product(Lengths, axis - 1) * Length
      /\ Product(Lengths, axis) <= Size
  <2>1. axis - 1 < Len(Lengths) /\ (axis - 1) + 1 = axis
    BY <1>2, <1>3
  <2>2. Size = Product(Lengths, Len(Lengths))
    BY <1>3 DEF Size, Lengths
  <2> QED BY <1>2, <1>3, <2>1, <2>2, ProductStep, ProductGrows
<1>6. elements * Length = Batch * Product(Lengths, axis)
  BY <1>2, <1>3, <1>4, <1>5
<1>7. Batch * Product(Lengths, axis) <= Batch * Size
  BY <1>3, <1>5
<1>8. elements * Length \in Nat /\ elements * Length <= SizeMax
  <2>1. elements * Length \in Nat /\ Batch * Size \in Nat
    BY <1>2, <1>3, <1>4
  <2> QED BY <1>2, <1>3, <1>6, <1>7, <2>1
<1>9. ~ Overflows(elements, Length)
  BY <1>2, <1>4, <1>8, DivisionTest DEF Overflows
<1> QED BY <1>6, <1>8, <1>9, WrappedSmall

\* What both loops over the lengths leave alone.
LEMMA ConvertFrame ==
    ASSUME IInv, pc \in {"fftw", "cufft"}, axis <= Rank, axis' = axis + 1, elements' \in Nat,
           UNCHANGED <<pc, refusal, request, count, size, power, tables, scratch>>
    PROVE  /\ TypeInv' /\ ArgumentsInv' /\ AxisInv' /\ CountInv' /\ SizeInv' /\ PowerInv'
           /\ TablesInv' /\ NativeExact' /\ RefusedForCause'
<1>1. /\ Rank' = Rank /\ Lengths' = Lengths /\ Batch' = Batch /\ Size' = Size
  BY SameRequest
<1>2. pc \in Known
  BY DEF Known, Providers
<1>3. axis \in 1..3 /\ Rank \in 1..3
  BY <1>2, AxisKnown, SizeKnown
<1>4. TypeInv'
  BY <1>3 DEF IInv, TypeInv
<1>5. CountInv' /\ ArgumentsInv'
  BY <1>2, CountKept
<1>6. AxisInv'
  BY <1>1, <1>3 DEF IInv, AxisInv
<1>7. SizeInv' /\ PowerInv'
  BY <1>1 DEF IInv, SizeInv, PowerInv
<1>8. TablesInv'
  BY <1>1 DEF IInv, TablesInv
<1>9. NativeExact' /\ RefusedForCause'
  BY NotRefused DEF IInv, NativeExact
<1> QED BY <1>4, <1>5, <1>6, <1>7, <1>8, <1>9

\* A refusal because of an int names a length, the batch or the distance.
LEMMA IntRefused ==
    ASSUME IInv, Refuse("int"),
           \/ pc \in Known /\ axis <= Rank /\ Length > IntMax
           \/ Batch > IntMax \/ Size > IntMax
    PROVE  IInv'
<1>1. UNCHANGED request /\ refusal' = "int"
  BY DEF Refuse
<1>2. /\ Size' = Size /\ Batch' = Batch
  BY <1>1, SameRequest
<1>3. \/ \E i \in DOMAIN request.lengths : request.lengths[i] > IntMax
      \/ Batch > IntMax \/ Size > IntMax
  <2>1. CASE pc \in Known /\ axis <= Rank /\ Length > IntMax
    <3>1. axis \in 1..Rank /\ Length = Lengths[axis]
      BY <2>1, AxisKnown
    <3>2. Lengths \in Seq(Nat) /\ Rank = Len(Lengths)
      BY RequestTypes DEF IInv
    <3>3. axis \in DOMAIN Lengths
      BY <3>1, <3>2
    <3> QED BY <2>1, <3>1, <3>3 DEF Lengths
  <2> QED BY <2>1
<1>4. RefusedForCause'
  BY <1>1, <1>2, <1>3 DEF RefusedForCause, Batch
<1> QED BY <1>4, RefuseStep

LEMMA ConvertFftwLengthStep ==
    ASSUME IInv, ConvertFftwLength
    PROVE  IInv'
<1>1. pc = "fftw" /\ axis <= Rank /\ pc \in Known
  BY DEF ConvertFftwLength, Known, Providers
<1>2. CASE Length > IntMax /\ Refuse("int")
  BY <1>1, <1>2, IntRefused
<1>3. CASE /\ ~ (Length > IntMax) /\ Again
           /\ elements' = Wrapped(elements * Length)
           /\ native' = [native EXCEPT !.lengths = Append(@, ToInt(Length))]
           /\ UNCHANGED <<request, count, size, power, tables, scratch>>
  <2>1. axis' = axis + 1 /\ UNCHANGED <<pc, refusal>>
    BY <1>3 DEF Again
  <2>2. elements' = Batch * Product(Lengths, axis) /\ elements' \in Nat
    BY <1>1, <1>3, Recounted
  <2>3. /\ TypeInv' /\ ArgumentsInv' /\ AxisInv' /\ CountInv' /\ SizeInv' /\ PowerInv'
        /\ TablesInv' /\ NativeExact' /\ RefusedForCause'
    BY <1>1, <1>3, <2>1, <2>2, ConvertFrame
  <2>4. NativeInv'
    <3>1. /\ native' \in [lengths : Seq(Int), batch : Int, distance : Int]
          /\ Len(native'.lengths) = axis' - 1
          /\ \A i \in 1..(axis' - 1) : native'.lengths[i] = Lengths[i]
      BY <1>1, <1>3, <2>1, LengthConverted
    <3>2. axis' - 1 = axis
      BY <1>1, <2>1, AxisKnown
    <3>3. /\ Lengths' = Lengths /\ Batch' = Batch
      BY <1>3, SameRequest
    <3> QED BY <1>1, <2>1, <2>2, <3>1, <3>2, <3>3 DEF NativeInv
  <2> QED BY <2>3, <2>4 DEF IInv
<1> QED BY <1>1, <1>2, <1>3, Recounted DEF ConvertFftwLength

LEMMA ConvertCufftLengthStep ==
    ASSUME IInv, ConvertCufftLength
    PROVE  IInv'
<1>1. pc = "cufft" /\ axis <= Rank /\ pc \in Known
  BY DEF ConvertCufftLength, Known, Providers
<1>2. CASE Length > IntMax /\ Refuse("int")
  BY <1>1, <1>2, IntRefused
<1>3. CASE /\ ~ (Length > IntMax) /\ Again
           /\ native' = [native EXCEPT !.lengths = Append(@, ToInt(Length))]
           /\ UNCHANGED <<request, count, size, power, tables, scratch, elements>>
  <2>1. axis' = axis + 1 /\ UNCHANGED <<pc, refusal>>
    BY <1>3 DEF Again
  <2>2. elements' \in Nat
    BY <1>3 DEF IInv, TypeInv
  <2>3. /\ TypeInv' /\ ArgumentsInv' /\ AxisInv' /\ CountInv' /\ SizeInv' /\ PowerInv'
        /\ TablesInv' /\ NativeExact' /\ RefusedForCause'
    BY <1>1, <1>3, <2>1, <2>2, ConvertFrame
  <2>4. NativeInv'
    <3>1. /\ native' \in [lengths : Seq(Int), batch : Int, distance : Int]
          /\ Len(native'.lengths) = axis' - 1
          /\ \A i \in 1..(axis' - 1) : native'.lengths[i] = Lengths[i]
      BY <1>1, <1>3, <2>1, LengthConverted
    <3>2. Lengths' = Lengths
      BY <1>3, SameRequest
    <3> QED BY <1>1, <2>1, <3>1, <3>2 DEF NativeInv
  <2> QED BY <2>3, <2>4 DEF IInv
<1> QED BY <1>2, <1>3 DEF ConvertCufftLength

\* What the conversions of the batch leave alone.
LEMMA ReadyFrame ==
    ASSUME IInv, pc \in {"fftw", "cufft"}, pc' = "ready", axis' = 1,
           UNCHANGED <<refusal, request, count, size, power, tables, scratch, elements>>
    PROVE  /\ TypeInv' /\ ArgumentsInv' /\ AxisInv' /\ CountInv' /\ SizeInv' /\ PowerInv'
           /\ TablesInv' /\ RefusedForCause'
<1>1. /\ Rank' = Rank /\ Lengths' = Lengths /\ Batch' = Batch /\ Size' = Size
  BY SameRequest
<1>2. pc \in Known /\ pc' \in Known /\ request.provider # "portable_sycl"
  BY DEF IInv, AxisInv, Known, Providers
<1>3. TypeInv'
  BY <1>2 DEF IInv, TypeInv
<1>4. CountInv' /\ ArgumentsInv'
  BY <1>2, CountKept
<1>5. AxisInv' /\ PowerInv'
  BY DEF AxisInv, PowerInv, Providers
<1>6. SizeInv'
  BY <1>1 DEF IInv, SizeInv, Providers
<1>7. TablesInv'
  BY <1>1, <1>2 DEF IInv, TablesInv
<1>8. RefusedForCause'
  BY NotRefused DEF IInv
<1> QED BY <1>3, <1>4, <1>5, <1>6, <1>7, <1>8

LEMMA ConvertFftwBatchStep ==
    ASSUME IInv, ConvertFftwBatch
    PROVE  IInv'
<1>1. pc = "fftw" /\ axis > Rank /\ pc \in Known
  BY DEF ConvertFftwBatch, Known, Providers
<1>2. axis = Rank + 1 /\ native.lengths = request.lengths
  BY <1>1, LengthsConverted
<1>3. Batch \in Nat /\ Batch > 0 /\ Size \in Nat /\ Rank \in Nat /\ IntMax \in Nat
  BY <1>1, SizeKnown, RequestTypes, SizeAssumption DEF IInv
<1>4. elements = Batch * Size /\ Distance = Size
  <2>1. axis - 1 = Rank
    BY <1>2, <1>3
  <2>2. elements = Batch * Size
    BY <1>1, <2>1 DEF IInv, NativeInv, Size, Lengths
  <2> QED BY <1>3, <2>2, ExactDivision DEF Distance, Batch
<1>5. CASE (Batch > IntMax \/ Distance > IntMax) /\ Refuse("int")
  BY <1>4, <1>5, IntRefused
<1>6. CASE /\ ~ (Batch > IntMax) /\ ~ (Distance > IntMax) /\ Loop("ready")
           /\ native' = [native EXCEPT !.batch = ToInt(Batch), !.distance = ToInt(Distance)]
           /\ UNCHANGED <<request, count, size, power, tables, scratch, elements>>
  <2>1. pc' = "ready" /\ axis' = 1 /\ UNCHANGED refusal
    BY <1>6 DEF Loop
  <2>2. /\ TypeInv' /\ ArgumentsInv' /\ AxisInv' /\ CountInv' /\ SizeInv' /\ PowerInv'
        /\ TablesInv' /\ RefusedForCause'
    BY <1>1, <1>6, <2>1, ReadyFrame
  <2>3. ToInt(Batch) = Batch /\ ToInt(Distance) = Size
    <3>1. Batch <= IntMax /\ Size <= IntMax
      BY <1>3, <1>4, <1>6
    <3> QED BY <1>3, <1>4, <3>1, ToIntSmall
  <2>4. /\ native' \in [lengths : Seq(Int), batch : Int, distance : Int]
        /\ native'.lengths = native.lengths /\ native'.batch = Batch /\ native'.distance = Size
    <3>1. native \in [lengths : Seq(Int), batch : Int, distance : Int]
      BY DEF IInv, NativeInv
    <3>2. Batch \in Int /\ Size \in Int
      BY <1>3
    <3>3. native' = [[native EXCEPT !.batch = Batch] EXCEPT !.distance = Size]
      BY <1>6, <2>3, <3>1
    <3> QED BY <3>1, <3>2, <3>3
  <2>5. NativeInv'
    BY <2>1, <2>4 DEF NativeInv
  <2>6. NativeExact'
    <3>1. Size' = Size /\ Batch' = Batch
      BY <1>6, SameRequest
    <3> QED BY <1>2, <1>4, <1>6, <2>4, <3>1 DEF NativeExact, Batch
  <2> QED BY <2>2, <2>5, <2>6 DEF IInv
<1> QED BY <1>5, <1>6 DEF ConvertFftwBatch, Batch

LEMMA ConvertCufftBatchStep ==
    ASSUME IInv, ConvertCufftBatch
    PROVE  IInv'
<1>1. pc = "cufft" /\ axis > Rank /\ pc \in Known /\ request.provider = "cufft"
  BY DEF ConvertCufftBatch, IInv, AxisInv, Known, Providers
<1>2. axis = Rank + 1 /\ native.lengths = request.lengths
  BY <1>1, LengthsConverted
<1>3. Batch \in Nat /\ IntMax \in Nat
  BY RequestTypes, SizeAssumption DEF IInv
<1>4. CASE Batch > IntMax /\ Refuse("int")
  BY <1>4, IntRefused
<1>5. CASE /\ ~ (Batch > IntMax) /\ Loop("ready")
           /\ native' = [native EXCEPT !.batch = ToInt(Batch)]
           /\ UNCHANGED <<request, count, size, power, tables, scratch, elements>>
  <2>1. pc' = "ready" /\ axis' = 1 /\ UNCHANGED refusal
    BY <1>5 DEF Loop
  <2>2. /\ TypeInv' /\ ArgumentsInv' /\ AxisInv' /\ CountInv' /\ SizeInv' /\ PowerInv'
        /\ TablesInv' /\ RefusedForCause'
    BY <1>1, <1>5, <2>1, ReadyFrame
  <2>3. ToInt(Batch) = Batch
    <3>1. Batch <= IntMax
      BY <1>3, <1>5
    <3> QED BY <1>3, <3>1, ToIntSmall
  <2>4. /\ native' \in [lengths : Seq(Int), batch : Int, distance : Int]
        /\ native'.lengths = native.lengths /\ native'.batch = Batch
    <3>1. native \in [lengths : Seq(Int), batch : Int, distance : Int]
      BY DEF IInv, NativeInv
    <3> QED BY <1>3, <1>5, <2>3, <3>1
  <2>5. NativeInv'
    BY <2>1, <2>4 DEF NativeInv
  <2>6. NativeExact'
    BY <1>1, <1>2, <1>5, <2>4 DEF NativeExact, Batch
  <2> QED BY <2>2, <2>5, <2>6 DEF IInv
<1> QED BY <1>4, <1>5 DEF ConvertCufftBatch, Batch

-----------------------------------------------------------------------------
(* The theorems.                                                            *)

LEMMA Stutter ==
    ASSUME IInv, UNCHANGED vars
    PROVE  IInv'
<1> USE DEF vars
<1>1. /\ Rank' = Rank /\ Lengths' = Lengths /\ Batch' = Batch /\ Size' = Size /\ Length' = Length
  BY SameRequest DEF Length
<1>2. TypeInv' /\ ArgumentsInv' /\ AxisInv'
  BY <1>1 DEF IInv, TypeInv, ArgumentsInv, AxisInv
<1>3. CountInv' /\ SizeInv' /\ PowerInv'
  BY <1>1 DEF IInv, CountInv, SizeInv, PowerInv
<1>4. TablesInv' /\ NativeInv'
  BY <1>1 DEF IInv, TablesInv, NativeInv
<1>5. NativeExact' /\ RefusedForCause'
  BY <1>1 DEF IInv, NativeExact, RefusedForCause
<1> QED BY <1>2, <1>3, <1>4, <1>5 DEF IInv

\* The inductive invariant holds in every reachable state of every constructor
\* (provider_loader.cpp:112-132, sycl.cpp:520-544, fftw_provider.cpp:145-171,
\* cufft_provider.cpp:72-105).
THEOREM SizesInvariance == Spec => []IInv
<1>1. IInv /\ [Next]_vars => IInv'
  <2> SUFFICES ASSUME IInv, [Next]_vars PROVE IInv'
    OBVIOUS
  <2>1. CASE CheckArguments
    BY <2>1, CheckArgumentsStep
  <2>2. CASE CountLength
    BY <2>2, CountLengthStep
  <2>3. CASE Counted
    BY <2>3, CountedStep
  <2>4. CASE MultiplyLength
    BY <2>4, MultiplyLengthStep
  <2>5. CASE Multiplied
    BY <2>5, MultipliedStep
  <2>6. CASE DirectAxis
    BY <2>6, DirectAxisStep
  <2>7. CASE BluesteinAxis
    BY <2>7, BluesteinAxisStep
  <2>8. CASE Double
    BY <2>8, DoubleStep
  <2>9. CASE Doubled
    BY <2>9, DoubledStep
  <2>10. CASE AxesDone
    BY <2>10, AxesDoneStep
  <2>11. CASE ConvertFftwLength
    BY <2>11, ConvertFftwLengthStep
  <2>12. CASE ConvertFftwBatch
    BY <2>12, ConvertFftwBatchStep
  <2>13. CASE ConvertCufftLength
    BY <2>13, ConvertCufftLengthStep
  <2>14. CASE ConvertCufftBatch
    BY <2>14, ConvertCufftBatchStep
  <2>15. CASE Terminated \/ UNCHANGED vars
    BY <2>15, Stutter DEF Terminated
  <2> QED BY <2>1, <2>2, <2>3, <2>4, <2>5, <2>6, <2>7, <2>8, <2>9, <2>10, <2>11, <2>12, <2>13,
             <2>14, <2>15 DEF Next
<1> QED BY Initial, <1>1, PTL DEF Spec

\* The accepted counts are the products of the lengths and the batch, also the
\* one that common.hpp:120-127 computes without a test (provider_loader.cpp:
\* 120-131).
THEOREM ExactCounts == Spec => []CountsExact
<1>1. IInv => CountsExact
  <2> SUFFICES ASSUME IInv PROVE CountsExact
    OBVIOUS
  <2>1. pc \in Known => count = Batch * Size /\ count <= SizeMax
    BY SizeKnown
  <2>2. pc \in {"doubling", "ready"} \union Providers => size = Size
    BY DEF IInv, SizeInv
  <2> QED BY <2>1, <2>2 DEF CountsExact, Known, Batch
<1> QED BY SizesInvariance, <1>1, PTL

\* No constructor refuses a size that fits its type (provider_loader.cpp:126,
\* sycl.cpp:38, 530-542, fftw_provider.cpp:149-170, cufft_provider.cpp:76-86).
THEOREM RefusalsJustified == Spec => []RefusedForCause
<1>1. IInv => RefusedForCause
  BY DEF IInv
<1> QED BY SizesInvariance, <1>1, PTL

\* Every convolution length is long enough and less than twice what is needed,
\* whatever the width of size_t (sycl.cpp:530-535).
THEOREM ConvolutionsFit == Spec => []ConvolutionFits
<1>1. IInv => ConvolutionFits
  BY DEF IInv, TablesInv, ConvolutionFits, Lengths
<1> QED BY SizesInvariance, <1>1, PTL

\* The scratch is large enough for the input and every expanded axis, in any
\* order of the axes (sycl.cpp:520-544).
THEOREM ScratchSuffices == Spec => []ScratchCovers
<1>1. IInv => ScratchCovers
  <2> SUFFICES ASSUME IInv, pc = "ready", request.provider = "portable_sycl"
               PROVE  /\ scratch >= Batch * Size
                      /\ \A t \in tables :
                           scratch * Lengths[t.axis] >= (Batch * Size) * t.convolution
    BY DEF ScratchCovers, Lengths, Batch
  <2>1. count = Batch * Size /\ count \in Nat
    BY SizeKnown DEF IInv, TypeInv, Known
  <2>2. scratch \in Nat /\ count <= scratch
    BY DEF IInv, TypeInv, TablesInv
  <2>3. ASSUME NEW t \in tables
        PROVE  scratch * Lengths[t.axis] >= (Batch * Size) * t.convolution
    <3>1. /\ t.axis \in 1..Rank /\ t.convolution \in Nat
          /\ (Batch * Size) * t.convolution <= scratch * Lengths[t.axis]
      BY DEF IInv, TablesInv
    <3>2. Lengths[t.axis] \in Nat
      BY <3>1, RequestTypes DEF IInv
    <3>3. scratch * Lengths[t.axis] \in Nat /\ (Batch * Size) * t.convolution \in Nat
      BY <2>1, <2>2, <3>1, <3>2
    <3> QED BY <3>1, <3>3
  <2> QED BY <2>1, <2>2, <2>3
<1> QED BY SizesInvariance, <1>1, PTL

\* FFTW and cuFFT get exactly the lengths, the batch and the distance as ints
\* (fftw_provider.cpp:149-171, cufft_provider.cpp:76-105).
THEOREM NativeIntsExact == Spec => []NativeExact
<1>1. IInv => NativeExact
  BY DEF IInv
<1> QED BY SizesInvariance, <1>1, PTL
=============================================================================
