---------------------- MODULE PortableTransformProofs ----------------------
(***************************************************************************)
(* Proofs about PortableTransform, for every list of plans, every shape    *)
(* and every batch count that PlansAssumption admits: no kernel touches an *)
(* element beyond its array, the work items of a kernel are independent of *)
(* one another, and an execution out of place leaves its input alone.      *)
(*                                                                         *)
(* The argument has three layers.  First, what the loops of the planner    *)
(* return: the factors multiply to the length, next_power_of_two returns a *)
(* power of two that is not below its argument, the reversed index of an   *)
(* element is the index of an element.  Then, what the items of one kernel *)
(* read and write: every index is a numeral in a mixed radix (block, place *)
(* in the line, offset in the stride), so it is below the product of the   *)
(* radices and no two items have the same one.  Last, the invariant: the   *)
(* arrays keep their sizes and every kernel that is left to run fits the   *)
(* arrays it is given.                                                     *)
(***************************************************************************)
EXTENDS PortableTransform, Induction, FiniteSetTheorems

-----------------------------------------------------------------------------
(* Whole numbers: division with remainder, numerals with two digits.       *)

Positive == Nat \ {0}

\* Quotient and remainder.
LEMMA DivMod ==
  ASSUME NEW a \in Nat, NEW b \in Nat \ {0}
  PROVE  a = (a \div b) * b + (a % b) /\ a % b \in 0..(b - 1) /\ a \div b \in Nat
OBVIOUS

\* Multiplication is monotonic.
LEMMA Times ==
  ASSUME NEW a \in Nat, NEW b \in Nat, NEW c \in Nat, a <= b
  PROVE  a * c <= b * c /\ a * c \in Nat /\ b * c \in Nat
OBVIOUS

\* A product is not below its factors.
LEMMA TimesPositive ==
  ASSUME NEW a \in Nat \ {0}, NEW b \in Nat \ {0}
  PROVE  a * b \in Nat \ {0} /\ a <= a * b /\ b <= a * b
OBVIOUS

\* A numeral with two digits is below the product of the radices.
LEMMA Below ==
  ASSUME NEW B \in Nat, NEW H \in Nat, NEW h \in 0..(H - 1), NEW l \in 0..(B - 1)
  PROVE  h * B + l \in 0..(H * B - 1)
<1>1. (h + 1) * B <= H * B /\ (h + 1) * B = h * B + B /\ h * B \in Nat
  BY Times
<1>2. H * B \in Nat
  BY Times
<1> QED BY <1>1, <1>2

\* The digits of a numeral are unique.
LEMMA Digits ==
  ASSUME NEW B \in Nat, NEW h \in Nat, NEW g \in Nat, NEW l \in 0..(B - 1),
           NEW k \in 0..(B - 1),
         h * B + l = g * B + k
  PROVE  h = g /\ l = k
<1>1. ASSUME NEW x \in Nat, NEW y \in Nat, NEW u \in 0..(B - 1), NEW v \in 0..(B - 1),
             x * B + u = y * B + v, x < y
      PROVE  FALSE
  <2>1. (x + 1) * B <= y * B /\ (x + 1) * B = x * B + B /\ x * B \in Nat /\ y * B \in Nat
    BY <1>1, Times
  <2> QED BY <2>1, <1>1
<1>2. h = g
  BY <1>1
<1> QED BY <1>2

\* Quotient and remainder of a numeral are its digits.
LEMMA DivModUnique ==
  ASSUME NEW b \in Nat \ {0}, NEW q \in Nat, NEW r \in 0..(b - 1)
  PROVE  (q * b + r) \div b = q /\ (q * b + r) % b = r
<1> DEFINE a == q * b + r
<1>1. a \in Nat
  OBVIOUS
<1>2. a = (a \div b) * b + (a % b) /\ a % b \in 0..(b - 1) /\ a \div b \in Nat
  BY <1>1, DivMod
<1>3. PICK x \in Nat, y \in 0..(b - 1) : x = a \div b /\ y = a % b /\ a = x * b + y
  BY <1>2
<1>4. x = q /\ y = r
  BY <1>3, Digits
<1> QED BY <1>3, <1>4

\* Division undoes multiplication.
LEMMA ExactDiv ==
  ASSUME NEW b \in Nat \ {0}, NEW q \in Nat
  PROVE  (q * b) \div b = q
<1>1. 0 \in 0..(b - 1) /\ q * b + 0 = q * b
  OBVIOUS
<1> QED BY <1>1, DivModUnique

\* The quotient is the high digit.
LEMMA DivBelow ==
  ASSUME NEW B \in Nat \ {0}, NEW H \in Nat, NEW a \in 0..(H * B - 1)
  PROVE  a \div B \in 0..(H - 1)
<1>1. H * B \in Nat /\ a \in Nat
  BY Times
<1>2. PICK x \in Nat, y \in 0..(B - 1) : x = a \div B /\ a = x * B + y
  BY <1>1, DivMod
<1>3. x < H
  <2> SUFFICES ASSUME H <= x PROVE FALSE
    BY <1>2
  <2>1. H * B <= x * B
    BY Times
  <2> QED BY <2>1, <1>1, <1>2
<1> QED BY <1>2, <1>3

-----------------------------------------------------------------------------
(* Products: the stages of a transform multiply to its length.             *)

\* The partial products of a sequence.
Multiplies(F, s) ==
    /\ F \in [0..Len(s) -> Positive] /\ F[0] = 1
    /\ \A i \in 1..Len(s) : F[i] = F[i - 1] * s[i]

\* Product goes through the partial products.
LEMMA ProductSteps ==
  ASSUME NEW s \in Seq(Positive)
  PROVE  \E F : Multiplies(F, s) /\ F[Len(s)] = Product(s)
<1> DEFINE n == Len(s)
           R(g) == g = [t \in SUBSET (1..n) |->
                          IF t = {} THEN 1 ELSE g[t \ {Max(t)}] * s[Max(t)]]
           Step == [i \in 1..n |-> [x \in Positive |-> x * s[i]]]
<1>1. n \in Nat /\ DOMAIN s = 1..n /\ \A i \in 1..n : s[i] \in Positive
  OBVIOUS
<1>2. Step \in [1..n -> [Positive -> Positive]] /\ 1 \in Positive
  BY <1>1, TimesPositive DEF Positive
<1>3. \E g : R(g)
  <2>1. PICK g : FoldsBy(g, n, Positive, 1, Step)
    <3> HIDE DEF Step, n
    <3> QED BY <1>1, <1>2, FoldExists
  <2>2. ASSUME NEW t \in SUBSET (1..n)
        PROVE  g[t] = IF t = {} THEN 1 ELSE g[t \ {Max(t)}] * s[Max(t)]
    <3>1. t # {} => Max(t) \in 1..n
      BY <1>1, MaxIsGreatest
    <3>2. g[t \ {Max(t)}] \in Positive /\ g[t] = IF t = {}
            THEN 1 ELSE Step[Max(t)][g[t \ {Max(t)}]]
      BY <2>1 DEF FoldsBy
    <3> QED BY <3>1, <3>2
  <2>3. DOMAIN g = SUBSET (1..n) /\ g = [t \in DOMAIN g |-> g[t]]
    BY <2>1 DEF FoldsBy
  <2> QED BY <2>2, <2>3
<1>4. PICK g : R(g) /\ Product(s) = g[1..n]
  <2>1. Product(s) = (CHOOSE g : R(g))[1..n]
    BY <1>1 DEF Product, FoldLeft, MapThenFoldSet
  <2>2. R(CHOOSE g : R(g))
    <3> HIDE DEF R
    <3> QED BY <1>3
  <2> QED BY <2>1, <2>2
<1>5. g[{}] = 1
  BY <1>4
<1>6. ASSUME NEW i \in 1..n, g[1..(i - 1)] \in Positive
      PROVE  g[1..i] = Step[i][g[1..(i - 1)]]
  <2>1. Max(1..i) = i /\ (1..i) \ {i} = 1..(i - 1) /\ 1..i \in SUBSET (1..n) /\ 1..i # {}
    BY <1>1, MaxOfFirst
  <2>2. g[1..i] = g[(1..i) \ {Max(1..i)}] * s[Max(1..i)]
    BY <2>1, <1>4
  <2>3. g[1..i] = g[1..(i - 1)] * s[i]
    BY <2>1, <2>2
  <2> QED BY <2>3, <1>6
<1>7. PICK F : Steps(F, n, Positive, 1, Step) /\ F[n] = g[1..n]
  <2> HIDE DEF Step, n, R
  <2> QED BY <1>1, <1>2, <1>5, <1>6, FoldSteps
<1>8. ASSUME NEW i \in 1..n PROVE F[i] = F[i - 1] * s[i]
  <2>1. F[i - 1] \in Positive /\ F[i] = Step[i][F[i - 1]]
    <3>1. i - 1 \in 0..n
      BY <1>1
    <3> HIDE DEF Step, n
    <3> QED BY <1>7, <3>1 DEF Steps
  <2> QED BY <2>1
<1>9. Multiplies(F, s)
  BY <1>7, <1>8 DEF Steps, Multiplies
<1> QED BY <1>9, <1>7, <1>4

\* Two sequences that begin alike have the same first partial products.
StartAlike(s, t, k) ==
    k \in Nat /\ k <= Len(s) /\ k <= Len(t) /\ \A i \in 1..k : s[i] = t[i]

\* Sequences that begin alike have the same partial products.
LEMMA MultipliesAlike ==
  ASSUME NEW s \in Seq(Positive), NEW t \in Seq(Positive), NEW F, NEW G,
         Multiplies(F, s), Multiplies(G, t), NEW k, StartAlike(s, t, k)
  PROVE  F[k] = G[k]
<1> k \in Nat /\ k <= Len(s) /\ k <= Len(t) /\ \A i \in 1..k : s[i] = t[i]
  BY DEF StartAlike
<1> DEFINE Alike == {i \in Nat : i <= k => F[i] = G[i]}
<1>1. 0 \in Alike
  BY DEF Multiplies
<1>2. ASSUME NEW i \in Nat, i \in Alike PROVE i + 1 \in Alike
  <2> SUFFICES ASSUME i + 1 <= k PROVE F[i + 1] = G[i + 1]
    OBVIOUS
  <2>1. i + 1 \in 1..Len(s) /\ i + 1 \in 1..Len(t) /\ i + 1 \in 1..k /\ (i + 1) - 1 = i
    OBVIOUS
  <2>2. F[i + 1] = F[i] * s[i + 1] /\ G[i + 1] = G[i] * t[i + 1]
    BY <2>1 DEF Multiplies
  <2>3. F[i] = G[i] /\ s[i + 1] = t[i + 1]
    BY <1>2, <2>1
  <2> QED BY <2>2, <2>3
<1>3. k \in Alike
  <2> HIDE DEF Alike
  <2> QED BY <1>1, <1>2, ClosedUnderSuccessor
<1> QED BY <1>3

\* What SubSeq returns.
LEMMA SubSeqFacts ==
  ASSUME NEW s \in Seq(Positive), NEW a \in 1..(Len(s) + 1), NEW b \in 0..Len(s), a <= b + 1
  PROVE  /\ SubSeq(s, a, b) \in Seq(Positive) /\ Len(SubSeq(s, a, b)) = b - a + 1
         /\ \A i \in 1..(b - a + 1) : SubSeq(s, a, b)[i] = s[a + i - 1]
OBVIOUS

\* The product of a sequence is that of its first elements times that of the rest.
LEMMA ProductSplit ==
  ASSUME NEW s \in Seq(Positive), NEW k \in 0..Len(s)
  PROVE  Product(s) = Product(SubSeq(s, 1, k)) * Product(SubSeq(s, k + 1, Len(s)))
<1> DEFINE p == SubSeq(s, 1, k)
           q == SubSeq(s, k + 1, Len(s))
<1>0. Len(s) \in Nat /\ k \in Nat /\ k <= Len(s)
  OBVIOUS
<1>1. /\ p \in Seq(Positive) /\ Len(p) = k /\ \A i \in 1..k : p[i] = s[i]
      /\ q \in Seq(Positive) /\ Len(q) = Len(s) - k /\ \A i \in 1..(Len(s) - k) :
           q[i] = s[k + i]
  BY SubSeqFacts
<1> HIDE DEF p, q
<1>2. PICK F : Multiplies(F, s) /\ F[Len(s)] = Product(s)
  BY ProductSteps
<1>3. PICK G : Multiplies(G, p) /\ G[k] = Product(p)
  BY <1>1, ProductSteps
<1>4. PICK H : Multiplies(H, q) /\ H[Len(s) - k] = Product(q)
  BY <1>1, ProductSteps
<1>5. F[k] = G[k] /\ G[k] \in Positive
  <2>1. StartAlike(s, p, k)
    BY <1>0, <1>1 DEF StartAlike
  <2>2. F[k] = G[k]
    BY <2>1, <1>1, <1>2, <1>3, MultipliesAlike
  <2> QED BY <2>2, <1>0, <1>1, <1>3 DEF Multiplies
<1> DEFINE Good == {i \in Nat : i <= Len(s) - k => F[k + i] = F[k] * H[i]}
<1>6. 0 \in Good
  BY <1>4, <1>5, <1>0 DEF Multiplies, Positive
<1>7. ASSUME NEW i \in Nat, i \in Good PROVE i + 1 \in Good
  <2> SUFFICES ASSUME i + 1 <= Len(s) - k PROVE F[k + (i + 1)] = F[k] * H[i + 1]
    OBVIOUS
  <2>1. /\ k + (i + 1) \in 1..Len(s) /\ (k + (i + 1)) - 1 = k + i /\ (i + 1) - 1 = i
        /\ i + 1 \in 1..(Len(s) - k) /\ i \in 0..(Len(s) - k)
    BY <1>0
  <2>2. F[k + (i + 1)] = F[k + i] * s[k + (i + 1)]
    BY <2>1, <1>2 DEF Multiplies
  <2>3. H[i + 1] = H[i] * s[k + (i + 1)]
    BY <2>1, <1>1, <1>4 DEF Multiplies
  <2>4. F[k + i] = F[k] * H[i]
    BY <2>1, <1>7
  <2>5. F[k] \in Positive /\ H[i] \in Positive /\ s[k + (i + 1)] \in Positive
    <3>1. F[k] \in Positive
      BY <1>5
    <3>2. H[i] \in Positive
      BY <2>1, <1>1, <1>4 DEF Multiplies
    <3>3. s[k + (i + 1)] \in Positive
      BY <2>1
    <3> QED BY <3>1, <3>2, <3>3
  <2>6. PICK x \in Positive, y \in Positive, z \in Positive :
            x = F[k] /\ y = H[i] /\ z = s[k + (i + 1)]
    BY <2>5
  <2>7. (x * y) * z = x * (y * z)
    BY DEF Positive
  <2> QED BY <2>2, <2>3, <2>4, <2>6, <2>7
<1>8. Len(s) - k \in Good
  <2>1. Nat \subseteq Good
    <3> HIDE DEF Good
    <3> QED BY <1>6, <1>7, ClosedUnderSuccessor
  <2>2. Len(s) - k \in Nat
    BY <1>0
  <2> HIDE DEF Good
  <2> QED BY <2>1, <2>2
<1>9. F[k + (Len(s) - k)] = F[k] * H[Len(s) - k]
  BY <1>8
<1>10. k + (Len(s) - k) = Len(s)
  BY <1>0
<1>11. Product(s) = Product(p) * Product(q)
  BY <1>2, <1>3, <1>4, <1>5, <1>9, <1>10
<1> QED BY <1>11 DEF p, q

\* A product of positive numbers is positive.
LEMMA ProductType ==
  ASSUME NEW s \in Seq(Positive)
  PROVE  Product(s) \in Positive
<1>1. PICK F : Multiplies(F, s) /\ F[Len(s)] = Product(s)
  BY ProductSteps
<1> QED BY <1>1 DEF Multiplies

\* One more factor.
LEMMA ProductNext ==
  ASSUME NEW s \in Seq(Positive), NEW k \in 1..Len(s)
  PROVE  Product(SubSeq(s, 1, k)) = Product(SubSeq(s, 1, k - 1)) * s[k]
<1> DEFINE p == SubSeq(s, 1, k)
           q == SubSeq(s, 1, k - 1)
<1>1. /\ p \in Seq(Positive) /\ Len(p) = k /\ \A i \in 1..k : p[i] = s[i]
      /\ q \in Seq(Positive) /\ Len(q) = k - 1 /\ \A i \in 1..(k - 1) : q[i] = s[i]
  BY SubSeqFacts
<1> HIDE DEF p, q
<1>2. PICK F : Multiplies(F, p) /\ F[k] = Product(p)
  BY <1>1, ProductSteps
<1>3. PICK G : Multiplies(G, q) /\ G[k - 1] = Product(q)
  BY <1>1, ProductSteps
<1>4. F[k - 1] = G[k - 1]
  <2>1. StartAlike(p, q, k - 1)
    BY <1>1 DEF StartAlike
  <2> QED BY <2>1, <1>1, <1>2, <1>3, MultipliesAlike
<1>5. F[k] = F[k - 1] * s[k]
  BY <1>1, <1>2 DEF Multiplies
<1>6. Product(p) = Product(q) * s[k]
  BY <1>2, <1>3, <1>4, <1>5
<1> QED BY <1>6 DEF p, q

\* The elements before the a-th, the a-th, and those after it.
LEMMA ProductAround ==
  ASSUME NEW s \in Seq(Positive), NEW a \in 1..Len(s)
  PROVE  Product(s) = (Product(SubSeq(s, 1, a - 1)) * s[a]) * Product(SubSeq(s, a + 1, Len(s)))
BY ProductSplit, ProductNext

-----------------------------------------------------------------------------
(* Powers of two.                                                          *)

\* Halving.
LEMMA DivByTwo ==
  ASSUME NEW v \in Nat
  PROVE  v \div 2 \in Nat /\ (v > 1 => v \div 2 < v) /\ (2 * v) \div 2 = v
OBVIOUS
\* Dividing by a radix makes a number smaller.
LEMMA DivSmaller ==
  ASSUME NEW v \in Positive, NEW r \in Nat, r > 1
  PROVE  v \div r \in Nat /\ v \div r < v
BY DEF Positive

\* log2_exact solves its recursion.
LEMMA Log2Solves ==
  /\ Log2 \in [Nat -> Nat]
  /\ \A v \in Nat : Log2[v] = IF v > 1 THEN 1 + Log2[v \div 2] ELSE 0
<1> DEFINE R(g) == g = [v \in Nat |-> IF v > 1 THEN 1 + g[v \div 2] ELSE 0]
           Id == [v \in Nat |-> v]
           Stop == {0, 1}
           Start == [v \in Nat |-> 0]
           Pred == [v \in Nat |-> v \div 2]
           Step == [v \in Nat |-> [x \in Nat |-> 1 + x]]
<1>1. Shrinks(Nat, Nat, Id, Stop, Start, Pred, Step)
  <2>1. Pred \in [Nat -> Nat] /\ \A d \in Nat : d \notin Stop => Id[Pred[d]] < Id[d]
    BY DivByTwo
  <2> QED BY <2>1 DEF Shrinks
<1>2. \E g : R(g)
  <2>1. PICK g : Solves(g, Nat, Nat, Stop, Start, Pred, Step)
    <3> HIDE DEF Stop, Start, Pred, Step, Id
    <3> QED BY <1>1, RecursionExists
  <2>2. g \in [Nat -> Nat] /\ \A v \in Nat : g[v] = IF v \in Stop
          THEN Start[v] ELSE Step[v][g[Pred[v]]]
    <3> HIDE DEF Stop, Start, Pred, Step
    <3> QED BY <2>1 DEF Solves
  <2>3. ASSUME NEW v \in Nat PROVE g[v] = IF v > 1 THEN 1 + g[v \div 2] ELSE 0
    <3>1. CASE v > 1
      <4>1. v \notin Stop /\ Pred[v] = v \div 2
        BY <3>1
      <4>2. g[v] = Step[v][g[v \div 2]]
        <5> HIDE DEF Stop, Pred, Step, Start
        <5> QED BY <4>1, <2>2
      <4>3. g[v \div 2] \in Nat
        BY <2>2, DivByTwo
      <4> QED BY <4>2, <4>3, <3>1
    <3>2. CASE v \in Stop
      <4>1. g[v] = Start[v]
        <5> HIDE DEF Stop, Pred, Step, Start
        <5> QED BY <3>2, <2>2
      <4> QED BY <4>1, <3>2
    <3>3. v > 1 \/ v \in Stop
      OBVIOUS
    <3> QED BY <3>1, <3>2, <3>3
  <2> QED BY <2>2, <2>3
<1>3. R(Log2)
  <2>1. Log2 = CHOOSE g : R(g)
    BY DEF Log2
  <2> HIDE DEF R
  <2> QED BY <2>1, <1>2
<1>4. Solves(Log2, Nat, Nat, Stop, Start, Pred, Step)
  <2>1. /\ Log2 = [v \in Nat |-> Log2[v]]
        /\ \A v \in Nat : v \in Stop => Log2[v] = Start[v]
        /\ \A v \in Nat : v \notin Stop /\ Log2[Pred[v]] \in Nat
             => Log2[v] = Step[v][Log2[Pred[v]]]
    BY <1>3
  <2> HIDE DEF Stop, Start, Pred, Step, Id
  <2> QED BY <2>1, <1>1, RecursionTyped
<1>5. Log2 \in [Nat -> Nat]
  <2> HIDE DEF Stop, Start, Pred, Step
  <2> QED BY <1>4 DEF Solves
<1> QED BY <1>3, <1>5

\* The powers of two double.
LEMMA TwosNext ==
  ASSUME NEW n \in Nat
  PROVE  /\ Twos(n) \in Seq(Positive)
         /\ Product(Twos(n)) \in Positive
         /\ Product(Twos(n + 1)) = 2 * Product(Twos(n))
<1>1. \A m \in Nat : Twos(m) \in Seq(Positive) /\ Len(Twos(m)) = m /\ \A i \in 1..m :
        Twos(m)[i] = 2
  BY DEF Twos, Positive
<1> DEFINE s == Twos(n + 1)
<1>2. s \in Seq(Positive) /\ n + 1 \in 1..Len(s) /\ s[n + 1] = 2 /\ (n + 1) - 1 = n
        /\ Len(s) = n + 1
  BY <1>1
<1>3. SubSeq(s, 1, n + 1) = Twos(n + 1) /\ SubSeq(s, 1, n) = Twos(n)
  BY DEF Twos
<1> HIDE DEF s
<1>4. Product(SubSeq(s, 1, n + 1)) = Product(SubSeq(s, 1, (n + 1) - 1)) * s[n + 1]
  BY <1>2, ProductNext
<1>5. Product(Twos(n + 1)) = Product(Twos(n)) * 2
  BY <1>2, <1>3, <1>4
<1>6. Product(Twos(n)) \in Positive
  BY <1>1, ProductType
<1> QED BY <1>1, <1>5, <1>6 DEF Positive

\* The first power of two.
LEMMA TwosZero == Product(Twos(0)) = 1
<1>1. Twos(0) \in Seq(Positive) /\ Len(Twos(0)) = 0
  BY DEF Twos
<1>2. PICK F : Multiplies(F, Twos(0)) /\ F[0] = Product(Twos(0))
  BY <1>1, ProductSteps
<1> QED BY <1>2 DEF Multiplies

\* The powers of two exceed every number.
LEMMA TwosAbove ==
  ASSUME NEW v \in Nat
  PROVE  v < Product(Twos(v))
<1> DEFINE Good == {n \in Nat : n < Product(Twos(n))}
<1>1. 0 \in Good
  BY TwosZero
<1>2. ASSUME NEW n \in Nat, n \in Good PROVE n + 1 \in Good
  <2>1. Product(Twos(n + 1)) = 2 * Product(Twos(n)) /\ Product(Twos(n)) \in Positive
    BY TwosNext
  <2> QED BY <2>1, <1>2 DEF Positive
<1>3. v \in Good
  <2> HIDE DEF Good
  <2> QED BY <1>1, <1>2, ClosedUnderSuccessor
<1> QED BY <1>3

\* Log2 inverts the powers of two.
LEMMA Log2OfTwos ==
  ASSUME NEW v \in Nat
  PROVE  Log2[Product(Twos(v))] = v
<1> DEFINE Good == {n \in Nat : Log2[Product(Twos(n))] = n}
<1>1. 0 \in Good
  BY TwosZero, Log2Solves
<1>2. ASSUME NEW n \in Nat, n \in Good PROVE n + 1 \in Good
  <2>1. Product(Twos(n + 1)) = 2 * Product(Twos(n)) /\ Product(Twos(n)) \in Positive
    BY TwosNext
  <2>2. PICK w \in Positive : w = Product(Twos(n))
    BY <2>1
  <2>3. 2 * w > 1 /\ (2 * w) \div 2 = w /\ 2 * w \in Nat
    BY DEF Positive
  <2>4. Log2[2 * w] = 1 + Log2[(2 * w) \div 2]
    BY <2>3, Log2Solves
  <2>5. Log2[2 * w] = 1 + n
    BY <2>2, <2>3, <2>4, <1>2
  <2> QED BY <2>1, <2>2, <2>5
<1>3. v \in Good
  <2> HIDE DEF Good
  <2> QED BY <1>1, <1>2, ClosedUnderSuccessor
<1> QED BY <1>3

\* next_power_of_two returns a power of two that is not below its argument.
LEMMA NextPowerOfTwoIsPower ==
  ASSUME NEW value \in Nat
  PROVE  \E m \in Nat : NextPowerOfTwo(value) = Product(Twos(m)) /\ Product(Twos(m)) >= value
<1> DEFINE R(g) == g = [r \in Nat |-> IF r < value THEN g[2 * r] ELSE r]
           M == [r \in Nat |-> IF r < value THEN value - r ELSE 0]
           Stop == {r \in Nat : r >= value \/ r = 0}
           Start == [r \in Nat |-> r]
           Pred == [r \in Nat |-> 2 * r]
           Step == [r \in Nat |-> [x \in Nat |-> x]]
<1>1. Shrinks(Nat, Nat, M, Stop, Start, Pred, Step)
  <2>1. \A d \in Nat : d \notin Stop => M[Pred[d]] < M[d]
    OBVIOUS
  <2>2. M \in [Nat -> Nat] /\ Pred \in [Nat -> Nat] /\ Stop \in SUBSET Nat
    OBVIOUS
  <2> QED BY <2>1, <2>2 DEF Shrinks
<1>2. \E g : R(g)
  <2>1. PICK g : Solves(g, Nat, Nat, Stop, Start, Pred, Step)
    <3> HIDE DEF Stop, Start, Pred, Step, M
    <3> QED BY <1>1, RecursionExists
  <2>2. g \in [Nat -> Nat] /\ \A r \in Nat : g[r] = IF r \in Stop
          THEN Start[r] ELSE Step[r][g[Pred[r]]]
    <3> HIDE DEF Stop, Start, Pred, Step
    <3> QED BY <2>1 DEF Solves
  <2>3. ASSUME NEW r \in Nat PROVE g[r] = IF r < value THEN g[2 * r] ELSE r
    <3>1. CASE r \notin Stop
      <4>1. g[r] = Step[r][g[2 * r]] /\ g[2 * r] \in Nat
        BY <3>1, <2>2
      <4> QED BY <4>1, <3>1
    <3>2. CASE r \in Stop
      <4>1. g[r] = r
        BY <3>2, <2>2
      <4> QED BY <4>1, <3>2
    <3> QED BY <3>1, <3>2
  <2> QED BY <2>2, <2>3
<1>3. PICK g : R(g) /\ NextPowerOfTwo(value) = g[1]
  <2>1. NextPowerOfTwo(value) = (CHOOSE g : R(g))[1]
    BY DEF NextPowerOfTwo
  <2>2. R(CHOOSE g : R(g))
    <3> HIDE DEF R
    <3> QED BY <1>2
  <2> QED BY <2>1, <2>2
<1>4. \A r \in Nat : g[r] = IF r < value THEN g[2 * r] ELSE r
  BY <1>3
<1> HIDE DEF R
\* Either the loop has stopped at one of the first n powers, or it goes on with the next.
<1> DEFINE Stopped == \E m \in Nat : g[1] = Product(Twos(m)) /\ Product(Twos(m)) >= value
           Good == {n \in Nat : Stopped \/ g[1] = g[Product(Twos(n))]}
<1>5. 0 \in Good
  BY TwosZero
<1>6. ASSUME NEW n \in Nat, n \in Good PROVE n + 1 \in Good
  <2>1. Product(Twos(n + 1)) = 2 * Product(Twos(n)) /\ Product(Twos(n)) \in Positive
    BY TwosNext
  <2>2. CASE ~ Stopped /\ Product(Twos(n)) < value
    <3>1. g[Product(Twos(n))] = g[2 * Product(Twos(n))]
      BY <2>1, <2>2, <1>4 DEF Positive
    <3> QED BY <3>1, <2>1, <2>2, <1>6
  <2>3. CASE ~ Stopped /\ Product(Twos(n)) >= value
    <3>1. g[Product(Twos(n))] = Product(Twos(n))
      BY <2>1, <2>3, <1>4 DEF Positive
    <3>2. g[1] = Product(Twos(n))
      BY <3>1, <2>3, <1>6
    <3> QED BY <3>2, <2>3
  <2>4. CASE Stopped
    BY <2>4
  <2> QED BY <2>1, <2>2, <2>3, <2>4 DEF Positive
<1>7. value \in Good
  <2> HIDE DEF Good
  <2> QED BY <1>5, <1>6, ClosedUnderSuccessor
<1>8. Stopped
  <2>1. value < Product(Twos(value)) /\ Product(Twos(value)) \in Positive
    BY TwosAbove, TwosNext
  <2>2. g[Product(Twos(value))] = Product(Twos(value))
    BY <2>1, <1>4 DEF Positive
  <2> QED BY <2>1, <2>2, <1>7 DEF Positive
<1> QED BY <1>3, <1>8

-----------------------------------------------------------------------------
(* supported_factors.                                                      *)

\* How often a radix divides a length is a number.
LEMMA MultiplicityType ==
  ASSUME NEW length \in Nat, NEW radix \in Nat, radix > 1
  PROVE  Multiplicity(length, radix) \in Nat
<1> DEFINE R(g) == g = [v \in Nat |->
                          IF v > 0 /\ v % radix = 0 THEN 1 + g[v \div radix] ELSE 0]
           Id == [v \in Nat |-> v]
           Stop == {v \in Nat : ~ (v > 0 /\ v % radix = 0)}
           Start == [v \in Nat |-> 0]
           Pred == [v \in Nat |-> v \div radix]
           Step == [v \in Nat |-> [x \in Nat |-> 1 + x]]
<1>0. \A v \in Nat : v \div radix \in Nat /\ (v > 0 => v \div radix < v)
  BY DivSmaller DEF Positive
<1>1. Shrinks(Nat, Nat, Id, Stop, Start, Pred, Step)
  <2>1. \A d \in Nat : d \notin Stop => Id[Pred[d]] < Id[d]
    BY <1>0
  <2>2. Pred \in [Nat -> Nat] /\ Stop \in SUBSET Nat
    BY <1>0
  <2> QED BY <2>1, <2>2 DEF Shrinks
<1>2. PICK g : Solves(g, Nat, Nat, Stop, Start, Pred, Step)
  <2> HIDE DEF Stop, Start, Pred, Step, Id
  <2> QED BY <1>1, RecursionExists
<1>3. g \in [Nat -> Nat] /\ \A r \in Nat : g[r] = IF r \in Stop
        THEN Start[r] ELSE Step[r][g[Pred[r]]]
  <2> HIDE DEF Stop, Start, Pred, Step
  <2> QED BY <1>2 DEF Solves
<1>4. ASSUME NEW v \in Nat
      PROVE  g[v] = IF v > 0 /\ v % radix = 0 THEN 1 + g[v \div radix] ELSE 0
  <2>1. CASE v \notin Stop
    <3>1. g[v] = Step[v][g[v \div radix]] /\ g[v \div radix] \in Nat
      BY <2>1, <1>3, <1>0
    <3> QED BY <3>1, <2>1
  <2>2. CASE v \in Stop
    <3>1. g[v] = 0
      BY <2>2, <1>3
    <3> QED BY <3>1, <2>2
  <2> QED BY <2>1, <2>2
<1>5. R(g)
  BY <1>3, <1>4
<1>6. PICK h : R(h) /\ Multiplicity(length, radix) = h[length]
  <2>1. Multiplicity(length, radix) = (CHOOSE h : R(h))[length]
    BY DEF Multiplicity
  <2>2. R(CHOOSE h : R(h))
    <3> HIDE DEF R
    <3> QED BY <1>5
  <2> QED BY <2>1, <2>2
<1>7. Solves(h, Nat, Nat, Stop, Start, Pred, Step)
  <2>1. h = [v \in Nat |-> h[v]]
    BY <1>6
  <2>2. \A v \in Nat : v \in Stop => h[v] = Start[v]
    BY <1>6
  <2>3. \A v \in Nat : v \notin Stop /\ h[Pred[v]] \in Nat => h[v] = Step[v][h[Pred[v]]]
    BY <1>6
  <2> HIDE DEF Stop, Start, Pred, Step, Id
  <2> QED BY <2>1, <2>2, <2>3, <1>1, RecursionTyped
<1>8. h \in [Nat -> Nat]
  <2> HIDE DEF Stop, Start, Pred, Step
  <2> QED BY <1>7 DEF Solves
<1> QED BY <1>6, <1>8

\* Four sequences in a row.
LEMMA FlattenFour ==
  ASSUME NEW ss, DOMAIN ss = 1..4, ss = [i \in 1..4 |-> ss[i]], Len(ss) = 4,
         \A i \in 1..4 : ss[i] \in Seq(Positive)
  PROVE  FlattenSeq(ss) \in Seq(Positive)
<1> DEFINE D == 1..4
           X == Seq(Positive)
           R(g) == g = [i \in 1..4 |-> IF i = 1 THEN ss[i] ELSE g[i - 1] \o ss[i]]
           Id == [i \in D |-> i]
           Stop == {1}
           Start == [i \in D |-> ss[i]]
           Pred == [i \in D |-> IF i = 1 THEN 1 ELSE i - 1]
           Step == [i \in D |-> [x \in X |-> x \o ss[i]]]
<1>1. Shrinks(D, X, Id, Stop, Start, Pred, Step)
  <2>1. \A d \in D : d \notin Stop => Id[Pred[d]] < Id[d]
    OBVIOUS
  <2>2. Pred \in [D -> D] /\ Stop \in SUBSET D /\ Id \in [D -> Nat] /\ Start \in [D -> X]
    OBVIOUS
  <2>3. Step \in [D -> [X -> X]]
    OBVIOUS
  <2> HIDE DEF Stop, Start, Pred, Step, Id, D, X
  <2> QED BY <2>1, <2>2, <2>3 DEF Shrinks
<1>2. PICK g : Solves(g, D, X, Stop, Start, Pred, Step)
  <2> HIDE DEF Stop, Start, Pred, Step, Id, D, X
  <2> QED BY <1>1, RecursionExists
<1>3. g \in [D -> X] /\ \A r \in D : g[r] = IF r \in Stop THEN Start[r] ELSE Step[r][g[Pred[r]]]
  <2> HIDE DEF Stop, Start, Pred, Step, D, X
  <2> QED BY <1>2 DEF Solves
<1>4. ASSUME NEW i \in D PROVE g[i] = IF i = 1 THEN ss[i] ELSE g[i - 1] \o ss[i]
  <2>1. CASE i = 1
    BY <2>1, <1>3
  <2>2. CASE i # 1
    <3>0. i \notin Stop /\ Pred[i] = i - 1
      BY <2>2
    <3>1. g[i] = Step[i][g[i - 1]] /\ g[i - 1] \in X
      <4> HIDE DEF Stop, Start, Step, X
      <4> QED BY <3>0, <2>2, <1>3
    <3> QED BY <3>1, <2>2
  <2> QED BY <2>1, <2>2
<1>5. R(g)
  <2>1. g = [i \in D |-> g[i]]
    BY <1>3
  <2> QED BY <2>1, <1>4
<1>6. PICK h : R(h) /\ FlattenSeq(ss) = h[4]
  <2>1. FlattenSeq(ss) = (CHOOSE h : R(h))[4]
    BY DEF FlattenSeq
  <2>2. R(CHOOSE h : R(h))
    <3> HIDE DEF R
    <3> QED BY <1>5
  <2> QED BY <2>1, <2>2
<1>7. Solves(h, D, X, Stop, Start, Pred, Step)
  <2>1. h = [v \in D |-> h[v]]
    BY <1>6
  <2>2. \A v \in D : v \in Stop => h[v] = Start[v]
    BY <1>6
  <2>3. ASSUME NEW v \in D, v \notin Stop, h[Pred[v]] \in X PROVE h[v] = Step[v][h[Pred[v]]]
    <3>1. Pred[v] = v - 1 /\ v # 1
      BY <2>3
    <3>2. h[v] = h[v - 1] \o ss[v]
      BY <3>1, <1>6
    <3> QED BY <3>1, <3>2, <2>3
  <2> HIDE DEF Stop, Start, Pred, Step, Id, D, X
  <2> QED BY <2>1, <2>2, <2>3, <1>1, RecursionTyped
<1>8. h \in [D -> X]
  <2> HIDE DEF Stop, Start, Pred, Step, D, X
  <2> QED BY <1>7 DEF Solves
<1>9. h[4] \in Seq(Positive)
  BY <1>8
<1> HIDE DEF R
<1> QED BY <1>6, <1>9

\* supported_factors: the factors are positive, and if there are any their product
\* is the value.
LEMMA SupportedFactorsMultiply ==
  ASSUME NEW value \in Nat
  PROVE  /\ SupportedFactors(value) \in Seq(Positive)
         /\ SupportedFactors(value) # <<>> => Product(SupportedFactors(value)) = value
<1> DEFINE radices == <<2, 3, 5, 7>>
           ss == [i \in DOMAIN radices |->
                    [k \in 1..Multiplicity(value, radices[i]) |-> radices[i]]]
           stages == FlattenSeq(ss)
<1>1. SupportedFactors(value) = IF Product(stages) = value THEN stages ELSE <<>>
  BY DEF SupportedFactors, FactorsAmong
<1>2. DOMAIN radices = 1..4 /\ \A i \in 1..4 : radices[i] \in Nat /\ radices[i] > 1
  OBVIOUS
<1>3. DOMAIN ss = 1..4 /\ Len(ss) = 4 /\ ss = [i \in 1..4 |-> ss[i]]
  OBVIOUS
<1>4. ASSUME NEW i \in 1..4 PROVE ss[i] \in Seq(Positive)
  <2>0. PICK r \in Nat : r = radices[i] /\ r > 1
    BY <1>2
  <2>1. Multiplicity(value, r) \in Nat
    <3> HIDE DEF ss, stages, radices
    <3> QED BY <2>0, MultiplicityType
  <2>3. PICK n \in Nat : n = Multiplicity(value, r)
    BY <2>1
  <2>4. [k \in 1..n |-> r] \in Seq(Positive)
    BY <2>0 DEF Positive
  <2>2. ss[i] = [k \in 1..Multiplicity(value, r) |-> r]
    BY <1>2, <2>0
  <2> HIDE DEF ss
  <2> QED BY <2>2, <2>3, <2>4
<1>5. stages \in Seq(Positive)
  <2> HIDE DEF ss
  <2> QED BY <1>3, <1>4, FlattenFour
<1> HIDE DEF stages
<1> QED BY <1>1, <1>5

-----------------------------------------------------------------------------
(* The permutations that the gather kernels apply.                         *)

\* reversed_bits permutes the numbers of that many bits: what it returns has no more.
LEMMA ReversedBitsBelow ==
  ASSUME NEW value \in Nat, NEW bits \in Nat
  PROVE  ReversedBits(value, bits) \in 0..(Product(Twos(bits)) - 1)
<1> DEFINE n == bits
           X == [reversed : Nat, value : Nat]
           Start == [reversed |-> 0, value |-> value]
           After(x) == [reversed |-> 2 * x.reversed + (x.value % 2), value |-> x.value \div 2]
           R(g) == g = [t \in SUBSET (1..n) |->
                          IF t = {} THEN Start ELSE After(g[t \ {Max(t)}])]
           Step == [i \in 1..n |-> [x \in X |-> After(x)]]
<1>1. DOMAIN UpTo(n) = 1..n
  BY DEF UpTo
<1>2. Step \in [1..n -> [X -> X]] /\ Start \in X
  OBVIOUS
<1>3. \E g : R(g)
  <2>1. PICK g : FoldsBy(g, n, X, Start, Step)
    <3> HIDE DEF Step, X, Start
    <3> QED BY <1>2, FoldExists
  <2>2. ASSUME NEW t \in SUBSET (1..n)
        PROVE  g[t] = IF t = {} THEN Start ELSE After(g[t \ {Max(t)}])
    <3>1. t # {} => Max(t) \in 1..n
      BY MaxIsGreatest
    <3>2. g[t \ {Max(t)}] \in X /\ g[t] = IF t = {}
            THEN Start ELSE Step[Max(t)][g[t \ {Max(t)}]]
      <4> HIDE DEF Step, X, Start
      <4> QED BY <2>1 DEF FoldsBy
    <3> HIDE DEF X, Start
    <3> QED BY <3>1, <3>2
  <2>3. DOMAIN g = SUBSET (1..n) /\ g = [t \in DOMAIN g |-> g[t]]
    BY <2>1 DEF FoldsBy
  <2> HIDE DEF X, Start
  <2> QED BY <2>2, <2>3
<1>4. PICK g : R(g) /\ ReversedBits(value, bits) = g[1..n].reversed
  <2>1. ReversedBits(value, bits) = (CHOOSE g : R(g))[1..n].reversed
    BY <1>1 DEF ReversedBits, FoldLeft, MapThenFoldSet
  <2>2. R(CHOOSE g : R(g))
    <3> HIDE DEF R
    <3> QED BY <1>3
  <2> QED BY <2>1, <2>2
<1>5. g[{}] = Start
  BY <1>4
<1>6. ASSUME NEW i \in 1..n, g[1..(i - 1)] \in X
      PROVE  g[1..i] = Step[i][g[1..(i - 1)]]
  <2>1. Max(1..i) = i /\ (1..i) \ {i} = 1..(i - 1) /\ 1..i \in SUBSET (1..n) /\ 1..i # {}
    BY MaxOfFirst
  <2>2. g[1..i] = After(g[(1..i) \ {Max(1..i)}])
    BY <2>1, <1>4
  <2>3. g[1..i] = After(g[1..(i - 1)])
    BY <2>1, <2>2
  <2> HIDE DEF X, After
  <2> QED BY <2>3, <1>6
<1>7. PICK F : Steps(F, n, X, Start, Step) /\ F[n] = g[1..n]
  <2> HIDE DEF Step, X, Start, R
  <2> QED BY <1>2, <1>5, <1>6, FoldSteps
<1>8. F \in [0..n -> X] /\ F[0] = Start /\ \A i \in 1..n : F[i] = After(F[i - 1])
  <2>1. F \in [0..n -> X] /\ F[0] = Start /\ \A i \in 1..n : F[i] = Step[i][F[i - 1]]
    <3> HIDE DEF Step, X, Start
    <3> QED BY <1>7 DEF Steps
  <2>2. \A i \in 1..n : F[i - 1] \in X
    BY <2>1
  <2> HIDE DEF X, Start, After
  <2> QED BY <2>1, <2>2
<1> HIDE DEF R, Step
<1> DEFINE Good == {i \in Nat : i <= n => F[i].reversed < Product(Twos(i))}
<1>9. 0 \in Good
  BY <1>8, TwosZero
<1>10. ASSUME NEW i \in Nat, i \in Good PROVE i + 1 \in Good
  <2> SUFFICES ASSUME i + 1 <= n PROVE F[i + 1].reversed < Product(Twos(i + 1))
    OBVIOUS
  <2>1. Product(Twos(i + 1)) = 2 * Product(Twos(i)) /\ Product(Twos(i)) \in Positive
    BY TwosNext
  <2>2. i \in 0..n /\ i + 1 \in 1..n /\ (i + 1) - 1 = i
    OBVIOUS
  <2>3. PICK r \in Nat, v \in Nat : F[i].reversed = r /\ F[i].value = v
    BY <2>2, <1>8
  <2>4. F[i + 1].reversed = 2 * r + (v % 2)
    <3>1. F[i + 1] = After(F[i])
      <4> HIDE DEF After
      <4> QED BY <2>2, <1>8
    <3> QED BY <3>1, <2>3
  <2>5. v % 2 \in 0..1 /\ r < Product(Twos(i))
    BY <2>2, <2>3, <1>10
  <2> QED BY <2>1, <2>4, <2>5 DEF Positive
<1>11. n \in Good
  <2> HIDE DEF Good
  <2> QED BY <1>9, <1>10, ClosedUnderSuccessor
<1>12. F[n] \in X /\ F[n].reversed < Product(Twos(n)) /\ Product(Twos(n)) \in Positive
  BY <1>8, <1>11, TwosNext
<1>13. F[n].reversed \in Nat
  BY <1>12
<1> QED BY <1>4, <1>7, <1>12, <1>13 DEF Positive

\* Factors cancel.
LEMMA Cancel ==
  ASSUME NEW p \in Positive, NEW a \in Nat, NEW b \in Nat, p * a = p * b
  PROVE  a = b
<1>1. p \in Nat \ {0} /\ (a * p) \div p = a /\ (b * p) \div p = b
  BY ExactDiv DEF Positive
<1>2. a * p = p * a /\ b * p = p * b
  BY DEF Positive
<1> QED BY <1>1, <1>2

\* The products of what follows an element: one factor less.
LEMMA ProductFirst ==
  ASSUME NEW s \in Seq(Positive), NEW i \in 1..Len(s)
  PROVE  /\ Product(SubSeq(s, i, Len(s))) = s[i] * Product(SubSeq(s, i + 1, Len(s)))
         /\ Product(SubSeq(s, i, Len(s))) \in Positive
         /\ Product(SubSeq(s, i + 1, Len(s))) \in Positive
<1>1. /\ SubSeq(s, 1, i - 1) \in Seq(Positive)
      /\ SubSeq(s, i, Len(s)) \in Seq(Positive)
      /\ SubSeq(s, i + 1, Len(s)) \in Seq(Positive)
      /\ s[i] \in Positive
  OBVIOUS
<1>2. PICK p \in Positive, q \in Positive, r \in Positive, x \in Positive :
        /\ p = Product(SubSeq(s, 1, i - 1)) /\ q = Product(SubSeq(s, i, Len(s)))
        /\ r = Product(SubSeq(s, i + 1, Len(s))) /\ x = s[i]
  BY <1>1, ProductType
<1>3. Product(s) = p * q
  <2>1. i - 1 \in 0..Len(s) /\ (i - 1) + 1 = i
    OBVIOUS
  <2>2. Product(s) = Product(SubSeq(s, 1, i - 1)) * Product(SubSeq(s, (i - 1) + 1, Len(s)))
    BY <2>1, ProductSplit
  <2> QED BY <2>1, <2>2, <1>2
<1>4. Product(s) = (p * x) * r
  BY <1>2, ProductAround
<1>5. (p * x) * r = p * (x * r) /\ x * r \in Nat
  BY DEF Positive
<1>6. q = x * r
  BY <1>3, <1>4, <1>5, Cancel DEF Positive
<1> QED BY <1>2, <1>6

\* Nothing follows the last element.
LEMMA ProductEmpty ==
  ASSUME NEW s \in Seq(Positive)
  PROVE  Product(SubSeq(s, Len(s) + 1, Len(s))) = 1 /\ Product(SubSeq(s, 1, 0)) = 1
<1> DEFINE e == SubSeq(s, Len(s) + 1, Len(s))
           d == SubSeq(s, 1, 0)
<1>1. e \in Seq(Positive) /\ Len(e) = 0 /\ d \in Seq(Positive) /\ Len(d) = 0
  OBVIOUS
<1>2. \A t \in Seq(Positive) : Len(t) = 0 => Product(t) = 1
  <2> TAKE t \in Seq(Positive)
  <2>1. PICK F : Multiplies(F, t) /\ F[Len(t)] = Product(t)
    BY ProductSteps
  <2> QED BY <2>1 DEF Multiplies
<1> QED BY <1>1, <1>2

\* reversed_digits permutes the coordinates of a line: what it returns is one of them.
LEMMA ReversedDigitsBelow ==
  ASSUME NEW value \in Nat, NEW s \in Seq(Positive), NEW length, length = Product(s)
  PROVE  ReversedDigits(value, s, length) \in 0..(length - 1)
<1> DEFINE n == Len(s)
           X == [remaining : Nat, result : Nat, digits : Nat]
           Start == [remaining |-> length, result |-> 0, digits |-> value]
           After(x, r) == [remaining |-> x.remaining \div r,
                           result |-> x.result + (x.digits % r) * (x.remaining \div r),
                           digits |-> x.digits \div r]
           R(g) == g = [t \in SUBSET (1..n) |->
                          IF t = {} THEN Start ELSE After(g[t \ {Max(t)}], s[Max(t)])]
           Step == [i \in 1..n |-> [x \in X |-> After(x, s[i])]]
<1>0. n \in Nat /\ DOMAIN s = 1..n /\ \A i \in 1..n : s[i] \in Positive
  OBVIOUS
<1>1. length \in Positive
  BY ProductType
<1>2. Step \in [1..n -> [X -> X]] /\ Start \in X
  <2>1. Start \in X
    BY <1>1 DEF Positive
  <2>2. ASSUME NEW x \in X, NEW r \in Positive PROVE After(x, r) \in X
    <3>1. PICK u \in Nat, v \in Nat, w \in Nat : u = x.remaining /\ v = x.result /\ w = x.digits
      OBVIOUS
    <3>2. u \div r \in Nat /\ w \div r \in Nat /\ w % r \in Nat
      <4>1. r \in Nat \ {0}
        BY DEF Positive
      <4> HIDE DEF X, After, Start, n
      <4>2. u \div r \in Nat
        BY <4>1, DivMod
      <4>3. w \div r \in Nat
        BY <4>1, DivMod
      <4>4. w % r \in 0..(r - 1)
        BY <4>1, DivMod
      <4> QED BY <4>1, <4>2, <4>3, <4>4
    <3>3. v + (w % r) * (u \div r) \in Nat
      BY <3>2
    <3> QED BY <3>1, <3>2, <3>3
  <2> HIDE DEF X, After, Start, n
  <2> QED BY <2>1, <2>2, <1>0
<1>3. \E g : R(g)
  <2>1. PICK g : FoldsBy(g, n, X, Start, Step)
    <3> HIDE DEF Step, X, Start, n
    <3> QED BY <1>0, <1>2, FoldExists
  <2>2. ASSUME NEW t \in SUBSET (1..n)
        PROVE  g[t] = IF t = {} THEN Start ELSE After(g[t \ {Max(t)}], s[Max(t)])
    <3>1. t # {} => Max(t) \in 1..n
      BY <1>0, MaxIsGreatest
    <3>2. g[t \ {Max(t)}] \in X /\ g[t] = IF t = {}
            THEN Start ELSE Step[Max(t)][g[t \ {Max(t)}]]
      <4> HIDE DEF Step, X, Start
      <4> QED BY <2>1 DEF FoldsBy
    <3> HIDE DEF X, Start, After
    <3> QED BY <3>1, <3>2
  <2>3. DOMAIN g = SUBSET (1..n) /\ g = [t \in DOMAIN g |-> g[t]]
    BY <2>1 DEF FoldsBy
  <2> HIDE DEF X, Start, After
  <2> QED BY <2>2, <2>3
<1>4. PICK g : R(g) /\ ReversedDigits(value, s, length) = g[1..n].result
  <2>1. ReversedDigits(value, s, length) = (CHOOSE g : R(g))[1..n].result
    BY <1>0 DEF ReversedDigits, FoldLeft, MapThenFoldSet
  <2>2. R(CHOOSE g : R(g))
    <3> HIDE DEF R
    <3> QED BY <1>3
  <2> QED BY <2>1, <2>2
<1>5. g[{}] = Start
  BY <1>4
<1>6. ASSUME NEW i \in 1..n, g[1..(i - 1)] \in X
      PROVE  g[1..i] = Step[i][g[1..(i - 1)]]
  <2>1. Max(1..i) = i /\ (1..i) \ {i} = 1..(i - 1) /\ 1..i \in SUBSET (1..n) /\ 1..i # {}
    BY <1>0, MaxOfFirst
  <2>2. g[1..i] = After(g[(1..i) \ {Max(1..i)}], s[Max(1..i)])
    BY <2>1, <1>4
  <2>3. g[1..i] = After(g[1..(i - 1)], s[i])
    BY <2>1, <2>2
  <2> HIDE DEF X, After
  <2> QED BY <2>3, <1>6
<1>7. PICK F : Steps(F, n, X, Start, Step) /\ F[n] = g[1..n]
  <2> HIDE DEF Step, X, Start, R, n
  <2> QED BY <1>0, <1>2, <1>5, <1>6, FoldSteps
<1>8. F \in [0..n -> X] /\ F[0] = Start /\ \A i \in 1..n : F[i] = After(F[i - 1], s[i])
  <2>1. F \in [0..n -> X] /\ F[0] = Start /\ \A i \in 1..n : F[i] = Step[i][F[i - 1]]
    <3> HIDE DEF Step, X, Start
    <3> QED BY <1>7 DEF Steps
  <2>2. \A i \in 1..n : F[i - 1] \in X
    BY <2>1
  <2> HIDE DEF X, Start, After
  <2> QED BY <2>1, <2>2
<1> HIDE DEF R, Step
<1> DEFINE Rest(i) == Product(SubSeq(s, i + 1, Len(s)))
           Good == {i \in Nat : i <= n => /\ F[i].remaining = Rest(i)
                                         /\ F[i].result + Rest(i) <= length}
<1>9. 0 \in Good
  <2>1. SubSeq(s, 0 + 1, Len(s)) = s
    OBVIOUS
  <2>2. Rest(0) = length
    BY <2>1
  <2>3. F[0].remaining = length /\ F[0].result = 0
    BY <1>8
  <2> HIDE DEF Rest
  <2> QED BY <2>2, <2>3, <1>1 DEF Positive
<1>10. ASSUME NEW i \in Nat, i \in Good PROVE i + 1 \in Good
  <2> SUFFICES ASSUME i + 1 <= n
               PROVE  F[i + 1].remaining = Rest(i + 1)
                        /\ F[i + 1].result + Rest(i + 1) <= length
    OBVIOUS
  <2>2. i \in 0..n /\ i + 1 \in 1..n /\ (i + 1) - 1 = i
    OBVIOUS
  <2>1. Rest(i) = s[i + 1] * Rest(i + 1) /\ Rest(i + 1) \in Positive
    BY <2>2, ProductFirst
  <2>3. PICK v \in Nat, w \in Nat : F[i].result = v /\ F[i].digits = w
    BY <2>2, <1>8
  <2>4. PICK r \in Positive, q \in Positive : r = s[i + 1] /\ q = Rest(i + 1)
    BY <2>1, <2>2, <1>0
  <2>5. F[i].remaining = r * q /\ v + r * q <= length
    <3> HIDE DEF Rest
    <3> QED BY <2>1, <2>2, <2>3, <2>4, <1>10
  <2>6. (r * q) \div r = q
    <3>1. r * q = q * r
      BY DEF Positive
    <3> QED BY <3>1, ExactDiv DEF Positive
  <2>7. F[i + 1].remaining = q /\ F[i + 1].result = v + (w % r) * q
    <3>1. F[i + 1] = After(F[i], r)
      <4> HIDE DEF After
      <4> QED BY <2>2, <2>4, <1>8
    <3> QED BY <3>1, <2>3, <2>5, <2>6
  <2>8. (w % r) + 1 <= r /\ w % r \in Nat
    BY DivMod DEF Positive
  <2>9. ((w % r) + 1) * q <= r * q /\ ((w % r) + 1) * q = (w % r) * q + q
          /\ (w % r) * q \in Nat /\ r * q \in Nat
    <3>1. PICK z \in Nat : z = w % r
      BY <2>8
    <3>2. z + 1 \in Nat /\ q \in Nat /\ r \in Nat
      BY <3>1 DEF Positive
    <3>3. (z + 1) * q <= r * q /\ r * q \in Nat
      BY <3>1, <3>2, <2>8, Times
    <3>4. (z + 1) * q = z * q + q /\ z * q \in Nat
      BY <3>1, <3>2
    <3> QED BY <3>1, <3>3, <3>4
  <2> HIDE DEF Rest
  <2> QED BY <2>4, <2>5, <2>7, <2>9, <1>1 DEF Positive
<1>11. n \in Good
  <2> HIDE DEF Good, n
  <2> QED BY <1>0, <1>9, <1>10, ClosedUnderSuccessor
<1>12. Rest(n) = 1
  BY ProductEmpty
<1>13. F[n].result + 1 <= length /\ F[n].result \in Nat
  <2>1. F[n] \in X
    BY <1>8, <1>0
  <2>2. F[n].result \in Nat
    BY <2>1
  <2> HIDE DEF Rest
  <2> QED BY <1>11, <1>12, <2>2
<1> QED BY <1>4, <1>7, <1>13, <1>1 DEF Positive

-----------------------------------------------------------------------------
(* Where the elements of a line are.                                       *)

\* Products of positive numbers are positive.
LEMMA TimesType ==
  ASSUME NEW a \in Positive, NEW b \in Positive
  PROVE  a * b \in Positive /\ a * b \in Nat /\ a \in Nat \ {0} /\ b \in Nat \ {0}
           /\ a \in Nat /\ b \in Nat
BY TimesPositive DEF Positive

\* The place of an element in an array of m blocks of L lines of S elements.
LEMMA PlaceBounds ==
  ASSUME NEW m \in Positive, NEW L \in Positive, NEW S \in Positive,
         NEW outer \in 0..(m - 1), NEW c \in 0..(L - 1), NEW inner \in 0..(S - 1)
  PROVE  outer * (L * S) + (c * S + inner) \in 0..(m * (L * S) - 1)
<1>1. L * S \in Nat /\ L \in Nat /\ S \in Nat /\ m \in Nat
  BY TimesType
<1>2. c * S + inner \in 0..(L * S - 1)
  BY <1>1, Below
<1> QED BY <1>1, <1>2, Below

\* Element c of a line of L elements: block o, coordinate c, offset n in the stride S.
Spot(L, S, o, c, n) == o * (L * S) + (c * S + n)
IsSpot(L, S, o, c, n) ==
    L \in Positive /\ S \in Positive /\ o \in Nat /\ c \in 0..(L - 1) /\ n \in 0..(S - 1)

\* Two elements at the same spot are the same element.
LEMMA SpotUnique ==
  ASSUME NEW L, NEW S, NEW o, NEW c, NEW n, NEW p, NEW d, NEW q,
         IsSpot(L, S, o, c, n), IsSpot(L, S, p, d, q), Spot(L, S, o, c, n) = Spot(L, S, p, d, q)
  PROVE  o = p /\ c = d /\ n = q
<1>0. /\ L \in Positive /\ S \in Positive /\ o \in Nat /\ p \in Nat
      /\ c \in 0..(L - 1) /\ n \in 0..(S - 1) /\ d \in 0..(L - 1) /\ q \in 0..(S - 1)
      /\ o * (L * S) + (c * S + n) = p * (L * S) + (d * S + q)
  BY DEF IsSpot, Spot
<1>1. L * S \in Nat /\ L \in Nat /\ S \in Nat
  BY <1>0, TimesType
<1>2. c * S + n \in 0..(L * S - 1) /\ d * S + q \in 0..(L * S - 1)
  BY <1>0, <1>1, Below
<1>3. o = p /\ c * S + n = d * S + q
  BY <1>0, <1>1, <1>2, Digits
<1>4. c \in Nat /\ d \in Nat
  BY <1>0
<1>5. c = d /\ n = q
  BY <1>0, <1>1, <1>3, <1>4, Digits
<1> QED BY <1>3, <1>5

\* The coordinate, in its line, of input q of butterfly j of a group.
LEMMA CoordinateBounds ==
  ASSUME NEW d \in Positive, NEW R \in Positive, NEW P \in Positive,
         NEW group \in 0..(d - 1), NEW q \in 0..(R - 1), NEW j \in 0..(P - 1)
  PROVE  group * (R * P) + (q * P + j) \in 0..(d * (R * P) - 1)
<1>1. R * P \in Nat /\ P \in Nat /\ R \in Nat /\ d \in Nat
  BY TimesType
<1>2. q * P + j \in 0..(R * P - 1)
  BY <1>1, Below
<1> QED BY <1>1, <1>2, Below

\* What the kernels work on: m blocks of lines of that length and stride.
Sized(total, length, stride, m) ==
    /\ length \in Positive /\ stride \in Positive /\ m \in Positive
    /\ total = m * (length * stride)

\* The lines of an array, and their elements.
LEMMA SizedFacts ==
  ASSUME NEW total, NEW length, NEW stride, NEW m, Sized(total, length, stride, m)
  PROVE  /\ total \in Positive
         /\ total \div length = m * stride
         /\ (total \div length) * length = total
<1>0. length \in Positive /\ stride \in Positive /\ m \in Positive
        /\ total = m * (length * stride)
  BY DEF Sized
<1>1. m * stride \in Positive /\ length * stride \in Positive
  BY <1>0, TimesType
<1>2. m * (length * stride) = (m * stride) * length
  BY <1>0 DEF Positive
<1>3. ((m * stride) * length) \div length = m * stride
  BY <1>0, <1>1, ExactDiv DEF Positive
<1> QED BY <1>0, <1>1, <1>2, <1>3, TimesType

\* A linear index, split into its block, its coordinate and its place in the stride.
LEMMA LinearSplit ==
  ASSUME NEW total, NEW length, NEW stride, NEW m, Sized(total, length, stride, m),
         NEW i \in 0..(total - 1)
  PROVE  \E o \in 0..(m - 1), c \in 0..(length - 1), n \in 0..(stride - 1) :
            /\ i = o * (length * stride) + (c * stride + n)
            /\ (i \div stride) % length = c
            /\ i - c * stride = o * (length * stride) + n
            /\ i \div (length * stride) = o
            /\ i % stride = n
<1>0. length \in Positive /\ stride \in Positive /\ m \in Positive
        /\ total = m * (length * stride)
  BY DEF Sized
<1>1. /\ length \in Nat \ {0} /\ stride \in Nat \ {0} /\ m \in Nat
           /\ length * stride \in Nat \ {0}
      /\ length \in Nat /\ stride \in Nat
  BY <1>0, TimesType DEF Positive
<1>2. i \in Nat
  OBVIOUS
<1>3. PICK x \in Nat, n \in 0..(stride - 1) : x = i \div stride /\ n = i % stride
             /\ i = x * stride + n
  BY <1>1, <1>2, DivMod
<1>4. PICK o \in Nat, c \in 0..(length - 1) : o = x \div length /\ c = x % length
             /\ x = o * length + c
  BY <1>1, DivMod
<1>5. i = o * (length * stride) + (c * stride + n)
  <2>1. (o * length + c) * stride + n = o * (length * stride) + (c * stride + n)
    BY <1>1
  <2> QED BY <2>1, <1>3, <1>4
<1>6. c * stride + n \in 0..(length * stride - 1)
  BY <1>1, Below
<1>7. i \div (length * stride) = o
  BY <1>1, <1>5, <1>6, DivModUnique
<1>8. o \in 0..(m - 1)
  BY <1>0, <1>1, <1>7, DivBelow
<1>9. i - c * stride = o * (length * stride) + n
  <2>1. c * stride \in Nat /\ o * (length * stride) \in Nat
    BY <1>1
  <2> QED BY <2>1, <1>5
<1> QED BY <1>3, <1>4, <1>5, <1>7, <1>8, <1>9

Gathers == {"radix2_gather", "mixed_gather"}
Stages == {"radix2_stage", "mixed_stage"}

-----------------------------------------------------------------------------
(* What the items of each kind of kernel read and write.                   *)

\* How many items a kernel has.
LEMMA ItemCounts ==
  ASSUME NEW k
  PROVE  /\ k.op \in Stages =>
              ItemCount(k) = (k.total \div k.length) * (k.length \div k.radix)
         /\ k.op = "expand" => ItemCount(k) = (k.total \div k.length) * k.convolution_length
         /\ k.op \in Gathers \union {"contract", "multiply", "copy"} => ItemCount(k) = k.total
<1>1. CASE k.op \in Stages
  <2>1. ItemCount(k) = (k.total \div k.length) * (k.length \div k.radix)
    BY <1>1, Zenon DEF ItemCount, Stages
  <2> QED BY <1>1, <2>1 DEF Stages, Gathers
<1>2. CASE k.op = "expand"
  <2>1. k.op \notin Stages
    BY <1>2 DEF Stages
  <2>2. ItemCount(k) = (k.total \div k.length) * k.convolution_length
    BY <1>2, <2>1, Zenon DEF ItemCount, Stages
  <2> QED BY <1>2, <2>2 DEF Stages, Gathers
<1>3. CASE k.op \in Gathers \union {"contract", "multiply", "copy"}
  <2>1. k.op \notin Stages /\ k.op # "expand"
    BY <1>3 DEF Stages, Gathers
  <2>2. ItemCount(k) = k.total
    BY <2>1, Zenon DEF ItemCount, Stages
  <2> QED BY <2>1, <2>2
<1>4. CASE k.op \notin Stages \union {"expand"} \union Gathers \union {"contract",
             "multiply", "copy"}
  BY <1>4
<1> QED BY <1>1, <1>2, <1>3, <1>4

\* What an item reads, one kind of kernel at a time.
LEMMA ReadsForms ==
  ASSUME NEW k, NEW i
  PROVE  /\ k.op = "radix2_gather" => Reads(k, i) =
              <<Base(k, i) + ReversedBits(Coordinate(k, i), Log2[k.length]) * k.stride>>
         /\ k.op = "mixed_gather" => Reads(k, i) =
              <<Base(k, i) + ReversedDigits(Coordinate(k, i), k.factors, k.length) * k.stride>>
         /\ k.op \in Stages => Reads(k, i) =
              [q \in 1..k.radix |-> Butterfly(k, i).base + (q - 1) * k.part * k.stride]
         /\ k.op = "expand" => Reads(k, i) =
              IF i % k.convolution_length < k.length
              THEN <<Unpadded(k, i \div k.convolution_length,
                     i % k.convolution_length)>> ELSE <<>>
         /\ k.op = "contract" => Reads(k, i) =
              <<((i \div (k.length * k.stride)) * k.stride + (i % k.stride)) * k.convolution_length
                 + Coordinate(k, i)>>
         /\ k.op \in {"multiply", "copy"} => Reads(k, i) = <<i>>
<1>1. ASSUME k.op = "radix2_gather"
      PROVE  Reads(k, i) = <<Base(k, i) + ReversedBits(Coordinate(k, i),
               Log2[k.length]) * k.stride>>
  <2>1. k.op # "mixed_gather" /\ k.op \notin Stages /\ k.op # "expand" /\ k.op # "contract"
    BY <1>1 DEF Stages
  <2> QED BY <1>1, <2>1, Zenon DEF Reads, Stages
<1>2. ASSUME k.op = "mixed_gather"
      PROVE  Reads(k, i) =
                <<Base(k, i) + ReversedDigits(Coordinate(k, i), k.factors,
                  k.length) * k.stride>>
  <2>1. k.op # "radix2_gather" /\ k.op \notin Stages /\ k.op # "expand" /\ k.op # "contract"
    BY <1>2 DEF Stages
  <2> QED BY <1>2, <2>1, Zenon DEF Reads, Stages
<1>3. ASSUME k.op \in Stages
      PROVE  Reads(k, i) = [q \in 1..k.radix |-> Butterfly(k,
               i).base + (q - 1) * k.part * k.stride]
  <2>1. k.op \notin Gathers /\ k.op # "expand" /\ k.op # "contract"
    BY <1>3 DEF Stages, Gathers
  <2> QED BY <1>3, <2>1, Zenon DEF Reads, Stages, Gathers
<1>4. ASSUME k.op = "expand"
      PROVE  Reads(k, i) =
                IF i % k.convolution_length < k.length
                THEN <<Unpadded(k, i \div k.convolution_length,
                       i % k.convolution_length)>> ELSE <<>>
  <2>1. k.op \notin Gathers /\ k.op \notin Stages /\ k.op # "contract"
    BY <1>4 DEF Stages, Gathers
  <2> QED BY <1>4, <2>1, Zenon DEF Reads, Stages, Gathers
<1>5. ASSUME k.op = "contract"
      PROVE  Reads(k, i) =
                <<((i \div (k.length * k.stride)) * k.stride + (i % k.stride)) * k.convolution_length
                   + Coordinate(k, i)>>
  <2>1. k.op \notin Gathers /\ k.op \notin Stages /\ k.op # "expand"
    BY <1>5 DEF Stages, Gathers
  <2> QED BY <1>5, <2>1, Zenon DEF Reads, Stages, Gathers
<1>6. ASSUME k.op \in {"multiply", "copy"}
      PROVE  Reads(k, i) = <<i>>
  <2>1. k.op \notin Gathers /\ k.op \notin Stages /\ k.op # "expand" /\ k.op # "contract"
    BY <1>6 DEF Stages, Gathers
  <2> QED BY <1>6, <2>1, Zenon DEF Reads, Stages, Gathers
<1> QED BY <1>1, <1>2, <1>3, <1>4, <1>5, <1>6, Zenon

\* A gather reads, in the line of the element it writes, that of another coordinate.
LEMMA GatherReads ==
  ASSUME NEW k, NEW m, Sized(k.total, k.length, k.stride, m), NEW i \in 0..(k.total - 1),
         \/ k.op = "radix2_gather" /\ \E b \in Nat : k.length = Product(Twos(b))
         \/ k.op = "mixed_gather" /\ k.factors \in Seq(Positive)
           /\ Product(k.factors) = k.length
  PROVE  \E e \in 0..(k.total - 1) : Reads(k, i) = <<e>>
<1>0. k.length \in Positive /\ k.stride \in Positive /\ m \in Positive
      /\ k.total = m * (k.length * k.stride)
  BY DEF Sized
<1>1. PICK o \in 0..(m - 1), c \in 0..(k.length - 1), n \in 0..(k.stride - 1) :
        /\ (i \div k.stride) % k.length = c
        /\ i - c * k.stride = o * (k.length * k.stride) + n
  BY LinearSplit
<1>2. Coordinate(k, i) = c /\ Base(k, i) = o * (k.length * k.stride) + n /\ c \in Nat
  BY <1>1 DEF Coordinate, Base
<1>3. \E r \in 0..(k.length - 1) : Reads(k, i) = <<Base(k, i) + r * k.stride>>
  <2>1. CASE k.op = "radix2_gather" /\ \E b \in Nat : k.length = Product(Twos(b))
    <3>1. PICK b \in Nat : k.length = Product(Twos(b))
      BY <2>1
    <3>2. Log2[k.length] = b
      BY <3>1, Log2OfTwos
    <3>3. ReversedBits(c, b) \in 0..(k.length - 1)
      BY <3>1, <1>2, ReversedBitsBelow
    <3>4. Reads(k, i) = <<Base(k, i) + ReversedBits(c, b) * k.stride>>
      BY <2>1, <3>2, <1>2, ReadsForms
    <3> QED BY <3>3, <3>4
  <2>2. CASE k.op = "mixed_gather" /\ k.factors \in Seq(Positive)
               /\ Product(k.factors) = k.length
    <3>3. ReversedDigits(c, k.factors, k.length) \in 0..(k.length - 1)
      BY <2>2, <1>2, ReversedDigitsBelow
    <3>4. Reads(k, i) = <<Base(k, i) + ReversedDigits(c, k.factors, k.length) * k.stride>>
      BY <2>2, <1>2, ReadsForms
    <3> QED BY <3>3, <3>4
  <2> QED BY <2>1, <2>2
<1>4. PICK r \in 0..(k.length - 1) : Reads(k, i) = <<Base(k, i) + r * k.stride>>
  BY <1>3
<1>5. o * (k.length * k.stride) + (r * k.stride + n) \in 0..(k.total - 1)
  BY <1>0, PlaceBounds
<1>6. (o * (k.length * k.stride) + n) + r * k.stride
        = o * (k.length * k.stride) + (r * k.stride + n)
  <2>1. PICK x \in Nat, y \in Nat : x = o * (k.length * k.stride) /\ y = r * k.stride
    <3>1. k.length * k.stride \in Nat /\ k.stride \in Nat
      BY <1>0, TimesType
    <3>2. \A a \in Nat, b \in Nat : a * b \in Nat
      OBVIOUS
    <3>3. o \in Nat /\ r \in Nat
      OBVIOUS
    <3> QED BY <3>1, <3>2, <3>3
  <2> QED BY <2>1
<1> QED BY <1>2, <1>4, <1>5, <1>6

\* A stage combines, in each of d groups of a line, radix times part elements.
Staged(k, m, d) ==
    /\ k.op \in Stages
    /\ Sized(k.total, k.length, k.stride, m)
    /\ k.radix \in Positive /\ k.part \in Positive /\ d \in Positive
    /\ k.length = d * (k.radix * k.part)

\* Element q of butterfly j of group g, in the line of block o and offset n.
Place(k, o, n, g, j, q) ==
    o * (k.length * k.stride) + ((g * (k.radix * k.part) + (q * k.part + j)) * k.stride + n)

\* How many items a stage has.
LEMMA StagedFacts ==
  ASSUME NEW k, NEW m, NEW d, Staged(k, m, d)
  PROVE  /\ k.op \in Stages /\ k.radix \in Positive /\ k.part \in Positive /\ d \in Positive
         /\ k.length \in Positive /\ k.stride \in Positive /\ m \in Positive
         /\ k.total = m * (k.length * k.stride) /\ k.length = d * (k.radix * k.part)
         /\ k.length \div k.radix = d * k.part
         /\ ItemCount(k) = (m * k.stride) * (d * k.part)
<1>0. /\ k.op \in Stages /\ k.radix \in Positive /\ k.part \in Positive /\ d \in Positive
      /\ k.length \in Positive /\ k.stride \in Positive /\ m \in Positive
      /\ k.total = m * (k.length * k.stride) /\ k.length = d * (k.radix * k.part)
  BY DEF Staged, Sized
<1>1. k.length \div k.radix = d * k.part
  <2>1. PICK r \in Positive, p \in Positive : r = k.radix /\ p = k.part
    BY <1>0
  <2>2. d * (r * p) = (d * p) * r
    BY <1>0 DEF Positive
  <2>3. r \in Nat \ {0} /\ d * p \in Nat
    BY <1>0, TimesType DEF Positive
  <2>4. ((d * p) * r) \div r = d * p
    BY <2>3, ExactDiv
  <2> QED BY <1>0, <2>1, <2>2, <2>4
<1>2. k.total \div k.length = m * k.stride
  BY SizedFacts DEF Staged
<1>3. ItemCount(k) = (k.total \div k.length) * (k.length \div k.radix)
  BY <1>0, ItemCounts
<1> QED BY <1>0, <1>1, <1>2, <1>3

\* An item of a stage reads the inputs of one butterfly.
LEMMA StageReads ==
  ASSUME NEW k, NEW m, NEW d, Staged(k, m, d), NEW i \in 0..(ItemCount(k) - 1)
  PROVE  \E o \in 0..(m - 1), n \in 0..(k.stride - 1), g \in 0..(d - 1), j \in 0..(k.part - 1) :
            /\ i = (o * k.stride + n) * (d * k.part) + (g * k.part + j)
            /\ Reads(k, i) = [q \in 1..k.radix |-> Place(k, o, n, g, j, q - 1)]
<1>0. /\ k.op \in Stages /\ k.radix \in Positive /\ k.part \in Positive /\ d \in Positive
      /\ k.length \in Positive /\ k.stride \in Positive /\ m \in Positive
      /\ k.length = d * (k.radix * k.part)
      /\ k.length \div k.radix = d * k.part
      /\ ItemCount(k) = (m * k.stride) * (d * k.part)
  BY StagedFacts
<1>1. /\ d * k.part \in Nat \ {0} /\ m * k.stride \in Nat /\ k.stride \in Nat \ {0}
      /\ k.part \in Nat \ {0} /\ d \in Nat /\ m \in Nat
  BY <1>0, TimesType DEF Positive
<1>2. i \in Nat
  <2>1. ItemCount(k) \in Nat
    <3>1. m * k.stride \in Positive /\ d * k.part \in Positive
      BY <1>0, TimesType
    <3> QED BY <1>0, <3>1, TimesType
  <2> QED BY <2>1
<1>3. PICK line \in Nat, inLine \in 0..(d * k.part - 1) :
        /\ line = i \div (d * k.part) /\ inLine = i % (d * k.part)
        /\ i = line * (d * k.part) + inLine
  BY <1>1, <1>2, DivMod
<1>4. line \in 0..(m * k.stride - 1)
  BY <1>0, <1>1, <1>3, DivBelow
<1>5. PICK o \in 0..(m - 1), n \in 0..(k.stride - 1) :
        o = line \div k.stride /\ n = line % k.stride /\ line = o * k.stride + n
  <2>1. line \div k.stride \in 0..(m - 1)
    BY <1>1, <1>4, DivBelow
  <2>2. line = (line \div k.stride) * k.stride + (line % k.stride)
          /\ line % k.stride \in 0..(k.stride - 1)
    BY <1>1, DivMod
  <2> QED BY <2>1, <2>2
<1>6. PICK g \in 0..(d - 1), j \in 0..(k.part - 1) :
        g = inLine \div k.part /\ j = inLine % k.part /\ inLine = g * k.part + j
  <2>1. inLine \div k.part \in 0..(d - 1)
    BY <1>1, <1>3, DivBelow
  <2>2. inLine \in Nat
    BY <1>3
  <2>3. inLine = (inLine \div k.part) * k.part + (inLine % k.part)
          /\ inLine % k.part \in 0..(k.part - 1)
    BY <1>1, <2>2, DivMod
  <2> QED BY <2>1, <2>3
<1>7. Butterfly(k,
        i).base = ((o * k.length) * k.stride + n) + ((g * k.part) * k.radix + j) * k.stride
  BY <1>0, <1>3, <1>5, <1>6 DEF Butterfly
<1>8. ASSUME NEW q \in 1..k.radix
      PROVE  Butterfly(k, i).base + ((q - 1) * k.part) * k.stride = Place(k, o, n, g, j, q - 1)
  <2>1. PICK L \in Nat, S \in Nat, P \in Nat, R \in Nat :
           L = k.length /\ S = k.stride /\ P = k.part /\ R = k.radix
    BY <1>0 DEF Positive
  <2>2. PICK x \in Nat : x = q - 1
    BY <1>0 DEF Positive
  <2>3. o \in Nat /\ n \in Nat /\ g \in Nat /\ j \in Nat
    BY <1>0 DEF Positive
  <2>4. ((o * L) * S + n) + ((g * P) * R + j) * S + (x * P) * S
          = o * (L * S) + ((g * (R * P) + (x * P + j)) * S + n)
    BY <2>3
  <2> QED BY <1>7, <2>1, <2>2, <2>4 DEF Place
<1>9. Reads(k, i) = [q \in 1..k.radix |-> Butterfly(k, i).base + (q - 1) * k.part * k.stride]
  BY <1>0, ReadsForms
<1>10. Reads(k, i) = [q \in 1..k.radix |-> Place(k, o, n, g, j, q - 1)]
  BY <1>8, <1>9
<1>11. i = (o * k.stride + n) * (d * k.part) + (g * k.part + j)
  BY <1>3, <1>5, <1>6
<1> QED BY <1>10, <1>11

\* The inputs of a butterfly are elements of the array.
LEMMA PlaceInBounds ==
  ASSUME NEW k, NEW m, NEW d, Staged(k, m, d),
         NEW o \in 0..(m - 1), NEW n \in 0..(k.stride - 1), NEW g \in 0..(d - 1),
         NEW j \in 0..(k.part - 1), NEW q \in 0..(k.radix - 1)
  PROVE  Place(k, o, n, g, j, q) \in 0..(k.total - 1)
<1>0. /\ k.radix \in Positive /\ k.part \in Positive /\ d \in Positive
      /\ k.length \in Positive /\ k.stride \in Positive /\ m \in Positive
      /\ k.total = m * (k.length * k.stride) /\ k.length = d * (k.radix * k.part)
  BY StagedFacts
<1>1. g * (k.radix * k.part) + (q * k.part + j) \in 0..(k.length - 1)
  BY <1>0, CoordinateBounds
<1>2. PICK c \in 0..(k.length - 1) : c = g * (k.radix * k.part) + (q * k.part + j)
  BY <1>1
<1>3. o * (k.length * k.stride) + (c * k.stride + n) \in 0..(m * (k.length * k.stride) - 1)
  BY <1>0, PlaceBounds
<1> QED BY <1>0, <1>2, <1>3 DEF Place

\* No element is an input of two butterflies, or twice of one.
LEMMA PlacesDiffer ==
  ASSUME NEW k, NEW m, NEW d, Staged(k, m, d),
         NEW o \in 0..(m - 1), NEW n \in 0..(k.stride - 1), NEW g \in 0..(d - 1),
         NEW j \in 0..(k.part - 1), NEW q \in 0..(k.radix - 1),
         NEW o2 \in 0..(m - 1), NEW n2 \in 0..(k.stride - 1), NEW g2 \in 0..(d - 1),
         NEW j2 \in 0..(k.part - 1), NEW q2 \in 0..(k.radix - 1),
         Place(k, o, n, g, j, q) = Place(k, o2, n2, g2, j2, q2)
  PROVE  o = o2 /\ n = n2 /\ g = g2 /\ j = j2 /\ q = q2
<1>0. /\ k.radix \in Positive /\ k.part \in Positive /\ d \in Positive
      /\ k.length \in Positive /\ k.stride \in Positive /\ m \in Positive
      /\ k.length = d * (k.radix * k.part)
  BY StagedFacts
<1>1. PICK c \in 0..(k.length - 1) : c = g * (k.radix * k.part) + (q * k.part + j)
  BY <1>0, CoordinateBounds
<1>2. PICK c2 \in 0..(k.length - 1) : c2 = g2 * (k.radix * k.part) + (q2 * k.part + j2)
  BY <1>0, CoordinateBounds
<1>3. /\ IsSpot(k.length, k.stride, o, c, n) /\ IsSpot(k.length, k.stride, o2, c2, n2)
      /\ Spot(k.length, k.stride, o, c, n) = Spot(k.length, k.stride, o2, c2, n2)
  BY <1>0, <1>1, <1>2 DEF Place, Spot, IsSpot
<1>5. o = o2 /\ c = c2 /\ n = n2
  BY <1>3, SpotUnique
<1>6. /\ IsSpot(k.radix, k.part, g, q, j) /\ IsSpot(k.radix, k.part, g2, q2, j2)
      /\ Spot(k.radix, k.part, g, q, j) = Spot(k.radix, k.part, g2, q2, j2)
  BY <1>0, <1>1, <1>2, <1>5 DEF Spot, IsSpot
<1>7. g = g2 /\ q = q2 /\ j = j2
  BY <1>6, SpotUnique
<1> QED BY <1>5, <1>7

\* A kernel whose reads stay below in and whose writes stay below out.
Permutes(k) ==
    \/ k.op = "radix2_gather" /\ \E b \in Nat : k.length = Product(Twos(b))
    \/ k.op = "mixed_gather" /\ k.factors \in Seq(Positive) /\ Product(k.factors) = k.length

-----------------------------------------------------------------------------
(* Kernels that fit two arrays of given sizes.                             *)

Fits(k, in, out) ==
    \/ /\ Permutes(k) /\ k.total <= in /\ k.total <= out
       /\ \E m \in Positive : Sized(k.total, k.length, k.stride, m)
    \/ /\ \E m \in Positive, d \in Positive : Staged(k, m, d)
       /\ k.total <= in /\ k.total <= out
    \/ /\ k.op = "expand" /\ k.convolution_length \in Positive
       /\ \E m \in Positive : Sized(k.total, k.length, k.stride, m)
       /\ k.total <= in /\ (k.total \div k.length) * k.convolution_length <= out
    \/ /\ k.op = "contract" /\ k.convolution_length \in Positive
       /\ k.length <= k.convolution_length
       /\ \E m \in Positive : Sized(k.total, k.length, k.stride, m)
       /\ (k.total \div k.length) * k.convolution_length <= in /\ k.total <= out
    \/ /\ k.op \in {"multiply", "copy"} /\ k.total \in Positive
       /\ k.total <= in /\ k.total <= out

\* A sequence with one element.
LEMMA OneElement ==
  ASSUME NEW e
  PROVE  ToSet(<<e>>) = {e} /\ DOMAIN <<e>> = 1..1
BY DEF ToSet

\* Items that are not those of a stage write one element each, the one of their number.
LEMMA WritesOne ==
  ASSUME NEW k, NEW i
  PROVE  /\ k.op \notin Stages => Writes(k, i) = <<i>>
         /\ k.op \in Stages => Writes(k, i) = Reads(k, i)
BY DEF Writes, Stages

\* An item of expand reads one element of its line, or pads.
LEMMA ExpandReads ==
  ASSUME NEW k, NEW m, Sized(k.total, k.length, k.stride, m), k.op = "expand",
         k.convolution_length \in Positive, NEW i \in 0..(ItemCount(k) - 1)
  PROVE  Reads(k, i) = <<>> \/ \E e \in 0..(k.total - 1) : Reads(k, i) = <<e>>
<1>0. k.length \in Positive /\ k.stride \in Positive /\ m \in Positive
      /\ k.total = m * (k.length * k.stride)
  BY DEF Sized
<1>1. k.total \div k.length = m * k.stride
        /\ ItemCount(k) = (m * k.stride) * k.convolution_length
  BY SizedFacts, ItemCounts
<1>2. /\ m * k.stride \in Nat /\ k.stride \in Nat \ {0} /\ m \in Nat
           /\ k.convolution_length \in Nat \ {0}
      /\ (m * k.stride) * k.convolution_length \in Nat
  BY <1>0, TimesType DEF Positive
<1>3. i \in Nat
  BY <1>1, <1>2
<1>4. PICK line \in 0..(m * k.stride - 1), c \in 0..(k.convolution_length - 1) :
        line = i \div k.convolution_length /\ c = i % k.convolution_length
  <2>1. i \div k.convolution_length \in 0..(m * k.stride - 1)
    BY <1>1, <1>2, DivBelow
  <2>2. i % k.convolution_length \in 0..(k.convolution_length - 1)
    BY <1>2, <1>3, DivMod
  <2> QED BY <2>1, <2>2
<1>5. CASE ~ (c < k.length)
  BY <1>4, <1>5, ReadsForms
<1>6. CASE c < k.length
  <2>1. Reads(k, i) = <<Unpadded(k, line, c)>>
    BY <1>4, <1>6, ReadsForms
  <2>2. c \in 0..(k.length - 1) /\ line \in Nat
    BY <1>0, <1>2, <1>4, <1>6 DEF Positive
  <2>3. PICK o \in 0..(m - 1), n \in 0..(k.stride - 1) : o = line \div k.stride
               /\ n = line % k.stride
    <3>1. line \div k.stride \in 0..(m - 1)
      BY <1>2, <1>4, DivBelow
    <3>2. line % k.stride \in 0..(k.stride - 1)
      BY <1>2, <2>2, DivMod
    <3> QED BY <3>1, <3>2
  <2>4. Unpadded(k, line, c) = ((o * k.length) * k.stride + n) + c * k.stride
    BY <2>3 DEF Unpadded
  <2>5. ((o * k.length) * k.stride + n) + c * k.stride
           = o * (k.length * k.stride) + (c * k.stride + n)
    <3>1. PICK L \in Nat, S \in Nat : L = k.length /\ S = k.stride
      BY <1>0 DEF Positive
    <3>2. o \in Nat /\ n \in Nat /\ c \in Nat
      BY <2>2
    <3>3. ((o * L) * S + n) + c * S = o * (L * S) + (c * S + n)
      BY <3>2
    <3> QED BY <3>1, <3>3
  <2>6. o * (k.length * k.stride) + (c * k.stride + n) \in 0..(m * (k.length * k.stride) - 1)
    BY <1>0, <2>2, PlaceBounds
  <2> QED BY <1>0, <2>1, <2>4, <2>5, <2>6
<1> QED BY <1>5, <1>6

\* An item of contract reads one element of its padded line.
LEMMA ContractReads ==
  ASSUME NEW k, NEW m, Sized(k.total, k.length, k.stride, m), k.op = "contract",
         k.convolution_length \in Positive, k.length <= k.convolution_length,
         NEW i \in 0..(k.total - 1)
  PROVE  \E e \in 0..((k.total \div k.length) * k.convolution_length - 1) : Reads(k, i) = <<e>>
<1>0. k.length \in Positive /\ k.stride \in Positive /\ m \in Positive
      /\ k.total = m * (k.length * k.stride)
  BY DEF Sized
<1>1. k.total \div k.length = m * k.stride
  BY SizedFacts
<1>2. /\ m * k.stride \in Nat /\ k.stride \in Nat /\ m \in Nat /\ k.convolution_length \in Nat
  BY <1>0, TimesType DEF Positive
<1>3. PICK o \in 0..(m - 1), c \in 0..(k.length - 1), n \in 0..(k.stride - 1) :
        /\ (i \div k.stride) % k.length = c
        /\ i \div (k.length * k.stride) = o /\ i % k.stride = n
  BY LinearSplit
<1>4. Reads(k, i) = <<(o * k.stride + n) * k.convolution_length + c>>
  BY <1>3, ReadsForms DEF Coordinate
<1>5. o * k.stride + n \in 0..(m * k.stride - 1)
  BY <1>2, Below
<1>6. c \in 0..(k.convolution_length - 1)
  BY <1>0, <1>2 DEF Positive
<1>7. (o * k.stride + n) * k.convolution_length + c
         \in 0..((m * k.stride) * k.convolution_length - 1)
  BY <1>2, <1>5, <1>6, Below
<1> QED BY <1>1, <1>4, <1>7

\* A kernel that fits stays within both arrays.
LEMMA FitsBounds ==
  ASSUME NEW k, NEW in \in Nat, NEW out \in Nat, Fits(k, in, out), NEW i \in Items(k)
  PROVE  ToSet(Reads(k, i)) \subseteq Indices(in) /\ ToSet(Writes(k, i)) \subseteq Indices(out)
<1>0. i \in 0..(ItemCount(k) - 1)
  BY DEF Items, Indices
<1>a. ASSUME NEW x \in Int, NEW a \in Nat, x <= a PROVE 0..(x - 1) \subseteq Indices(a)
  BY <1>a DEF Indices
<1>1. CASE /\ Permutes(k) /\ k.total <= in /\ k.total <= out
           /\ \E m \in Positive : Sized(k.total, k.length, k.stride, m)
  <2>1. PICK m \in Positive : Sized(k.total, k.length, k.stride, m)
    BY <1>1
  <2>2. k.op \in Gathers /\ k.op \notin Stages
    BY <1>1 DEF Permutes, Gathers, Stages
  <2>3. i \in 0..(k.total - 1) /\ k.total \in Int
    BY <1>0, <2>1, <2>2, ItemCounts, SizedFacts DEF Positive
  <2>4. \E e \in 0..(k.total - 1) : Reads(k, i) = <<e>>
    BY <1>1, <2>1, <2>3, GatherReads DEF Permutes
  <2>5. Writes(k, i) = <<i>>
    BY <2>2, WritesOne
  <2> QED BY <1>1, <1>a, <2>3, <2>4, <2>5, OneElement
<1>2. CASE /\ \E m \in Positive, d \in Positive : Staged(k, m, d)
           /\ k.total <= in /\ k.total <= out
  <2>1. PICK m \in Positive, d \in Positive : Staged(k, m, d)
    BY <1>2
  <2>2. k.op \in Stages /\ k.total \in Int /\ k.radix \in Nat
    BY <2>1, StagedFacts, SizedFacts DEF Positive, Staged
  <2>3. PICK o \in 0..(m - 1), n \in 0..(k.stride - 1), g \in 0..(d - 1),
               j \in 0..(k.part - 1) :
          Reads(k, i) = [q \in 1..k.radix |-> Place(k, o, n, g, j, q - 1)]
    BY <1>0, <2>1, StageReads
  <2>4. ASSUME NEW q \in 1..k.radix PROVE Place(k, o, n, g, j, q - 1) \in 0..(k.total - 1)
    <3>1. q - 1 \in 0..(k.radix - 1)
      BY <2>2
    <3> QED BY <2>1, <3>1, PlaceInBounds
  <2>5. ToSet(Reads(k, i)) \subseteq 0..(k.total - 1)
    BY <2>3, <2>4 DEF ToSet
  <2>6. Writes(k, i) = Reads(k, i)
    BY <2>2, WritesOne
  <2> QED BY <1>2, <1>a, <2>2, <2>5, <2>6
<1>3. CASE /\ k.op = "expand" /\ k.convolution_length \in Positive
           /\ \E m \in Positive : Sized(k.total, k.length, k.stride, m)
           /\ k.total <= in /\ (k.total \div k.length) * k.convolution_length <= out
  <2>1. PICK m \in Positive : Sized(k.total, k.length, k.stride, m)
    BY <1>3
  <2>2. Writes(k, i) = <<i>>
    BY <1>3, WritesOne DEF Stages
  <2>3. ItemCount(k) = (k.total \div k.length) * k.convolution_length
    BY <1>3, ItemCounts
  <2>4. k.total \in Int /\ ItemCount(k) \in Int
    <3>1. k.total \div k.length \in Positive
      BY <2>1, SizedFacts, TimesType DEF Sized
    <3> QED BY <3>1, <2>1, <2>3, <1>3, SizedFacts, TimesType DEF Positive
  <2>5. Reads(k, i) = <<>> \/ \E e \in 0..(k.total - 1) : Reads(k, i) = <<e>>
    BY <1>0, <1>3, <2>1, ExpandReads
  <2>6. ToSet(<<>>) = {}
    BY DEF ToSet
  <2>7. ToSet(Reads(k, i)) \subseteq 0..(k.total - 1)
    BY <2>5, <2>6, OneElement
  <2>8. ToSet(Writes(k, i)) \subseteq 0..(ItemCount(k) - 1)
    BY <1>0, <2>2, OneElement
  <2> QED BY <1>3, <1>a, <2>3, <2>4, <2>7, <2>8
<1>4. CASE /\ k.op = "contract" /\ k.convolution_length \in Positive
                /\ k.length <= k.convolution_length
           /\ \E m \in Positive : Sized(k.total, k.length, k.stride, m)
           /\ (k.total \div k.length) * k.convolution_length <= in /\ k.total <= out
  <2>1. PICK m \in Positive : Sized(k.total, k.length, k.stride, m)
    BY <1>4
  <2>2. Writes(k, i) = <<i>>
    BY <1>4, WritesOne DEF Stages
  <2>3. ItemCount(k) = k.total /\ k.total \in Int
    BY <1>4, <2>1, ItemCounts, SizedFacts DEF Positive
  <2>4. (k.total \div k.length) * k.convolution_length \in Int
    <3>1. k.total \div k.length \in Positive
      BY <2>1, SizedFacts, TimesType DEF Sized
    <3> QED BY <3>1, <1>4, TimesType
  <2>5. \E e \in 0..((k.total \div k.length) * k.convolution_length - 1) : Reads(k, i) = <<e>>
    BY <1>0, <1>4, <2>1, <2>3, ContractReads
  <2>7. ToSet(Reads(k, i)) \subseteq 0..((k.total \div k.length) * k.convolution_length - 1)
    BY <2>5, OneElement
  <2>8. ToSet(Writes(k, i)) \subseteq 0..(k.total - 1)
    BY <1>0, <2>2, <2>3, OneElement
  <2> QED BY <1>4, <1>a, <2>3, <2>4, <2>7, <2>8
<1>5. CASE /\ k.op \in {"multiply", "copy"} /\ k.total \in Positive
           /\ k.total <= in /\ k.total <= out
  <2>1. Writes(k, i) = <<i>> /\ Reads(k, i) = <<i>>
    BY <1>5, WritesOne, ReadsForms DEF Stages
  <2>2. i \in 0..(k.total - 1)
    BY <1>0, <1>5, ItemCounts
  <2> QED BY <1>5, <1>a, <2>1, <2>2, OneElement DEF Positive
<1> QED BY <1>1, <1>2, <1>3, <1>4, <1>5 DEF Fits

LEMMA InjectiveImage ==
  ASSUME NEW T, IsFiniteSet(T), NEW f, f = [x \in T |-> f[x]],
         \A x \in T, y \in T : f[x] = f[y] => x = y
  PROVE  Cardinality({f[x] : x \in T}) = Cardinality(T)
<1> DEFINE U == {f[x] : x \in T}
<1>1. f \in Bijection(T, U)
  BY DEF Bijection, Injection, Surjection, IsInjective
<1>2. ExistsBijection(T, U)
  BY <1>1 DEF ExistsBijection
<1> QED BY <1>2, FS_Bijection

\* The places a kernel writes, one for each item and each element it leaves.
WrittenBy(k) == UNION {{<<i, n>> : n \in DOMAIN Writes(k, i)} : i \in Items(k)}

\* If every item writes w elements and no two are the same, none is written twice.
WritesApart(k, c, w) ==
    /\ c \in Nat /\ ItemCount(k) = c /\ w \in Nat
    /\ \A i \in 0..(c - 1) : DOMAIN Writes(k, i) = 1..w
    /\ \A i \in 0..(c - 1), i2 \in 0..(c - 1), n \in 1..w, n2 \in 1..w :
          Writes(k, i)[n] = Writes(k, i2)[n2] => i = i2 /\ n = n2

LEMMA WrittenOnce ==
  ASSUME NEW k, NEW c, NEW w, WritesApart(k, c, w)
  PROVE  Cardinality({Writes(k, x[1])[x[2]] : x \in WrittenBy(k)}) = Cardinality(WrittenBy(k))
<1> /\ c \in Nat /\ ItemCount(k) = c /\ w \in Nat
    /\ \A i \in 0..(c - 1) : DOMAIN Writes(k, i) = 1..w
    /\ \A i \in 0..(c - 1), i2 \in 0..(c - 1), n \in 1..w, n2 \in 1..w :
          Writes(k, i)[n] = Writes(k, i2)[n2] => i = i2 /\ n = n2
  BY DEF WritesApart
<1> DEFINE T == (0..(c - 1)) \X (1..w)
           f == [x \in T |-> Writes(k, x[1])[x[2]]]
<1>1. WrittenBy(k) = T
  BY DEF WrittenBy, Items, Indices
<1>2. IsFiniteSet(T)
  <2>1. IsFiniteSet(0..(c - 1)) /\ IsFiniteSet(1..w)
    BY FS_Interval
  <2> QED BY <2>1, FS_Product
<1>3. ASSUME NEW x \in T, NEW y \in T, f[x] = f[y] PROVE x = y
  <2>1. /\ x[1] \in 0..(c - 1) /\ x[2] \in 1..w /\ x = <<x[1], x[2]>>
        /\ y[1] \in 0..(c - 1) /\ y[2] \in 1..w /\ y = <<y[1], y[2]>>
    OBVIOUS
  <2>2. Writes(k, x[1])[x[2]] = Writes(k, y[1])[y[2]]
    BY <1>3
  <2>3. x[1] = y[1] /\ x[2] = y[2]
    BY <2>1, <2>2
  <2> QED BY <2>1, <2>3
<1>4. Cardinality({f[x] : x \in T}) = Cardinality(T)
  <2>1. f = [x \in T |-> f[x]]
    OBVIOUS
  <2> HIDE DEF f, T
  <2> QED BY <1>2, <1>3, <2>1, InjectiveImage
<1>5. {f[x] : x \in T} = {Writes(k, x[1])[x[2]] : x \in T}
  OBVIOUS
<1> HIDE DEF T, f
<1> QED BY <1>1, <1>4, <1>5

\* No two items of a kernel that fits write the same element.
LEMMA FitsWrittenOnce ==
  ASSUME NEW k, NEW in \in Nat, NEW out \in Nat, Fits(k, in, out)
  PROVE  Cardinality({Writes(k, x[1])[x[2]] : x \in WrittenBy(k)}) = Cardinality(WrittenBy(k))
<1>1. CASE k.op \in Stages
  <2>0. \E m \in Positive, d \in Positive : Staged(k, m, d)
    BY <1>1 DEF Fits, Permutes, Stages
  <2>1. PICK m \in Positive, d \in Positive : Staged(k, m, d)
    BY <2>0
  <2>2. PICK c \in Nat : c = ItemCount(k)
    <3>1. m * k.stride \in Positive /\ d * k.part \in Positive
      BY <2>1, StagedFacts, TimesType
    <3>2. (m * k.stride) * (d * k.part) \in Nat
      BY <3>1, TimesType
    <3> QED BY <3>2, <2>1, StagedFacts
  <2>3. PICK w \in Nat : w = k.radix
    BY <2>1, StagedFacts DEF Positive
  <2>4. ASSUME NEW i \in 0..(c - 1)
        PROVE  \E o \in 0..(m - 1), n \in 0..(k.stride - 1), g \in 0..(d - 1),
                 j \in 0..(k.part - 1) :
                  /\ i = (o * k.stride + n) * (d * k.part) + (g * k.part + j)
                  /\ Writes(k, i) = [q \in 1..w |-> Place(k, o, n, g, j, q - 1)]
    <3>1. i \in 0..(ItemCount(k) - 1)
      BY <2>2
    <3>2. Writes(k, i) = Reads(k, i)
      BY <1>1, WritesOne
    <3>3. PICK o \in 0..(m - 1), n \in 0..(k.stride - 1), g \in 0..(d - 1),
                 j \in 0..(k.part - 1) :
            /\ i = (o * k.stride + n) * (d * k.part) + (g * k.part + j)
            /\ Reads(k, i) = [q \in 1..k.radix |-> Place(k, o, n, g, j, q - 1)]
      BY <2>1, <3>1, StageReads
    <3>4. Writes(k, i) = [q \in 1..w |-> Place(k, o, n, g, j, q - 1)]
      BY <2>3, <3>2, <3>3
    <3> QED BY <3>3, <3>4
  <2>5. ASSUME NEW i \in 0..(c - 1) PROVE DOMAIN Writes(k, i) = 1..w
    BY <2>4
  <2>6. ASSUME NEW i \in 0..(c - 1), NEW i2 \in 0..(c - 1), NEW n \in 1..w, NEW n2 \in 1..w,
               Writes(k, i)[n] = Writes(k, i2)[n2]
        PROVE  i = i2 /\ n = n2
    <3>1. PICK o \in 0..(m - 1), l \in 0..(k.stride - 1), g \in 0..(d - 1),
                 j \in 0..(k.part - 1) :
             /\ i = (o * k.stride + l) * (d * k.part) + (g * k.part + j)
             /\ Writes(k, i) = [q \in 1..w |-> Place(k, o, l, g, j, q - 1)]
      BY <2>4
    <3>2. PICK o2 \in 0..(m - 1), l2 \in 0..(k.stride - 1), g2 \in 0..(d - 1),
                 j2 \in 0..(k.part - 1) :
             /\ i2 = (o2 * k.stride + l2) * (d * k.part) + (g2 * k.part + j2)
             /\ Writes(k, i2) = [q \in 1..w |-> Place(k, o2, l2, g2, j2, q - 1)]
      BY <2>4
    <3>3. PICK q \in 0..(k.radix - 1), q2 \in 0..(k.radix - 1) : q = n - 1 /\ q2 = n2 - 1
      BY <2>3
    <3>4. Place(k, o, l, g, j, q) = Place(k, o2, l2, g2, j2, q2)
      BY <2>6, <3>1, <3>2, <3>3
    <3>5. o = o2 /\ l = l2 /\ g = g2 /\ j = j2 /\ q = q2
      BY <2>1, <3>4, PlacesDiffer
    <3>6. n = n2
      BY <3>3, <3>5
    <3>7. i = i2
      BY <3>1, <3>2, <3>5
    <3> QED BY <3>6, <3>7
  <2>7. WritesApart(k, c, w)
    BY <2>2, <2>5, <2>6 DEF WritesApart
  <2> QED BY <2>7, WrittenOnce
<1>2. CASE k.op \notin Stages
  <2>1. \A i : Writes(k, i) = <<i>>
    BY <1>2, WritesOne
  <2>2. ItemCount(k) \in Nat
    <3>1. CASE k.op = "expand"
      <4>1. PICK m \in Positive : Sized(k.total, k.length, k.stride, m)
                   /\ k.convolution_length \in Positive
        BY <3>1 DEF Fits, Permutes, Staged, Stages
      <4>2. k.total \div k.length \in Positive
        BY <4>1, SizedFacts, TimesType DEF Sized
      <4> QED BY <3>1, <4>1, <4>2, ItemCounts, TimesType
    <3>2. CASE k.op # "expand"
      <4>1. ItemCount(k) = k.total
        BY <1>2, <3>2, ItemCounts DEF Fits, Permutes, Staged, Stages, Gathers
      <4>2. k.total \in Positive
        BY <1>2, <3>2, SizedFacts DEF Fits, Permutes, Staged, Stages, Gathers
      <4> QED BY <4>1, <4>2 DEF Positive
    <3> QED BY <3>1, <3>2
  <2>3. PICK c \in Nat : c = ItemCount(k)
    BY <2>2
  <2>4. \A i \in 0..(c - 1) : DOMAIN Writes(k, i) = 1..1
    BY <2>1
  <2>5. \A i \in 0..(c - 1), i2 \in 0..(c - 1), n \in 1..1, n2 \in 1..1 :
            Writes(k, i)[n] = Writes(k, i2)[n2] => i = i2 /\ n = n2
    BY <2>1
  <2>6. WritesApart(k, c, 1)
    BY <2>3, <2>4, <2>5 DEF WritesApart
  <2> QED BY <2>6, WrittenOnce
<1> QED BY <1>1, <1>2

\* In place: an item reads only what it writes.
LEMMA InPlaceReads ==
  ASSUME NEW k, k.op \in Stages \union {"multiply", "copy"}, NEW i
  PROVE  Reads(k, i) = Writes(k, i)
<1>1. CASE k.op \in Stages
  BY <1>1, WritesOne
<1>2. CASE k.op \in {"multiply", "copy"}
  BY <1>2, WritesOne, ReadsForms DEF Stages
<1> QED BY <1>1, <1>2

-----------------------------------------------------------------------------
(* The sizes of the arrays.                                                *)

\* A shape has one to three positive lengths.
LEMMA ShapeFacts ==
  ASSUME NEW shape \in Shapes
  PROVE  shape \in Seq(Positive) /\ Len(shape) \in 1..3
BY PlansAssumption DEF Positive

\* The elements of a plan, as blocks of lines along any of its axes.
LEMMA TotalFacts ==
  ASSUME NEW shape \in Seq(Positive), NEW batch \in Positive, NEW a \in 1..Len(shape)
  PROVE  \E m \in Positive :
            Sized(ElementCount(shape, batch), shape[a], AxisStride(shape, a), m)
<1> DEFINE p == Product(SubSeq(shape, 1, a - 1))
           s == Product(SubSeq(shape, a + 1, Len(shape)))
<1>1. Product(shape) = (p * shape[a]) * s
  BY ProductAround
<1>2. p \in Positive /\ s \in Positive /\ shape[a] \in Positive
  <2>1. SubSeq(shape, 1, a - 1) \in Seq(Positive)
          /\ SubSeq(shape, a + 1, Len(shape)) \in Seq(Positive)
    OBVIOUS
  <2>2. p \in Positive /\ s \in Positive
    BY <2>1, ProductType
  <2>3. shape[a] \in Positive
    OBVIOUS
  <2> QED BY <2>2, <2>3
<1> HIDE DEF p, s
<1>3. PICK x \in Nat, y \in Nat, z \in Nat, b \in Nat : x = p /\ y = shape[a] /\ z = s
             /\ b = batch
  BY <1>2 DEF Positive
<1>4. b * ((x * y) * z) = (b * x) * (y * z)
  OBVIOUS
<1>5. ElementCount(shape, batch) = (batch * p) * (shape[a] * s)
  BY <1>1, <1>3, <1>4 DEF ElementCount
<1>6. batch * p \in Positive
  BY <1>2, TimesType
<1>7. AxisStride(shape, a) = s
  BY DEF AxisStride, s
<1> QED BY <1>2, <1>5, <1>6, <1>7 DEF Sized

\* The convolution length is a power of two that holds the line.
LEMMA ConvolutionFacts ==
  ASSUME NEW length \in Positive
  PROVE  \E b \in Nat : /\ ConvolutionLength(length) = Product(Twos(b))
                        /\ ConvolutionLength(length) \in Positive
                        /\ length <= ConvolutionLength(length)
<1>1. 2 * length - 1 \in Nat /\ length <= 2 * length - 1
  BY DEF Positive
<1>2. PICK b \in Nat : /\ NextPowerOfTwo(2 * length - 1) = Product(Twos(b))
                       /\ Product(Twos(b)) >= 2 * length - 1
  BY <1>1, NextPowerOfTwoIsPower
<1>3. Product(Twos(b)) \in Positive
  BY TwosNext
<1> QED BY <1>1, <1>2, <1>3 DEF ConvolutionLength, Positive

\* One of a number and the values of a function is the greatest.
LEMMA GreatestOf ==
  ASSUME NEW t \in Nat, NEW n \in Nat, NEW f \in [1..n -> Nat]
  PROVE  /\ Max({t} \union {f[a] : a \in 1..n}) \in Nat
         /\ t <= Max({t} \union {f[a] : a \in 1..n})
         /\ \A a \in 1..n : f[a] <= Max({t} \union {f[b] : b \in 1..n})
<1> DEFINE T(k) == {t} \union {f[a] : a \in 1..k}
           Good == {k \in Nat : k <= n => \E z \in T(k) : \A y \in T(k) : z >= y}
<1>1. 0 \in Good
  OBVIOUS
<1>2. ASSUME NEW k \in Nat, k \in Good PROVE k + 1 \in Good
  <2> SUFFICES ASSUME k + 1 <= n PROVE \E z \in T(k + 1) : \A y \in T(k + 1) : z >= y
    OBVIOUS
  <2>1. PICK z \in T(k) : \A y \in T(k) : z >= y
    BY <1>2
  <2>2. T(k) \subseteq Nat /\ f[k + 1] \in Nat
    OBVIOUS
  <2>3. T(k + 1) = T(k) \union {f[k + 1]}
    <3>1. 1..(k + 1) = (1..k) \union {k + 1}
      OBVIOUS
    <3> QED BY <3>1
  <2> HIDE DEF T
  <2>4. CASE f[k + 1] >= z
    <3>1. \A y \in T(k + 1) : f[k + 1] >= y
      BY <2>1, <2>2, <2>3, <2>4
    <3> QED BY <2>3, <3>1
  <2>5. CASE ~ (f[k + 1] >= z)
    <3>1. \A y \in T(k + 1) : z >= y
      BY <2>1, <2>2, <2>3, <2>5
    <3> QED BY <2>1, <2>3, <3>1
  <2> QED BY <2>4, <2>5
<1>3. n \in Good
  <2> HIDE DEF Good
  <2> QED BY <1>1, <1>2, ClosedUnderSuccessor
<1>4. \E z \in T(n) : \A y \in T(n) : z >= y
  BY <1>3
<1>5. Max(T(n)) \in T(n) /\ \A y \in T(n) : Max(T(n)) >= y
  <2> HIDE DEF T
  <2> QED BY <1>4 DEF Max
<1>6. T(n) \subseteq Nat /\ t \in T(n) /\ \A a \in 1..n : f[a] \in T(n)
  OBVIOUS
<1>7. Max(T(n)) \in Nat /\ t <= Max(T(n)) /\ \A a \in 1..n : f[a] <= Max(T(n))
  <2> HIDE DEF T
  <2> QED BY <1>5, <1>6
<1> QED BY <1>7

\* The scratch suffices for the axis that needs most.
LEMMA ScratchFacts ==
  ASSUME NEW shape \in Seq(Positive), NEW batch \in Positive
  PROVE  /\ ElementCount(shape, batch) \in Positive
         /\ ScratchElements(shape, batch) \in Nat
         /\ ElementCount(shape, batch) <= ScratchElements(shape, batch)
         /\ \A a \in 1..Len(shape) : ~ Direct(shape[a]) =>
               (ElementCount(shape, batch) \div shape[a]) * ConvolutionLength(shape[a])
                  <= ScratchElements(shape, batch)
<1> DEFINE total == ElementCount(shape, batch)
           needed(a) == IF Direct(shape[a]) THEN total
                        ELSE (total \div shape[a]) * ConvolutionLength(shape[a])
           f == [a \in 1..Len(shape) |-> needed(a)]
<1>1. total \in Positive
  <2>1. Product(shape) \in Positive
    BY ProductType
  <2> QED BY <2>1, TimesType DEF ElementCount
<1>2. f \in [1..Len(shape) -> Nat]
  <2>1. ASSUME NEW a \in 1..Len(shape) PROVE needed(a) \in Nat
    <3>1. PICK m \in Positive : Sized(total, shape[a], AxisStride(shape, a), m)
      BY TotalFacts
    <3>2. total \div shape[a] \in Positive
      BY <3>1, SizedFacts, TimesType DEF Sized
    <3>3. ConvolutionLength(shape[a]) \in Positive
      BY ConvolutionFacts
    <3>4. (total \div shape[a]) * ConvolutionLength(shape[a]) \in Nat
      BY <3>2, <3>3, TimesType
    <3> QED BY <3>4, <1>1 DEF Positive
  <2> HIDE DEF needed
  <2> QED BY <2>1
<1>3. ScratchElements(shape, batch) = Max({total} \union {needed(a) : a \in 1..Len(shape)})
  BY DEF ScratchElements
<1>4. {needed(a) : a \in 1..Len(shape)} = {f[a] : a \in 1..Len(shape)}
  <2> HIDE DEF needed
  <2> QED OBVIOUS
<1>5. /\ Max({total} \union {f[a] : a \in 1..Len(shape)}) \in Nat
      /\ total <= Max({total} \union {f[a] : a \in 1..Len(shape)})
      /\ \A a \in 1..Len(shape) : f[a] <= Max({total} \union {f[b] : b \in 1..Len(shape)})
  <2>1. Len(shape) \in Nat /\ total \in Nat
    BY <1>1 DEF Positive
  <2> HIDE DEF f, total
  <2> QED BY <1>2, <2>1, GreatestOf
<1>6. PICK M : M = ScratchElements(shape, batch)
  OBVIOUS
<1>7. M \in Nat /\ total <= M /\ \A a \in 1..Len(shape) : f[a] <= M
  <2> HIDE DEF f, total, needed
  <2> QED BY <1>3, <1>4, <1>5, <1>6
<1>8. \A a \in 1..Len(shape) : ~ Direct(shape[a]) =>
         f[a] = (total \div shape[a]) * ConvolutionLength(shape[a])
  <2> HIDE DEF total
  <2> QED OBVIOUS
<1> HIDE DEF f, needed
<1> QED BY <1>1, <1>6, <1>7, <1>8

\* Stage s of a radix-2 transform has a whole number of butterfly groups.
LEMMA TwosAround ==
  ASSUME NEW b \in Nat, NEW s \in 1..b
  PROVE  \E d \in Positive : Product(Twos(b)) = d * (2 * Product(Twos(s - 1)))
<1> DEFINE t == Twos(b)
<1>1. t \in Seq(Positive) /\ Len(t) = b /\ t[s] = 2
  BY DEF Twos, Positive
<1>2. SubSeq(t, 1, s - 1) = Twos(s - 1)
  BY DEF Twos
<1>3. SubSeq(t, s + 1, Len(t)) \in Seq(Positive) /\ SubSeq(t, 1, s - 1) \in Seq(Positive)
  BY <1>1
<1> HIDE DEF t
<1>4. PICK d \in Positive, p \in Positive :
         d = Product(SubSeq(t, s + 1, Len(t))) /\ p = Product(SubSeq(t, 1, s - 1))
  BY <1>3, ProductType
<1>5. Product(t) = (p * 2) * d
  <2>1. s \in 1..Len(t)
    BY <1>1
  <2>2. Product(t) = (Product(SubSeq(t, 1, s - 1)) * t[s]) * Product(SubSeq(t, s + 1, Len(t)))
    BY <1>1, <2>1, ProductAround
  <2> QED BY <1>1, <1>4, <2>2
<1>6. (p * 2) * d = d * (2 * p)
  BY DEF Positive
<1> QED BY <1>2, <1>4, <1>5, <1>6 DEF t

-----------------------------------------------------------------------------
(* The kernels of an axis, and the invariant.                              *)

Arrays == {"input", "output", "scratch_a", "scratch_b"}
Scratch == {"scratch_a", "scratch_b"}
Size(array) == IF array \in Scratch THEN ScratchElements(plan.shape, plan.batch)
               ELSE ElementCount(plan.shape, plan.batch)

KernelOK(k) ==
    /\ k.src \in Arrays /\ k.dst \in Arrays
    /\ Fits(k, Size(k.src), Size(k.dst))
    /\ k.src = k.dst => k.op \in Stages \union {"multiply", "copy"}
\* The kernels of an axis write into the scratch only.
AxisKernelOK(k) == KernelOK(k) /\ k.dst \in Scratch
AllOK(kernels) ==
    kernels \in Seq(ToSet(kernels)) /\ \A k \in ToSet(kernels) : AxisKernelOK(k)

\* Sequences of kernels that may run: from a set of them, one after another,
\* one alone, and without the first.
LEMMA AllOKFrom ==
  ASSUME NEW S, NEW kernels \in Seq(S), \A k \in S : AxisKernelOK(k)
  PROVE  AllOK(kernels)
<1>1. kernels \in Seq(ToSet(kernels)) /\ ToSet(kernels) \subseteq S
  BY DEF ToSet
<1> QED BY <1>1 DEF AllOK

LEMMA AllOKJoin ==
  ASSUME NEW s, NEW t, AllOK(s), AllOK(t)
  PROVE  AllOK(s \o t)
<1> DEFINE S == ToSet(s) \union ToSet(t)
<1>1. s \in Seq(ToSet(s)) /\ t \in Seq(ToSet(t)) /\ \A k \in S : AxisKernelOK(k)
  BY DEF AllOK
<1>2. s \in Seq(S) /\ t \in Seq(S)
  <2> \A X, Y : X \subseteq Y => Seq(X) \subseteq Seq(Y)
    OBVIOUS
  <2> QED BY <1>1
<1>3. s \o t \in Seq(S)
  BY <1>2
<1> HIDE DEF S
<1> QED BY <1>1, <1>3, AllOKFrom

LEMMA AllOKOne ==
  ASSUME NEW k, AxisKernelOK(k)
  PROVE  AllOK(<<k>>) /\ \A s : AllOK(s) => Last(s \o <<k>>) = k
<1>1. AllOK(<<k>>)
  <2> DEFINE S == {k}
  <2>1. <<k>> \in Seq(S)
    OBVIOUS
  <2>2. \A x \in S : AxisKernelOK(x)
    OBVIOUS
  <2> HIDE DEF S
  <2> QED BY <2>1, <2>2, AllOKFrom
<1>2. ASSUME NEW s, AllOK(s) PROVE Last(s \o <<k>>) = k
  <2>1. s \in Seq(ToSet(s))
    BY <1>2 DEF AllOK
  <2> QED BY <2>1 DEF Last
<1> QED BY <1>1, <1>2

LEMMA AllOKTail ==
  ASSUME NEW s, AllOK(s), s # <<>>
  PROVE  AxisKernelOK(Head(s)) /\ AllOK(Tail(s))
<1>1. s \in Seq(ToSet(s)) /\ \A k \in ToSet(s) : AxisKernelOK(k)
  BY DEF AllOK
<1>2. Head(s) \in ToSet(s) /\ Tail(s) \in Seq(ToSet(s))
  BY <1>1
<1> QED BY <1>1, <1>2, AllOKFrom

PlanInv ==
    /\ plan.shape \in Shapes /\ plan.batch \in Batches
    /\ \A a \in DOMAIN plan.shape :
          \E sign \in {-1, 1} : plan.tables[a] = Tables(plan.shape[a], sign)
MemInv ==
    /\ DOMAIN mem = Arrays
    /\ \A array \in Arrays : DOMAIN mem[array] = Indices(Size(array))
AxisInv ==
    /\ axis \in 0..Len(plan.shape)
    /\ source \in {"input"} \union Scratch
KernelsInv == AllOK(todo)
KeptInv == phase = "axes" \/ plan.placement = "out_of_place" => mem.input = argument
IInv == PlanInv /\ MemInv /\ AxisInv /\ KernelsInv /\ KeptInv

\* The sizes of the arrays are numbers, and no array is too small for the elements.
LEMMA Sizes ==
  ASSUME PlanInv
  PROVE  /\ plan.shape \in Seq(Positive) /\ plan.batch \in Positive
         /\ ElementCount(plan.shape, plan.batch) \in Positive
         /\ \A array \in Arrays : /\ Size(array) \in Nat
                                  /\ ElementCount(plan.shape, plan.batch) <= Size(array)
<1>1. plan.shape \in Seq(Positive)
  BY ShapeFacts DEF PlanInv
<1>2. plan.batch \in Positive
  BY PlansAssumption DEF PlanInv, Positive
<1>3. /\ ElementCount(plan.shape, plan.batch) \in Positive
      /\ ScratchElements(plan.shape, plan.batch) \in Nat
      /\ ElementCount(plan.shape, plan.batch) <= ScratchElements(plan.shape, plan.batch)
  BY <1>1, <1>2, ScratchFacts
<1> QED BY <1>1, <1>2, <1>3 DEF Size, Positive

\* The kernels of a radix-2 transform between two arrays that hold its elements.
LEMMA Radix2OK ==
  ASSUME NEW src \in Arrays, NEW dst \in Scratch, src # dst,
         NEW total, NEW length, NEW stride, NEW m \in Positive, Sized(total, length, stride, m),
         total <= Size(src), total <= Size(dst),
         NEW b \in Nat, length = Product(Twos(b)), NEW twiddles, NEW conjugate
  PROVE  /\ AllOK(Radix2Kernels(src, dst, total, length, stride, twiddles, conjugate))
         /\ Last(Radix2Kernels(src, dst, total, length, stride, twiddles, conjugate)).dst = dst
<1> DEFINE gather == [op |-> "radix2_gather", src |-> src, dst |-> dst,
                      total |-> total, length |-> length, stride |-> stride]
           stage(s) == [op |-> "radix2_stage", src |-> dst, dst |-> dst, total |-> total,
                        length |-> length, stride |-> stride, radix |-> 2,
                        part |-> Product(Twos(s - 1)), twiddles |-> twiddles,
                        conjugate |-> conjugate]
           stages == [s \in 1..b |-> stage(s)]
<1>1. Log2[length] = b
  BY Log2OfTwos
<1>2. Radix2Kernels(src, dst, total, length, stride, twiddles, conjugate) = <<gather>> \o stages
  BY <1>1 DEF Radix2Kernels
<1>0. dst \in Arrays
  BY DEF Arrays, Scratch
<1>3. AxisKernelOK(gather)
  <2> DEFINE k == gather
  <2>1. /\ k.op = "radix2_gather" /\ k.src = src /\ k.dst = dst /\ k.total = total
        /\ k.length = length /\ k.stride = stride
    OBVIOUS
  <2> HIDE DEF k
  <2>2. Permutes(k)
    BY <2>1 DEF Permutes
  <2>3. Fits(k, Size(k.src), Size(k.dst))
    BY <2>1, <2>2 DEF Fits
  <2>4. AxisKernelOK(k)
    BY <1>0, <2>1, <2>3 DEF AxisKernelOK, KernelOK
  <2> QED BY <2>4 DEF k
<1>4. ASSUME NEW s \in 1..b PROVE AxisKernelOK(stage(s))
  <2> DEFINE k == stage(s)
  <2>1. /\ k.op = "radix2_stage" /\ k.src = dst /\ k.dst = dst /\ k.total = total
        /\ k.length = length /\ k.stride = stride /\ k.radix = 2
             /\ k.part = Product(Twos(s - 1))
    OBVIOUS
  <2> HIDE DEF k
  <2>2. PICK d \in Positive : Product(Twos(b)) = d * (2 * Product(Twos(s - 1)))
    BY TwosAround
  <2>3. Product(Twos(s - 1)) \in Positive /\ 2 \in Positive
    <3>1. s - 1 \in Nat
      OBVIOUS
    <3>2. Product(Twos(s - 1)) \in Positive
      BY <3>1, TwosNext
    <3> QED BY <3>2 DEF Positive
  <2>4. Staged(k, m, d)
    BY <2>1, <2>2, <2>3 DEF Staged, Stages
  <2>5. Fits(k, Size(k.src), Size(k.dst))
    BY <2>1, <2>4 DEF Fits
  <2>6. AxisKernelOK(k)
    BY <1>0, <2>1, <2>5 DEF AxisKernelOK, KernelOK, Stages
  <2> QED BY <2>6 DEF k
<1>5. AllOK(<<gather>>)
  <2> HIDE DEF gather
  <2> QED BY <1>3, AllOKOne
<1>6. AllOK(stages)
  <2> DEFINE S == {stage(s) : s \in 1..b}
  <2>1. stages \in Seq(S)
    <3> HIDE DEF stage
    <3> QED OBVIOUS
  <2>2. \A k \in S : AxisKernelOK(k)
    <3> HIDE DEF stage
    <3> QED BY <1>4
  <2> HIDE DEF S, stages
  <2> QED BY <2>1, <2>2, AllOKFrom
<1>7. AllOK(<<gather>> \o stages)
  <2> HIDE DEF gather, stages
  <2> QED BY <1>5, <1>6, AllOKJoin
<1>8. Last(<<gather>> \o stages).dst = dst
  <2>1. \A s \in 1..b : stage(s).dst = dst
    OBVIOUS
  <2>2. gather.dst = dst
    OBVIOUS
  <2>3. Len(<<gather>> \o stages) = b + 1
    <3> HIDE DEF gather, stage
    <3> QED OBVIOUS
  <2>4. b > 0 => (<<gather>> \o stages)[b + 1] = stage(b)
    <3> HIDE DEF gather, stage
    <3> QED OBVIOUS
  <2>5. b = 0 => (<<gather>> \o stages)[b + 1] = gather
    <3> HIDE DEF gather, stage
    <3> QED OBVIOUS
  <2>6. (<<gather>> \o stages)[b + 1].dst = dst
    <3>1. CASE b = 0
      <4> HIDE DEF gather, stage, stages
      <4> QED BY <3>1, <2>2, <2>5
    <3>2. CASE b > 0
      <4>1. b \in 1..b
        BY <3>2
      <4> HIDE DEF gather, stage, stages
      <4> QED BY <3>2, <4>1, <2>1, <2>4
    <3> QED BY <3>1, <3>2
  <2> HIDE DEF gather, stages
  <2> QED BY <2>3, <2>6 DEF Last
<1> QED BY <1>2, <1>7, <1>8

\* The kernels of a mixed-radix transform: one stage for each factor.
LEMMA MixedOK ==
  ASSUME NEW src \in Arrays, NEW dst \in Scratch, src # dst,
         NEW total, NEW length, NEW stride, NEW m \in Positive, Sized(total, length, stride, m),
         total <= Size(src), total <= Size(dst),
         NEW factors \in Seq(Positive), length = Product(factors), NEW twiddles
  PROVE  /\ AllOK(MixedKernels(src, dst, total, length, stride, twiddles, factors))
         /\ Last(MixedKernels(src, dst, total, length, stride, twiddles, factors)).dst = dst
<1>1. PICK b \in Nat : b = Len(factors)
  OBVIOUS
<1> DEFINE gather == [op |-> "mixed_gather", src |-> src, dst |-> dst, factors |-> factors,
                      total |-> total, length |-> length, stride |-> stride]
           stage(s) == [op |-> "mixed_stage", src |-> dst, dst |-> dst, total |-> total,
                        length |-> length, stride |-> stride, radix |-> factors[s],
                        part |-> Product(SubSeq(factors, 1, s - 1)), twiddles |-> twiddles]
           stages == [s \in 1..b |-> stage(s)]
<1>2. MixedKernels(src, dst, total, length, stride, twiddles, factors) = <<gather>> \o stages
  BY <1>1 DEF MixedKernels
<1>0. dst \in Arrays
  BY DEF Arrays, Scratch
<1>3. AxisKernelOK(gather)
  <2> DEFINE k == gather
  <2>1. /\ k.op = "mixed_gather" /\ k.src = src /\ k.dst = dst /\ k.total = total
        /\ k.length = length /\ k.stride = stride /\ k.factors = factors
    OBVIOUS
  <2> HIDE DEF k
  <2>2. Permutes(k)
    BY <2>1 DEF Permutes
  <2>3. Fits(k, Size(k.src), Size(k.dst))
    BY <2>1, <2>2 DEF Fits
  <2>4. AxisKernelOK(k)
    BY <1>0, <2>1, <2>3 DEF AxisKernelOK, KernelOK
  <2> QED BY <2>4 DEF k
<1>4. ASSUME NEW s \in 1..b PROVE AxisKernelOK(stage(s))
  <2> DEFINE k == stage(s)
             p == Product(SubSeq(factors, 1, s - 1))
             d == Product(SubSeq(factors, s + 1, Len(factors)))
  <2>0. s \in 1..Len(factors)
    BY <1>1
  <2>1. /\ k.op = "mixed_stage" /\ k.src = dst /\ k.dst = dst /\ k.total = total
        /\ k.length = length /\ k.stride = stride /\ k.radix = factors[s] /\ k.part = p
    OBVIOUS
  <2>2. length = (p * factors[s]) * d
    BY <2>0, ProductAround
  <2>3. p \in Positive /\ d \in Positive /\ factors[s] \in Positive
    <3>1. SubSeq(factors, 1, s - 1) \in Seq(Positive)
            /\ SubSeq(factors, s + 1, Len(factors)) \in Seq(Positive)
      BY <2>0
    <3>2. p \in Positive /\ d \in Positive
      BY <3>1, ProductType
    <3>3. factors[s] \in Positive
      BY <2>0
    <3> QED BY <3>2, <3>3
  <2> HIDE DEF k, p, d
  <2>4. length = d * (factors[s] * p)
    <3>1. PICK x \in Nat, y \in Nat, z \in Nat : x = p /\ y = factors[s] /\ z = d
      BY <2>3 DEF Positive
    <3>2. (x * y) * z = z * (y * x)
      OBVIOUS
    <3> QED BY <2>2, <3>1, <3>2
  <2>5. Staged(k, m, d)
    BY <2>1, <2>3, <2>4 DEF Staged, Stages
  <2>6. Fits(k, Size(k.src), Size(k.dst))
    BY <2>1, <2>3, <2>5 DEF Fits
  <2>7. AxisKernelOK(k)
    BY <1>0, <2>1, <2>6 DEF AxisKernelOK, KernelOK, Stages
  <2> QED BY <2>7 DEF k
<1>5. AllOK(<<gather>>)
  <2> HIDE DEF gather
  <2> QED BY <1>3, AllOKOne
<1>6. AllOK(stages)
  <2> DEFINE S == {stage(s) : s \in 1..b}
  <2>1. stages \in Seq(S)
    <3> HIDE DEF stage
    <3> QED BY <1>1
  <2>2. \A k \in S : AxisKernelOK(k)
    <3> HIDE DEF stage
    <3> QED BY <1>4
  <2> HIDE DEF S, stages
  <2> QED BY <2>1, <2>2, AllOKFrom
<1>7. AllOK(<<gather>> \o stages)
  <2> HIDE DEF gather, stages
  <2> QED BY <1>5, <1>6, AllOKJoin
<1>8. Last(<<gather>> \o stages).dst = dst
  <2>1. \A s \in 1..b : stage(s).dst = dst
    OBVIOUS
  <2>2. gather.dst = dst
    OBVIOUS
  <2>3. Len(<<gather>> \o stages) = b + 1
    <3> HIDE DEF gather, stage
    <3> QED BY <1>1
  <2>4. b > 0 => (<<gather>> \o stages)[b + 1] = stage(b)
    <3> HIDE DEF gather, stage
    <3> QED BY <1>1
  <2>5. b = 0 => (<<gather>> \o stages)[b + 1] = gather
    <3> HIDE DEF gather, stage
    <3> QED BY <1>1
  <2>6. (<<gather>> \o stages)[b + 1].dst = dst
    <3>1. CASE b = 0
      <4> HIDE DEF gather, stage, stages
      <4> QED BY <3>1, <2>2, <2>5
    <3>2. CASE b > 0
      <4>1. b \in 1..b
        BY <3>2, <1>1
      <4> HIDE DEF gather, stage, stages
      <4> QED BY <3>2, <4>1, <2>1, <2>4
    <3> QED BY <3>1, <3>2, <1>1
  <2> HIDE DEF gather, stages
  <2> QED BY <2>3, <2>6 DEF Last
<1> QED BY <1>2, <1>7, <1>8

\* The kernels of Bluestein's algorithm: the padded lines fit the two scratch arrays.
LEMMA BluesteinOK ==
  ASSUME NEW src \in Arrays, NEW first \in Scratch, NEW second \in Scratch,
         src # first, first # second,
         NEW total, NEW length, NEW stride, NEW m \in Positive, Sized(total, length, stride, m),
         \A array \in Arrays : total <= Size(array),
         NEW table, NEW b \in Nat, table.convolution_length = Product(Twos(b)),
         length <= table.convolution_length,
         \A array \in Scratch : (total \div length) * table.convolution_length <= Size(array)
  PROVE  /\ AllOK(BluesteinKernels(src, first, second, total, length, stride, table))
         /\ Last(BluesteinKernels(src, first, second, total, length, stride,
              table)).dst = second
<1> DEFINE n == table.convolution_length
           expanded == (total \div length) * n
           expand == [op |-> "expand", src |-> src, dst |-> first, total |-> total,
                      length |-> length, stride |-> stride, convolution_length |-> n,
                      chirp |-> table.chirp]
           forward == Radix2Kernels(first, second, expanded, n, 1, table.twiddles, FALSE)
           multiply == [op |-> "multiply", src |-> second, dst |-> second, total |-> expanded,
                        convolution_length |-> n, kernel_spectrum |-> table.kernel_spectrum]
           backward == Radix2Kernels(second, first, expanded, n, 1, table.twiddles, TRUE)
           contract == [op |-> "contract", src |-> first, dst |-> second, total |-> total,
                        length |-> length, stride |-> stride, convolution_length |-> n,
                        chirp |-> table.chirp, scale |-> InverseOf(n)]
<1>0. first \in Arrays /\ second \in Arrays
  BY DEF Arrays, Scratch
<1>1. n \in Positive
  BY TwosNext
<1>2. total \div length \in Positive
  BY SizedFacts, TimesType DEF Sized
<1>3. expanded \in Positive /\ Sized(expanded, n, 1, total \div length)
  <2>1. expanded \in Positive
    BY <1>1, <1>2, TimesType
  <2>2. n * 1 = n
    BY <1>1 DEF Positive
  <2>3. 1 \in Positive
    BY DEF Positive
  <2> QED BY <1>1, <1>2, <2>1, <2>2, <2>3 DEF Sized
<1>4. BluesteinKernels(src, first, second, total, length, stride, table)
        = (((<<expand>> \o forward) \o <<multiply>>) \o backward) \o <<contract>>
  BY DEF BluesteinKernels
<1>5. AxisKernelOK(expand)
  <2> DEFINE k == expand
  <2>1. /\ k.op = "expand" /\ k.src = src /\ k.dst = first /\ k.total = total
        /\ k.length = length /\ k.stride = stride /\ k.convolution_length = n
    OBVIOUS
  <2> HIDE DEF k, n
  <2>2. Fits(k, Size(k.src), Size(k.dst))
    BY <2>1, <1>0, <1>1 DEF Fits, n
  <2>3. AxisKernelOK(k)
    BY <2>1, <2>2, <1>0 DEF AxisKernelOK, KernelOK
  <2> QED BY <2>3 DEF k
<1>6. AxisKernelOK(multiply)
  <2> DEFINE k == multiply
  <2>1. k.op = "multiply" /\ k.src = second /\ k.dst = second /\ k.total = expanded
    OBVIOUS
  <2>4. expanded <= Size(second)
    OBVIOUS
  <2> HIDE DEF k, expanded
  <2>2. Fits(k, Size(k.src), Size(k.dst))
    BY <2>1, <2>4, <1>3 DEF Fits
  <2>3. AxisKernelOK(k)
    BY <2>1, <2>2, <1>0 DEF AxisKernelOK, KernelOK
  <2> QED BY <2>3 DEF k
<1>7. AxisKernelOK(contract)
  <2> DEFINE k == contract
  <2>1. /\ k.op = "contract" /\ k.src = first /\ k.dst = second /\ k.total = total
        /\ k.length = length /\ k.stride = stride /\ k.convolution_length = n
    OBVIOUS
  <2> HIDE DEF k, n
  <2>2. Fits(k, Size(k.src), Size(k.dst))
    BY <2>1, <1>0, <1>1 DEF Fits, n
  <2>3. AxisKernelOK(k)
    BY <2>1, <2>2, <1>0 DEF AxisKernelOK, KernelOK
  <2> QED BY <2>3 DEF k
<1>8. AllOK(forward) /\ AllOK(backward)
  <2>1. expanded <= Size(first) /\ expanded <= Size(second)
    OBVIOUS
  <2>2. n = Product(Twos(b))
    OBVIOUS
  <2>3. PICK m2 \in Positive : m2 = total \div length
    BY <1>2
  <2> HIDE DEF expanded, n
  <2>4. AllOK(forward)
    BY <1>0, <1>3, <2>1, <2>2, <2>3, Radix2OK
  <2>5. AllOK(backward)
    BY <1>0, <1>3, <2>1, <2>2, <2>3, Radix2OK
  <2> QED BY <2>4, <2>5
<1> HIDE DEF expand, forward, multiply, backward, contract, n, expanded
<1>9. AllOK(<<expand>>) /\ AllOK(<<multiply>>) /\ AllOK(<<contract>>)
  BY <1>5, <1>6, <1>7, AllOKOne
<1>10. AllOK(((<<expand>> \o forward) \o <<multiply>>) \o backward)
  BY <1>8, <1>9, AllOKJoin
<1>11. AllOK((((<<expand>> \o forward) \o <<multiply>>) \o backward) \o <<contract>>)
  BY <1>9, <1>10, AllOKJoin
<1>12. Last((((<<expand>> \o forward) \o <<multiply>>) \o backward) \o <<contract>>) = contract
  BY <1>7, <1>10, AllOKOne
<1>13. contract.dst = second
  BY DEF contract
<1> QED BY <1>4, <1>11, <1>12, <1>13

\* The arrays of one axis: the source, and two scratch arrays that are not the same.
LEMMA OtherFacts ==
  ASSUME NEW array \in {"input"} \union Scratch
  PROVE  /\ Other(array) \in Scratch /\ Other(array) # array
         /\ Other(Other(array)) \in Scratch /\ Other(Other(array)) # Other(array)
         /\ array \in Arrays
BY DEF Other, Scratch, Arrays

\* The kernels of an axis may run, and the last of them writes the scratch.
LEMMA AxisKernelsOK ==
  ASSUME PlanInv, AxisInv, NEW a \in 1..Len(plan.shape)
  PROVE  AllOK(AxisKernels(a)) /\ Last(AxisKernels(a)).dst \in Scratch
<1> DEFINE length == plan.shape[a]
           stride == AxisStride(plan.shape, a)
           total == ElementCount(plan.shape, plan.batch)
           table == plan.tables[a]
           dst == Other(source)
<1>1. /\ plan.shape \in Seq(Positive) /\ plan.batch \in Positive
      /\ \A array \in Arrays : Size(array) \in Nat /\ total <= Size(array)
  BY Sizes
<1>2. length \in Positive
  BY <1>1
<1>3. PICK m \in Positive : Sized(total, length, stride, m)
  BY <1>1, TotalFacts
<1>4. /\ dst \in Scratch /\ dst # source /\ Other(dst) \in Scratch /\ Other(dst) # dst
      /\ source \in Arrays /\ dst \in Arrays
  <2>1. source \in {"input"} \union Scratch
    BY DEF AxisInv
  <2>2. Scratch \subseteq Arrays
    BY DEF Scratch, Arrays
  <2> QED BY <2>1, <2>2, OtherFacts
<1>5. AxisKernels(a) =
        IF ~ Direct(length)
        THEN BluesteinKernels(source, dst, Other(dst), total, length, stride, table)
        ELSE IF IsPowerOfTwo(length)
        THEN Radix2Kernels(source, dst, total, length, stride, table.twiddles, FALSE)
        ELSE MixedKernels(source, dst, total, length, stride, table.twiddles,
                          SupportedFactors(length))
  BY DEF AxisKernels
<1>6. CASE ~ Direct(length)
  <2>1. PICK sign : table = Tables(length, sign)
    <3>1. a \in DOMAIN plan.shape
      BY <1>1
    <3> QED BY <3>1 DEF PlanInv
  <2>2. table.convolution_length = ConvolutionLength(length)
    <3> HIDE DEF table, length
    <3> QED BY <1>6, <2>1 DEF Tables
  <2>3. PICK b \in Nat : /\ ConvolutionLength(length) = Product(Twos(b))
                         /\ length <= ConvolutionLength(length)
    BY <1>2, ConvolutionFacts
  <2>4. \A array \in Scratch : (total \div length) * table.convolution_length <= Size(array)
    <3>1. (total \div length) * ConvolutionLength(length) <= ScratchElements(plan.shape,
            plan.batch)
      BY <1>1, <1>6, ScratchFacts
    <3> HIDE DEF table, length, total
    <3> QED BY <2>2, <3>1 DEF Size
  <2>5. PICK first \in Scratch, second \in Scratch : first = dst /\ second = Other(dst)
    BY <1>4
  <2>6. source # first /\ first # second
    BY <1>4, <2>5
  <2>8. /\ table.convolution_length = Product(Twos(b)) /\ length <= table.convolution_length
        /\ \A array \in Arrays : total <= Size(array)
    BY <1>1, <2>2, <2>3
  <2> HIDE DEF length, stride, total, table, dst
  <2>7. /\ AllOK(BluesteinKernels(source, first, second, total, length, stride, table))
        /\ Last(BluesteinKernels(source, first, second, total, length, stride,
             table)).dst = second
    BY <1>3, <1>4, <2>4, <2>6, <2>8, BluesteinOK
  <2> QED BY <1>5, <1>6, <2>5, <2>7
<1>7. CASE Direct(length) /\ IsPowerOfTwo(length)
  <2>1. PICK b \in Nat : length = Product(Twos(b))
    BY <1>2, <1>7, Log2Solves DEF IsPowerOfTwo, Positive
  <2>3. total <= Size(source) /\ total <= Size(dst)
    BY <1>1, <1>4
  <2>4. PICK array \in Scratch : array = dst
    BY <1>4
  <2>6. PICK twiddles, conjugate : twiddles = table.twiddles /\ conjugate = FALSE
    OBVIOUS
  <2> HIDE DEF length, stride, total, table, dst
  <2>5. /\ AllOK(Radix2Kernels(source, array, total, length, stride, twiddles, conjugate))
        /\ Last(Radix2Kernels(source, array, total, length, stride, twiddles,
             conjugate)).dst = array
    BY <1>3, <1>4, <2>1, <2>3, <2>4, <2>6, Radix2OK
  <2>2. /\ AllOK(Radix2Kernels(source, dst, total, length, stride, table.twiddles, FALSE))
        /\ Last(Radix2Kernels(source, dst, total, length, stride, table.twiddles,
             FALSE)).dst = dst
    BY <2>4, <2>5, <2>6
  <2> QED BY <1>4, <1>5, <1>7, <2>2
<1>8. CASE Direct(length) /\ ~ IsPowerOfTwo(length)
  <2>1. length # 1
    <3>1. Log2[1] = 0
      BY Log2Solves
    <3>2. IsPowerOfTwo(1)
      BY <3>1, TwosZero DEF IsPowerOfTwo
    <3> QED BY <3>2, <1>8
  <2>2. SupportedFactors(length) # <<>>
    BY <1>8, <2>1 DEF Direct
  <2>3. SupportedFactors(length) \in Seq(Positive) /\ length = Product(SupportedFactors(length))
    <3>1. length \in Nat
      BY <1>2 DEF Positive
    <3> QED BY <3>1, <2>2, SupportedFactorsMultiply
  <2>4. PICK factors \in Seq(Positive) : factors = SupportedFactors(length)
               /\ length = Product(factors)
    BY <2>3
  <2> HIDE DEF length, stride, total, table, dst
  <2>5. /\ AllOK(MixedKernels(source, dst, total, length, stride, table.twiddles, factors))
        /\ Last(MixedKernels(source, dst, total, length, stride, table.twiddles,
             factors)).dst = dst
    BY <1>1, <1>3, <1>4, <2>4, MixedOK
  <2> QED BY <1>4, <1>5, <1>8, <2>4, <2>5
<1> HIDE DEF length
<1> QED BY <1>6, <1>7, <1>8

\* So may the scaled copy, into the output of the plan.
LEMMA FinalCopyOK ==
  ASSUME PlanInv, AxisInv
  PROVE  KernelOK(FinalCopy) /\ FinalCopy.dst = Output /\ Output \in Arrays
<1> DEFINE total == ElementCount(plan.shape, plan.batch)
           k == FinalCopy
<1>1. Output \in Arrays
  BY DEF Output, Arrays
<1>2. k.op = "copy" /\ k.src = source /\ k.dst = Output /\ k.total = total
  BY DEF FinalCopy
<1>3. source \in Arrays
  BY OtherFacts DEF AxisInv
<1>4. total \in Positive /\ total <= Size(source) /\ total <= Size(Output)
  BY <1>1, <1>3, Sizes
<1> HIDE DEF k, total
<1>5. Fits(k, Size(k.src), Size(k.dst))
  BY <1>2, <1>4 DEF Fits
<1>6. KernelOK(k)
  BY <1>1, <1>2, <1>3, <1>5 DEF KernelOK
<1> QED BY <1>1, <1>2, <1>6 DEF k

\* A kernel leaves the sizes of the arrays alone.
LEMMA RanKeepsSize ==
  ASSUME MemInv, NEW k, k.dst \in Arrays, mem' = [mem EXCEPT ![k.dst] = Ran(k)], UNCHANGED plan
  PROVE  MemInv'
<1>1. DOMAIN Ran(k) = DOMAIN mem[k.dst]
  BY DEF Ran
<1>2. \A array \in Arrays : Size(array)' = Size(array)
  BY DEF Size
<1>3. DOMAIN mem' = Arrays
  BY DEF MemInv
<1>4. ASSUME NEW array \in Arrays PROVE DOMAIN mem'[array] = DOMAIN mem[array]
  BY <1>1 DEF MemInv
<1> QED BY <1>2, <1>3, <1>4 DEF MemInv

\* The sizes, and so what a kernel may touch, depend on the plan only.
LEMMA AllOKStays ==
  ASSUME UNCHANGED plan, NEW kernels, AllOK(kernels)
  PROVE  AllOK(kernels)'
BY DEF AllOK, AxisKernelOK, KernelOK, Size

-----------------------------------------------------------------------------
(* The invariant is inductive, and it implies the properties.              *)

\* The invariant holds at first.
LEMMA InitInv == Init => IInv
<1> SUFFICES ASSUME Init PROVE IInv
  OBVIOUS
<1>1. PICK shape \in Shapes, batch \in Batches, direction \in {"forward", "backward"},
           placement \in Placements, normalization \in Normalizations :
        /\ argument \in UserInputs(ElementCount(shape, batch))
        /\ plan = [shape |-> shape, batch |-> batch, direction |-> direction,
                   placement |-> placement, normalization |-> normalization,
                   tables |-> [a \in DOMAIN shape |-> Tables(shape[a], Sign(direction))]]
        /\ mem = [input |-> argument,
                  output |-> [i \in Indices(ElementCount(shape, batch)) |-> Stale],
                  scratch_a |-> [i \in Indices(ScratchElements(shape, batch)) |-> Stale],
                  scratch_b |-> [i \in Indices(ScratchElements(shape, batch)) |-> Stale]]
  BY DEF Init
<1>2. plan.shape = shape /\ plan.batch = batch
  BY <1>1
<1>3. PlanInv
  <2>1. \A a \in DOMAIN shape : plan.tables[a] = Tables(shape[a], Sign(direction))
    BY <1>1
  <2>2. Sign(direction) \in {-1, 1}
    BY DEF Sign
  <2> QED BY <1>2, <2>1, <2>2 DEF PlanInv
<1>4. MemInv
  <2>1. DOMAIN argument = Indices(ElementCount(shape, batch))
    BY <1>1 DEF UserInputs, Unit, Dense
  <2>2. DOMAIN mem = Arrays
    BY <1>1 DEF Arrays
  <2>3. /\ DOMAIN mem["input"] = Indices(ElementCount(shape, batch))
        /\ DOMAIN mem["output"] = Indices(ElementCount(shape, batch))
        /\ DOMAIN mem["scratch_a"] = Indices(ScratchElements(shape, batch))
        /\ DOMAIN mem["scratch_b"] = Indices(ScratchElements(shape, batch))
    BY <1>1, <2>1
  <2> QED BY <1>2, <2>2, <2>3 DEF MemInv, Arrays, Size, Scratch
<1>5. AxisInv
  <2>1. axis = 0 /\ source = "input"
    BY DEF Init
  <2>2. Len(plan.shape) \in Nat
    BY <1>2, ShapeFacts
  <2> QED BY <2>1, <2>2 DEF AxisInv
<1>6. KernelsInv
  <2>1. todo = <<>>
    BY DEF Init
  <2> QED BY <2>1 DEF KernelsInv, AllOK, ToSet
<1>7. KeptInv
  BY <1>1 DEF KeptInv
<1> QED BY <1>3, <1>4, <1>5, <1>6, <1>7 DEF IInv

\* Every step preserves it.
LEMMA NextInv == IInv /\ [Next]_vars => IInv'
<1> SUFFICES ASSUME IInv, [Next]_vars PROVE IInv'
  OBVIOUS
<1> USE DEF IInv
<1>1. CASE BeginAxis
  <2>1. UNCHANGED plan /\ UNCHANGED mem
    BY <1>1 DEF BeginAxis
  <2>2. PlanInv' /\ MemInv'
    BY <2>1 DEF PlanInv, MemInv, Size
  <2>3. Len(plan.shape) \in Nat
    BY ShapeFacts DEF PlanInv
  <2>4. axis + 1 \in 1..Len(plan.shape)
    BY <1>1, <2>3 DEF BeginAxis, AxisInv
  <2>5. AllOK(AxisKernels(axis + 1)) /\ Last(AxisKernels(axis + 1)).dst \in Scratch
    BY <2>4, AxisKernelsOK
  <2>6. AxisInv'
    BY <1>1, <2>1, <2>3, <2>4, <2>5 DEF BeginAxis, AxisInv
  <2>7. KernelsInv'
    <3>1. PICK kernels : kernels = AxisKernels(axis + 1) /\ AllOK(kernels)
      BY <2>5
    <3>2. todo' = kernels
      BY <1>1, <3>1 DEF BeginAxis
    <3>3. AllOK(kernels)'
      BY <2>1, <3>1, AllOKStays
    <3> QED BY <3>2, <3>3 DEF KernelsInv
  <2>8. KeptInv'
    BY <1>1 DEF BeginAxis, KeptInv
  <2> QED BY <2>2, <2>6, <2>7, <2>8
<1>2. CASE RunKernel
  <2>1. UNCHANGED <<plan, axis, source>> /\ todo # <<>> /\ todo' = Tail(todo)
        /\ mem' = [mem EXCEPT ![Head(todo).dst] = Ran(Head(todo))]
    BY <1>2 DEF RunKernel
  <2>2. PlanInv' /\ AxisInv'
    BY <2>1 DEF PlanInv, AxisInv
  <2>3. AxisKernelOK(Head(todo)) /\ AllOK(Tail(todo))
    BY <2>1, AllOKTail DEF KernelsInv
  <2>4. MemInv'
    BY <2>1, <2>3, RanKeepsSize DEF AxisKernelOK, KernelOK
  <2>5. KernelsInv'
    <3>1. PICK kernels : kernels = Tail(todo) /\ AllOK(kernels)
      BY <2>3
    <3>2. AllOK(kernels)'
      BY <2>1, <3>1, AllOKStays
    <3> QED BY <2>1, <3>1, <3>2 DEF KernelsInv
  <2>6. KeptInv'
    <3>1. PICK k : k = Head(todo)
      OBVIOUS
    <3>2. k.dst # "input" /\ mem' = [mem EXCEPT ![k.dst] = Ran(k)]
      BY <2>1, <2>3, <3>1 DEF AxisKernelOK, Scratch
    <3>3. mem'["input"] = mem["input"]
      BY <3>2 DEF MemInv, Arrays
    <3>4. UNCHANGED <<plan, argument, phase>>
      BY <1>2 DEF RunKernel
    <3> QED BY <3>3, <3>4 DEF KeptInv
  <2> QED BY <2>2, <2>4, <2>5, <2>6
<1>3. CASE RunFinalCopy
  <2>1. UNCHANGED <<plan, axis, source, todo>> /\ mem' = [mem EXCEPT ![Output] = Ran(FinalCopy)]
    BY <1>3 DEF RunFinalCopy
  <2>2. PlanInv' /\ AxisInv'
    BY <2>1 DEF PlanInv, AxisInv
  <2>3. FinalCopy.dst = Output /\ Output \in Arrays
    BY FinalCopyOK
  <2>4. PICK k : k = FinalCopy
    OBVIOUS
  <2>5. k.dst \in Arrays /\ mem' = [mem EXCEPT ![k.dst] = Ran(k)]
    BY <2>1, <2>3, <2>4
  <2>6. MemInv'
    BY <2>1, <2>5, RanKeepsSize
  <2>7. KernelsInv'
    <3>1. AllOK(todo)'
      <4>1. PICK kernels : kernels = todo /\ AllOK(kernels)
        BY DEF KernelsInv
      <4>2. AllOK(kernels)'
        BY <2>1, <4>1, AllOKStays
      <4> QED BY <2>1, <4>1, <4>2
    <3> QED BY <3>1 DEF KernelsInv
  <2>8. KeptInv'
    <3>1. UNCHANGED <<plan, argument>> /\ phase = "axes" /\ phase' = "done"
      BY <1>3 DEF RunFinalCopy
    <3>2. CASE plan.placement = "out_of_place"
      <4>1. Output = "output"
        BY <3>2 DEF Output
      <4>2. mem'["input"] = mem["input"]
        BY <2>1, <4>1 DEF MemInv, Arrays
      <4> QED BY <3>1, <4>2 DEF KeptInv
    <3>3. CASE plan.placement # "out_of_place"
      BY <3>1, <3>3 DEF KeptInv
    <3> QED BY <3>2, <3>3
  <2> QED BY <2>2, <2>6, <2>7, <2>8
<1>4. CASE Terminated \/ UNCHANGED vars
  <2>1. UNCHANGED vars
    BY <1>4 DEF Terminated
  <2>2. UNCHANGED <<plan, argument, mem, axis, source, todo, phase>>
    BY <2>1 DEF vars
  <2>3. KernelsInv'
    <4>1. PICK kernels : kernels = todo /\ AllOK(kernels)
      BY DEF KernelsInv
    <4>2. AllOK(kernels)'
      BY <2>2, <4>1, AllOKStays
    <4> QED BY <2>2, <4>1, <4>2 DEF KernelsInv
  <2> QED BY <2>2, <2>3 DEF PlanInv, MemInv, AxisInv, KeptInv, Size
<1> QED BY <1>1, <1>2, <1>3, <1>4 DEF Next

\* The kernel that is to run next may run.
LEMMA PendingOK ==
  ASSUME IInv, NEW p \in DOMAIN Pending
  PROVE  KernelOK(Pending[p])
<1> USE DEF IInv
<1>1. CASE todo # <<>>
  <2>1. Pending = <<Head(todo)>>
    BY <1>1 DEF Pending
  <2>2. KernelOK(Head(todo))
    BY <1>1, AllOKTail DEF KernelsInv, AxisKernelOK
  <2> QED BY <2>1, <2>2
<1>2. CASE ~ (todo # <<>>)
  <2>1. Pending = <<FinalCopy>> \/ Pending = <<>>
    BY <1>2 DEF Pending
  <2>2. KernelOK(FinalCopy)
    BY FinalCopyOK
  <2>3. CASE Pending = <<FinalCopy>>
    <3>1. Pending[p] = FinalCopy
      BY <2>3
    <3> QED BY <2>2, <3>1
  <2>4. CASE Pending = <<>>
    BY <2>4
  <2> QED BY <2>1, <2>3, <2>4
<1> QED BY <1>1, <1>2

\* So it stays within its arrays.
LEMMA SafeBounds == IInv => InBounds
<1> SUFFICES ASSUME IInv, NEW p \in DOMAIN Pending, NEW i \in Items(Pending[p])
             PROVE  /\ ToSet(Reads(Pending[p], i)) \subseteq DOMAIN mem[Pending[p].src]
                    /\ ToSet(Writes(Pending[p], i)) \subseteq DOMAIN mem[Pending[p].dst]
  BY DEF InBounds
<1>1. PICK k : k = Pending[p]
  OBVIOUS
<1>2. KernelOK(k) /\ i \in Items(k)
  BY <1>1, PendingOK
<1>3. k.src \in Arrays /\ k.dst \in Arrays /\ Fits(k, Size(k.src), Size(k.dst))
  BY <1>2 DEF KernelOK
<1>4. Size(k.src) \in Nat /\ Size(k.dst) \in Nat
  BY <1>3, Sizes DEF IInv
<1>5. /\ ToSet(Reads(k, i)) \subseteq Indices(Size(k.src))
      /\ ToSet(Writes(k, i)) \subseteq Indices(Size(k.dst))
  BY <1>2, <1>3, <1>4, FitsBounds
<1>6. DOMAIN mem[k.src] = Indices(Size(k.src)) /\ DOMAIN mem[k.dst] = Indices(Size(k.dst))
  BY <1>3 DEF IInv, MemInv
<1> QED BY <1>1, <1>5, <1>6

\* And its items are independent.
LEMMA SafeItems == IInv => WorkItemsIndependent
<1> SUFFICES ASSUME IInv, NEW p \in DOMAIN Pending
             PROVE  LET k == Pending[p]
                        written == UNION {{<<i, n>> : n \in DOMAIN Writes(k, i)} :
                          i \in Items(k)}
                    IN  /\ Cardinality({Writes(k, w[1])[w[2]] :
                             w \in written}) = Cardinality(written)
                        /\ k.src = k.dst =>
                              \A i \in Items(k) :
                                ToSet(Reads(k, i)) \subseteq ToSet(Writes(k, i))
  BY DEF WorkItemsIndependent
<1>1. PICK k : k = Pending[p]
  OBVIOUS
<1>2. KernelOK(k)
  BY <1>1, PendingOK
<1>3. k.src \in Arrays /\ k.dst \in Arrays /\ Fits(k, Size(k.src), Size(k.dst))
  BY <1>2 DEF KernelOK
<1>4. Size(k.src) \in Nat /\ Size(k.dst) \in Nat
  BY <1>3, Sizes DEF IInv
<1>5. Cardinality({Writes(k, x[1])[x[2]] : x \in WrittenBy(k)}) = Cardinality(WrittenBy(k))
  BY <1>3, <1>4, FitsWrittenOnce
<1>6. ASSUME k.src = k.dst, NEW i \in Items(k)
      PROVE  ToSet(Reads(k, i)) \subseteq ToSet(Writes(k, i))
  <2>1. Reads(k, i) = Writes(k, i)
    BY <1>2, <1>6, InPlaceReads DEF KernelOK
  <2> QED BY <2>1
<1> QED BY <1>1, <1>5, <1>6 DEF WrittenBy

\* No kernel touches an element beyond its array, whatever the shape and the batch
\* count, the scratch being as large as the constructor makes it (sycl.cpp:520,
\* 543-544, 571-572).
THEOREM KernelsInBounds == Spec => []InBounds
<1>1. IInv /\ [Next]_vars => IInv'
  BY NextInv
<1> QED BY InitInv, <1>1, SafeBounds, PTL DEF Spec

\* The work items of a kernel can run in any order: none writes what another writes,
\* and a kernel in place reads in an item only what that item writes
\* (the parallel_for bodies of sycl.cpp:94-336).
THEOREM ItemsIndependent == Spec => []WorkItemsIndependent
<1>1. IInv /\ [Next]_vars => IInv'
  BY NextInv
<1> QED BY InitInv, <1>1, SafeItems, PTL DEF Spec

\* An execution out of place never writes its input: the axes go back and forth
\* between the scratch allocations, and only the scaled copy leaves them
\* (sycl.cpp:688-775).
THEOREM InputUntouched == Spec => []InputKept
<1>1. IInv /\ [Next]_vars => IInv'
  BY NextInv
<1>2. IInv => InputKept
  BY DEF IInv, KeptInv, InputKept
<1> QED BY InitInv, <1>1, <1>2, PTL DEF Spec
=============================================================================
