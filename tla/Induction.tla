----------------------------- MODULE Induction -----------------------------
(***************************************************************************)
(* Induction over data.  The induction theorems of the library quantify    *)
(* over operators, which the backends cannot instantiate; the facts below  *)
(* say the same of sets and functions, which they can: a set of numbers    *)
(* that is closed under successor holds all of them, a function that is    *)
(* defined by recursion on something that shrinks exists, and a fold is    *)
(* the last of the values it goes through.                                 *)
(***************************************************************************)
EXTENDS Integers, Sequences, SequencesExt, WellFoundedInduction, TLAPS

\* A set of numbers has a least one.
LEMMA Least ==
  ASSUME NEW T, T \subseteq Nat, T # {}
  PROVE  \E m \in T : \A n \in T : m <= n
<1> DEFINE R == OpToRel(<, Nat)
<1>1. IsWellFoundedOn(R, Nat)
  BY NatLessThanWellFounded
<1>3. \A n, m \in Nat : n < m => <<n, m>> \in R
  BY DEF OpToRel
<1> HIDE DEF R
<1>2. PICK m \in T : \A n \in T : ~ (<<n, m>> \in R)
  BY <1>1, WFMin
<1>4. \A n \in T : m <= n
  <2> TAKE n \in T
  <2>1. ~ (n < m)
    BY <1>2, <1>3
  <2> QED BY <2>1
<1> QED BY <1>4

\* A set that holds 0 and the successor of each of its numbers holds them all.
LEMMA ClosedUnderSuccessor ==
  ASSUME NEW T, 0 \in T, \A n \in Nat : n \in T => n + 1 \in T
  PROVE  Nat \subseteq T
<1> DEFINE U == Nat \ T
<1> SUFFICES ASSUME U # {} PROVE FALSE
  OBVIOUS
<1>1. PICK m \in U : \A n \in U : m <= n
  BY Least
<1>2. m - 1 \in Nat /\ m - 1 \notin U
  BY <1>1
<1> QED BY <1>1, <1>2

\* A function f that is defined by recursion: outright where the recursion stops,
\* elsewhere by a step from its value at the predecessor.
Solves(f, D, X, Stop, Base, Pred, Step) ==
    /\ f \in [D -> X]
    /\ \A d \in D : f[d] = IF d \in Stop THEN Base[d] ELSE Step[d][f[Pred[d]]]

\* The recursion ends, since each predecessor has a smaller measure M.
Shrinks(D, X, M, Stop, Base, Pred, Step) ==
    /\ M \in [D -> Nat] /\ Stop \in SUBSET D /\ Pred \in [D -> D]
    /\ Base \in [D -> X] /\ Step \in [D -> [X -> X]]
    /\ \A d \in D : d \notin Stop => M[Pred[d]] < M[d]

\* Then it has a solution: the solutions up to each measure agree, and their
\* union is one.
LEMMA RecursionExists ==
  ASSUME NEW D, NEW X, NEW M, NEW Stop, NEW Base, NEW Pred, NEW Step,
         Shrinks(D, X, M, Stop, Base, Pred, Step)
  PROVE  \E f : Solves(f, D, X, Stop, Base, Pred, Step)
<1> /\ M \in [D -> Nat] /\ Stop \in SUBSET D /\ Pred \in [D -> D]
    /\ Base \in [D -> X] /\ Step \in [D -> [X -> X]]
    /\ \A d \in D : d \notin Stop => M[Pred[d]] < M[d]
  BY DEF Shrinks
<1> DEFINE Below(n) == {d \in D : M[d] < n}
           IsSol(f, n) == /\ f \in [D -> X]
                          /\ \A d \in Below(n) :
                               f[d] = IF d \in Stop THEN Base[d] ELSE Step[d][f[Pred[d]]]
           Solved == {n \in Nat : \E f : IsSol(f, n)}
<1>1. 0 \in Solved
  <2>1. IsSol(Base, 0)
    OBVIOUS
  <2> QED BY <2>1
<1>2. ASSUME NEW n \in Nat, n \in Solved PROVE n + 1 \in Solved
  <2>1. PICK f : IsSol(f, n)
    BY <1>2
  <2> DEFINE g == [d \in D |-> IF d \in Stop THEN Base[d] ELSE Step[d][f[Pred[d]]]]
  <2>2. g \in [D -> X]
    BY <2>1
  <2>3. ASSUME NEW d \in Below(n) PROVE g[d] = f[d]
    BY <2>1, <2>3
  <2>4. ASSUME NEW d \in Below(n + 1)
        PROVE  g[d] = IF d \in Stop THEN Base[d] ELSE Step[d][g[Pred[d]]]
    <3>1. CASE d \in Stop
      BY <3>1
    <3>2. CASE d \notin Stop
      <4>1. Pred[d] \in Below(n)
        BY <3>2
      <4>2. g[Pred[d]] = f[Pred[d]]
        BY <4>1, <2>3
      <4> QED BY <4>2, <3>2
    <3> QED BY <3>1, <3>2
  <2>5. IsSol(g, n + 1)
    BY <2>2, <2>4
  <2> HIDE DEF g, IsSol
  <2> QED BY <2>5
<1>3. Nat \subseteq Solved
  BY <1>1, <1>2, ClosedUnderSuccessor
<1>4. \A n \in Nat : \E f : IsSol(f, n)
  BY <1>3
<1> DEFINE F == [n \in Nat |-> CHOOSE f : IsSol(f, n)]
<1>5. \A n \in Nat : IsSol(F[n], n)
  <2> TAKE n \in Nat
  <2>1. F[n] = CHOOSE f : IsSol(f, n) OBVIOUS
  <2>2. \E f : IsSol(f, n) BY <1>4
  <2> HIDE DEF F, IsSol
  <2> QED BY <2>1, <2>2
<1> HIDE DEF F
\* Any two agree where both are solutions.
<1>6. \A n \in Nat : \A m \in Nat : n <= m => \A d \in Below(n) : F[n][d] = F[m][d]
  <2> DEFINE Agree == {n \in Nat : \A k, m \in Nat :
                         n <= m /\ n <= k => \A d \in Below(n) : F[k][d] = F[m][d]}
  <2>1. 0 \in Agree
    OBVIOUS
  <2>2. ASSUME NEW n \in Nat, n \in Agree PROVE n + 1 \in Agree
    <3> SUFFICES ASSUME NEW k \in Nat, NEW m \in Nat, n + 1 <= m, n + 1 <= k, NEW d \in Below(n + 1)
                 PROVE F[k][d] = F[m][d]
      OBVIOUS
    <3>1. d \in Below(k) /\ d \in Below(m)
      OBVIOUS
    <3>2. /\ F[k][d] = IF d \in Stop THEN Base[d] ELSE Step[d][F[k][Pred[d]]]
          /\ F[m][d] = IF d \in Stop THEN Base[d] ELSE Step[d][F[m][Pred[d]]]
      BY <3>1, <1>5
    <3>3. d \notin Stop => Pred[d] \in Below(n)
      OBVIOUS
    <3>4. d \notin Stop => F[k][Pred[d]] = F[m][Pred[d]]
      BY <3>3, <2>2
    <3> QED BY <3>2, <3>4
  <2>3. Nat \subseteq Agree
    <3> HIDE DEF Agree
    <3> QED BY <2>1, <2>2, ClosedUnderSuccessor
  <2> QED BY <2>3
<1> DEFINE h == [d \in D |-> F[M[d] + 1][d]]
<1>7. h \in [D -> X]
  BY <1>5
<1>8. ASSUME NEW d \in D
      PROVE  h[d] = IF d \in Stop THEN Base[d] ELSE Step[d][h[Pred[d]]]
  <2>1. d \in Below(M[d] + 1) /\ M[d] + 1 \in Nat
    OBVIOUS
  <2>2. h[d] = IF d \in Stop THEN Base[d] ELSE Step[d][F[M[d] + 1][Pred[d]]]
    BY <2>1, <1>5
  <2>3. d \notin Stop => F[M[d] + 1][Pred[d]] = h[Pred[d]]
    <3> SUFFICES ASSUME d \notin Stop PROVE F[M[d] + 1][Pred[d]] = F[M[Pred[d]] + 1][Pred[d]]
      OBVIOUS
    <3>1. Pred[d] \in Below(M[Pred[d]] + 1) /\ M[Pred[d]] + 1 <= M[d] + 1 /\ M[Pred[d]] + 1 \in Nat
      OBVIOUS
    <3> QED BY <3>1, <2>1, <1>6
  <2> QED BY <2>2, <2>3
<1> QED BY <1>7, <1>8 DEF Solves

\* A function that is known to satisfy the recursion as far as its values are in X
\* has no others.
LEMMA RecursionTyped ==
  ASSUME NEW D, NEW X, NEW M, NEW Stop, NEW Base, NEW Pred, NEW Step,
         Shrinks(D, X, M, Stop, Base, Pred, Step),
         NEW f, f = [d \in D |-> f[d]],
         \A d \in D : d \in Stop => f[d] = Base[d],
         \A d \in D : d \notin Stop /\ f[Pred[d]] \in X => f[d] = Step[d][f[Pred[d]]]
  PROVE  Solves(f, D, X, Stop, Base, Pred, Step)
<1> /\ M \in [D -> Nat] /\ Stop \in SUBSET D /\ Pred \in [D -> D]
    /\ Base \in [D -> X] /\ Step \in [D -> [X -> X]]
    /\ \A d \in D : d \notin Stop => M[Pred[d]] < M[d]
  BY DEF Shrinks
<1> DEFINE Good == {n \in Nat : \A d \in D : M[d] < n => f[d] \in X}
<1>1. 0 \in Good
  OBVIOUS
<1>2. ASSUME NEW n \in Nat, n \in Good PROVE n + 1 \in Good
  <2> SUFFICES ASSUME NEW d \in D, M[d] < n + 1 PROVE f[d] \in X
    OBVIOUS
  <2>1. CASE d \in Stop
    BY <2>1
  <2>2. CASE d \notin Stop
    <3>1. Pred[d] \in D /\ M[Pred[d]] < n
      BY <2>2
    <3>2. f[Pred[d]] \in X
      BY <3>1, <1>2
    <3>3. f[d] = Step[d][f[Pred[d]]] /\ Step[d] \in [X -> X]
      BY <3>2, <2>2
    <3> QED BY <3>2, <3>3
  <2> QED BY <2>1, <2>2
<1>3. ASSUME NEW d \in D
      PROVE  f[d] \in X /\ f[d] = IF d \in Stop THEN Base[d] ELSE Step[d][f[Pred[d]]]
  <2>1. Nat \subseteq Good
    <3> HIDE DEF Good
    <3> QED BY <1>1, <1>2, ClosedUnderSuccessor
  <2>2. \A c \in D : f[c] \in X
    <3> TAKE c \in D
    <3>1. M[c] + 1 \in Good
      <4> HIDE DEF Good
      <4> QED BY <2>1
    <3> QED BY <3>1
  <2>3. Pred[d] \in D
    OBVIOUS
  <2> QED BY <2>2, <2>3
<1>4. f \in [D -> X]
  BY <1>3
<1> QED BY <1>3, <1>4 DEF Solves

-----------------------------------------------------------------------------
(* Folds.  FoldLeft is defined by recursion over sets of positions.         *)

\* A bounded set of numbers has a greatest one.
LEMMA MaxIsGreatest ==
  ASSUME NEW n \in Nat, NEW t \in SUBSET (1..n), t # {}
  PROVE  Max(t) \in t /\ \A x \in t : x <= Max(t)
<1> DEFINE d == {n - x : x \in t}
<1>1. d # {} /\ d \subseteq Nat
  OBVIOUS
<1>2. PICK m \in d : \A y \in d : m <= y
  BY <1>1, Least
<1>3. PICK x \in t : m = n - x
  BY <1>2
<1>4. \A y \in t : x >= y
  <2> TAKE y \in t
  <2>1. n - y \in d
    OBVIOUS
  <2>2. m <= n - y
    BY <2>1, <1>2
  <2> QED BY <2>2, <1>3
<1>5. \E z \in t : \A y \in t : z >= y
  BY <1>4
<1>6. Max(t) \in t /\ \A y \in t : Max(t) >= y
  BY <1>5 DEF Max
<1> QED BY <1>6

\* The greatest one of the first positions is the last of them.
LEMMA MaxOfFirst ==
  ASSUME NEW n \in Nat, NEW i \in 1..n
  PROVE  Max(1..i) = i /\ (1..i) \ {i} = 1..(i - 1) /\ 1..i \in SUBSET (1..n) /\ 1..i # {}
<1>1. 1..i \in SUBSET (1..n) /\ 1..i # {} /\ i \in 1..i /\ (1..i) \ {i} = 1..(i - 1)
  OBVIOUS
<1>2. Max(1..i) \in 1..i /\ \A x \in 1..i : x <= Max(1..i)
  BY <1>1, MaxIsGreatest
<1> QED BY <1>1, <1>2

\* The recursion of a fold over the positions 1..n has a solution.
FoldsBy(g, n, X, base, Step) ==
    /\ g \in [SUBSET (1..n) -> X]
    /\ \A t \in SUBSET (1..n) :
          g[t] = IF t = {} THEN base ELSE Step[Max(t)][g[t \ {Max(t)}]]

\* It shrinks with the greatest position.
LEMMA FoldExists ==
  ASSUME NEW n \in Nat, NEW X, NEW base \in X, NEW Step \in [1..n -> [X -> X]]
  PROVE  \E g : FoldsBy(g, n, X, base, Step)
<1> DEFINE D == SUBSET (1..n)
<1>1. PICK M : M = [t \in D |-> IF t = {} THEN 0 ELSE Max(t)]
  OBVIOUS
<1>2. \A t \in D : t # {} => M[t] = Max(t) /\ M[t] \in t /\ \A x \in t : x <= M[t]
  BY <1>1, MaxIsGreatest
<1>3. M[{}] = 0 /\ \A t \in D : t # {} => M[t] \in 1..n
  BY <1>1, <1>2
<1>9. M \in [D -> Nat]
  <2>1. \A t \in D : M[t] \in Nat
    <3> TAKE t \in D
    <3>1. CASE t = {}
      BY <3>1, <1>3
    <3>2. CASE t # {}
      <4>1. M[t] \in 1..n
        BY <3>2, <1>3
      <4> QED BY <4>1
    <3> QED BY <3>1, <3>2
  <2> QED BY <2>1, <1>1
<1> DEFINE Stop == {{}}
           Base == [t \in D |-> base]
           Pred == [t \in D |-> t \ {M[t]}]
           S == [t \in D |-> IF t = {} THEN [x \in X |-> x] ELSE Step[M[t]]]
<1>4. Pred \in [D -> D] /\ Base \in [D -> X] /\ Stop \in SUBSET D
  OBVIOUS
<1>5. S \in [D -> [X -> X]]
  BY <1>2
<1>6. ASSUME NEW t \in D \ Stop PROVE M[Pred[t]] < M[t]
  <2>1. t # {} /\ M[t] \in t /\ \A x \in t : x <= M[t]
    BY <1>2
  <2>2. M[t] \in 1..n
    BY <2>1
  <2>3. CASE Pred[t] = {}
    <3>1. M[Pred[t]] = 0
      BY <2>3, <1>3
    <3> QED BY <3>1, <2>2
  <2>4. CASE Pred[t] # {}
    <3>0. Pred[t] \in D /\ Pred[t] = t \ {M[t]}
      OBVIOUS
    <3>1. M[Pred[t]] \in Pred[t]
      BY <2>4, <3>0, <1>2
    <3>2. M[Pred[t]] # M[t] /\ M[Pred[t]] <= M[t] /\ M[Pred[t]] \in 1..n
      BY <3>0, <3>1, <2>1
    <3> QED BY <3>2, <2>2
  <2> QED BY <2>3, <2>4
<1>7. PICK g : Solves(g, D, X, Stop, Base, Pred, S)
  <2>1. Shrinks(D, X, M, Stop, Base, Pred, S)
    <3>1. \A t \in D : t \notin Stop => M[Pred[t]] < M[t]
      BY <1>6
    <3> HIDE DEF D, Stop, Base, Pred, S
    <3> QED BY <3>1, <1>9, <1>4, <1>5 DEF Shrinks
  <2> HIDE DEF D, Stop, Base, Pred, S
  <2> QED BY <2>1, RecursionExists
<1>10. /\ g \in [D -> X]
       /\ \A t \in D : g[t] = IF t \in Stop THEN Base[t] ELSE S[t][g[Pred[t]]]
  BY <1>7 DEF Solves
<1>8. ASSUME NEW t \in D
      PROVE  g[t] = IF t = {} THEN base ELSE Step[Max(t)][g[t \ {Max(t)}]]
  <2>1. CASE t = {}
    BY <2>1, <1>10
  <2>2. CASE t # {}
    <3>1. g[t] = Step[M[t]][g[t \ {M[t]}]]
      BY <2>2, <1>10
    <3> QED BY <3>1, <2>2, <1>2
  <2> QED BY <2>1, <2>2
<1> QED BY <1>8, <1>10 DEF FoldsBy

\* The values of a fold that satisfies its recursion, one after the other.
Steps(F, n, X, base, Step) ==
    /\ F \in [0..n -> X] /\ F[0] = base
    /\ \A i \in 1..n : F[i] = Step[i][F[i - 1]]

\* They are those of the recursion on the first positions.
LEMMA FoldSteps ==
  ASSUME NEW n \in Nat, NEW X, NEW base \in X, NEW Step \in [1..n -> [X -> X]], NEW g,
         g[{}] = base,
         \A i \in 1..n : g[1..(i - 1)] \in X => g[1..i] = Step[i][g[1..(i - 1)]]
  PROVE  \E F : Steps(F, n, X, base, Step) /\ F[n] = g[1..n]
<1> DEFINE F == [i \in 0..n |-> g[1..i]]
           Good == {i \in Nat : i <= n => F[i] \in X}
<1>0. 1..0 = {}
  OBVIOUS
<1>1. 0 \in Good
  BY <1>0
<1>2. ASSUME NEW i \in Nat, i \in Good PROVE i + 1 \in Good
  <2> SUFFICES ASSUME i + 1 <= n PROVE g[1..(i + 1)] \in X
    OBVIOUS
  <2>1. g[1..i] \in X
    BY <1>2
  <2>2. i + 1 \in 1..n /\ (i + 1) - 1 = i
    OBVIOUS
  <2>3. g[1..(i + 1)] = Step[i + 1][g[1..i]]
    BY <2>1, <2>2
  <2> QED BY <2>1, <2>2, <2>3
<1>3. Nat \subseteq Good
  <2> HIDE DEF Good
  <2> QED BY <1>1, <1>2, ClosedUnderSuccessor
<1>4. F \in [0..n -> X]
  <2>1. \A i \in 0..n : F[i] \in X
    <3> TAKE i \in 0..n
    <3>1. i \in Good
      <4> HIDE DEF Good
      <4> QED BY <1>3
    <3> QED BY <3>1
  <2> QED BY <2>1
<1>5. F[0] = base /\ F[n] = g[1..n]
  BY <1>0
<1>6. ASSUME NEW i \in 1..n PROVE F[i] = Step[i][F[i - 1]]
  <2>1. F[i - 1] = g[1..(i - 1)] /\ F[i - 1] \in X
    BY <1>4
  <2> QED BY <2>1
<1> HIDE DEF F
<1> QED BY <1>4, <1>5, <1>6 DEF Steps

=============================================================================
