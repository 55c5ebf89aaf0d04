------------------------------ MODULE Recursion ------------------------------
(***************************************************************************)
(* Induction on the natural numbers, and the loops that the modules write  *)
(* as recursive functions.  The library states both for any predicate or   *)
(* operator, which a theorem here cannot be an instance of; a set takes    *)
(* the place of the predicate, a function that of the operator.            *)
(***************************************************************************)
EXTENDS Integers, Sequences, WellFoundedInduction, TLAPS

\* A set of numbers that has 0 and with a number the next one has all of them.
THEOREM SetInduction ==
    ASSUME NEW S, 0 \in S, \A n \in Nat : n \in S => n + 1 \in S
    PROVE  Nat \subseteq S
<1> DEFINE R == {p \in Nat \X Nat : p[1] < p[2]}
           T == Nat \ S
<1> SUFFICES ASSUME T # {} PROVE FALSE
  OBVIOUS
<1>1. IsWellFoundedOn(R, Nat)
  BY NatLessThanWellFounded, Zenon DEF OpToRel
<1>2. PICK x \in T : \A y \in T : <<y, x>> \notin R
  <2>1. T \subseteq Nat
    OBVIOUS
  <2> QED
    BY <1>1, <2>1, WFMin, Zenon
<1>3. x \in Nat /\ x # 0 /\ x - 1 \in Nat
  BY <1>2
<1>4. x - 1 \in S
  <2> SUFFICES ASSUME x - 1 \in T PROVE FALSE
    BY <1>3
  <2>1. <<x - 1, x>> \in Nat \X Nat /\ x - 1 < x
    BY <1>3
  <2>2. <<x - 1, x>>[1] = x - 1 /\ <<x - 1, x>>[2] = x
    OBVIOUS
  <2> QED
    BY <1>2, <2>1, <2>2, Zenon
<1>5. (x - 1) + 1 \in S
  BY <1>3, <1>4
<1> QED
  BY <1>2, <1>3, <1>5

\* The first number of a set of numbers.
THEOREM LeastNumber ==
    ASSUME NEW S \in SUBSET Nat, S # {}
    PROVE  \E m \in S : \A n \in S : m <= n
<1> DEFINE below == {n \in Nat : \A m \in S : n <= m}
<1>1. 0 \in below
  OBVIOUS
<1>2. SUFFICES ASSUME \A m \in S : \E n \in S : ~(m <= n) PROVE FALSE
  OBVIOUS
<1>3. ASSUME NEW n \in Nat, n \in below PROVE n + 1 \in below
  <2>1. \A m \in S : n <= m /\ m \in Nat
    BY <1>3
  <2>2. n \notin S
    BY <1>2, <2>1
  <2> QED
    BY <2>1, <2>2
<1>4. Nat \subseteq below
  <2> HIDE DEF below
  <2> QED
    BY <1>1, <1>3, SetInduction
<1>5. PICK m \in S : TRUE
  OBVIOUS
<1>6. m + 1 \in below
  BY <1>4
<1> QED
  BY <1>6

\* The last of some positions among n.
THEOREM LastPosition ==
    ASSUME NEW n \in Nat, NEW S \in SUBSET (1..n), S # {}
    PROVE  \E m \in S : \A i \in S : i <= m
<1> DEFINE T == {n - i : i \in S}
<1>1. T \in SUBSET Nat /\ T # {}
  <2>1. \A i \in S : n - i \in Nat
    OBVIOUS
  <2> QED
    BY <2>1
<1>2. PICK d \in T : \A e \in T : d <= e
  <2> HIDE DEF T
  <2> QED
    BY <1>1, LeastNumber
<1>3. PICK m \in S : d = n - m
  BY <1>2
<1>4. ASSUME NEW i \in S PROVE i <= m
  <2>1. n - i \in T /\ d <= n - i
    BY <1>2
  <2> QED
    BY <1>3, <2>1
<1> QED
  BY <1>4

\* The values a loop of n rounds goes through that starts with a and whose
\* round i turns the value x into F[i][x].
IsLoop(f, n, a, F) == f[0] = a /\ \A i \in 1..n : f[i] = F[i][f[i - 1]]

\* There is such a sequence of values.
THEOREM Iterates ==
    ASSUME NEW X, NEW a \in X, NEW F \in [Nat -> [X -> X]], NEW n \in Nat
    PROVE  \E f \in [0..n -> X] : IsLoop(f, n, a, F)
<1> DEFINE S == {m \in Nat : \E f \in [0..m -> X] : IsLoop(f, m, a, F)}
<1>1. 0 \in S
  <2> DEFINE f == [i \in 0..0 |-> a]
  <2>1. f \in [0..0 -> X] /\ IsLoop(f, 0, a, F)
    BY DEF IsLoop
  <2> QED
    BY <2>1
<1>2. ASSUME NEW m \in Nat, m \in S PROVE m + 1 \in S
  <2>1. PICK f \in [0..m -> X] : f[0] = a /\ \A i \in 1..m : f[i] = F[i][f[i - 1]]
    BY <1>2 DEF IsLoop
  <2> DEFINE g == [i \in 0..m + 1 |-> IF i <= m THEN f[i] ELSE F[i][f[m]]]
  <2>2. f[m] \in X /\ F[m + 1][f[m]] \in X
    OBVIOUS
  <2>3. g \in [0..m + 1 -> X]
    BY <2>2
  <2>4. g[0] = a
    BY <2>1
  <2>5. ASSUME NEW i \in 1..m + 1 PROVE g[i] = F[i][g[i - 1]]
    <3>1. CASE i <= m
      <4>1. g[i] = f[i] /\ g[i - 1] = f[i - 1] /\ i \in 1..m
        BY <3>1
      <4> QED
        BY <2>1, <4>1
    <3>2. CASE ~(i <= m)
      BY <3>2
    <3> QED
      BY <3>1, <3>2
  <2> QED
    <3> HIDE DEF g
    <3> QED
      BY <2>3, <2>4, <2>5 DEF IsLoop
<1>3. Nat \subseteq S
  <2> HIDE DEF S
  <2> QED
    BY <1>1, <1>2, SetInduction
<1> QED
  BY <1>3

\* Every value that such a loop goes through is of its type.
THEOREM LoopTyped ==
    ASSUME NEW X, NEW n \in Nat, NEW f, f[0] \in X,
           \A i \in 1..n : f[i - 1] \in X => f[i] \in X
    PROVE  \A i \in 0..n : f[i] \in X
<1> DEFINE S == {i \in Nat : i <= n => f[i] \in X}
<1>1. 0 \in S
  OBVIOUS
<1>2. ASSUME NEW i \in Nat, i \in S PROVE i + 1 \in S
  <2> SUFFICES ASSUME i + 1 <= n PROVE f[i + 1] \in X
    OBVIOUS
  <2>1. i + 1 \in 1..n /\ (i + 1) - 1 = i /\ f[i] \in X
    BY <1>2
  <2> QED
    BY <2>1
<1>3. Nat \subseteq S
  <2> HIDE DEF S
  <2> QED
    BY <1>1, <1>2, SetInduction
<1> QED
  BY <1>3

\* A set of sequences that has the empty one and with a sequence those that are
\* one longer has all of them.
THEOREM SequenceInduction ==
    ASSUME NEW A, NEW S, <<>> \in S,
           \A s \in Seq(A), t \in A : s \in S => Append(s, t) \in S
    PROVE  Seq(A) \subseteq S
<1> DEFINE T == {n \in Nat : \A s \in Seq(A) : Len(s) = n => s \in S}
<1>1. 0 \in T
  <2>1. \A s \in Seq(A) : Len(s) = 0 => s = <<>>
    OBVIOUS
  <2> QED
    BY <2>1
<1>2. ASSUME NEW n \in Nat, n \in T PROVE n + 1 \in T
  <2> SUFFICES ASSUME NEW s \in Seq(A), Len(s) = n + 1 PROVE s \in S
    OBVIOUS
  <2> DEFINE r == SubSeq(s, 1, n)
  <2>1. r \in Seq(A) /\ Len(r) = n /\ s[n + 1] \in A
    OBVIOUS
  <2>2. s = Append(r, s[n + 1])
    OBVIOUS
  <2>3. r \in S
    BY <1>2, <2>1
  <2> QED
    BY <2>1, <2>2, <2>3
<1>3. Nat \subseteq T
  <2> HIDE DEF T
  <2> QED
    BY <1>1, <1>2, SetInduction
<1> QED
  BY <1>3

\* The values that a fold of the sequence s goes through which starts with a
\* and turns the value x into G[t][x] when it comes to the element t.
IsFold(f, s, a, X, G) ==
    /\ f[0] = a
    /\ \A i \in 1..Len(s) : f[i - 1] \in X => f[i] = G[s[i]][f[i - 1]]

THEOREM FoldExists ==
    ASSUME NEW A, NEW X, NEW a \in X, NEW G \in [A -> [X -> X]], NEW s \in Seq(A)
    PROVE  \E f \in [0..Len(s) -> X] : IsFold(f, s, a, X, G)
<1> DEFINE n == Len(s)
           F == [i \in Nat |-> [x \in X |-> IF i \in 1..n THEN G[s[i]][x] ELSE x]]
<1>1. n \in Nat /\ \A i \in 1..n : s[i] \in A
  OBVIOUS
<1>2. F \in [Nat -> [X -> X]]
  <2> HIDE DEF n
  <2> QED
    BY <1>1
<1>3. PICK f \in [0..n -> X] : IsLoop(f, n, a, F)
  <2> HIDE DEF F
  <2> QED
    BY <1>1, <1>2, Iterates
<1>4. ASSUME NEW i \in 1..n, f[i - 1] \in X PROVE f[i] = G[s[i]][f[i - 1]]
  <2>1. f[i] = F[i][f[i - 1]]
    BY <1>3 DEF IsLoop
  <2>2. i \in Nat
    OBVIOUS
  <2> QED
    BY <1>4, <2>1, <2>2
<1> QED
  BY <1>3, <1>4 DEF IsFold, IsLoop

\* All such sequences of values agree and are of their type.
THEOREM FoldsAgree ==
    ASSUME NEW A, NEW X, NEW a \in X, NEW G \in [A -> [X -> X]], NEW s \in Seq(A),
           NEW f, IsFold(f, s, a, X, G), NEW g, IsFold(g, s, a, X, G)
    PROVE  \A i \in 0..Len(s) : f[i] \in X /\ f[i] = g[i]
<1> DEFINE n == Len(s)
           S == {i \in Nat : i <= n => f[i] \in X /\ f[i] = g[i]}
<1>1. n \in Nat /\ \A i \in 1..n : s[i] \in A
  OBVIOUS
<1>2. 0 \in S
  BY DEF IsFold
<1>3. ASSUME NEW i \in Nat, i \in S PROVE i + 1 \in S
  <2> SUFFICES ASSUME i + 1 <= n PROVE f[i + 1] \in X /\ f[i + 1] = g[i + 1]
    OBVIOUS
  <2>1. i + 1 \in 1..n /\ (i + 1) - 1 = i /\ f[i] \in X /\ f[i] = g[i]
    BY <1>1, <1>3
  <2>2. f[i + 1] = G[s[i + 1]][f[i]] /\ g[i + 1] = G[s[i + 1]][f[i]]
    BY <2>1 DEF IsFold
  <2>3. s[i + 1] \in A
    BY <1>1, <2>1
  <2> QED
    BY <2>1, <2>2, <2>3
<1>4. Nat \subseteq S
  <2> HIDE DEF S
  <2> QED
    BY <1>2, <1>3, SetInduction
<1> QED
  BY <1>4

\* A fold goes through the values of its beginning.
THEOREM FoldAppend ==
    ASSUME NEW A, NEW X, NEW a \in X, NEW G \in [A -> [X -> X]], NEW s \in Seq(A), NEW t \in A,
           NEW f, IsFold(f, s, a, X, G), NEW g, IsFold(g, Append(s, t), a, X, G)
    PROVE  /\ f[Len(s)] \in X
           /\ g[Len(s) + 1] = G[t][f[Len(s)]]
<1> DEFINE n == Len(s)
           r == Append(s, t)
<1>1. n \in Nat /\ r \in Seq(A) /\ Len(r) = n + 1 /\ r[n + 1] = t /\ \A i \in 1..n : r[i] = s[i]
  OBVIOUS
<1>2. ASSUME NEW i \in 1..n, g[i - 1] \in X PROVE g[i] = G[s[i]][g[i - 1]]
  BY <1>1, <1>2 DEF IsFold
<1>3. IsFold(g, s, a, X, G)
  BY <1>2 DEF IsFold
<1>4. f[n] \in X /\ f[n] = g[n]
  BY <1>1, <1>3, FoldsAgree
<1>5. n + 1 \in 1..Len(r) /\ (n + 1) - 1 = n
  BY <1>1
<1>6. g[n + 1] = G[r[n + 1]][g[n]]
  BY <1>4, <1>5 DEF IsFold
<1> QED
  BY <1>1, <1>4, <1>6
=============================================================================
