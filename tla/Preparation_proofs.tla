-------------------------- MODULE Preparation_proofs --------------------------
(***************************************************************************)
(* The way from a spec to the order of its steps, for every pipeline, of   *)
(* any length and with any steps and dependencies.  First Kahn's algorithm *)
(* as ValidateDAG and TopologicalSort run it: the order that comes out is  *)
(* complete and has every step after its dependencies, and the verdict is  *)
(* right.  Then the compiler: what it lets through can be run, and every   *)
(* step gets the environment the spec gives it.  Last the checkout: the    *)
(* credential is the one the spec names or the best match of the store.    *)
(***************************************************************************)
EXTENDS Preparation, FiniteSetTheorems, Recursion

\* The edges from u to v have been taken off inDegree[v].
Done(u, v) == u \in Taken /\ (u = cur => v < scan)

\* The entries of v's depends_on that inDegree[v] still counts.
Left(v) == {k \in DOMAIN DependsOn(v) :
              \E u \in StepIds : NameOf(u) = DependsOn(v)[k] /\ ~Done(u, v)}

Queued(v) == \E j \in 1..Len(queue) : queue[j] = v

Shape ==
    /\ input \in Pipelines
    /\ pc \in {"check", "detect", "sort", "ok", "error"}
    /\ inDegree \in [StepIds -> Nat]
    /\ queue \in Seq(StepIds)
    /\ head \in 0..Len(queue)
    /\ filling \in BOOLEAN
    /\ cur \in 0..N
    /\ scan \in 1..(N + 1)

\* No step is queued twice.
Distinct == \A i, j \in 1..Len(queue) : queue[i] = queue[j] => i = j

\* A step is queued behind everything it depends on, all of it taken.
Ready ==
    \A j \in 1..Len(queue) : \A u \in StepIds :
        Precedes(u, queue[j]) => \E m \in 1..(j - 1) : queue[m] = u /\ m <= head

\* The loops' counters mean what they should.
Counts ==
    /\ WellFormed
    /\ filling => head = 0 /\ cur = 0
    /\ cur # 0 => head > 0 /\ cur = queue[head]
    /\ \A v \in StepIds :
         /\ IsFiniteSet(Left(v)) /\ inDegree[v] = Cardinality(Left(v))
         /\ Queued(v) <=> inDegree[v] = 0 /\ (filling => v < scan)

\* A witness that there is no cycle, and one that there is.
Ranked  == \E f \in [StepIds -> Nat] : \A u, v \in StepIds : Precedes(u, v) => f[u] < f[v]
Trapped == \E T \in SUBSET StepIds : T # {} /\ \A v \in T : \E u \in T : Precedes(u, v)

VerdictHasWitness ==
    /\ pc = "ok" => WellFormed /\ Ranked
    /\ pc = "error" => ~WellFormed \/ Trapped

Inv ==
    /\ Shape /\ Distinct /\ Ready
    /\ InPass => Counts
    /\ pc = "sort" => Ranked
    /\ pc = "ok" => Taken = StepIds
    /\ VerdictHasWitness

-----------------------------------------------------------------------------
\* The steps that some step of S depends on.
Preceding(S) == {u \in StepIds : \E w \in S : Precedes(u, w)}

\* The reference definition of an ancestor, as the loop it stands for.
LEMMA AncestorsAre ==
    ASSUME NEW v \in StepIds
    PROVE  \E up \in [0..N -> SUBSET StepIds] :
             /\ Ancestors(v) = up[N]
             /\ up[0] = {u \in StepIds : Precedes(u, v)}
             /\ \A n \in 1..N : up[n] = up[n - 1] \cup Preceding(up[n - 1])
<1> DEFINE A == {u \in StepIds : Precedes(u, v)}
           F == [i \in Nat |-> [S \in SUBSET StepIds |-> S \cup Preceding(S)]]
           Up(g) == [n \in 0..N |-> IF n = 0 THEN A ELSE g[n - 1] \cup
                                     {u \in StepIds : \E w \in g[n - 1] : Precedes(u, w)}]
           up == CHOOSE g : g = Up(g)
<1>1. A \in SUBSET StepIds /\ F \in [Nat -> [SUBSET StepIds -> SUBSET StepIds]] /\ N \in Nat
  BY NAssumption DEF Preceding
<1>2. \E f \in [0..N -> SUBSET StepIds] : IsLoop(f, N, A, F)
  <2> HIDE DEF A, F
  <2> QED
    BY <1>1, Iterates
<1>3. PICK f \in [0..N -> SUBSET StepIds] : f[0] = A /\ \A i \in 1..N : f[i] = F[i][f[i - 1]]
  BY <1>2 DEF IsLoop
<1>4. f = Up(f)
  <2>1. ASSUME NEW n \in 0..N PROVE f[n] = Up(f)[n]
    <3>1. CASE n = 0
      BY <1>3, <3>1
    <3>2. CASE n # 0
      <4>1. n \in 1..N /\ n \in Nat /\ f[n - 1] \in SUBSET StepIds
        BY <1>1, <3>2
      <4>2. F[n][f[n - 1]] = f[n - 1] \cup Preceding(f[n - 1])
        BY <4>1
      <4> QED
        BY <1>3, <3>2, <4>1, <4>2 DEF Preceding
    <3> QED
      BY <3>1, <3>2
  <2> QED
    BY <2>1
<1>5. up = Up(up)
  <2> HIDE DEF Up
  <2> QED
    BY <1>4
<1>6. Ancestors(v) = up[N]
  BY DEF Ancestors
<1> HIDE DEF up
<1>7. up[0] = A /\ \A n \in 1..N : up[n] = up[n - 1] \cup Preceding(up[n - 1])
  <2>1. up[0] = A
    BY <1>1, <1>5
  <2>2. ASSUME NEW n \in 1..N PROVE up[n] = up[n - 1] \cup Preceding(up[n - 1])
    <3>1. n \in 0..N /\ n # 0
      OBVIOUS
    <3>2. up[n] = Up(up)[n]
      BY <1>5
    <3> QED
      BY <3>1, <3>2 DEF Preceding
  <2> QED
    BY <2>1, <2>2
<1>8. \A n \in 0..N : up[n] \in SUBSET StepIds
  <2>1. up[0] \in SUBSET StepIds /\ \A n \in 1..N : up[n - 1] \in SUBSET StepIds => up[n] \in SUBSET StepIds
    BY <1>7 DEF Preceding
  <2> QED
    BY <1>1, <2>1, LoopTyped
<1>9. up \in [0..N -> SUBSET StepIds]
  BY <1>5, <1>8
<1> QED
  BY <1>6, <1>7, <1>9

\* Where ranks rise along the dependencies, no step is an ancestor of its own.
LEMMA RankedNotCyclic == Ranked => ~Cyclic
<1> SUFFICES ASSUME Ranked, NEW v \in StepIds, v \in Ancestors(v) PROVE FALSE
  BY DEF Cyclic
<1>1. PICK f \in [StepIds -> Nat] : \A u, w \in StepIds : Precedes(u, w) => f[u] < f[w]
  BY DEF Ranked
<1>2. PICK up \in [0..N -> SUBSET StepIds] :
        /\ Ancestors(v) = up[N]
        /\ up[0] = {u \in StepIds : Precedes(u, v)}
        /\ \A n \in 1..N : up[n] = up[n - 1] \cup Preceding(up[n - 1])
  BY AncestorsAre
<1> DEFINE S == {n \in Nat : n <= N => \A u \in up[n] : f[u] < f[v]}
<1>3. 0 \in S
  BY <1>1, <1>2, NAssumption
<1>4. ASSUME NEW n \in Nat, n \in S PROVE n + 1 \in S
  <2> SUFFICES ASSUME n + 1 <= N, NEW u \in up[n + 1] PROVE f[u] < f[v]
    OBVIOUS
  <2>1. n + 1 \in 1..N /\ n \in 0..N /\ (n + 1) - 1 = n /\ n + 1 \in 0..N
    BY NAssumption
  <2>2. \A w \in up[n] : f[w] < f[v] /\ w \in StepIds
    BY <1>2, <1>4, <2>1
  <2>3. u \in up[n] \/ (u \in StepIds /\ \E w \in up[n] : Precedes(u, w))
    BY <1>2, <2>1 DEF Preceding
  <2>4. ASSUME u \in StepIds, NEW w \in up[n], Precedes(u, w) PROVE f[u] < f[v]
    <3>1. w \in StepIds /\ f[u] < f[w] /\ f[w] < f[v] /\ f[u] \in Nat /\ f[w] \in Nat /\ f[v] \in Nat
      BY <1>1, <2>2, <2>4
    <3> QED
      BY <3>1
  <2> QED
    BY <2>2, <2>3, <2>4
<1>5. N \in S
  <2> HIDE DEF S
  <2> QED
    BY <1>3, <1>4, SetInduction, NAssumption
<1> QED
  BY <1>1, <1>2, <1>5

\* Among steps that each depend on one of them, going from step to step leads
\* back to a step passed before, within as many hops as there are steps.
LEMMA TrappedCyclic == Trapped => Cyclic
<1> SUFFICES ASSUME Trapped PROVE Cyclic
  OBVIOUS
<1>1. PICK T \in SUBSET StepIds : T # {} /\ \A v \in T : \E u \in T : Precedes(u, v)
  BY DEF Trapped
<1>2. PICK x \in T : TRUE
  BY <1>1
<1> DEFINE p == [v \in T |-> CHOOSE u \in T : Precedes(u, v)]
           F == [i \in Nat |-> p]
<1>3. p \in [T -> T] /\ \A v \in T : Precedes(p[v], v)
  BY <1>1
<1> HIDE DEF p
<1>4. PICK s \in [0..N -> T] : s[0] = x /\ \A i \in 1..N : s[i] = p[s[i - 1]]
  <2>1. F \in [Nat -> [T -> T]]
    BY <1>3
  <2>2. \E s \in [0..N -> T] : IsLoop(s, N, x, F)
    <3> HIDE DEF F
    <3> QED
      BY <2>1, Iterates, NAssumption
  <2> QED
    BY <2>2, NAssumption DEF IsLoop
<1>5. PICK i \in 0..N, j \in 0..N : i < j /\ s[i] = s[j]
  <2>1. IsFiniteSet(0..N) /\ Cardinality(0..N) = N + 1 /\ IsFiniteSet(1..N) /\ Cardinality(1..N) = N
    BY NAssumption, FS_Interval
  <2>2. IsFiniteSet(T) /\ Cardinality(T) <= N
    <3>1. T \in SUBSET (1..N)
      BY DEF StepIds
    <3>2. IsFiniteSet(T) /\ Cardinality(T) <= Cardinality(1..N)
      BY <2>1, <3>1, FS_Subset
    <3> QED
      BY <2>1, <3>2
  <2>3. Cardinality(T) \in Nat
    BY <2>2, FS_CardinalityType
  <2>4. Cardinality(T) < Cardinality(0..N)
    BY <2>1, <2>2, <2>3, NAssumption
  <2>5. \E i, j \in 0..N : i # j /\ s[i] = s[j]
    BY <2>1, <2>2, <2>4, FS_PigeonHole
  <2> QED
    BY <2>5, NAssumption
<1> DEFINE v == s[i]
<1>6. v \in T /\ v \in StepIds
  OBVIOUS
<1>7. PICK up \in [0..N -> SUBSET StepIds] :
        /\ Ancestors(v) = up[N]
        /\ up[0] = {u \in StepIds : Precedes(u, v)}
        /\ \A n \in 1..N : up[n] = up[n - 1] \cup Preceding(up[n - 1])
  BY <1>6, AncestorsAre
<1> DEFINE S == {k \in Nat : i + k + 1 <= N => s[i + k + 1] \in up[k]}
           R == {k \in Nat : k <= N /\ j - i - 1 <= k => v \in up[k]}
<1>8. Nat \subseteq S
  <2>1. 0 \in S
    <3> SUFFICES ASSUME i + 0 + 1 <= N PROVE s[i + 0 + 1] \in up[0]
      OBVIOUS
    <3>1. i + 1 \in 1..N /\ (i + 1) - 1 = i /\ i + 0 + 1 = i + 1
      BY NAssumption
    <3>2. s[i + 1] = p[s[i]] /\ Precedes(p[s[i]], v) /\ p[s[i]] \in StepIds
      BY <1>3, <1>4, <1>6, <3>1
    <3> QED
      BY <1>7, <3>1, <3>2
  <2>2. ASSUME NEW k \in Nat, k \in S PROVE k + 1 \in S
    <3> SUFFICES ASSUME i + (k + 1) + 1 <= N PROVE s[i + (k + 1) + 1] \in up[k + 1]
      OBVIOUS
    <3> DEFINE w == s[i + k + 1]
    <3>1. /\ i + (k + 1) + 1 \in 1..N /\ (i + (k + 1) + 1) - 1 = i + k + 1 /\ i + k + 1 \in 0..N
          /\ k + 1 \in 1..N /\ (k + 1) - 1 = k
      BY NAssumption
    <3>2. w \in up[k] /\ w \in T
      BY <2>2, <3>1
    <3>3. s[i + (k + 1) + 1] = p[w] /\ Precedes(p[w], w) /\ p[w] \in StepIds
      BY <1>3, <1>4, <3>1, <3>2
    <3>4. p[w] \in Preceding(up[k])
      BY <3>2, <3>3 DEF Preceding
    <3> QED
      BY <1>7, <3>1, <3>3, <3>4
  <2> QED
    <3> HIDE DEF S
    <3> QED
      BY <2>1, <2>2, SetInduction
<1>9. v \in up[j - i - 1] /\ j - i - 1 \in 0..N
  <2>1. j - i - 1 \in Nat /\ j - i - 1 \in 0..N /\ i + (j - i - 1) + 1 = j /\ j <= N
    BY <1>5, NAssumption
  <2> QED
    BY <1>5, <1>8, <2>1
<1>10. Nat \subseteq R
  <2>1. 0 \in R
    BY <1>9
  <2>2. ASSUME NEW k \in Nat, k \in R PROVE k + 1 \in R
    <3> SUFFICES ASSUME k + 1 <= N, j - i - 1 <= k + 1 PROVE v \in up[k + 1]
      OBVIOUS
    <3>1. k + 1 \in 1..N /\ (k + 1) - 1 = k
      BY NAssumption
    <3>2. CASE j - i - 1 = k + 1
      BY <1>9, <3>2
    <3>3. CASE j - i - 1 # k + 1
      <4>1. v \in up[k]
        BY <1>9, <2>2, <3>3, NAssumption
      <4> QED
        BY <1>7, <3>1, <4>1
    <3> QED
      BY <3>2, <3>3
  <2> QED
    <3> HIDE DEF R
    <3> QED
      BY <2>1, <2>2, SetInduction
<1>11. v \in up[N]
  BY <1>9, <1>10, NAssumption
<1> QED
  BY <1>6, <1>7, <1>11 DEF Cyclic

\* The verdicts exclude each other.
LEMMA RankedNotTrapped == ~(Ranked /\ Trapped)
  BY RankedNotCyclic, TrappedCyclic

\* The shape of a pipeline.
LEMMA InputFacts ==
    ASSUME input \in Pipelines, NEW v \in StepIds
    PROVE  /\ NameOf(v) \in Names
           /\ DependsOn(v) \in Seq(Names)
           /\ Len(DependsOn(v)) \in Nat
           /\ DOMAIN DependsOn(v) = 1..Len(DependsOn(v))
           /\ IsFiniteSet(DOMAIN DependsOn(v))
           /\ Cardinality(DOMAIN DependsOn(v)) = Len(DependsOn(v))
           /\ v \in Nat /\ v > 0 /\ v <= N
  <1>1. NameOf(v) \in Names /\ DependsOn(v) \in Seq(Names)
    BY PipelinesAssumption DEF NameOf, DependsOn
  <1>2. DOMAIN DependsOn(v) = 1..Len(DependsOn(v)) /\ Len(DependsOn(v)) \in Nat
    BY <1>1
  <1>3. IsFiniteSet(1..Len(DependsOn(v))) /\ Cardinality(1..Len(DependsOn(v))) = Len(DependsOn(v))
    <2> DEFINE n == Len(DependsOn(v))
    <2>1. n \in Nat
      BY <1>2
    <2> HIDE DEF n
    <2>2. IsFiniteSet(1..n) /\ Cardinality(1..n) = n
      BY <2>1, FS_Interval
    <2> QED
      BY <2>2 DEF n
  <1> QED
    BY <1>1, <1>2, <1>3, NAssumption DEF StepIds

\* When nothing is left to count, every dependency has been taken.
LEMMA NothingLeft ==
    ASSUME Shape, NEW v \in StepIds, IsFiniteSet(Left(v)), Cardinality(Left(v)) = 0
    PROVE  \A u \in StepIds : Precedes(u, v) => Done(u, v)
  <1>1. Left(v) = {}
    BY FS_EmptySet
  <1> QED
    BY <1>1 DEF Left, Precedes, Edges

\* A step that still counts something waits for a step that is not taken.
LEMMA SomethingLeft ==
    ASSUME Shape, NEW v \in StepIds, IsFiniteSet(Left(v)), Cardinality(Left(v)) # 0
    PROVE  \E u \in StepIds : Precedes(u, v) /\ ~Done(u, v)
  <1>1. Left(v) # {}
    BY FS_EmptySet
  <1> QED
    BY <1>1 DEF Left, Precedes, Edges

\* Left depends on the pipeline and on what is done only.
LEMMA SameLeft ==
    ASSUME input' = input, NEW v \in StepIds, \A u \in StepIds : Done(u, v)' <=> Done(u, v)
    PROVE  Left(v)' = Left(v)
  BY DEF Left, NameOf, DependsOn

-----------------------------------------------------------------------------
\* A pass starts with an empty queue and every entry counted.
LEMMA StartStep ==
    ASSUME Shape, WellFormed, NEW p \in {"detect", "sort"}, StartPass(p), input' = input
    PROVE  Shape' /\ Distinct' /\ Ready' /\ Counts'
  <1>1. Shape'
    <2>1. inDegree' \in [StepIds -> Nat]
      BY InputFacts DEF StartPass, Shape
    <2> QED
      BY <2>1, NAssumption DEF StartPass, Shape
  <1>2. Distinct' /\ Ready'
    BY DEF StartPass, Distinct, Ready
  <1>3. ASSUME NEW v \in StepIds
        PROVE  /\ IsFiniteSet(Left(v)') /\ inDegree'[v] = Cardinality(Left(v)')
               /\ Queued(v)' <=> inDegree'[v] = 0 /\ (filling' => v < scan')
    <2>1. \A u \in StepIds : ~Done(u, v)'
      BY DEF StartPass, Done, Taken
    <2>2. Left(v)' = DOMAIN DependsOn(v)
      BY <2>1 DEF Left, WellFormed, DepsExist, NameOf, DependsOn
    <2>3. ~Queued(v)' /\ filling' /\ ~(v < scan')
      BY InputFacts DEF StartPass, Queued, Shape
    <2> QED
      BY <2>2, <2>3, InputFacts DEF StartPass, Shape
  <1>4. WellFormed'
    BY DEF WellFormed, NamesGiven, UniqueNames, DepsExist, NoSelfDep, NameOf, DependsOn
  <1> QED
    BY <1>1, <1>2, <1>3, <1>4 DEF Counts, StartPass

\* Steps that leave the input and the steps taken care of where they are.
LEMMA WellFormedStays ==
    ASSUME input' = input
    PROVE  /\ WellFormed' <=> WellFormed
           /\ HasEntry' <=> HasEntry
           /\ Ranked' <=> Ranked
           /\ Trapped' <=> Trapped
           /\ \A u, v \in StepIds : Precedes(u, v)' <=> Precedes(u, v)
  <1>1. /\ WellFormed' <=> WellFormed
        /\ HasEntry' <=> HasEntry
    BY DEF WellFormed, NamesGiven, UniqueNames, DepsExist, NoSelfDep, HasEntry, NameOf, DependsOn
  <1>2. \A u, v \in StepIds : Precedes(u, v)' <=> Precedes(u, v)
    BY DEF Precedes, Edges, NameOf, DependsOn
  <1>3. Ranked' <=> Ranked
    BY <1>2 DEF Ranked
  <1>4. Trapped' <=> Trapped
    BY <1>2, Zenon DEF Trapped
  <1> QED
    BY <1>1, <1>2, <1>3, <1>4

\* A step put at the end of the queue, for the first time and with everything
\* it depends on taken, keeps the queue in order.
LEMMA AppendStep ==
    ASSUME Shape, Distinct, Ready, NEW v \in StepIds, ~Queued(v),
           \A u \in StepIds : Precedes(u, v) => u \in Taken,
           queue' = Append(queue, v), UNCHANGED <<input, head>>
    PROVE  /\ Distinct' /\ Ready'
           /\ queue' \in Seq(StepIds) /\ Len(queue') = Len(queue) + 1
           /\ Taken' = Taken
           /\ \A u \in StepIds : Queued(u)' <=> Queued(u) \/ u = v
  <1>1. /\ queue' \in Seq(StepIds) /\ Len(queue') = Len(queue) + 1 /\ Len(queue) \in Nat
        /\ \A j \in 1..Len(queue) : queue'[j] = queue[j]
        /\ queue'[Len(queue) + 1] = v
    BY DEF Shape
  <1>2. head \in Nat /\ head <= Len(queue)
    BY <1>1 DEF Shape
  <1>3. Taken' = Taken
    BY <1>1, <1>2 DEF Taken
  <1>4. Distinct'
    BY <1>1 DEF Distinct, Queued
  <1>5. Ready'
    <2> SUFFICES ASSUME NEW j \in 1..Len(queue'), NEW u \in StepIds, Precedes(u, queue[j])'
                 PROVE  \E m \in 1..(j - 1) : queue'[m] = u /\ m <= head'
      BY DEF Ready
    <2>1. Precedes(u, queue'[j])
      BY DEF Precedes, Edges, NameOf, DependsOn
    <2>2. CASE j <= Len(queue)
      <3>1. j \in 1..Len(queue) /\ queue'[j] = queue[j]
        BY <1>1, <2>2
      <3>2. PICK m \in 1..(j - 1) : queue[m] = u /\ m <= head
        BY <2>1, <3>1 DEF Ready
      <3> QED
        BY <1>1, <3>1, <3>2
    <2>3. CASE j = Len(queue) + 1
      <3>1. u \in Taken
        BY <1>1, <2>1, <2>3
      <3>2. PICK m \in 1..head : queue[m] = u
        BY <3>1 DEF Taken
      <3> QED
        BY <1>1, <1>2, <2>3, <3>2
    <2> QED
      BY <1>1, <2>2, <2>3
  <1>6. ASSUME NEW u \in StepIds PROVE Queued(u)' <=> Queued(u) \/ u = v
    BY <1>1 DEF Queued
  <1> QED
    BY <1>1, <1>3, <1>4, <1>5, <1>6

\* As long as nothing is queued, taking steps keeps the queue in order.
LEMMA QueueStays ==
    ASSUME Shape, Distinct, Ready, UNCHANGED <<input, queue>>, head' \in Int, head <= head'
    PROVE  Distinct' /\ Ready' /\ \A v \in StepIds : Queued(v)' <=> Queued(v)
  <1>1. Distinct' /\ \A v \in StepIds : Queued(v)' <=> Queued(v)
    BY DEF Distinct, Queued
  <1>2. Ready'
    <2> SUFFICES ASSUME NEW j \in 1..Len(queue), NEW u \in StepIds, Precedes(u, queue[j])'
                 PROVE  \E m \in 1..(j - 1) : queue[m] = u /\ m <= head'
      BY DEF Ready
    <2>1. Precedes(u, queue[j])
      BY DEF Precedes, Edges, NameOf, DependsOn
    <2>2. PICK m \in 1..(j - 1) : queue[m] = u /\ m <= head
      BY <2>1 DEF Ready
    <2>3. m <= head'
      BY <2>2 DEF Shape
    <2> QED
      BY <2>2, <2>3
  <1> QED
    BY <1>1, <1>2

-----------------------------------------------------------------------------
\* What the loops keep: one lemma for each of their statements.
LEMMA FillStep ==
    ASSUME Inv, Fill
    PROVE  Inv'
  <1>1. /\ Shape /\ Distinct /\ Ready /\ Counts /\ InPass
        /\ scan \in StepIds /\ filling /\ head = 0 /\ cur = 0
        /\ UNCHANGED <<input, pc, inDegree, head, filling, cur>> /\ scan' = scan + 1
    BY DEF Inv, Fill, Shape, StepIds, Counts
  <1>2. Taken = {} /\ ~Queued(scan)
    BY <1>1 DEF Taken, Counts, Shape, StepIds
  <1>3. /\ Distinct' /\ Ready' /\ queue' \in Seq(StepIds) /\ Len(queue) <= Len(queue')
        /\ \A u \in StepIds : Queued(u)' <=> Queued(u) \/ (u = scan /\ inDegree[scan] = 0)
    <2>1. CASE inDegree[scan] = 0
      <3>1. \A u \in StepIds : Precedes(u, scan) => u \in Taken
        BY <1>1, <2>1, NothingLeft DEF Counts, Done
      <3>2. queue' = Append(queue, scan)
        BY <2>1 DEF Fill
      <3> QED
        BY <1>1, <1>2, <2>1, <3>1, <3>2, AppendStep DEF Shape
    <2>2. CASE inDegree[scan] # 0
      <3>1. queue' = queue
        BY <2>2 DEF Fill
      <3> QED
        BY <1>1, <2>2, <3>1, QueueStays DEF Shape
    <2> QED
      BY <2>1, <2>2
  <1>4. Shape'
    <2>1. filling' \in BOOLEAN /\ pc' \in {"check", "detect", "sort", "ok", "error"}
      BY <1>1, Zenon DEF Shape
    <2>2. /\ input' \in Pipelines /\ inDegree' \in [StepIds -> Nat]
          /\ head' \in 0..Len(queue') /\ cur' \in 0..N /\ scan' \in 1..(N + 1)
      BY <1>1, <1>3, NAssumption DEF Shape, StepIds
    <2> QED
      BY <1>3, <2>1, <2>2 DEF Shape
  <1>5. Taken' = {}
    BY <1>1 DEF Taken
  <1>6. ASSUME NEW v \in StepIds
        PROVE  /\ IsFiniteSet(Left(v)') /\ inDegree'[v] = Cardinality(Left(v)')
               /\ Queued(v)' <=> inDegree'[v] = 0 /\ (filling' => v < scan')
    <2>1. Left(v)' = Left(v)
      BY <1>1, <1>2, <1>5, SameLeft DEF Done
    <2>2. Queued(v)' <=> inDegree'[v] = 0 /\ (filling' => v < scan')
      BY <1>1, <1>3 DEF Counts, Shape, StepIds
    <2> QED
      BY <1>1, <2>1, <2>2 DEF Counts
  <1>7. Counts'
    BY <1>1, <1>6, WellFormedStays DEF Counts
  <1> QED
    BY <1>1, <1>3, <1>4, <1>7, WellFormedStays DEF Inv, VerdictHasWitness, InPass

\* With the last step seen the queue holds all entry steps.
LEMMA FilledStep ==
    ASSUME Inv, Filled
    PROVE  Inv'
  <1>1. /\ Shape /\ Distinct /\ Ready /\ Counts /\ InPass /\ filling /\ scan > N
        /\ UNCHANGED <<input, pc, inDegree, queue, head, cur, scan>> /\ filling' = FALSE
    BY DEF Inv, Filled
  <1>2. Shape' /\ Distinct' /\ Ready'
    <2>1. Shape'
      BY <1>1 DEF Shape
    <2> QED
      BY <1>1, <2>1, QueueStays DEF Shape
  <1>3. ASSUME NEW v \in StepIds
        PROVE  /\ IsFiniteSet(Left(v)') /\ inDegree'[v] = Cardinality(Left(v)')
               /\ Queued(v)' <=> inDegree'[v] = 0 /\ (filling' => v < scan')
    <2>1. Left(v)' = Left(v)
      BY <1>1, SameLeft DEF Done, Taken
    <2>2. Queued(v)' <=> Queued(v)
      BY <1>1 DEF Queued
    <2>3. v < scan
      BY <1>1, NAssumption DEF Shape, StepIds
    <2> QED
      BY <1>1, <2>1, <2>2, <2>3 DEF Counts
  <1>4. Counts'
    BY <1>1, <1>3, WellFormedStays DEF Counts
  <1> QED
    BY <1>1, <1>2, <1>4, WellFormedStays DEF Inv, VerdictHasWitness, InPass

\* A step just taken has none of its edges taken off yet.
LEMMA TakeStep ==
    ASSUME Inv, Take
    PROVE  Inv'
  <1>1. /\ Shape /\ Distinct /\ Ready /\ Counts /\ InPass /\ ~filling /\ cur = 0
        /\ head < Len(queue)
        /\ UNCHANGED <<input, pc, inDegree, queue, filling>>
        /\ head' = head + 1 /\ cur' = queue[head + 1] /\ scan' = 1
    BY DEF Inv, Take
  <1>2. /\ head \in Nat /\ Len(queue) \in Nat /\ head + 1 \in 1..Len(queue)
        /\ cur' \in StepIds /\ 1 \in 1..(N + 1)
    BY <1>1, NAssumption DEF Shape
  <1>3. Shape'
    BY <1>1, <1>2 DEF Shape, StepIds
  <1>4. Distinct' /\ Ready'
    BY <1>1, <1>2, QueueStays
  <1>5. Taken' = Taken \cup {cur'} /\ cur' \notin Taken
    BY <1>1, <1>2 DEF Taken, Distinct
  <1>6. ASSUME NEW v \in StepIds
        PROVE  /\ IsFiniteSet(Left(v)') /\ inDegree'[v] = Cardinality(Left(v)')
               /\ Queued(v)' <=> inDegree'[v] = 0 /\ (filling' => v < scan')
    <2>1. \A u \in StepIds : Done(u, v)' <=> Done(u, v)
      BY <1>1, <1>5 DEF Done, StepIds
    <2>2. Left(v)' = Left(v)
      BY <1>1, <2>1, SameLeft
    <2>3. Queued(v)' <=> Queued(v)
      BY <1>1 DEF Queued
    <2> QED
      BY <1>1, <2>2, <2>3 DEF Counts
  <1>7. Counts'
    BY <1>1, <1>2, <1>6, WellFormedStays DEF Counts
  <1> QED
    BY <1>1, <1>3, <1>4, <1>7, WellFormedStays DEF Inv, VerdictHasWitness, InPass

\* After the loop all of them are.
LEMMA VisitedStep ==
    ASSUME Inv, Visited
    PROVE  Inv'
  <1>1. /\ Shape /\ Distinct /\ Ready /\ Counts /\ InPass /\ cur # 0 /\ scan > N
        /\ UNCHANGED <<input, pc, inDegree, queue, head, filling, scan>> /\ cur' = 0
    BY DEF Inv, Visited
  <1>2. Shape' /\ Distinct' /\ Ready'
    <2>1. Shape'
      BY <1>1, NAssumption DEF Shape
    <2> QED
      BY <1>1, <2>1, QueueStays DEF Shape
  <1>3. ASSUME NEW v \in StepIds
        PROVE  /\ IsFiniteSet(Left(v)') /\ inDegree'[v] = Cardinality(Left(v)')
               /\ Queued(v)' <=> inDegree'[v] = 0 /\ (filling' => v < scan')
    <2>1. v < scan
      BY <1>1, NAssumption DEF Shape, StepIds
    <2>2. \A u \in StepIds : Done(u, v)' <=> Done(u, v)
      BY <1>1, <2>1 DEF Done, Taken, StepIds
    <2>3. Left(v)' = Left(v)
      BY <1>1, <2>2, SameLeft
    <2>4. Queued(v)' <=> Queued(v)
      BY <1>1 DEF Queued
    <2> QED
      BY <1>1, <2>3, <2>4 DEF Counts
  <1>4. Counts'
    BY <1>1, <1>3, WellFormedStays DEF Counts
  <1> QED
    BY <1>1, <1>2, <1>4, WellFormedStays DEF Inv, VerdictHasWitness, InPass

\* The one that matters: the edges from cur to scan are taken off at once, and
\* scan is queued when they were the last.
LEMMA VisitStep ==
    ASSUME Inv, Visit
    PROVE  Inv'
  <1>0. SUFFICES ASSUME NEW w \in StepIds, w = scan PROVE Inv'
    BY DEF Inv, Visit, Shape, StepIds
  <1>1. /\ Shape /\ Distinct /\ Ready /\ Counts /\ InPass
        /\ cur \in StepIds /\ scan \in StepIds /\ ~filling /\ head > 0 /\ cur = queue[head]
        /\ UNCHANGED <<input, pc, head, filling, cur>> /\ scan' = scan + 1
        /\ inDegree' = [inDegree EXCEPT ![scan] = @ - Cardinality(Edges(cur, scan))]
    BY DEF Inv, Visit, Shape, StepIds, Counts
  <1>2. cur \in Taken /\ ~Done(cur, w)
    BY <1>0, <1>1 DEF Taken, Done, Shape, StepIds
  <1>3. /\ Edges(cur, w) \subseteq Left(w)
        /\ IsFiniteSet(Edges(cur, w))
        /\ Cardinality(Edges(cur, w)) \in Nat
        /\ Cardinality(Left(w) \ Edges(cur, w))
             = Cardinality(Left(w)) - Cardinality(Edges(cur, w))
        /\ IsFiniteSet(Left(w) \ Edges(cur, w))
    <2>1. Edges(cur, w) \subseteq Left(w)
      BY <1>1, <1>2 DEF Edges, Left
    <2>2. IsFiniteSet(Left(w))
      BY <1>1 DEF Counts
    <2>3. Left(w) \cap Edges(cur, w) = Edges(cur, w)
      BY <2>1
    <2>4. IsFiniteSet(Edges(cur, w)) /\ Cardinality(Edges(cur, w)) \in Nat
      BY <2>1, <2>2, FS_Subset, FS_CardinalityType
    <2>5. /\ IsFiniteSet(Left(w) \ Edges(cur, w))
          /\ Cardinality(Left(w) \ Edges(cur, w))
               = Cardinality(Left(w)) - Cardinality(Left(w) \cap Edges(cur, w))
      BY <2>2, FS_Difference
    <2> QED
      BY <2>1, <2>3, <2>4, <2>5
  <1>4. Taken' = Taken /\ Len(queue) \in Nat /\ head <= Len(queue)
    <2>1. Len(queue) \in Nat /\ head \in Nat /\ head <= Len(queue)
      BY <1>1 DEF Shape
    <2>2. \A j \in 1..head : queue'[j] = queue[j]
      BY <1>1, <2>1 DEF Visit, Shape
    <2> QED
      BY <1>1, <2>1, <2>2 DEF Taken, Visit
  <1>5. ASSUME NEW v \in StepIds, v # w
        PROVE  Left(v)' = Left(v) /\ inDegree'[v] = inDegree[v]
    <2>1. \A u \in StepIds : Done(u, v)' <=> Done(u, v)
      BY <1>0, <1>1, <1>4, <1>5 DEF Done, Shape, StepIds
    <2> QED
      BY <1>0, <1>1, <1>5, <2>1, SameLeft DEF Shape
  <1>6. Left(w)' = Left(w) \ Edges(cur, w)
    <2>1. \A u \in StepIds : Done(u, w)' <=> Done(u, w) \/ u = cur
      BY <1>0, <1>1, <1>2, <1>4 DEF Done, Shape, StepIds
    <2>2. Left(w)' = {k \in DOMAIN DependsOn(w) :
                           \E u \in StepIds : NameOf(u) = DependsOn(w)[k] /\ ~Done(u, w)'}
      BY <1>1 DEF Left, NameOf, DependsOn
    <2>3. \A u, x \in StepIds : NameOf(u) = NameOf(x) => u = x
      BY <1>1 DEF Counts, WellFormed, UniqueNames
    <2> QED
      BY <1>1, <2>1, <2>2, <2>3 DEF Left, Edges
  <1>7. /\ inDegree'[w] = Cardinality(Left(w)') /\ IsFiniteSet(Left(w)')
        /\ inDegree'[w] = inDegree[w] - Cardinality(Edges(cur, w))
        /\ inDegree'[w] \in Nat
    <2>1. inDegree'[w] = inDegree[w] - Cardinality(Edges(cur, w))
      BY <1>0, <1>1 DEF Shape
    <2>2. inDegree[w] = Cardinality(Left(w))
      BY <1>1 DEF Counts
    <2>3. Cardinality(Left(w)') \in Nat
      BY <1>3, <1>6, FS_CardinalityType
    <2> QED
      BY <1>3, <1>6, <2>1, <2>2, <2>3
  <1>8. ASSUME Edges(cur, w) # {}, inDegree'[w] = 0
        PROVE  ~Queued(w) /\ \A u \in StepIds : Precedes(u, w) => u \in Taken
    <2>1. Cardinality(Edges(cur, w)) # 0
      BY <1>3, <1>8, FS_EmptySet
    <2>2. ~Queued(w)
      BY <1>1, <1>3, <1>7, <1>8, <2>1 DEF Counts, Shape
    <2>3. Left(w) \ Edges(cur, w) = {}
      BY <1>3, <1>6, <1>7, <1>8, FS_EmptySet
    <2>4. ASSUME NEW u \in StepIds, Precedes(u, w) PROVE u \in Taken
      <3>1. PICK k \in DOMAIN DependsOn(w) : DependsOn(w)[k] = NameOf(u)
        BY <2>4 DEF Precedes, Edges
      <3>2. CASE k \in Edges(cur, w)
        BY <1>1, <1>2, <3>1, <3>2 DEF Edges, Counts, WellFormed, UniqueNames
      <3>3. CASE k \notin Left(w)
        BY <3>1, <3>3 DEF Left, Done
      <3> QED
        BY <2>3, <3>2, <3>3
    <2> QED
      BY <2>2, <2>4
  <1>9. /\ Distinct' /\ Ready' /\ queue' \in Seq(StepIds) /\ Len(queue) <= Len(queue')
        /\ \A u \in StepIds : Queued(u)' <=>
              \/ Queued(u)
              \/ u = w /\ Edges(cur, w) # {} /\ inDegree'[w] = 0
    <2>1. CASE Edges(cur, w) # {} /\ inDegree'[w] = 0
      <3>1. queue' = Append(queue, w)
        BY <1>0, <2>1 DEF Visit
      <3> QED
        BY <1>1, <1>4, <1>8, <2>1, <3>1, AppendStep
    <2>2. CASE ~(Edges(cur, w) # {} /\ inDegree'[w] = 0)
      <3>1. queue' = queue
        BY <1>0, <2>2 DEF Visit
      <3> QED
        BY <1>1, <1>4, <2>2, <3>1, QueueStays DEF Shape
    <2> QED
      BY <2>1, <2>2
  <1>10. Shape'
    <2>1. filling' \in BOOLEAN /\ pc' \in {"check", "detect", "sort", "ok", "error"}
      BY <1>1, Zenon DEF Shape
    <2>2. inDegree' \in [StepIds -> Nat]
      BY <1>0, <1>1, <1>7 DEF Shape
    <2>3. /\ input' \in Pipelines
          /\ head' \in 0..Len(queue') /\ cur' \in 0..N /\ scan' \in 1..(N + 1)
      BY <1>1, <1>4, <1>9, NAssumption DEF Shape, StepIds
    <2> QED
      BY <1>9, <2>1, <2>2, <2>3 DEF Shape
  <1>11. ASSUME NEW v \in StepIds
         PROVE  /\ IsFiniteSet(Left(v)') /\ inDegree'[v] = Cardinality(Left(v)')
                /\ Queued(v)' <=> inDegree'[v] = 0 /\ (filling' => v < scan')
    <2>1. CASE v # w
      BY <1>0, <1>1, <1>5, <1>9, <2>1 DEF Counts
    <2>2. CASE v = w
      <3>1. CASE Edges(cur, w) = {}
        <4>1. Cardinality(Edges(cur, w)) = 0
          BY <3>1, FS_EmptySet
        <4>2. inDegree'[w] = inDegree[w]
          BY <1>1, <1>7, <4>1 DEF Shape
        <4> QED
          BY <1>1, <1>7, <1>9, <2>2, <3>1, <4>2 DEF Counts
      <3>2. CASE Edges(cur, w) # {}
        <4>1. Cardinality(Edges(cur, w)) # 0
          BY <1>3, <3>2, FS_EmptySet
        <4>2. inDegree[w] # 0
          BY <1>1, <1>3, <1>7, <4>1 DEF Shape
        <4> QED
          BY <1>1, <1>7, <1>9, <2>2, <3>2, <4>2 DEF Counts
      <3> QED
        BY <3>1, <3>2
    <2> QED
      BY <2>1, <2>2
  <1>12. cur' = queue'[head'] /\ head' > 0
    BY <1>1, <1>4 DEF Visit, Shape
  <1>13. Counts'
    BY <1>1, <1>11, <1>12, WellFormedStays DEF Counts
  <1> QED
    BY <1>1, <1>9, <1>10, <1>13, WellFormedStays DEF Inv, VerdictHasWitness, InPass

-----------------------------------------------------------------------------
\* The queue holds distinct steps, so it is never longer than the pipeline, and
\* as long only if it holds every step.
LEMMA QueueBound ==
    ASSUME Shape, Distinct
    PROVE  /\ Len(queue) <= N
           /\ Len(queue) = N <=> \A v \in StepIds : Queued(v)
  <1> DEFINE n == Len(queue)
             f == [j \in 1..n |-> queue[j]]
  <1>1. n \in Nat /\ f \in Injection(1..n, StepIds)
    BY DEF Shape, Distinct, Injection, IsInjective
  <1>2. /\ IsFiniteSet(StepIds) /\ Cardinality(StepIds) = N
        /\ IsFiniteSet(1..n) /\ Cardinality(1..n) = n
    <2>1. ASSUME NEW m \in Nat PROVE IsFiniteSet(1..m) /\ Cardinality(1..m) = m
      BY FS_Interval
    <2> HIDE DEF n
    <2> QED
      BY <1>1, <2>1, NAssumption DEF StepIds
  <1>3. n <= N /\ (n = N <=> f \in Surjection(1..n, StepIds))
    <2> HIDE DEF f, n
    <2>1. /\ Cardinality(1..n) <= Cardinality(StepIds)
          /\ Cardinality(1..n) = Cardinality(StepIds) <=> f \in Surjection(1..n, StepIds)
      BY <1>1, <1>2, FS_Injection, Zenon
    <2> QED
      BY <1>2, <2>1, Zenon
  <1>4. f \in Surjection(1..n, StepIds) <=> \A v \in StepIds : Queued(v)
    BY <1>1 DEF Surjection, Queued, Injection, Shape
  <1> QED
    BY <1>3, <1>4

\* If the queue runs empty too early, the steps not taken wait for each other.
LEMMA StuckIsTrapped ==
    ASSUME Shape, Counts, Empty, Taken # StepIds
    PROVE  Trapped
  <1> DEFINE T == StepIds \ Taken
  <1>1. T # {} /\ T \in SUBSET StepIds
    BY DEF Taken, Shape
  <1>2. ASSUME NEW v \in T PROVE \E u \in T : Precedes(u, v)
    <2>1. ~Queued(v)
      BY DEF Queued, Taken, Empty
    <2>2. inDegree[v] # 0
      BY <2>1 DEF Counts, Empty
    <2>3. PICK u \in StepIds : Precedes(u, v) /\ ~Done(u, v)
      BY <2>2, SomethingLeft DEF Counts
    <2>4. u \notin Taken
      BY <2>3 DEF Done, Empty, StepIds
    <2> QED
      BY <2>3, <2>4
  <1> QED
    BY <1>1, <1>2 DEF Trapped

\* A queue that holds every step ranks them.
LEMMA FullIsRanked ==
    ASSUME Shape, Distinct, Ready, Len(queue) = N
    PROVE  Ranked
  <1> DEFINE f == [v \in StepIds |-> CHOOSE j \in 1..N : queue[j] = v]
  <1>1. ASSUME NEW v \in StepIds PROVE f[v] \in 1..N /\ queue[f[v]] = v
    BY QueueBound DEF Queued
  <1>2. f \in [StepIds -> Nat]
    BY <1>1, NAssumption
  <1>3. ASSUME NEW u \in StepIds, NEW v \in StepIds, Precedes(u, v)
        PROVE  f[u] < f[v]
    <2>0. f[v] \in 1..Len(queue) /\ queue[f[v]] = v
      BY <1>1
    <2> HIDE DEF f
    <2>1. PICK m \in 1..(f[v] - 1) : queue[m] = u
      BY <1>3, <2>0 DEF Ready
    <2>2. m \in 1..N /\ m < f[v]
      BY <1>1, <2>1, NAssumption
    <2>3. m = f[u]
      BY <1>1, <2>1, <2>2 DEF Distinct
    <2> QED
      BY <2>2, <2>3
  <1> QED
    BY <1>2, <1>3 DEF Ranked

\* Only a well-formed pipeline gets to the passes.
LEMMA CheckStep ==
    ASSUME Inv, Check \/ Reject
    PROVE  Inv'
  <1>1. CASE Check
    BY <1>1, StartStep, WellFormedStays DEF Check, Inv, StartPass, VerdictHasWitness, InPass
  <1>2. CASE Reject
    <2>1. Shape'
      BY <1>2 DEF Reject, Inv, Shape
    <2>2. Distinct' /\ Ready'
      BY <1>2, QueueStays DEF Reject, Inv, Shape
    <2> QED
      BY <1>2, <2>1, <2>2, WellFormedStays DEF Reject, Inv, VerdictHasWitness, InPass
  <1> QED
    BY <1>1, <1>2

\* The verdict of the first pass ranks the steps or shows them trapped.
LEMMA DetectedStep ==
    ASSUME Inv, Detected
    PROVE  Inv'
  <1>1. /\ Shape /\ Distinct /\ Ready /\ Counts /\ pc = "detect" /\ Empty /\ WellFormed
        /\ input' = input /\ head = Len(queue)
    BY DEF Inv, Detected, InPass, Counts, Empty
  <1>2. CASE head = N /\ HasEntry
    <2>1. StartPass("sort")
      BY <1>2 DEF Detected
    <2>2. Ranked
      BY <1>1, <1>2, FullIsRanked
    <2> QED
      BY <1>1, <2>1, <2>2, StartStep, WellFormedStays DEF Inv, StartPass, VerdictHasWitness, InPass
  <1>3. CASE ~(head = N /\ HasEntry)
    <2>1. pc' = "error" /\ UNCHANGED <<inDegree, queue, head, filling, cur, scan>>
      BY <1>3 DEF Detected
    <2>2. Trapped
      <3>1. CASE head # N
        <4>1. PICK v \in StepIds : ~Queued(v)
          BY <1>1, <3>1, QueueBound
        <4>2. Taken # StepIds
          BY <1>1, <4>1 DEF Taken, Queued
        <4> QED
          BY <1>1, <4>2, StuckIsTrapped
      <3>2. CASE ~HasEntry
        <4>1. StepIds # {}
          BY <1>1, NAssumption DEF WellFormed, StepIds
        <4>2. ASSUME NEW v \in StepIds PROVE \E u \in StepIds : Precedes(u, v)
          <5>1. 1 \in DOMAIN DependsOn(v)
            BY <1>1, <3>2, InputFacts DEF HasEntry, Shape
          <5> QED
            BY <1>1, <5>1 DEF WellFormed, DepsExist, Precedes, Edges
        <4> QED
          BY <4>1, <4>2 DEF Trapped
      <3> QED
        BY <1>3, <3>1, <3>2
    <2>3. Shape'
      BY <1>1, <2>1 DEF Shape
    <2>4. Distinct' /\ Ready'
      BY <1>1, <2>1, QueueStays DEF Shape
    <2> QED
      BY <1>1, <2>1, <2>2, <2>3, <2>4, WellFormedStays DEF Inv, VerdictHasWitness, InPass
  <1> QED
    BY <1>2, <1>3

\* The second pass cannot be stuck: the steps are ranked.
LEMMA SortedStep ==
    ASSUME Inv, Sorted
    PROVE  Inv'
  <1>1. /\ Shape /\ Distinct /\ Ready /\ Counts /\ Ranked /\ Empty /\ WellFormed
        /\ pc' = "ok" /\ UNCHANGED <<input, inDegree, queue, head, filling, cur, scan>>
    BY DEF Inv, Sorted, InPass, Counts
  <1>2. Taken = StepIds
    BY <1>1, StuckIsTrapped, RankedNotTrapped
  <1>3. Taken' = StepIds'
    BY <1>1, <1>2 DEF Taken
  <1>4. Shape'
    BY <1>1 DEF Shape
  <1>5. Distinct' /\ Ready'
    BY <1>1, QueueStays DEF Shape
  <1> QED
    BY <1>1, <1>3, <1>4, <1>5, WellFormedStays DEF Inv, VerdictHasWitness, InPass

-----------------------------------------------------------------------------
\* Nothing is queued yet.
LEMMA InitInv ==
    Init => Inv
  <1> SUFFICES ASSUME Init PROVE Inv
    OBVIOUS
  <1>1. Shape
    <2>1. filling \in BOOLEAN /\ input \in Pipelines
      BY Zenon DEF Init
    <2>2. /\ inDegree \in [StepIds -> Nat] /\ queue \in Seq(StepIds)
          /\ head \in 0..Len(queue) /\ cur \in 0..N /\ scan \in 1..(N + 1)
      BY NAssumption DEF Init
    <2> QED
      BY <2>1, <2>2 DEF Init, Shape
  <1>2. Distinct /\ Ready
    BY DEF Init, Distinct, Ready
  <1> QED
    BY <1>1, <1>2 DEF Init, Inv, VerdictHasWitness, InPass

\* No statement of the passes breaks the invariant.
LEMMA InvStep ==
    Inv /\ [Next]_vars => Inv'
  <1>1. ASSUME Inv, UNCHANGED vars PROVE Inv'
    <2>1. UNCHANGED <<input, pc, inDegree, queue, head, filling, cur, scan>>
      BY <1>1 DEF vars
    <2>2. Shape'
      BY <1>1, <2>1 DEF Inv, Shape
    <2>3. Distinct' /\ Ready' /\ \A v \in StepIds : Queued(v)' <=> Queued(v)
      BY <1>1, <2>1, QueueStays DEF Inv, Shape
    <2>4. \A v \in StepIds : Left(v)' = Left(v)
      BY <2>1, SameLeft DEF Done, Taken
    <2>5. Counts' <=> Counts
      BY <2>1, <2>3, <2>4, WellFormedStays DEF Counts
    <2>6. Taken' = Taken
      BY <2>1 DEF Taken
    <2> QED
      BY <1>1, <2>1, <2>2, <2>3, <2>5, <2>6, WellFormedStays DEF Inv, VerdictHasWitness, InPass
  <1> QED
    BY <1>1, FillStep, FilledStep, TakeStep, VisitStep, VisitedStep, CheckStep, DetectedStep,
       SortedStep DEF Next

\* And it is enough.
LEMMA InvImpliesRight == Inv => TypeOK /\ SortIsRight
  <1> SUFFICES ASSUME Inv PROVE TypeOK /\ SortIsRight
    OBVIOUS
  <1>1. Shape /\ Distinct /\ Ready /\ head \in Nat /\ Len(queue) \in Nat /\ head <= Len(queue)
        /\ \A k \in 1..head : order[k] = queue[k] /\ k \in 1..Len(queue)
    BY DEF Inv, Shape, order
  <1>2. TypeOK
    BY <1>1, QueueBound DEF Shape, TypeOK
  <1>3. DependenciesFirst
    <2> SUFFICES ASSUME NEW k \in 1..head, NEW u \in StepIds, Precedes(u, order[k])
                 PROVE  \E m \in 1..(k - 1) : order[m] = u
      BY DEF DependenciesFirst
    <2>1. PICK m \in 1..(k - 1) : queue[m] = u
      BY <1>1 DEF Ready
    <2> QED
      BY <1>1, <2>1
  <1>4. SortIsComplete
    <2>1. NoRepetition
      BY <1>1 DEF NoRepetition, Distinct
    <2> QED
      BY <2>1 DEF Inv, SortIsComplete
  <1> QED
    BY <1>2, <1>3, <1>4 DEF SortIsRight

-----------------------------------------------------------------------------
(* Preparation *)

\* Nothing before the sort touches its state, and the sort touches nothing else.
LEMMA PrepareSorts ==
    /\ LoadInit => Init
    /\ [Prepare]_allVars => [Next]_vars
  BY CasesAssumption DEF LoadInit, Init, Prepare, Validate, PipelineEnv, BuildStep, Built,
     Workspace, MatchCredential, Authenticate, HostKeys, Clone, Sort, Goto, allVars, vars, kahnVars

\* So the invariant holds from any spec to the end.
LEMMA Sorting == PrepareSpec => []Inv
  <1>1. LoadInit => Inv
    BY PrepareSorts, InitInv
  <1>2. Inv /\ [Prepare]_allVars => Inv'
    BY PrepareSorts, InvStep
  <1> QED
    BY <1>1, <1>2, PTL DEF PrepareSpec

\* Every variable of the sort keeps its type, and the queue never outgrows the
\* capacity it was made with.
THEOREM Typed == PrepareSpec => []TypeOK
  <1>1. Inv => TypeOK
    BY InvImpliesRight
  <1> QED
    BY <1>1, Sorting, PTL

\* For every spec and pipeline, of any length and shape: what TopologicalSort
\* hands to the executor has every step once, after everything it depends on.
THEOREM SortsRight == PrepareSpec => []SortIsRight
  <1>1. Inv => SortIsRight
    BY InvImpliesRight
  <1> QED
    BY <1>1, Sorting, PTL

\* ValidateDAG accepts a pipeline exactly if its names and references are right
\* and no step depends on itself, directly or not: no cycle is missed, none is
\* imagined, however long it is.
THEOREM VerdictsAreRight == PrepareSpec => []VerdictIsRight
  <1>1. Inv => VerdictIsRight
    BY RankedNotCyclic, TrappedCyclic DEF Inv, VerdictHasWitness, VerdictIsRight
  <1> QED
    BY <1>1, Sorting, PTL

\* The steps built so far come from steps that passed Validate and Compile.
Compiled ==
    /\ phase \notin {"validate", "error"} => \A v \in StepIds : StepValid(spec.steps[v])
    /\ phase \in {"validate", "env"} => steps = <<>>
    /\ phase \notin {"validate", "env", "error"} =>
         /\ Len(steps) \in 0..N
         /\ \A k \in 1..Len(steps) :
              steps[k].code = Compile(spec.steps[k]) /\ ~CompileFails(spec.steps[k])
    /\ phase \notin {"validate", "env", "build", "error"} => Len(steps) = N

\* One step at a time: what Validate and Compile accept, the executor and the
\* operations can run.
LEMMA CompiledIsRunnable ==
    ASSUME NEW s, StepValid(s), ~CompileFails(s)
    PROVE  LET c == Compile(s)
           IN  IF c.operation = "none" THEN c.image /\ c.commands
               ELSE HandlerNeeds(c.operation) \subseteq c.with
  <1>1. s.type \in Types
    BY DEF StepValid
  <1>2. CASE s.type \in OperationTypes
    <2>1. Compile(s).operation = s.type /\ Compile(s).with = s.with /\ s.type # "none"
      BY <1>2 DEF Compile, OperationTypes, Types, Raw
    <2>2. HandlerNeeds(s.type) \subseteq s.with
      BY <1>1, <1>2 DEF StepValid, Required, HandlerNeeds, OperationTypes, Types, Raw
    <2> QED
      BY <2>1, <2>2
  <1>3. CASE s.type \notin OperationTypes
    <2>1. Compile(s).operation = "none"
      BY <1>3 DEF Compile
    <2>2. s.image \/ s.type = "file.operation"
      BY <1>1, <1>3 DEF StepValid, OperationTypes, Types
    <2>3. s.type \in {"script.run", "file.operation"} \/ s.commands
      BY <1>1, <1>3 DEF StepValid, OperationTypes, Types
    <2>4. Compile(s).image /\ Compile(s).commands
      BY <2>2, <2>3, Zenon DEF Compile
    <2> QED
      BY <2>1, <2>4
  <1> QED
    BY <1>2, <1>3

\* Validate runs before anything is built, and BuildSteps adds step after step.
LEMMA CompiledInductive == PrepareSpec => []Compiled
  <1>1. LoadInit => Compiled
    BY DEF LoadInit, Compiled
  <1>2. Compiled /\ [Prepare]_allVars => Compiled'
    <2> SUFFICES ASSUME Compiled, [Prepare]_allVars PROVE Compiled'
      OBVIOUS
    <2>1. CASE UNCHANGED <<spec, phase, steps>>
      BY <2>1 DEF Compiled
    <2>2. CASE Validate
      BY <2>2 DEF Validate, Goto, SpecValid, Compiled
    <2>3. CASE PipelineEnv
      <3>1. phase = "env" /\ phase' \in {"build", "error"} /\ UNCHANGED <<spec, steps>>
        BY <2>3, Zenon DEF PipelineEnv, Goto
      <3>2. steps = <<>> /\ Len(steps) = 0 /\ 0 \in 0..N
        BY <3>1, NAssumption DEF Compiled
      <3> QED
        BY <3>1, <3>2 DEF Compiled
    <2>4. CASE BuildStep
      <3> DEFINE n == Len(steps)
                 s == spec.steps[n + 1]
      <3>1. phase = "build" /\ n < N /\ n \in 0..N /\ spec' = spec
        BY <2>4 DEF BuildStep, Goto, Compiled
      <3>2. CASE CompileFails(s) /\ phase' = "error"
        BY <3>1, <3>2 DEF Compiled
      <3>3. CASE /\ ~CompileFails(s) /\ phase' = "build"
                 /\ steps' = [k \in 1..(n + 1) |->
                                [code |-> IF k > n THEN Compile(s) ELSE steps[k].code,
                                 env  |-> StepEnv(s)[k]]]
        <4> HIDE DEF n
        <4>1. n + 1 \in 0..N
          BY <3>1, NAssumption
        <4>2. Len(steps') = n + 1
          BY <3>3, <4>1
        <4>3. ASSUME NEW k \in 1..(n + 1)
              PROVE  steps'[k].code = Compile(spec.steps[k]) /\ ~CompileFails(spec.steps[k])
          <5>1. steps'[k].code = IF k > n THEN Compile(s) ELSE steps[k].code
            BY <3>3
          <5>2. CASE k > n
            BY <3>1, <3>3, <5>1, <5>2
          <5>3. CASE ~(k > n)
            BY <3>1, <5>1, <5>3 DEF Compiled, n
          <5> QED
            BY <5>2, <5>3
        <4> QED
          BY <3>1, <3>3, <4>1, <4>2, <4>3 DEF Compiled
      <3> QED
        BY <2>4, <3>2, <3>3 DEF BuildStep, Goto
    <2>5. CASE Built
      BY <2>5 DEF Built, Goto, Compiled
    <2>6. CASE Workspace \/ MatchCredential \/ Authenticate \/ HostKeys \/ Clone
      BY <2>6 DEF Workspace, MatchCredential, Authenticate, HostKeys, Clone, Goto, Compiled
    <2> QED
      BY <2>1, <2>2, <2>3, <2>4, <2>5, <2>6 DEF Prepare, Sort, prepVars, allVars
  <1> QED
    BY <1>1, <1>2, PTL DEF PrepareSpec

\* The three lists of step types agree, for specs of any length: whatever passes
\* Validate and Compile has an image and commands, or is an operation that
\* stepops knows, with every field it asks for.
THEOREM BuiltStepsAreRunnable == PrepareSpec => []BuiltIsRunnable
  <1>1. Compiled => BuiltIsRunnable
    BY CompiledIsRunnable DEF Compiled, BuiltIsRunnable, StepIds
  <1> QED
    BY <1>1, CompiledInductive, PTL

-----------------------------------------------------------------------------
(* Environments: lists of pairs that are read from left to right *)

\* A list knows k; the value of k stands at i.
Knows(a, k) == \E i \in DOMAIN a : a[i][1] = k
Stands(a, k, i) == i \in DOMAIN a /\ a[i][1] = k /\ \A j \in DOMAIN a : j > i => a[j][1] # k

LEMMA ValueKnown ==
    ASSUME NEW a \in Seq(Pair), NEW k
    PROVE  /\ Knows(a, k) => \E i : Stands(a, k, i)
           /\ ValueOf(a, k) = {} <=> ~Knows(a, k)
<1> DEFINE S == {i \in DOMAIN a : a[i][1] = k}
<1>1. DOMAIN a = 1..Len(a) /\ Len(a) \in Nat
  OBVIOUS
<1>2. ASSUME Knows(a, k) PROVE \E i : Stands(a, k, i)
  <2>1. S \in SUBSET (1..Len(a)) /\ S # {}
    BY <1>1, <1>2 DEF Knows
  <2>2. PICK m \in S : \A i \in S : i <= m
    <3> HIDE DEF S
    <3> QED
      BY <1>1, <2>1, LastPosition
  <2>3. m \in DOMAIN a /\ a[m][1] = k /\ \A j \in DOMAIN a : j > m => a[j][1] # k
    BY <1>1, <2>2
  <2> QED
    BY <2>3 DEF Stands
<1> QED
  BY <1>2 DEF ValueOf, Knows, Stands

LEMMA ValueStands ==
    ASSUME NEW a \in Seq(Pair), NEW k, NEW i, Stands(a, k, i)
    PROVE  ValueOf(a, k) = {a[i][2]}
<1>1. \A j : Stands(a, k, j) => j = i
  <2>1. DOMAIN a = 1..Len(a) /\ Len(a) \in Nat
    OBVIOUS
  <2> QED
    BY <2>1 DEF Stands
<1> QED
  BY <1>1 DEF ValueOf, Stands

\* In two lists, one after the other, the second decides if it knows k.
LEMMA ValueOfConcat ==
    ASSUME NEW a \in Seq(Pair), NEW b \in Seq(Pair), NEW k
    PROVE  ValueOf(a \o b, k) = IF ValueOf(b, k) = {} THEN ValueOf(a, k) ELSE ValueOf(b, k)
<1> DEFINE c == a \o b
           m == Len(a)
           n == Len(b)
<1>1. /\ m \in Nat /\ n \in Nat /\ DOMAIN a = 1..m /\ DOMAIN b = 1..n
      /\ c \in Seq(Pair) /\ DOMAIN c = 1..(m + n)
      /\ \A i \in 1..m : c[i] = a[i]
      /\ \A i \in 1..n : c[m + i] = b[i]
  OBVIOUS
<1> HIDE DEF c, m, n
<1>2. \A i \in 1..(m + n) : i \in 1..m \/ (i - m \in 1..n /\ c[i] = b[i - m])
  <2> SUFFICES ASSUME NEW i \in 1..(m + n), i \notin 1..m PROVE i - m \in 1..n /\ c[i] = b[i - m]
    OBVIOUS
  <2>1. i - m \in 1..n /\ m + (i - m) = i
    BY <1>1
  <2> QED
    BY <1>1, <2>1
<1>3. CASE Knows(b, k)
  <2>1. PICK i : Stands(b, k, i)
    BY <1>3, ValueKnown
  <2>2. i \in 1..n /\ b[i][1] = k /\ \A j \in 1..n : j > i => b[j][1] # k
    BY <1>1, <2>1 DEF Stands
  <2>3. m + i \in 1..(m + n) /\ c[m + i] = b[i]
    BY <1>1, <2>2
  <2>4. ASSUME NEW j \in 1..(m + n), j > m + i PROVE c[j][1] # k
    <3>1. j - m \in 1..n /\ c[j] = b[j - m] /\ j - m > i
      BY <1>1, <1>2, <2>2, <2>4
    <3> QED
      BY <2>2, <3>1
  <2>5. Stands(c, k, m + i)
    BY <1>1, <2>2, <2>3, <2>4 DEF Stands
  <2>6. ValueOf(b, k) = {b[i][2]}
    BY <2>1, ValueStands
  <2>7. ValueOf(c, k) = {c[m + i][2]}
    BY <1>1, <2>5, ValueStands
  <2> QED
    BY <2>3, <2>6, <2>7 DEF c
<1>4. CASE ~Knows(b, k)
  <2>1. ASSUME NEW i \in 1..(m + n), i \notin 1..m PROVE c[i][1] # k
    <3>1. i - m \in DOMAIN b /\ c[i] = b[i - m]
      BY <1>1, <1>2, <2>1
    <3> QED
      BY <1>4, <3>1 DEF Knows
  <2>2. ValueOf(b, k) = {}
    BY <1>4, ValueKnown
  <2>3. CASE ~Knows(a, k)
    <3>1. ~Knows(c, k)
      BY <1>1, <2>1, <2>3 DEF Knows
    <3>2. ValueOf(a, k) = {} /\ ValueOf(c, k) = {}
      BY <1>1, <2>3, <3>1, ValueKnown
    <3> QED
      BY <2>2, <3>2 DEF c
  <2>4. CASE Knows(a, k)
    <3>1. PICK i : Stands(a, k, i)
      BY <2>4, ValueKnown
    <3>2. Stands(c, k, i)
      BY <1>1, <2>1, <3>1 DEF Stands
    <3>3. ValueOf(a, k) = {a[i][2]}
      BY <3>1, ValueStands
    <3>4. ValueOf(c, k) = {c[i][2]}
      BY <1>1, <3>2, ValueStands
    <3>5. c[i] = a[i]
      BY <1>1, <3>1 DEF Stands
    <3> QED
      BY <2>2, <3>3, <3>4, <3>5 DEF c
  <2> QED
    BY <2>3, <2>4
<1> QED
  BY <1>3, <1>4

LEMMA ValueOfOne ==
    ASSUME NEW x \in STRING, NEW y \in STRING, NEW k
    PROVE  /\ <<<<x, y>>>> \in Seq(Pair) /\ <<>> \in Seq(Pair)
           /\ ValueOf(<<<<x, y>>>>, k) = IF x = k THEN {y} ELSE {}
           /\ ValueOf(<<>>, k) = {}
<1> DEFINE a == <<<<x, y>>>>
<1> DEFINE p == <<x, y>>
<1>0. p \in Pair /\ p[1] = x /\ p[2] = y
  BY DEF Pair
<1>1. a \in Seq(Pair) /\ DOMAIN a = {1} /\ a[1][1] = x /\ a[1][2] = y /\ <<>> \in Seq(Pair)
  <2>1. a = <<p>> /\ a[1] = p
    OBVIOUS
  <2> HIDE DEF p, a
  <2>2. a \in Seq(Pair) /\ Len(a) = 1
    BY <1>0, <2>1
  <2>3. DOMAIN a = 1..1
    BY <2>2
  <2>4. DOMAIN a = {1}
    BY <2>3
  <2>5. a[1][1] = x /\ a[1][2] = y
    BY <1>0, <2>1
  <2>6. <<>> \in Seq(Pair)
    OBVIOUS
  <2> QED
    BY <2>2, <2>4, <2>5, <2>6
<1> HIDE DEF a
<1>2. ValueOf(a, k) = IF x = k THEN {y} ELSE {}
  <2>1. \A j \in DOMAIN a : ~(j > 1)
    BY <1>1
  <2> QED
    BY <1>1, <2>1 DEF ValueOf
<1>3. ValueOf(<<>>, k) = {}
  BY DEF ValueOf
<1> QED
  BY <1>1, <1>2, <1>3 DEF a

\* What is known of the specs.
SpecTyped ==
    /\ spec.credentials \in Seq(Credential)
    /\ spec.env \in Seq(Pair) /\ spec.envFile \in Seq(Pair)
    /\ \A pairs \in {spec.env, spec.envFile} : \A i \in DOMAIN pairs :
         \E k \in DOMAIN Keys : Keys[k] = pairs[i][1]
    /\ \A v \in StepIds : spec.steps[v].env \in Seq(Pair) /\ spec.steps[v].secrets \in Seq(STRING)

LEMMA NamedTyped ==
    ASSUME SpecTyped, NEW id
    PROVE  Named(id) = Nobody \/ \E i \in DOMAIN spec.credentials : Named(id) = spec.credentials[i]
<1> DEFINE at == {i \in DOMAIN spec.credentials : spec.credentials[i].id = id}
           first(i) == \A j \in at : i <= j
<1> SUFFICES ASSUME at # {} PROVE \E i \in at : first(i)
  BY DEF Named
<1>1. at \in SUBSET Nat
  BY DEF SpecTyped
<1> QED
  <2> HIDE DEF at
  <2> QED
    BY <1>1, LeastNumber

\* A secret that is found gives one entry, its own.
LEMMA SecretValue ==
    ASSUME SpecTyped, NEW id \in STRING, NEW k
    PROVE  /\ SecretEnv(id) \in Seq(Pair)
           /\ ValueOf(SecretEnv(id), k) = IF SecretEnv(id) = <<<<k, id>>>> THEN {id} ELSE {}
<1>1. CASE Named(id) = Nobody
  <2>1. SecretEnv(id) = <<>>
    BY <1>1 DEF SecretEnv
  <2>2. <<>> # <<<<k, id>>>>
    OBVIOUS
  <2> QED
    BY <2>1, <2>2, ValueOfOne
<1>2. CASE Named(id) # Nobody
  <2>1. Named(id) \in Credential
    BY <1>2, NamedTyped DEF SpecTyped
  <2> DEFINE x == IF Named(id).type = "env" THEN Named(id).key ELSE id
  <2>2. x \in STRING
    BY <2>1 DEF Credential
  <2>3. SecretEnv(id) = <<<<x, id>>>>
    BY <1>2 DEF SecretEnv
  <2> HIDE DEF x
  <2>4. SecretEnv(id) = <<<<k, id>>>> <=> x = k
    BY <2>3
  <2>5. <<<<x, id>>>> \in Seq(Pair) /\ ValueOf(<<<<x, id>>>>, k) = IF x = k THEN {id} ELSE {}
    BY <2>2, ValueOfOne
  <2> QED
    BY <2>3, <2>4, <2>5, Zenon
<1> QED
  BY <1>1, <1>2

LEMMA OwnEnvIs ==
    ASSUME SpecTyped, NEW s, s.env \in Seq(Pair), s.secrets \in Seq(STRING)
    PROVE  \E f \in [0..Len(s.secrets) -> Seq(Pair)] :
             /\ OwnEnv(s) = f[Len(s.secrets)]
             /\ f[0] = s.env
             /\ \A i \in 1..Len(s.secrets) : f[i] = f[i - 1] \o SecretEnv(s.secrets[i])
<1> DEFINE n == Len(s.secrets)
           F == [i \in Nat |-> [e \in Seq(Pair) |->
                    IF i \in 1..n THEN e \o SecretEnv(s.secrets[i]) ELSE e]]
           Loop(g) == [i \in 0..n |-> IF i = 0 THEN s.env ELSE g[i - 1] \o SecretEnv(s.secrets[i])]
           f == CHOOSE g : g = Loop(g)
<1>1. n \in Nat /\ \A i \in 1..n : s.secrets[i] \in STRING
  OBVIOUS
<1>2. \A i \in 1..n : SecretEnv(s.secrets[i]) \in Seq(Pair)
  BY <1>1, SecretValue
<1> HIDE DEF n
<1>3. F \in [Nat -> [Seq(Pair) -> Seq(Pair)]]
  BY <1>2
<1>4. PICK g \in [0..n -> Seq(Pair)] : IsLoop(g, n, s.env, F)
  <2> HIDE DEF F
  <2> QED
    BY <1>1, <1>3, Iterates
<1>5. g = Loop(g)
  <2>1. ASSUME NEW i \in 0..n PROVE g[i] = Loop(g)[i]
    <3>1. CASE i = 0
      BY <1>4, <3>1 DEF IsLoop
    <3>2. CASE i # 0
      <4>1. i \in 1..n /\ i \in Nat /\ i - 1 \in 0..n /\ g[i - 1] \in Seq(Pair)
        BY <1>1, <3>2
      <4>2. F[i][g[i - 1]] = g[i - 1] \o SecretEnv(s.secrets[i])
        BY <4>1
      <4>3. g[i] = F[i][g[i - 1]]
        BY <1>4, <4>1 DEF IsLoop
      <4> QED
        BY <3>2, <4>2, <4>3
    <3> QED
      BY <3>1, <3>2
  <2> QED
    BY <2>1
<1>6. f = Loop(f)
  <2> HIDE DEF Loop
  <2> QED
    BY <1>5
<1>7. OwnEnv(s) = f[n]
  BY DEF OwnEnv, n
<1> HIDE DEF f
<1>8. f[0] = s.env /\ \A i \in 1..n : f[i] = f[i - 1] \o SecretEnv(s.secrets[i])
  <2>1. f[0] = s.env
    BY <1>1, <1>6
  <2>2. ASSUME NEW i \in 1..n PROVE f[i] = f[i - 1] \o SecretEnv(s.secrets[i])
    <3>1. i \in 0..n /\ i # 0
      OBVIOUS
    <3>2. f[i] = Loop(f)[i]
      BY <1>6
    <3> QED
      BY <3>1, <3>2
  <2> QED
    BY <2>1, <2>2
<1>9. \A i \in 0..n : f[i] \in Seq(Pair)
  <2>1. ASSUME NEW i \in 1..n, f[i - 1] \in Seq(Pair) PROVE f[i] \in Seq(Pair)
    <3> DEFINE a == f[i - 1]
               b == SecretEnv(s.secrets[i])
    <3>1. a \in Seq(Pair) /\ b \in Seq(Pair) /\ f[i] = a \o b
      BY <1>2, <1>8, <2>1
    <3> HIDE DEF a, b
    <3> QED
      BY <3>1
  <2> QED
    BY <1>1, <1>8, <2>1, LoopTyped
<1>10. f \in [0..n -> Seq(Pair)]
  BY <1>6, <1>9
<1> QED
  BY <1>7, <1>8, <1>10 DEF n

\* Its own variables, unless one of its secrets is known by k: then the last.
LEMMA OwnValue ==
    ASSUME SpecTyped, NEW s, s.env \in Seq(Pair), s.secrets \in Seq(STRING), NEW k
    PROVE  LET own == {i \in DOMAIN s.secrets : SecretEnv(s.secrets[i]) = <<<<k, s.secrets[i]>>>>}
           IN  /\ OwnEnv(s) \in Seq(Pair)
               /\ ValueOf(OwnEnv(s), k) =
                    IF own = {} THEN ValueOf(s.env, k)
                    ELSE {s.secrets[i] : i \in {i \in own : \A j \in own : j <= i}}
<1> DEFINE n == Len(s.secrets)
           asked(i) == {j \in 1..i : SecretEnv(s.secrets[j]) = <<<<k, s.secrets[j]>>>>}
           last(i) == {s.secrets[m] : m \in {m \in asked(i) : \A j \in asked(i) : j <= m}}
<1>1. n \in Nat /\ DOMAIN s.secrets = 1..n /\ \A i \in 1..n : s.secrets[i] \in STRING
  OBVIOUS
<1>2. PICK f \in [0..n -> Seq(Pair)] :
        /\ OwnEnv(s) = f[n]
        /\ f[0] = s.env
        /\ \A i \in 1..n : f[i] = f[i - 1] \o SecretEnv(s.secrets[i])
  BY OwnEnvIs
<1> HIDE DEF n
<1> DEFINE S == {i \in Nat : i <= n =>
                   ValueOf(f[i], k) = IF asked(i) = {} THEN ValueOf(s.env, k) ELSE last(i)}
<1>3. 0 \in S
  <2>1. asked(0) = {}
    OBVIOUS
  <2> QED
    BY <1>2, <2>1
<1>4. ASSUME NEW i \in Nat, i \in S PROVE i + 1 \in S
  <2> SUFFICES ASSUME i + 1 <= n
               PROVE  ValueOf(f[i + 1], k) =
                        IF asked(i + 1) = {} THEN ValueOf(s.env, k) ELSE last(i + 1)
    OBVIOUS
  <2> DEFINE x == s.secrets[i + 1]
             a == f[i]
             b == SecretEnv(x)
  <2>1. i + 1 \in 1..n /\ (i + 1) - 1 = i /\ i \in 0..n /\ i <= n
    BY <1>1
  <2>2. x \in STRING /\ a \in Seq(Pair) /\ f[i + 1] = a \o b
    BY <1>1, <1>2, <2>1
  <2>3. b \in Seq(Pair) /\ ValueOf(b, k) = IF b = <<<<k, x>>>> THEN {x} ELSE {}
    BY <2>2, SecretValue
  <2>4. ValueOf(f[i + 1], k) = IF ValueOf(b, k) = {} THEN ValueOf(a, k) ELSE ValueOf(b, k)
    <3>1. a \in Seq(Pair) /\ b \in Seq(Pair) /\ f[i + 1] = a \o b
      BY <2>2, <2>3
    <3> HIDE DEF a, b, S
    <3>2. ValueOf(a \o b, k) = IF ValueOf(b, k) = {} THEN ValueOf(a, k) ELSE ValueOf(b, k)
      BY <3>1, ValueOfConcat
    <3> QED
      BY <3>1, <3>2, Zenon
  <2>5. ValueOf(a, k) = IF asked(i) = {} THEN ValueOf(s.env, k) ELSE last(i)
    BY <1>4, <2>1
  <2>6. CASE b = <<<<k, x>>>>
    <3>1. i + 1 \in asked(i + 1) /\ \A j \in asked(i + 1) : j <= i + 1 /\ j \in Nat
      BY <2>6
    <3>2. last(i + 1) = {x}
      <4> HIDE DEF asked
      <4> QED
        BY <3>1
    <3> QED
      BY <2>3, <2>4, <2>6, <3>1, <3>2
  <2>7. CASE b # <<<<k, x>>>>
    <3>1. asked(i + 1) = asked(i)
      BY <2>7
    <3> QED
      BY <2>3, <2>4, <2>5, <2>7, <3>1
  <2> QED
    BY <2>6, <2>7
<1>5. n \in S
  <2> HIDE DEF S
  <2> QED
    BY <1>1, <1>3, <1>4, SetInduction
<1>6. OwnEnv(s) \in Seq(Pair)
  BY <1>1, <1>2
<1>7. ValueOf(f[n], k) = IF asked(n) = {} THEN ValueOf(s.env, k) ELSE last(n)
  <2>1. n <= n
    BY <1>1
  <2> HIDE DEF asked, last
  <2> QED
    BY <1>5, <2>1
<1>8. DOMAIN s.secrets = 1..n
  BY <1>1
<1> HIDE DEF S
<1> QED
  BY <1>2, <1>6, <1>7, <1>8, Zenon

\* PipelineEnv's list, as the loop it stands for.
LEMMA ListedEnvIs ==
    ASSUME NEW all \in Seq(Pair)
    PROVE  \E f \in [0..Len(Keys) -> Seq(Pair)] :
             /\ ListedEnv(all) = f[Len(Keys)]
             /\ f[0] = <<>>
             /\ \A i \in 1..Len(Keys) :
                  IF ValueOf(all, Keys[i]) = {} THEN f[i] = f[i - 1]
                  ELSE \E y \in STRING : /\ ValueOf(all, Keys[i]) = {y}
                                         /\ f[i] = f[i - 1] \o <<<<Keys[i], y>>>>
<1> DEFINE n == Len(Keys)
           val(i) == CHOOSE x \in ValueOf(all, Keys[i]) : TRUE
           entry(i) == IF ValueOf(all, Keys[i]) = {} THEN <<>> ELSE <<<<Keys[i], val(i)>>>>
           F == [i \in Nat |-> [e \in Seq(Pair) |-> IF i \in 1..n THEN e \o entry(i) ELSE e]]
           Loop(g) == [i \in 0..n |-> IF i = 0 THEN <<>> ELSE g[i - 1] \o entry(i)]
           f == CHOOSE g : g = Loop(g)
<1>1. n \in Nat /\ \A i \in 1..n : Keys[i] \in STRING
  BY KeysAssumption
<1>2. ASSUME NEW i \in 1..n
      PROVE  /\ entry(i) \in Seq(Pair)
             /\ ValueOf(all, Keys[i]) # {} => val(i) \in STRING /\ ValueOf(all, Keys[i]) = {val(i)}
  <2>1. CASE ValueOf(all, Keys[i]) = {}
    BY <2>1, <1>1, ValueOfOne
  <2>2. CASE ValueOf(all, Keys[i]) # {}
    <3>1. PICK j : Stands(all, Keys[i], j)
      BY <2>2, ValueKnown
    <3>2. ValueOf(all, Keys[i]) = {all[j][2]}
      BY <3>1, ValueStands
    <3>3. all[j] \in Pair
      BY <3>1 DEF Stands
    <3>4. all[j][2] \in STRING
      BY <3>3 DEF Pair
    <3>5. val(i) = all[j][2]
      BY <3>2
    <3>6. <<<<Keys[i], val(i)>>>> \in Seq(Pair)
      BY <1>1, <3>4, <3>5, ValueOfOne
    <3> QED
      BY <2>2, <3>2, <3>4, <3>5, <3>6
  <2> QED
    BY <2>1, <2>2
<1> HIDE DEF n, entry, val
<1>3. F \in [Nat -> [Seq(Pair) -> Seq(Pair)]]
  BY <1>2
<1>4. PICK g \in [0..n -> Seq(Pair)] : IsLoop(g, n, <<>>, F)
  <2>1. <<>> \in Seq(Pair)
    OBVIOUS
  <2> HIDE DEF F
  <2> QED
    BY <1>1, <1>3, <2>1, Iterates
<1>5. g = Loop(g)
  <2>1. ASSUME NEW i \in 0..n PROVE g[i] = Loop(g)[i]
    <3>1. CASE i = 0
      BY <1>4, <3>1 DEF IsLoop
    <3>2. CASE i # 0
      <4>1. i \in 1..n /\ i \in Nat /\ i - 1 \in 0..n /\ g[i - 1] \in Seq(Pair)
        BY <1>1, <3>2
      <4>2. F[i][g[i - 1]] = g[i - 1] \o entry(i)
        BY <4>1
      <4>3. g[i] = F[i][g[i - 1]]
        BY <1>4, <4>1 DEF IsLoop
      <4> QED
        BY <3>2, <4>2, <4>3
    <3> QED
      BY <3>1, <3>2
  <2> QED
    BY <2>1
<1>6. f = Loop(f)
  <2> HIDE DEF Loop
  <2> QED
    BY <1>5
<1>7. ListedEnv(all) = f[n]
  BY DEF ListedEnv, n, entry, val
<1> HIDE DEF f
<1>8. f[0] = <<>> /\ \A i \in 1..n : f[i] = f[i - 1] \o entry(i)
  <2>1. f[0] = <<>>
    BY <1>1, <1>6
  <2>2. ASSUME NEW i \in 1..n PROVE f[i] = f[i - 1] \o entry(i)
    <3>1. i \in 0..n /\ i # 0
      OBVIOUS
    <3>2. f[i] = Loop(f)[i]
      BY <1>6
    <3> QED
      BY <3>1, <3>2
  <2> QED
    BY <2>1, <2>2
<1>9. \A i \in 0..n : f[i] \in Seq(Pair)
  <2>1. ASSUME NEW i \in 1..n, f[i - 1] \in Seq(Pair) PROVE f[i] \in Seq(Pair)
    <3> DEFINE a == f[i - 1]
               b == entry(i)
    <3>1. a \in Seq(Pair) /\ b \in Seq(Pair) /\ f[i] = a \o b
      BY <1>2, <1>8, <2>1
    <3> HIDE DEF a, b
    <3> QED
      BY <3>1
  <2>2. f[0] \in Seq(Pair)
    BY <1>8
  <2> QED
    BY <1>1, <2>1, <2>2, LoopTyped
<1>10. f \in [0..n -> Seq(Pair)]
  BY <1>6, <1>9
<1>11. ASSUME NEW i \in 1..n
       PROVE  IF ValueOf(all, Keys[i]) = {} THEN f[i] = f[i - 1]
              ELSE \E y \in STRING : /\ ValueOf(all, Keys[i]) = {y}
                                     /\ f[i] = f[i - 1] \o <<<<Keys[i], y>>>>
  <2>1. CASE ValueOf(all, Keys[i]) = {}
    <3> DEFINE a == f[i - 1]
    <3>0. i - 1 \in 0..n /\ entry(i) = <<>>
      BY <1>1, <2>1 DEF entry
    <3>1. a \in Seq(Pair) /\ f[i] = a \o <<>>
      BY <1>8, <1>9, <3>0
    <3>2. a \o <<>> = a
      <4> HIDE DEF a
      <4> QED
        BY <3>1
    <3> QED
      BY <2>1, <3>1, <3>2
  <2>2. CASE ValueOf(all, Keys[i]) # {}
    BY <1>2, <1>8, <2>2 DEF entry
  <2> QED
    BY <2>1, <2>2
<1> QED
  BY <1>7, <1>8, <1>10, <1>11 DEF n

\* A list by keys says what the list it is made from says.
LEMMA ListedValue ==
    ASSUME NEW all \in Seq(Pair), NEW k, Knows(all, k) => \E i \in DOMAIN Keys : Keys[i] = k
    PROVE  ListedEnv(all) \in Seq(Pair) /\ ValueOf(ListedEnv(all), k) = ValueOf(all, k)
<1> DEFINE n == Len(Keys)
           told(i) == \E j \in 1..i : Keys[j] = k
<1>1. n \in Nat /\ DOMAIN Keys = 1..n /\ \A i \in 1..n : Keys[i] \in STRING
  BY KeysAssumption
<1>2. PICK f \in [0..n -> Seq(Pair)] :
        /\ ListedEnv(all) = f[n]
        /\ f[0] = <<>>
        /\ \A i \in 1..n :
             IF ValueOf(all, Keys[i]) = {} THEN f[i] = f[i - 1]
             ELSE \E y \in STRING : /\ ValueOf(all, Keys[i]) = {y}
                                    /\ f[i] = f[i - 1] \o <<<<Keys[i], y>>>>
  BY ListedEnvIs
<1> HIDE DEF n
<1> DEFINE S == {i \in Nat : i <= n =>
                   ValueOf(f[i], k) = IF told(i) THEN ValueOf(all, k) ELSE {}}
<1>3. 0 \in S
  <2>1. ValueOf(<<>>, k) = {}
    BY DEF ValueOf
  <2>2. ~told(0)
    OBVIOUS
  <2> HIDE DEF told
  <2> QED
    BY <1>2, <2>1, <2>2
<1>4. ASSUME NEW i \in Nat, i \in S PROVE i + 1 \in S
  <2> SUFFICES ASSUME i + 1 <= n
               PROVE  ValueOf(f[i + 1], k) = IF told(i + 1) THEN ValueOf(all, k) ELSE {}
    OBVIOUS
  <2> DEFINE K == Keys[i + 1]
  <2>1. i + 1 \in 1..n /\ (i + 1) - 1 = i /\ i \in 0..n /\ i <= n /\ K \in STRING
    BY <1>1
  <2>2. ValueOf(f[i], k) = IF told(i) THEN ValueOf(all, k) ELSE {}
    BY <1>4, <2>1
  <2>3. told(i + 1) <=> told(i) \/ K = k
    BY <2>1
  <2>4. IF ValueOf(all, K) = {} THEN f[i + 1] = f[i]
        ELSE \E y \in STRING : ValueOf(all, K) = {y} /\ f[i + 1] = f[i] \o <<<<K, y>>>>
    BY <1>2, <2>1
  <2> HIDE DEF told, K
  <2>5. CASE ValueOf(all, K) = {}
    BY <2>2, <2>3, <2>4, <2>5
  <2>6. CASE ValueOf(all, K) # {}
    <3>1. PICK y \in STRING : ValueOf(all, K) = {y} /\ f[i + 1] = f[i] \o <<<<K, y>>>>
      BY <2>4, <2>6
    <3> DEFINE b == <<<<K, y>>>>
               a == f[i]
    <3>2. b \in Seq(Pair) /\ ValueOf(b, k) = IF K = k THEN {y} ELSE {}
      BY <2>1, ValueOfOne
    <3>3. a \in Seq(Pair) /\ f[i + 1] = a \o b
      BY <2>1, <3>1
    <3>4. ValueOf(f[i + 1], k) = IF ValueOf(b, k) = {} THEN ValueOf(a, k) ELSE ValueOf(b, k)
      <4> HIDE DEF a, b, S
      <4>1. ValueOf(a \o b, k) = IF ValueOf(b, k) = {} THEN ValueOf(a, k) ELSE ValueOf(b, k)
        BY <3>2, <3>3, ValueOfConcat
      <4> QED
        BY <3>3, <4>1, Zenon
    <3> HIDE DEF b
    <3>5. CASE K = k
      BY <2>3, <3>1, <3>2, <3>4, <3>5
    <3>6. CASE K # k
      BY <2>2, <2>3, <3>2, <3>4, <3>6
    <3> QED
      BY <3>5, <3>6
  <2> QED
    BY <2>5, <2>6
<1>5. n \in S
  <2> HIDE DEF S
  <2> QED
    BY <1>1, <1>3, <1>4, SetInduction
<1>6. ListedEnv(all) \in Seq(Pair)
  BY <1>1, <1>2
<1>7. ~told(n) => ValueOf(all, k) = {}
  BY <1>1, ValueKnown
<1>8. ValueOf(f[n], k) = IF told(n) THEN ValueOf(all, k) ELSE {}
  <2>1. n <= n
    BY <1>1
  <2> HIDE DEF told
  <2> QED
    BY <1>5, <2>1
<1> HIDE DEF told
<1> QED
  BY <1>2, <1>6, <1>7, <1>8

\* The lists in the making: the pipeline's is there before the first step's, and
\* a step's is the pipeline's with its own after it, whatever is built later.
EnvInv ==
    /\ SpecTyped
    /\ phase \in {"validate", "env"} => steps = <<>>
    /\ steps # <<>> \/ phase = "build" => pipelineEnv = ListedEnv(spec.envFile \o spec.env)
    /\ Len(steps) \in 0..N
    /\ \A v \in 1..Len(steps) : steps[v].env = pipelineEnv \o OwnEnv(spec.steps[v])

\* What a spec asks for is asked for as long as it is the same.
LEMMA SpecStays ==
    ASSUME spec' = spec
    PROVE  /\ SpecTyped' <=> SpecTyped
           /\ \A s : OwnEnv(s)' = OwnEnv(s)
           /\ \A id : Named(id)' = Named(id)
           /\ \A repo : Match(repo)' = Match(repo)
<1>1. SpecTyped' <=> SpecTyped
  BY DEF SpecTyped
<1>2. \A id : Named(id)' = Named(id)
  BY DEF Named
<1>3. \A id : SecretEnv(id)' = SecretEnv(id)
  BY <1>2 DEF SecretEnv
<1>4. \A s : OwnEnv(s)' = OwnEnv(s)
  BY <1>3 DEF OwnEnv
<1>5. \A repo : Match(repo)' = Match(repo)
  BY DEF Match
<1> QED
  BY <1>1, <1>2, <1>4, <1>5

LEMMA EnvInductive == PrepareSpec => []EnvInv
<1>1. LoadInit => EnvInv
  <2> SUFFICES ASSUME LoadInit PROVE EnvInv
    OBVIOUS
  <2>1. PICK c \in Cases : spec = c.spec
    BY DEF LoadInit
  <2>2. SpecTyped
    BY <2>1, CasesAssumption DEF SpecTyped
  <2> QED
    BY <2>2, NAssumption DEF LoadInit, EnvInv
<1>2. EnvInv /\ [Prepare]_allVars => EnvInv'
  <2> SUFFICES ASSUME EnvInv, [Prepare]_allVars PROVE EnvInv'
    OBVIOUS
  <2>0. spec' = spec
    BY DEF Prepare, Validate, PipelineEnv, BuildStep, Built, Workspace, MatchCredential,
       Authenticate, HostKeys, Clone, Sort, Goto, prepVars, allVars
  <2>1. ASSUME UNCHANGED <<steps, pipelineEnv>>,
               phase' \in {"validate", "env"} => steps = <<>>,
               phase' = "build" => phase = "build"
        PROVE  EnvInv'
    BY <2>0, <2>1, SpecStays DEF EnvInv
  <2>2. CASE Validate
    BY <2>1, <2>2 DEF Validate, Goto, EnvInv
  <2>3. CASE PipelineEnv
    <3>1. phase = "env" /\ steps = <<>> /\ steps' = steps
      BY <2>3 DEF PipelineEnv, EnvInv
    <3>2. CASE phase' = "build" /\ pipelineEnv' = ListedEnv(spec.envFile \o spec.env)
      BY <2>0, <3>1, <3>2, SpecStays DEF EnvInv
    <3>3. CASE phase' = "error" /\ pipelineEnv' = pipelineEnv
      BY <2>1, <3>1, <3>3
    <3> QED
      BY <2>3, <3>2, <3>3, Zenon DEF PipelineEnv, Goto
  <2>4. CASE BuildStep
    <3> DEFINE n == Len(steps)
               s == spec.steps[n + 1]
    <3>1. phase = "build" /\ n < N /\ n \in 0..N /\ pipelineEnv' = pipelineEnv
      BY <2>4 DEF BuildStep, EnvInv
    <3>2. CASE phase' = "error" /\ UNCHANGED steps
      BY <2>1, <3>1, <3>2
    <3>3. CASE /\ phase' = "build"
               /\ steps' = [k \in 1..(n + 1) |->
                              [code |-> IF k > n THEN Compile(s) ELSE steps[k].code,
                               env  |-> StepEnv(s)[k]]]
      <4>1. ASSUME NEW k \in 1..(n + 1)
            PROVE  StepEnv(s)[k] = pipelineEnv \o OwnEnv(spec.steps[k])
        <5>1. StepEnv(s)[k] = IF k > n THEN pipelineEnv \o OwnEnv(s) ELSE steps[k].env
          BY DEF StepEnv
        <5>2. CASE k > n
          <6>1. k = n + 1
            BY <3>1, <5>2
          <6> QED
            BY <5>1, <5>2, <6>1
        <5>3. CASE ~(k > n)
          <6>1. k \in 1..Len(steps)
            BY <3>1, <5>3
          <6> QED
            BY <5>1, <5>3, <6>1 DEF EnvInv
        <5> QED
          BY <5>2, <5>3
      <4> HIDE DEF n
      <4>2. n + 1 \in 0..N /\ n \in Nat
        BY <3>1, NAssumption
      <4>3. Len(steps') = n + 1
        BY <3>3, <4>2
      <4>4. ASSUME NEW k \in 1..(n + 1)
            PROVE  steps'[k].env = pipelineEnv \o OwnEnv(spec.steps[k])
        <5>1. steps'[k].env = StepEnv(s)[k]
          BY <3>3
        <5> QED
          BY <4>1, <5>1
      <4>5. ASSUME NEW k \in 1..(n + 1)
            PROVE  steps'[k].env = (pipelineEnv \o OwnEnv(spec.steps[k]))'
        <5>1. OwnEnv(spec.steps[k])' = OwnEnv(spec.steps[k])
          BY <2>0, SpecStays
        <5> QED
          BY <3>1, <4>4, <5>1
      <4>6. pipelineEnv' = ListedEnv(spec.envFile \o spec.env)'
        BY <2>0, <3>1 DEF EnvInv
      <4>7. SpecTyped'
        BY <2>0, SpecStays DEF EnvInv
      <4> QED
        BY <3>3, <4>2, <4>3, <4>5, <4>6, <4>7 DEF EnvInv
    <3> QED
      BY <2>4, <3>2, <3>3 DEF BuildStep, Goto
  <2>5. CASE Built
    BY <2>1, <2>5 DEF Built, Goto
  <2>6. CASE Workspace \/ MatchCredential \/ Authenticate \/ HostKeys \/ Clone
    BY <2>1, <2>6 DEF Workspace, MatchCredential, Authenticate, HostKeys, Clone, Goto
  <2>7. CASE Sort \/ UNCHANGED allVars
    BY <2>1, <2>7 DEF Sort, prepVars, allVars, EnvInv
  <2> QED
    BY <2>2, <2>3, <2>4, <2>5, <2>6, <2>7 DEF Prepare
<1> QED
  BY <1>1, <1>2, PTL DEF PrepareSpec

\* A step's variables are the pipeline's under its own, at every moment of the
\* compilation and however many steps there are.
LEMMA EnvInvIsOwn == EnvInv => EnvIsOwn
<1> SUFFICES ASSUME EnvInv, NEW v \in 1..Len(steps), NEW k
             PROVE  ValueOf(steps[v].env, k) = Wanted(v, k)
  BY DEF EnvIsOwn
<1> DEFINE s == spec.steps[v]
           p == spec.envFile \o spec.env
           own == {i \in DOMAIN s.secrets : SecretEnv(s.secrets[i]) = <<<<k, s.secrets[i]>>>>}
<1>1. v \in StepIds /\ steps # <<>>
  BY NAssumption DEF EnvInv, StepIds
<1>2. /\ s.env \in Seq(Pair) /\ s.secrets \in Seq(STRING)
      /\ spec.env \in Seq(Pair) /\ spec.envFile \in Seq(Pair)
  BY <1>1 DEF EnvInv, SpecTyped
<1>3. /\ OwnEnv(s) \in Seq(Pair)
      /\ ValueOf(OwnEnv(s), k) =
            IF own = {} THEN ValueOf(s.env, k)
            ELSE {s.secrets[i] : i \in {i \in own : \A j \in own : j <= i}}
  BY <1>2, OwnValue DEF EnvInv
<1>4. ValueOf(p, k) = IF ValueOf(spec.env, k) = {} THEN ValueOf(spec.envFile, k)
                      ELSE ValueOf(spec.env, k)
  BY <1>2, ValueOfConcat
<1>5. p \in Seq(Pair)
  <2> DEFINE a == spec.envFile
             b == spec.env
  <2>1. a \in Seq(Pair) /\ b \in Seq(Pair)
    BY <1>2
  <2> HIDE DEF a, b
  <2>2. a \o b \in Seq(Pair)
    BY <2>1
  <2> QED
    BY <2>2 DEF a, b
<1>6. Knows(p, k) => \E i \in DOMAIN Keys : Keys[i] = k
  <2>1. Knows(p, k) => Knows(spec.env, k) \/ Knows(spec.envFile, k)
    <3> HIDE DEF p
    <3> QED
      BY <1>2, <1>4, <1>5, ValueKnown
  <2> QED
    BY <2>1 DEF EnvInv, SpecTyped, Knows
<1>7. ListedEnv(p) \in Seq(Pair) /\ ValueOf(ListedEnv(p), k) = ValueOf(p, k)
  <2> HIDE DEF p
  <2> QED
    BY <1>5, <1>6, ListedValue
<1>8. steps[v].env = ListedEnv(p) \o OwnEnv(s)
  BY <1>1 DEF EnvInv
<1>9. ValueOf(steps[v].env, k) =
        IF ValueOf(OwnEnv(s), k) = {} THEN ValueOf(p, k) ELSE ValueOf(OwnEnv(s), k)
  <2> DEFINE a == ListedEnv(p)
             b == OwnEnv(s)
  <2>1. a \in Seq(Pair) /\ b \in Seq(Pair) /\ steps[v].env = a \o b /\ ValueOf(a, k) = ValueOf(p, k)
    BY <1>3, <1>7, <1>8
  <2> HIDE DEF a, b
  <2>2. ValueOf(a \o b, k) = IF ValueOf(b, k) = {} THEN ValueOf(a, k) ELSE ValueOf(b, k)
    BY <2>1, ValueOfConcat
  <2> QED
    BY <2>1, <2>2, Zenon DEF b
<1>10. own # {} => {s.secrets[i] : i \in {i \in own : \A j \in own : j <= i}} # {}
  <2>1. DOMAIN s.secrets = 1..Len(s.secrets) /\ Len(s.secrets) \in Nat
    BY <1>2
  <2>2. own \in SUBSET (1..Len(s.secrets))
    BY <2>1
  <2> HIDE DEF own
  <2> QED
    BY <2>1, <2>2, LastPosition
<1>11. Wanted(v, k) = IF own # {} THEN {s.secrets[i] : i \in {i \in own : \A j \in own : j <= i}}
                     ELSE IF ValueOf(s.env, k) # {} THEN ValueOf(s.env, k)
                     ELSE IF ValueOf(spec.env, k) # {} THEN ValueOf(spec.env, k)
                     ELSE ValueOf(spec.envFile, k)
  BY DEF Wanted
<1> HIDE DEF own, p
<1> QED
  BY <1>3, <1>4, <1>9, <1>10, <1>11

\* For every spec and store of credentials: the environment of each built step
\* says of every variable what the step's secrets, its env, the pipeline's env and
\* the env file say, in this order, while the steps after it are built too.
THEOREM EnvironmentsAreOwn == PrepareSpec => []EnvIsOwn
  BY EnvInductive, EnvInvIsOwn, PTL

-----------------------------------------------------------------------------
(* The credential of the checkout *)

\* The best match so far is none yet, and nothing fits, or a credential that fits,
\* with none longer among those seen, and none as long before it.
BestSoFar(b, i) ==
    \/ b = [cred |-> Nobody, len |-> 0] /\ \A j \in 1..i : ~Fits(spec.credentials[j])
    \/ \E k \in 1..i :
          /\ Fits(spec.credentials[k])
          /\ b = [cred |-> spec.credentials[k], len |-> Len(spec.credentials[k].match)]
          /\ \A j \in 1..i : Fits(spec.credentials[j]) =>
               /\ Len(spec.credentials[j].match) <= b.len
               /\ j < k => Len(spec.credentials[j].match) < b.len

Bests == [cred : Credential \cup {Nobody}, len : Nat]

\* CredentialStore.Match as the loop it is.
LEMMA MatchIs ==
    ASSUME SpecTyped, NEW repo
    PROVE  \E f \in [0..Len(spec.credentials) -> Bests] :
             /\ Match(repo) = f[Len(spec.credentials)].cred
             /\ f[0] = [cred |-> Nobody, len |-> 0]
             /\ \A i \in 1..Len(spec.credentials) :
                  f[i] = Preferred(f[i - 1], spec.credentials[i], repo)
<1> DEFINE n == Len(spec.credentials)
           a == [cred |-> Nobody, len |-> 0]
           next(b, i) == Preferred(b, spec.credentials[i], repo)
           F == [i \in Nat |-> [b \in Bests |-> IF i \in 1..n THEN next(b, i) ELSE b]]
           Loop(g) == [i \in 0..n |-> IF i = 0 THEN a ELSE next(g[i - 1], i)]
           f == CHOOSE g : g = Loop(g)
<1>1. n \in Nat /\ \A i \in 1..n : spec.credentials[i] \in Credential
  BY DEF SpecTyped
<1>2. a \in Bests /\ \A i \in 1..n : \A b \in Bests : next(b, i) \in Bests
  <2>1. a \in Bests
    BY DEF Bests
  <2>2. ASSUME NEW i \in 1..n, NEW b \in Bests PROVE next(b, i) \in Bests
    <3> DEFINE c == spec.credentials[i]
    <3>1. c \in Credential /\ Len(c.match) \in Nat
      BY <1>1 DEF Credential
    <3> HIDE DEF c
    <3>2. [cred |-> c, len |-> 1] \in Bests /\ [cred |-> c, len |-> Len(c.match)] \in Bests
      BY <3>1 DEF Bests
    <3>3. Preferred(b, c, repo) \in Bests
      BY <3>2 DEF Preferred
    <3> QED
      BY <3>3 DEF c
  <2> QED
    BY <2>1, <2>2
<1>3. Match(repo) = f[n].cred
  BY DEF Match
<1> HIDE DEF n, a, next
<1>4. F \in [Nat -> [Bests -> Bests]]
  BY <1>2
<1>5. PICK g \in [0..n -> Bests] : IsLoop(g, n, a, F)
  <2> HIDE DEF F
  <2> QED
    BY <1>1, <1>2, <1>4, Iterates
<1>6. g = Loop(g)
  <2>1. ASSUME NEW i \in 0..n PROVE g[i] = Loop(g)[i]
    <3>1. CASE i = 0
      BY <1>5, <3>1 DEF IsLoop
    <3>2. CASE i # 0
      <4>1. i \in 1..n /\ i \in Nat /\ i - 1 \in 0..n /\ g[i - 1] \in Bests
        BY <1>1, <3>2
      <4>2. F[i][g[i - 1]] = next(g[i - 1], i)
        BY <4>1
      <4>3. g[i] = F[i][g[i - 1]]
        BY <1>5, <4>1 DEF IsLoop
      <4> QED
        BY <3>2, <4>2, <4>3
    <3> QED
      BY <3>1, <3>2
  <2> QED
    BY <2>1
<1>7. f = Loop(f)
  <2> HIDE DEF Loop
  <2> QED
    BY <1>6
<1> HIDE DEF f
<1>8. f[0] = a /\ \A i \in 1..n : f[i] = next(f[i - 1], i)
  <2>1. f[0] = a
    BY <1>1, <1>7
  <2>2. ASSUME NEW i \in 1..n PROVE f[i] = next(f[i - 1], i)
    <3>1. i \in 0..n /\ i # 0
      OBVIOUS
    <3>2. f[i] = Loop(f)[i]
      BY <1>7
    <3> QED
      BY <3>1, <3>2
  <2> QED
    BY <2>1, <2>2
<1>9. \A i \in 0..n : f[i] \in Bests
  <2>1. \A i \in 1..n : f[i - 1] \in Bests => f[i] \in Bests
    BY <1>2, <1>8
  <2> QED
    BY <1>1, <1>2, <1>8, <2>1, LoopTyped
<1>10. f \in [0..n -> Bests]
  BY <1>7, <1>9
<1> QED
  BY <1>3, <1>8, <1>10 DEF n, a, next

\* One more credential is looked at.
LEMMA BestStep ==
    ASSUME SpecTyped, NEW i \in Nat, i + 1 <= Len(spec.credentials),
           NEW b \in Bests, BestSoFar(b, i)
    PROVE  BestSoFar(Preferred(b, spec.credentials[i + 1], spec.repo), i + 1)
<1> DEFINE cs == spec.credentials
           c == cs[i + 1]
           d == Preferred(b, c, spec.repo)
<1>1. /\ Len(cs) \in Nat /\ i + 1 \in 1..Len(cs)
      /\ \A j \in 1..(i + 1) :
           Len(cs[j].match) \in Nat /\ (cs[j].match # <<>> => Len(cs[j].match) > 0)
  <2>1. Len(cs) \in Nat /\ \A j \in 1..Len(cs) : cs[j] \in Credential
    BY DEF SpecTyped
  <2>2. ASSUME NEW j \in 1..(i + 1)
        PROVE  Len(cs[j].match) \in Nat /\ (cs[j].match # <<>> => Len(cs[j].match) > 0)
    <3> DEFINE m == cs[j].match
    <3>1. m \in Seq(STRING)
      BY <2>1 DEF Credential
    <3> HIDE DEF m
    <3>2. Len(m) \in Nat /\ (m # <<>> => Len(m) > 0)
      BY <3>1
    <3> QED
      BY <3>2 DEF m
  <2> QED
    BY <2>1, <2>2
<1>2. Len(<<"*">>) = 1 /\ <<"*">> # <<>> /\ Len(<<>>) = 0
  OBVIOUS
<1>3. \A j \in 1..(i + 1) : j \in 1..i \/ j = i + 1
  OBVIOUS
<1>4. b.len \in Nat
  BY DEF Bests
<1> HIDE DEF cs
\* What the step does: it takes a longer match, or nothing is gained.
<1>5. \/ Fits(c) /\ d = [cred |-> c, len |-> Len(c.match)] /\ Len(c.match) > b.len
      \/ d = b /\ (Fits(c) => Len(c.match) <= b.len)
  <2>1. CASE c.match = <<"*">>
    <3>1. Len(c.match) = 1 /\ Fits(c)
      BY <1>2, <2>1 DEF Fits
    <3>2. CASE b.len = 0
      <4>1. d = [cred |-> c, len |-> 1]
        BY <2>1, <3>2 DEF Preferred
      <4> QED
        BY <3>1, <3>2, <4>1
    <3>3. CASE b.len # 0
      <4>1. d = b
        BY <2>1, <3>3 DEF Preferred
      <4> QED
        BY <1>4, <3>1, <3>3, <4>1
    <3> QED
      BY <3>2, <3>3
  <2>2. CASE c.match # <<"*">>
    <3>1. CASE IsPrefix(c.match, spec.repo) /\ Len(c.match) > b.len
      <4>1. d = [cred |-> c, len |-> Len(c.match)]
        BY <2>2, <3>1 DEF Preferred
      <4>2. c.match # <<>>
        BY <1>2, <1>4, <3>1
      <4> QED
        BY <3>1, <4>1, <4>2 DEF Fits
    <3>2. CASE ~(IsPrefix(c.match, spec.repo) /\ Len(c.match) > b.len)
      <4>1. d = b
        BY <2>2, <3>2 DEF Preferred
      <4>2. Fits(c) => IsPrefix(c.match, spec.repo)
        BY <2>2 DEF Fits
      <4>3. Len(c.match) \in Nat
        BY <1>1
      <4> QED
        BY <1>4, <3>2, <4>1, <4>2, <4>3
    <3> QED
      BY <3>1, <3>2
  <2> QED
    BY <2>1, <2>2
<1>6. \/ b.len = 0 /\ b.cred = Nobody /\ b = [cred |-> Nobody, len |-> 0] /\ \A j \in 1..i : ~Fits(cs[j])
      \/ \E k \in 1..i :
           /\ Fits(cs[k]) /\ b.len = Len(cs[k].match)
           /\ b = [cred |-> cs[k], len |-> Len(cs[k].match)]
           /\ \A j \in 1..i : Fits(cs[j]) =>
                Len(cs[j].match) <= b.len /\ (j < k => Len(cs[j].match) < b.len)
  BY DEF BestSoFar, cs
<1>7. CASE Fits(c) /\ d = [cred |-> c, len |-> Len(c.match)] /\ Len(c.match) > b.len
  <2>1. ASSUME NEW j \in 1..i, Fits(cs[j]) PROVE Len(cs[j].match) <= b.len
    BY <1>6, <2>1
  <2>2. d.len = Len(c.match)
    BY <1>7
  <2> HIDE DEF d
  <2>3. ASSUME NEW j \in 1..(i + 1), Fits(cs[j])
        PROVE  Len(cs[j].match) <= d.len /\ (j < i + 1 => Len(cs[j].match) < d.len)
    <3>1. CASE j = i + 1
      BY <1>1, <2>2, <3>1
    <3>2. CASE j \in 1..i
      <4>1. Len(cs[j].match) <= b.len /\ Len(cs[j].match) \in Nat /\ Len(c.match) \in Nat
        BY <1>1, <2>1, <2>3, <3>2
      <4> QED
        BY <1>4, <1>7, <2>2, <4>1
    <3> QED
      BY <1>3, <3>1, <3>2
  <2>4. BestSoFar(d, i + 1)
    BY <1>1, <1>7, <2>3 DEF BestSoFar, cs
  <2> QED
    BY <2>4 DEF d, cs
<1>8. CASE d = b /\ (Fits(c) => Len(c.match) <= b.len)
  <2>1. CASE b.len = 0 /\ b = [cred |-> Nobody, len |-> 0] /\ \A j \in 1..i : ~Fits(cs[j])
    <3>1. ~Fits(c)
      <4> SUFFICES ASSUME Fits(c) PROVE FALSE
        OBVIOUS
      <4>1. c.match # <<>> /\ Len(c.match) <= 0
        BY <1>8, <2>1 DEF Fits
      <4> QED
        BY <1>1, <4>1
    <3>2. \A j \in 1..(i + 1) : ~Fits(cs[j])
      BY <1>3, <2>1, <3>1
    <3> QED
      BY <1>8, <2>1, <3>2 DEF BestSoFar, cs
  <2>2. CASE b.len # 0 \/ ~(\A j \in 1..i : ~Fits(cs[j]))
    <3>1. PICK k \in 1..i :
            /\ Fits(cs[k]) /\ b = [cred |-> cs[k], len |-> Len(cs[k].match)]
            /\ \A j \in 1..i : Fits(cs[j]) => Len(cs[j].match) <= b.len /\ (j < k => Len(cs[j].match) < b.len)
      BY <1>6, <2>2
    <3>2. k \in 1..(i + 1) /\ ~(i + 1 < k)
      OBVIOUS
    <3>3. ASSUME NEW j \in 1..(i + 1), Fits(cs[j])
          PROVE  Len(cs[j].match) <= b.len /\ (j < k => Len(cs[j].match) < b.len)
      BY <1>3, <1>8, <3>1, <3>2, <3>3
    <3>4. BestSoFar(b, i + 1)
      BY <3>1, <3>2, <3>3 DEF BestSoFar, cs
    <3> QED
      BY <1>8, <3>4 DEF cs
  <2> QED
    BY <1>6, <2>1, <2>2
<1> QED
  BY <1>5, <1>7, <1>8

LEMMA MatchIsBest ==
    ASSUME SpecTyped
    PROVE  \E b \in Bests : b.cred = Match(spec.repo) /\ BestSoFar(b, Len(spec.credentials))
<1> DEFINE n == Len(spec.credentials)
<1>1. PICK f \in [0..n -> Bests] :
        /\ Match(spec.repo) = f[n].cred
        /\ f[0] = [cred |-> Nobody, len |-> 0]
        /\ \A i \in 1..n : f[i] = Preferred(f[i - 1], spec.credentials[i], spec.repo)
  BY MatchIs
<1>2. n \in Nat
  BY DEF SpecTyped
<1> DEFINE S == {i \in Nat : i <= n => BestSoFar(f[i], i)}
<1>3. 0 \in S
  BY <1>1 DEF BestSoFar
<1>4. ASSUME NEW i \in Nat, i \in S PROVE i + 1 \in S
  <2> SUFFICES ASSUME i + 1 <= n PROVE BestSoFar(f[i + 1], i + 1)
    OBVIOUS
  <2>1. i + 1 \in 1..n /\ (i + 1) - 1 = i /\ i \in 0..n /\ i <= n
    BY <1>2
  <2>2. f[i] \in Bests /\ BestSoFar(f[i], i)
    BY <1>4, <2>1
  <2>3. f[i + 1] = Preferred(f[i], spec.credentials[i + 1], spec.repo)
    BY <1>1, <2>1
  <2> QED
    BY <2>2, <2>3, BestStep
<1>5. n \in S
  <2> HIDE DEF S
  <2> QED
    BY <1>2, <1>3, <1>4, SetInduction
<1>6. f[n] \in Bests /\ BestSoFar(f[n], n)
  BY <1>2, <1>5
<1> QED
  BY <1>1, <1>6

\* The credential is chosen before the authentication, and stays.
CheckoutInv ==
    /\ phase \in {"auth", "hostkeys", "clone"} =>
         cred = IF Named(spec.credential) # Nobody THEN Named(spec.credential) ELSE Match(spec.repo)
    /\ phase \in {"hostkeys", "clone"} /\ auth \in {"host key", "agent"} =>
         spec.ssh /\ cred.type \notin {"token", "password", "ssh_key"}

LEMMA CheckoutInductive == PrepareSpec => []CheckoutInv
<1>1. LoadInit => CheckoutInv
  BY DEF LoadInit, CheckoutInv
<1>2. CheckoutInv /\ [Prepare]_allVars => CheckoutInv'
  <2> SUFFICES ASSUME CheckoutInv, [Prepare]_allVars PROVE CheckoutInv'
    OBVIOUS
  <2>0. spec' = spec
    BY DEF Prepare, Validate, PipelineEnv, BuildStep, Built, Workspace, MatchCredential,
       Authenticate, HostKeys, Clone, Sort, Goto, prepVars, allVars
  <2>1. /\ Named(spec.credential)' = Named(spec.credential)
        /\ Match(spec.repo)' = Match(spec.repo)
    BY <2>0, SpecStays
  <2>2. CASE phase' \notin {"auth", "hostkeys", "clone"}
    BY <2>2 DEF CheckoutInv
  <2>3. CASE UNCHANGED <<phase, cred, auth>>
    BY <2>0, <2>1, <2>3 DEF CheckoutInv
  <2>4. CASE MatchCredential
    BY <2>0, <2>1, <2>4 DEF MatchCredential, Goto, CheckoutInv
  <2>5. CASE Authenticate
    <3>1. phase = "auth" /\ cred' = cred
      BY <2>5 DEF Authenticate
    <3>2. CASE cred.type \in {"token", "password", "ssh_key"} /\ auth' = cred.type
      BY <2>0, <2>1, <3>1, <3>2 DEF CheckoutInv
    <3>3. CASE cred.type \notin {"token", "password", "ssh_key"} /\ auth' = HostAuth
      BY <2>0, <2>1, <3>1, <3>3 DEF CheckoutInv, HostAuth
    <3>4. CASE phase' = "error"
      BY <3>4 DEF CheckoutInv
    <3> QED
      BY <2>5, <3>2, <3>3, <3>4 DEF Authenticate, Goto
  <2>6. CASE HostKeys
    BY <2>0, <2>1, <2>6 DEF HostKeys, Goto, CheckoutInv
  <2>7. CASE Validate \/ PipelineEnv \/ BuildStep \/ Built
    <3>1. phase' \in {"validate", "env", "build", "workspace", "dag", "error"}
      BY <2>7 DEF Validate, PipelineEnv, BuildStep, Built, Goto
    <3> QED
      BY <2>2, <3>1
  <2>8. CASE Workspace \/ Clone
    <3>1. phase' \in {"credential", "dag", "error"}
      BY <2>8 DEF Workspace, Clone, Goto
    <3> QED
      BY <2>2, <3>1
  <2>9. CASE Sort \/ UNCHANGED allVars
    BY <2>3, <2>9 DEF Sort, prepVars, allVars
  <2> QED
    BY <2>4, <2>5, <2>6, <2>7, <2>8, <2>9 DEF Prepare
<1> QED
  BY <1>1, <1>2, PTL DEF PrepareSpec

LEMMA CheckoutInvIsRight == SpecTyped /\ CheckoutInv => CheckoutAuth
<1> SUFFICES ASSUME SpecTyped, CheckoutInv, phase \in {"hostkeys", "clone"} PROVE CheckoutAuth
  BY DEF CheckoutAuth
<1> DEFINE cs == spec.credentials
<1>1. Len(cs) \in Nat /\ DOMAIN cs = 1..Len(cs)
  BY DEF SpecTyped
<1>2. /\ auth \in {"host key", "agent"} =>
            spec.ssh /\ cred.type \notin {"token", "password", "ssh_key"}
      /\ Named(spec.credential) # Nobody => cred = Named(spec.credential)
      /\ Named(spec.credential) = Nobody => cred = Match(spec.repo)
  BY DEF CheckoutInv
<1>3. PICK b \in Bests : b.cred = Match(spec.repo) /\ BestSoFar(b, Len(cs))
  BY MatchIsBest
<1>4. CASE b = [cred |-> Nobody, len |-> 0] /\ \A j \in 1..Len(cs) : ~Fits(cs[j])
  <2>1. Match(spec.repo) = Nobody
    BY <1>3, <1>4
  <2> QED
    BY <1>1, <1>2, <1>4, <2>1 DEF CheckoutAuth
<1>5. ASSUME NEW k \in 1..Len(cs), Fits(cs[k]),
             b = [cred |-> cs[k], len |-> Len(cs[k].match)],
             \A j \in 1..Len(cs) : Fits(cs[j]) =>
               Len(cs[j].match) <= b.len /\ (j < k => Len(cs[j].match) < b.len)
      PROVE  CheckoutAuth
  <2>1. Match(spec.repo) = cs[k] /\ b.len = Len(cs[k].match)
    BY <1>3, <1>5
  <2>2. Match(spec.repo) # Nobody
    BY <1>5, <2>1 DEF Fits, Nobody
  <2>3. ASSUME Named(spec.credential) = Nobody
        PROVE  \E i \in DOMAIN cs :
                 /\ cs[i] = cred /\ Fits(cred)
                 /\ \A j \in DOMAIN cs :
                      Fits(cs[j]) => /\ Len(cs[j].match) <= Len(cred.match)
                                     /\ j < i => Len(cs[j].match) < Len(cred.match)
    <3>1. cred = cs[k] /\ b.len = Len(cred.match)
      BY <1>2, <2>1, <2>3
    <3> QED
      BY <1>1, <1>5, <3>1
  <2> QED
    BY <1>2, <2>2, <2>3 DEF CheckoutAuth
<1> QED
  BY <1>3, <1>4, <1>5 DEF BestSoFar

\* For every store of credentials: git authenticates with the credential the
\* spec names, or with the first of the longest matches, and with the host's key
\* or agent only for an SSH repository without a git credential.
THEOREM CheckoutAuthenticates == PrepareSpec => []CheckoutAuth
<1>1. EnvInv => SpecTyped
  BY DEF EnvInv
<1> QED
  BY <1>1, EnvInductive, CheckoutInductive, CheckoutInvIsRight, PTL
=============================================================================
