------------------------------ MODULE KahnSort ------------------------------
(***************************************************************************)
(* internal/pipeline/validate.go: ValidateDAG and TopologicalSort.  Both   *)
(* run Kahn's algorithm, first to detect a cycle (detectCycle), then to    *)
(* produce the order the executor follows; here they are two passes over   *)
(* the same state.  Steps are their indices; a step's depends_on is a      *)
(* sequence of names, which may repeat a name or name no step at all, and  *)
(* is resolved to indices as the code's map names does.                    *)
(***************************************************************************)
EXTENDS Integers, Sequences, FiniteSets

CONSTANTS
    N,          \* number of steps
    Names,      \* the names steps may have
    NoName,     \* the empty name
    Pipelines   \* the pipelines considered: [name, dependsOn] records

StepIds == 1..N

ASSUME NAssumption == N \in Nat
ASSUME PipelinesAssumption ==
    Pipelines \subseteq [name : [StepIds -> Names], dependsOn : [StepIds -> Seq(Names)]]

VARIABLES
    input,      \* the steps passed in
    pc,         \* "check"; "detect" and "sort" are the passes; "ok", "error"
    inDegree,   \* inDegree[v]: dependencies of v not yet taken from the queue
    queue,      \* every step queued in this pass; queue = queue[1:] only
    head,       \*   moves the head, the number of steps taken (visited)
    filling,    \* the entry steps are still being queued
    cur,        \* the step u whose successors are being visited, or 0
    scan        \* the loop index: the next step to queue or to visit

vars == <<input, pc, inDegree, queue, head, filling, cur, scan>>

\* The steps taken so far, in order: result of TopologicalSort.
order == [k \in 1..head |-> queue[k]]
Taken == {queue[k] : k \in 1..head}

-----------------------------------------------------------------------------
(* ValidateDAG's checks before the first pass *)

NameOf(v)    == input.name[v]
DependsOn(v) == input.dependsOn[v]

NamesGiven  == \A v \in StepIds : NameOf(v) # NoName
UniqueNames == \A u, v \in StepIds : NameOf(u) = NameOf(v) => u = v
DepsExist   == \A v \in StepIds : \A k \in DOMAIN DependsOn(v) :
                 \E u \in StepIds : NameOf(u) = DependsOn(v)[k]
NoSelfDep   == \A v \in StepIds : \A k \in DOMAIN DependsOn(v) :
                 DependsOn(v)[k] # NameOf(v)
WellFormed  == N > 0 /\ NamesGiven /\ UniqueNames /\ DepsExist /\ NoSelfDep
HasEntry    == \E v \in StepIds : DependsOn(v) = <<>>

\* The occurrences in v's depends_on of step u, one edge of adj[u] each.
Edges(u, v) == {k \in DOMAIN DependsOn(v) : DependsOn(v)[k] = NameOf(u)}

\* Mutant of StartPass: inDegree counts distinct dependencies.
StartPassDistinct(p) ==
    /\ pc' = p
    /\ inDegree' = [v \in StepIds |->
                      Cardinality({DependsOn(v)[k] : k \in DOMAIN DependsOn(v)})]
    /\ queue' = <<>>
    /\ head' = 0
    /\ filling' = TRUE
    /\ cur' = 0
    /\ scan' = 1

\* inDegree and adj count every occurrence.
StartPass(p) ==
    /\ pc' = p
    /\ inDegree' = [v \in StepIds |-> Len(DependsOn(v))]
    /\ queue' = <<>>
    /\ head' = 0
    /\ filling' = TRUE
    /\ cur' = 0
    /\ scan' = 1

-----------------------------------------------------------------------------
Init ==
    /\ input \in Pipelines
    /\ pc = "check"
    /\ inDegree = [v \in StepIds |-> 0]
    /\ queue = <<>>
    /\ head = 0
    /\ filling = FALSE
    /\ cur = 0
    /\ scan = 1

Check ==
    /\ pc = "check"
    /\ WellFormed
    /\ StartPass("detect")
    /\ UNCHANGED input

Reject ==
    /\ pc = "check"
    /\ ~WellFormed
    /\ pc' = "error"
    /\ UNCHANGED <<input, inDegree, queue, head, filling, cur, scan>>

InPass == pc \in {"detect", "sort"}

\* The loop that queues the entry steps.
Fill ==
    /\ InPass /\ filling /\ scan <= N
    /\ queue' = IF inDegree[scan] = 0 THEN Append(queue, scan) ELSE queue
    /\ scan' = scan + 1
    /\ UNCHANGED <<input, pc, inDegree, head, filling, cur>>

Filled ==
    /\ InPass /\ filling /\ scan > N
    /\ filling' = FALSE
    /\ UNCHANGED <<input, pc, inDegree, queue, head, cur, scan>>

\* u := queue[0]; queue = queue[1:]
Take ==
    /\ InPass /\ ~filling /\ cur = 0 /\ head < Len(queue)
    /\ head' = head + 1
    /\ cur' = queue[head + 1]
    /\ scan' = 1
    /\ UNCHANGED <<input, pc, inDegree, queue, filling>>

\* Mutant of Visit: a repeated dependency is taken off once.
VisitOnce ==
    /\ InPass /\ cur # 0 /\ scan <= N
    /\ inDegree' = [inDegree EXCEPT ![scan] = IF Edges(cur, scan) = {} THEN @ ELSE @ - 1]
    /\ queue' = IF Edges(cur, scan) # {} /\ inDegree'[scan] = 0
                THEN Append(queue, scan) ELSE queue
    /\ scan' = scan + 1
    /\ UNCHANGED <<input, pc, head, filling, cur>>

\* The loop over adj[u], which lists the successors of u by index, one of them
\* as often as it names u: the last of these occurrences may make it ready.
Visit ==
    /\ InPass /\ cur # 0 /\ scan <= N
    /\ inDegree' = [inDegree EXCEPT ![scan] = @ - Cardinality(Edges(cur, scan))]
    /\ queue' = IF Edges(cur, scan) # {} /\ inDegree'[scan] = 0
                THEN Append(queue, scan) ELSE queue
    /\ scan' = scan + 1
    /\ UNCHANGED <<input, pc, head, filling, cur>>

Visited ==
    /\ InPass /\ cur # 0 /\ scan > N
    /\ cur' = 0
    /\ UNCHANGED <<input, pc, inDegree, queue, head, filling, scan>>

Empty == ~filling /\ cur = 0 /\ head = Len(queue)

\* detectCycle's verdict, then the entry check; the sort starts over.
Detected ==
    /\ pc = "detect" /\ Empty
    /\ IF head = N /\ HasEntry
       THEN StartPass("sort")
       ELSE /\ pc' = "error"
            /\ UNCHANGED <<inDegree, queue, head, filling, cur, scan>>
    /\ UNCHANGED input

Sorted ==
    /\ pc = "sort" /\ Empty
    /\ pc' = "ok"
    /\ UNCHANGED <<input, inDegree, queue, head, filling, cur, scan>>

Next ==
    \/ Check \/ Reject \/ Fill \/ Filled \/ Take \/ Visit \/ Visited
    \/ Detected \/ Sorted

Spec == Init /\ [][Next]_vars

-----------------------------------------------------------------------------
(* Properties *)

\* Every variable has its type; no step is queued twice, so the queue never
\* outgrows the capacity it was made with.
TypeOK ==
    /\ input \in Pipelines
    /\ pc \in {"check", "detect", "sort", "ok", "error"}
    /\ inDegree \in [StepIds -> Nat]
    /\ queue \in Seq(StepIds) /\ Len(queue) <= N
    /\ head \in 0..Len(queue)
    /\ filling \in BOOLEAN
    /\ cur \in 0..N
    /\ scan \in 1..(N + 1)

Precedes(u, v) == Edges(u, v) # {}

\* In every pass each step taken comes after all the steps it depends on: the
\* executor, which follows the order, never starts a step too early.
DependenciesFirst ==
    \A k \in 1..head : \A u \in StepIds :
        Precedes(u, order[k]) => \E m \in 1..(k - 1) : order[m] = u

NoRepetition == \A k, m \in 1..head : order[k] = order[m] => k = m

\* What reaches the executor is complete and free of repetitions: it will run
\* every step exactly once.
SortIsComplete == pc = "ok" => Taken = StepIds /\ NoRepetition

\* The order that the executor follows is a topological order of all steps.
SortIsRight == DependenciesFirst /\ SortIsComplete

\* Reference definition: the steps v depends on, directly or not; up[n] are
\* those within n + 1 hops.
Ancestors(v) ==
    LET up[n \in 0..N] ==
          IF n = 0 THEN {u \in StepIds : Precedes(u, v)}
          ELSE up[n - 1] \cup
               {u \in StepIds : \E w \in up[n - 1] : Precedes(u, w)}
    IN  up[N]

Cyclic == \E v \in StepIds : v \in Ancestors(v)

\* ValidateDAG refuses exactly the pipelines whose names, references or
\* dependencies are wrong: a cycle is never missed and never imagined.
VerdictIsRight ==
    /\ pc = "ok" => WellFormed /\ ~Cyclic
    /\ pc = "error" => ~WellFormed \/ Cyclic
=============================================================================
