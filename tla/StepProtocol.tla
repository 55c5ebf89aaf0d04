---------------------------- MODULE StepProtocol ----------------------------
(***************************************************************************)
(* The contract between the pipeline executor and whoever observes it:     *)
(* steps run one at a time in their order, each at most once; a failed or  *)
(* cancelled step, or a cancellation between two steps, ends the pipeline  *)
(* and skips the rest; the outcome follows from what the steps did.        *)
(***************************************************************************)
EXTENDS Integers

CONSTANTS Pipelines, N

VARIABLES
    table,    \* table[p][i]: status of step i of pipeline p
    outcome   \* outcome[p]: its overall status, "none" while undecided

protocol == <<table, outcome>>

Ids == 1..N
Settled == {"success", "failed", "cancelled"}

ProtocolInit ==
    /\ table = [p \in Pipelines |-> [i \in Ids |-> "queued"]]
    /\ outcome = [p \in Pipelines |-> "none"]

\* Every step before i succeeded.
Reached(p, i) == \A j \in 1..(i - 1) : table[p][j] = "success"

Begin(p, i) ==
    /\ outcome[p] = "none" /\ table[p][i] = "queued" /\ Reached(p, i)
    /\ table' = [table EXCEPT ![p][i] = "running"]
    /\ UNCHANGED outcome

Settle(p, i, s) ==
    /\ table[p][i] = "running"
    /\ table' = [table EXCEPT ![p][i] = s]
    /\ outcome' = [outcome EXCEPT ![p] = IF s = "success" THEN @ ELSE s]

\* A cancellation found between two steps.
Halt(p) ==
    /\ outcome[p] = "none"
    /\ \E i \in Ids : table[p][i] = "queued" /\ Reached(p, i)
    /\ outcome' = [outcome EXCEPT ![p] = "cancelled"]
    /\ UNCHANGED table

\* Something went wrong before the first step could start.
Abort(p) ==
    /\ outcome[p] = "none"
    /\ \A i \in Ids : table[p][i] = "queued"
    /\ outcome' = [outcome EXCEPT ![p] = "failed"]
    /\ UNCHANGED table

Skip(p, i) ==
    /\ table[p][i] = "queued"
    /\ \A j \in 1..(i - 1) : table[p][j] # "queued"
    /\ \/ outcome[p] = "cancelled"
       \/ \E j \in Ids : table[p][j] = "failed"
    /\ table' = [table EXCEPT ![p][i] = "skipped"]
    /\ UNCHANGED outcome

Complete(p) ==
    /\ outcome[p] = "none"
    /\ \A i \in Ids : table[p][i] = "success"
    /\ outcome' = [outcome EXCEPT ![p] = "success"]
    /\ UNCHANGED table

ProtocolNext ==
    \E p \in Pipelines :
        \/ Halt(p) \/ Abort(p) \/ Complete(p)
        \/ \E i \in Ids : Begin(p, i) \/ Skip(p, i)
        \/ \E i \in Ids, s \in Settled : Settle(p, i, s)

ProtocolSpec == ProtocolInit /\ [][ProtocolNext]_protocol
=============================================================================
