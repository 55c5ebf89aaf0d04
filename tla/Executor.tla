------------------------------ MODULE Executor ------------------------------
(***************************************************************************)
(* One call of Executor.ExecutePipelineWithObserver (internal/pipeline)    *)
(* together with the RunContainer calls it makes (internal/container), the *)
(* Docker daemon they talk to, the goroutine that collects a container's   *)
(* log, and the context: its cancellation and a step's timeout may strike  *)
(* between any two statements.  The steps are in topological order.        *)
(*                                                                         *)
(* Container 0 is the one EnsureWorkspacePermissions runs; container i is  *)
(* the one of step i.  An operation step runs in the worker's process.     *)
(***************************************************************************)
EXTENDS Integers, FiniteSets

CONSTANTS
    NSteps,        \* steps of the pipeline
    Operations,    \* the steps that are operations; the others are containers
    Timed,         \* the steps with a timeout
    HasHandler     \* SetOperationHandler was called

ASSUME NStepsAssumption == NSteps \in Nat \ {0}
ASSUME StepSetsAssumption == Operations \subseteq 1..NSteps /\ Timed \subseteq 1..NSteps
ASSUME HasHandlerAssumption == HasHandler \in BOOLEAN

VARIABLES
    pc,         \* where the executor is
    cur,        \* the loop index; 0 before the loop, for container 0
    table,      \* table[i]: status of step i as the observer is told
    outcome,    \* result.Status, "none" while running
    cancelled,  \* the caller's context is cancelled
    expired,    \* the current step's timeout has struck
    cont,       \* cont[i]: container i in the daemon
    code,       \* code[i]: its exit code
    fresh,      \* cleanupContainer uses a context of its own
    ret,        \* what RunContainer is about to return
    collecting, \* the containers whose log goroutine is alive
    late,       \* steps whose log goroutine called back after StepFinished
    handled,    \* operations that reached the handler
    faulty      \* daemon calls may fail although their context is alive

vars == <<pc, cur, table, outcome, cancelled, expired, cont, code, fresh, ret,
          collecting, late, handled, faulty>>

-----------------------------------------------------------------------------
StepIds    == 1..NSteps
Containers == 0..NSteps
Terminal   == {"success", "failed", "cancelled"}

\* Mutant of CtxErr: the container runs under the pipeline's context.
CtxErrParent == cancelled

\* ctx.Err() # nil, for the context of the RunContainer call in progress
CtxErr == cancelled \/ expired

\* A daemon call returns an error only if its context is dead or the daemon
\* itself fails; with a dead context it must not return success.
MayFail == CtxErr \/ faulty

Init ==
    /\ pc = "sort"
    /\ cur = 0
    /\ table = [i \in StepIds |-> "queued"]
    /\ outcome = "none"
    /\ cancelled \in BOOLEAN
    /\ expired = FALSE
    /\ cont = [i \in Containers |-> "none"]
    /\ code \in [Containers -> {0, 1}]
    /\ fresh = FALSE
    /\ ret = "none"
    /\ collecting = {}
    /\ late = {}
    /\ handled = {}
    /\ faulty \in BOOLEAN

-----------------------------------------------------------------------------
(* ExecutePipelineWithObserver *)

\* TopologicalSort and CreateWorkspace: an error ends the call at once.
Prepare ==
    /\ pc = "sort"
    /\ \/ /\ pc' = "image"
          /\ UNCHANGED outcome
       \/ /\ pc' = "done"
          /\ outcome' = "failed"
    /\ UNCHANGED <<cur, table, cancelled, expired, cont, code, fresh, ret,
                   collecting, late, handled, faulty>>

\* EnsureWorkspacePermissions returned; its error is only a warning.
PermissionsDone ==
    /\ pc = "returned" /\ cur = 0
    /\ pc' = "loop"
    /\ cur' = 1
    /\ ret' = "none"
    /\ UNCHANGED <<table, outcome, cancelled, expired, cont, code, fresh,
                   collecting, late, handled, faulty>>

\* The loop's ctx.Err() test; the remaining steps are skipped next.
LoopCancelled ==
    /\ pc = "loop" /\ cur <= NSteps
    /\ cancelled
    /\ outcome' = "cancelled"
    /\ pc' = "skip"
    /\ UNCHANGED <<cur, table, cancelled, expired, cont, code, fresh, ret,
                   collecting, late, handled, faulty>>

LoopContinue ==
    /\ pc = "loop" /\ cur <= NSteps
    /\ ~cancelled
    /\ pc' = "start"
    /\ UNCHANGED <<cur, table, outcome, cancelled, expired, cont, code, fresh,
                   ret, collecting, late, handled, faulty>>

\* StepStarted, then executeStep up to the container or the operation.
StartStep ==
    /\ pc = "start"
    /\ table' = [table EXCEPT ![cur] = "running"]
    /\ pc' = IF cur \in Operations THEN "operation" ELSE "image"
    /\ UNCHANGED <<cur, outcome, cancelled, expired, cont, code, fresh, ret,
                   collecting, late, handled, faulty>>

\* Mutant of FinishStep: the loop goes on after a cancelled step.
FinishStepContinue(s) ==
    /\ table' = [table EXCEPT ![cur] = s]
    /\ cur' = cur + 1
    /\ expired' = FALSE
    /\ ret' = "none"
    /\ IF s = "failed"
       THEN pc' = "skip" /\ outcome' = s
       ELSE pc' = "loop" /\ UNCHANGED outcome

\* The status of the step, StepFinished, and the loop's reaction to it.
FinishStep(s) ==
    /\ table' = [table EXCEPT ![cur] = s]
    /\ cur' = cur + 1
    /\ expired' = FALSE
    /\ ret' = "none"
    /\ IF s = "success"
       THEN pc' = "loop" /\ UNCHANGED outcome
       ELSE pc' = "skip" /\ outcome' = s

\* Mutant of ContainerStepDone: any error counts as a cancellation.
ContainerStepAnyError ==
    /\ pc = "returned" /\ cur > 0
    /\ FinishStep(CASE ret = "error" -> "cancelled"
                    [] ret = "ok" /\ code[cur] = 0 -> "success"
                    [] OTHER -> "failed")
    /\ UNCHANGED <<cancelled, cont, code, fresh, collecting, late, handled, faulty>>

\* executeStep after RunContainer: an error under a dead context counts as a
\* cancellation, whatever the error was.
ContainerStepDone ==
    /\ pc = "returned" /\ cur > 0
    /\ FinishStep(CASE ret = "error" /\ CtxErr -> "cancelled"
                    [] ret = "ok" /\ code[cur] = 0 -> "success"
                    [] OTHER -> "failed")
    /\ UNCHANGED <<cancelled, cont, code, fresh, collecting, late, handled, faulty>>

\* executeOperation: without a handler, or on any error of the handler - one
\* caused by the cancellation included - the step fails.
OperationDone ==
    /\ pc = "operation"
    /\ handled' = IF HasHandler THEN handled \cup {cur} ELSE handled
    /\ \E s \in {"success", "failed"} :
         /\ ~HasHandler => s = "failed"
         /\ FinishStep(s)
    /\ UNCHANGED <<cancelled, cont, code, fresh, collecting, late, faulty>>

SkipStep ==
    /\ pc = "skip" /\ cur <= NSteps
    /\ table' = [table EXCEPT ![cur] = "skipped"]
    /\ cur' = cur + 1
    /\ UNCHANGED <<pc, outcome, cancelled, expired, cont, code, fresh, ret,
                   collecting, late, handled, faulty>>

Return ==
    /\ pc \in {"loop", "skip"} /\ cur > NSteps
    /\ outcome' = IF outcome = "none" THEN "success" ELSE outcome
    /\ pc' = "done"
    /\ UNCHANGED <<cur, table, cancelled, expired, cont, code, fresh, ret,
                   collecting, late, handled, faulty>>

-----------------------------------------------------------------------------
(* RunContainer for container cur *)

Go(next) ==
    /\ pc' = next
    /\ UNCHANGED <<cur, table, outcome, cancelled, expired, code, late, handled, faulty>>

\* ensureImage
EnsureImage ==
    /\ pc = "image"
    /\ \/ /\ ~CtxErr
          /\ Go("create") /\ UNCHANGED ret
       \/ /\ MayFail
          /\ Go("returned") /\ ret' = "error"
    /\ UNCHANGED <<cont, fresh, collecting>>

\* ContainerCreate; when the call fails the daemon may have done its part, and
\* without an id there is nothing to clean up.
Create ==
    /\ pc = "create"
    /\ \/ /\ ~CtxErr
          /\ cont' = [cont EXCEPT ![cur] = "created"]
          /\ Go("run") /\ UNCHANGED ret
       \/ /\ MayFail
          /\ cont' \in {cont, [cont EXCEPT ![cur] = "created"]}
          /\ Go("returned") /\ ret' = "error"
    /\ UNCHANGED <<fresh, collecting>>

\* ContainerStart, and the log goroutine.
Run ==
    /\ pc = "run"
    /\ \/ /\ ~CtxErr
          /\ cont' = [cont EXCEPT ![cur] = "running"]
          /\ collecting' = collecting \cup {cur}
          /\ Go("wait") /\ UNCHANGED ret
       \/ /\ MayFail
          /\ cont' \in {cont, [cont EXCEPT ![cur] = "running"]}
          /\ Go("cleanup") /\ ret' = "error"
          /\ UNCHANGED collecting
    /\ UNCHANGED fresh

\* The select on ContainerWait: when both channels are ready it picks either.
WaitExit ==
    /\ pc = "wait" /\ cont[cur] = "exited"
    /\ Go("join")
    /\ UNCHANGED <<cont, fresh, ret, collecting>>

\* Mutant of WaitError: ContainerWait is given a context of its own.
WaitErrorDetached ==
    /\ pc = "wait" /\ faulty
    /\ Go("cleanup") /\ ret' = "error"
    /\ UNCHANGED <<cont, fresh, collecting>>

WaitError ==
    /\ pc = "wait" /\ MayFail
    /\ Go("cleanup") /\ ret' = "error"
    /\ UNCHANGED <<cont, fresh, collecting>>

\* <-outputCh and <-logErrCh: the log goroutine has ended; its error counts
\* only under a live context.
Join ==
    /\ pc = "join" /\ cur \notin collecting
    /\ \/ /\ Go("inspect")
          /\ UNCHANGED ret
       \/ /\ faulty /\ ~CtxErr
          /\ Go("cleanup") /\ ret' = "error"
    /\ UNCHANGED <<cont, fresh, collecting>>

\* ContainerInspect after exit code 0 only confirms the code.
Inspect ==
    /\ pc = "inspect"
    /\ Go("cleanup") /\ ret' = "ok"
    /\ UNCHANGED <<cont, fresh, collecting>>

\* Mutant of Cleanup: the removal uses the caller's context, dead or not.
CleanupSameContext ==
    /\ pc = "cleanup"
    /\ Go("remove")
    /\ fresh' = FALSE
    /\ UNCHANGED <<cont, ret, collecting>>

\* cleanupContainer looks at the context once ...
Cleanup ==
    /\ pc = "cleanup"
    /\ Go("remove")
    /\ fresh' = CtxErr
    /\ UNCHANGED <<cont, ret, collecting>>

\* ... and removes under the context it chose then, ignoring errors.
Remove ==
    /\ pc = "remove"
    /\ \/ cont' = [cont EXCEPT ![cur] = "removed"]
       \/ /\ faulty \/ (CtxErr /\ ~fresh)
          /\ UNCHANGED cont
    /\ Go("returned")
    /\ UNCHANGED <<fresh, ret, collecting>>

-----------------------------------------------------------------------------
(* Everyone else *)

\* The container's main process ends by itself.
ContainerExits(i) ==
    /\ cont[i] = "running"
    /\ cont' = [cont EXCEPT ![i] = "exited"]
    /\ UNCHANGED <<pc, cur, table, outcome, cancelled, expired, code, fresh,
                   ret, collecting, late, handled, faulty>>

\* The log goroutine hands over a line.
LogLine(i) ==
    /\ i \in collecting \cap StepIds
    /\ late' = IF table[i] = "running" THEN late ELSE late \cup {i}
    /\ UNCHANGED <<pc, cur, table, outcome, cancelled, expired, cont, code,
                   fresh, ret, collecting, handled, faulty>>

\* The context of container i's log stream: executeStep's deferred cancel ends
\* a timed step's, ExecutePipelineWithObserver's any step's.
LogCtxErr(i) ==
    \/ cancelled
    \/ i = cur /\ expired
    \/ i \in Timed /\ cur > i
    \/ i > 0 /\ pc = "done"

\* The log stream ends with its container, its context or the connection.
LogEnds(i) ==
    /\ i \in collecting
    /\ cont[i] # "running" \/ LogCtxErr(i) \/ faulty
    /\ collecting' = collecting \ {i}
    /\ UNCHANGED <<pc, cur, table, outcome, cancelled, expired, cont, code,
                   fresh, ret, late, handled, faulty>>

Cancel ==
    /\ ~cancelled
    /\ cancelled' = TRUE
    /\ UNCHANGED <<pc, cur, table, outcome, expired, cont, code, fresh, ret,
                   collecting, late, handled, faulty>>

Timeout ==
    /\ cur \in Timed /\ table[cur] = "running" /\ ~expired
    /\ expired' = TRUE
    /\ UNCHANGED <<pc, cur, table, outcome, cancelled, cont, code, fresh, ret,
                   collecting, late, handled, faulty>>

-----------------------------------------------------------------------------
ExecStep ==
    \/ Prepare \/ PermissionsDone \/ LoopCancelled \/ LoopContinue \/ StartStep
    \/ ContainerStepDone \/ OperationDone \/ SkipStep \/ Return
    \/ EnsureImage \/ Create \/ Run \/ WaitExit \/ WaitError \/ Join
    \/ Inspect \/ Cleanup \/ Remove

Terminated == pc = "done" /\ collecting = {} /\ UNCHANGED vars

Next ==
    \/ ExecStep
    \/ \E i \in Containers : ContainerExits(i) \/ LogLine(i) \/ LogEnds(i)
    \/ Cancel
    \/ Timeout
    \/ Terminated

Spec == Init /\ [][Next]_vars

-----------------------------------------------------------------------------
(* Fairness.  The executor's own statements run.  A daemon call or an        *)
(* operation takes as long as it likes until its context dies, and then      *)
(* returns; a log stream whose container or context is gone ends; a timer    *)
(* that is due fires.  No container is assumed to exit by itself.            *)

OwnStep ==
    \/ Prepare \/ PermissionsDone \/ LoopCancelled \/ LoopContinue \/ StartStep
    \/ ContainerStepDone \/ SkipStep \/ Return \/ WaitExit \/ Join \/ Cleanup

DaemonCall ==
    EnsureImage \/ Create \/ Run \/ WaitError \/ Inspect \/ Remove \/ OperationDone

Fairness ==
    /\ WF_vars(OwnStep)
    /\ WF_vars(CtxErr /\ DaemonCall)
    /\ \A i \in Containers : WF_vars(LogEnds(i))
    /\ WF_vars(Timeout)

FairSpec == Spec /\ Fairness

-----------------------------------------------------------------------------
(* Properties *)

\* Every variable has its type: statuses are those of internal/pipeline, and
\* containers exist only for the permission fix and the steps.
TypeOK ==
    /\ pc \in {"sort", "image", "create", "run", "wait", "join", "inspect",
               "cleanup", "remove", "returned", "loop", "start", "operation",
               "skip", "done"}
    /\ cur \in 0..NSteps + 1
    /\ table \in [StepIds -> {"queued", "running", "skipped"} \cup Terminal]
    /\ outcome \in {"none"} \cup Terminal
    /\ cancelled \in BOOLEAN /\ expired \in BOOLEAN /\ fresh \in BOOLEAN
    /\ cont \in [Containers -> {"none", "created", "running", "exited", "removed"}]
    /\ code \in [Containers -> {0, 1}]
    /\ ret \in {"none", "ok", "error"}
    /\ collecting \subseteq Containers
    /\ late \subseteq StepIds
    /\ handled \subseteq Operations
    /\ faulty \in BOOLEAN

\* With a daemon that does what it is asked under a live context, a container
\* runs only inside its own RunContainer call: when a step is reported - a
\* cancelled or timed out one too - nothing of it still runs in the workspace,
\* and no two containers of a pipeline ever run together.
NoOrphanRuns ==
    ~faulty =>
        \A i \in Containers : cont[i] = "running" =>
            cur = i /\ pc \in {"wait", "cleanup", "remove"}

\* ... and a container is left behind in the daemon only if a cancellation or
\* its step's timeout got between the statements that create and remove it.
LeftoverNeedsDeadContext ==
    ~faulty =>
        \A i \in Containers :
            cont[i] \in {"created", "exited"} /\ (pc = "done" \/ cur > i) =>
                cancelled \/ i \in Timed

\* A step is reported cancelled only if the pipeline was cancelled or the step
\* has a timeout: a failing daemon or container never looks like one.
CancelNeedsCause ==
    \A i \in StepIds : table[i] = "cancelled" => cancelled \/ i \in Timed

\* A log line can arrive after its step was reported only from a container
\* whose wait failed: the log of a step that succeeded is complete when
\* StepFinished is called, as the run service's event feed assumes.
LateLinesAreAbandoned ==
    \A i \in late : table[i] \in {"failed", "cancelled"}

\* Nothing of a step outlives it but what an ill-timed cancellation or a failed
\* wait leaves: no running container, no other container, no log goroutine.
NothingOutlivesItsStep ==
    NoOrphanRuns /\ LeftoverNeedsDeadContext /\ LateLinesAreAbandoned

Protocol == INSTANCE StepProtocol WITH
    Pipelines <- {"p"},
    N         <- NSteps,
    table     <- [p \in {"p"} |-> table],
    outcome   <- [p \in {"p"} |-> outcome]

\* Whatever the context, the containers and the daemon do, the observer sees
\* the steps in the order and with the outcome StepProtocol allows.
ImplementsProtocol == Protocol!ProtocolSpec

\* A cancelled pipeline returns, however long its containers would run.
CancelReturns == cancelled ~> pc = "done"

\* A step with a timeout is settled even if its container hangs.
TimeoutSettles ==
    \A i \in Timed : (table[i] = "running") ~> (table[i] # "running")

=============================================================================
