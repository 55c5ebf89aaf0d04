--------------------------- MODULE Executor_proofs ---------------------------
(***************************************************************************)
(* Proofs about Executor: type correctness, what may outlive a step, the   *)
(* causes of a cancelled status, and that the executor implements          *)
(* StepProtocol, for every pipeline and every daemon.                      *)
(***************************************************************************)
EXTENDS Executor, TLAPS

\* RunContainer's statements, where the container is known to exist or not.
Before  == {"image", "create"}
Around  == {"wait", "cleanup", "remove"}
Call    == Before \cup Around \cup {"run", "join", "inspect", "returned"}

\* Where the loop index is and what the result says while the control is at pc.
Control ==
    /\ pc = "sort" => cur = 0 /\ outcome = "none"
    /\ pc \in Call => cur \in 0..NSteps /\ outcome = "none"
    /\ pc \in {"start", "operation"} => cur \in StepIds /\ outcome = "none"
    /\ pc = "operation" => cur \in Operations
    /\ pc = "loop" => cur \in 1..NSteps + 1 /\ outcome = "none"
    /\ pc = "skip" => cur \in 1..NSteps + 1 /\ outcome \in {"failed", "cancelled"}
    /\ pc = "done" => /\ outcome # "none"
                      /\ cur = NSteps + 1 \/ (cur = 0 /\ outcome = "failed")

\* Steps before the loop index are settled, those after it untouched.
Rows ==
    \A j \in StepIds :
        /\ j > cur => table[j] = "queued"
        /\ j < cur => table[j] \notin {"queued", "running"}
        /\ j < cur /\ outcome = "none" => table[j] = "success"
        /\ j = cur /\ pc \in {"sort", "loop", "start", "skip", "done"} => table[j] = "queued"
        /\ j = cur /\ pc \in Call \cup {"operation"} => table[j] = "running"

\* Skipping has a reason.
Reason == pc = "skip" => outcome = "cancelled" \/ \E j \in StepIds : table[j] = "failed"

\* A timeout belongs to the step that runs.
Timer == expired => cur \in Timed /\ pc \in Call \cup {"operation"}

\* The daemon has only containers of steps that were reached.
Reachable ==
    /\ \A i \in Containers : i > cur => cont[i] = "none"
    /\ pc \notin Call \ Before => (cur \in Containers => cont[cur] = "none")
    /\ collecting \subseteq {i \in Containers : cont[i] # "none"}

\* With a reliable daemon: what the container of the call in progress can be.
Reliable ==
    ~faulty =>
        /\ pc = "run" => cont[cur] = "created"
        /\ pc \in {"join", "inspect"} => cont[cur] = "exited"
        /\ pc = "cleanup" /\ cont[cur] = "running" => CtxErr
        /\ pc = "remove" /\ cont[cur] = "running" => fresh
        /\ pc = "returned" /\ cont[cur] \in {"created", "exited"} => CtxErr

\* A call that returned without an error has its whole log.
Logs ==
    /\ ret = "ok" => pc \in {"cleanup", "remove", "returned"} /\ cur \notin collecting
    /\ pc = "inspect" => cur \notin collecting
    /\ \A i \in collecting \cap StepIds : table[i] \in {"running", "failed", "cancelled"}

IInv ==
    /\ TypeOK /\ Control /\ Rows /\ Reason /\ Timer /\ Reachable /\ Reliable /\ Logs
    /\ NoOrphanRuns /\ LeftoverNeedsDeadContext /\ LateLinesAreAbandoned
    /\ CancelNeedsCause

LEMMA PrepareKeeps == IInv /\ Prepare => IInv'
<1> SUFFICES ASSUME IInv, Prepare PROVE IInv'
  OBVIOUS
<1> USE NStepsAssumption, StepSetsAssumption DEF IInv, TypeOK, Control, Prepare, StepIds, Containers, Terminal, Call, Before, Around
<1>1. TypeOK'
  OBVIOUS
<1>2. Control'
  OBVIOUS
<1>3. Rows'
  BY DEF Rows
<1>4. Reason'
  BY DEF Rows, Reason
<1>5. Timer'
  BY DEF Timer, Rows
<1>6. Reachable'
  BY DEF Reachable
<1>7. Reliable'
  BY DEF Reliable, Reachable, Timer, CtxErr, NoOrphanRuns
<1>8. Logs'
  BY DEF Logs, Reachable, Rows
<1>9. NoOrphanRuns'
  BY DEF NoOrphanRuns, Reliable, Reachable
<1>10. LeftoverNeedsDeadContext'
  BY DEF LeftoverNeedsDeadContext, Reliable, Reachable, Timer, CtxErr, NoOrphanRuns
<1>11. LateLinesAreAbandoned'
  BY DEF LateLinesAreAbandoned, Rows, Logs
<1>12. CancelNeedsCause'
  BY DEF CancelNeedsCause, Timer, CtxErr, Rows
<1> QED
  BY <1>1, <1>2, <1>3, <1>4, <1>5, <1>6, <1>7, <1>8, <1>9, <1>10, <1>11, <1>12 DEF IInv

LEMMA PermissionsDoneKeeps == IInv /\ PermissionsDone => IInv'
<1> SUFFICES ASSUME IInv, PermissionsDone PROVE IInv'
  OBVIOUS
<1> USE NStepsAssumption, StepSetsAssumption DEF IInv, TypeOK, Control, PermissionsDone, StepIds, Containers, Terminal, Call, Before, Around
<1>1. TypeOK'
  OBVIOUS
<1>2. Control'
  OBVIOUS
<1>3. Rows'
  BY DEF Rows
<1>4. Reason'
  BY DEF Rows, Reason
<1>5. Timer'
  BY DEF Timer, Rows
<1>6. Reachable'
  BY DEF Reachable
<1>7. Reliable'
  BY DEF Reliable, Reachable, Timer, CtxErr, NoOrphanRuns
<1>8. Logs'
  BY DEF Logs, Reachable, Rows
<1>9. NoOrphanRuns'
  BY DEF NoOrphanRuns, Reliable, Reachable
<1>10. LeftoverNeedsDeadContext'
  BY DEF LeftoverNeedsDeadContext, Reliable, Reachable, Timer, CtxErr, NoOrphanRuns
<1>11. LateLinesAreAbandoned'
  BY DEF LateLinesAreAbandoned, Rows, Logs
<1>12. CancelNeedsCause'
  BY DEF CancelNeedsCause, Timer, CtxErr, Rows
<1> QED
  BY <1>1, <1>2, <1>3, <1>4, <1>5, <1>6, <1>7, <1>8, <1>9, <1>10, <1>11, <1>12 DEF IInv

LEMMA LoopCancelledKeeps == IInv /\ LoopCancelled => IInv'
<1> SUFFICES ASSUME IInv, LoopCancelled PROVE IInv'
  OBVIOUS
<1> USE NStepsAssumption, StepSetsAssumption DEF IInv, TypeOK, Control, LoopCancelled, StepIds, Containers, Terminal, Call, Before, Around
<1>1. TypeOK'
  OBVIOUS
<1>2. Control'
  OBVIOUS
<1>3. Rows'
  BY DEF Rows
<1>4. Reason'
  BY DEF Rows, Reason
<1>5. Timer'
  BY DEF Timer, Rows
<1>6. Reachable'
  BY DEF Reachable
<1>7. Reliable'
  BY DEF Reliable, Reachable, Timer, CtxErr, NoOrphanRuns
<1>8. Logs'
  BY DEF Logs, Reachable, Rows
<1>9. NoOrphanRuns'
  BY DEF NoOrphanRuns, Reliable, Reachable
<1>10. LeftoverNeedsDeadContext'
  BY DEF LeftoverNeedsDeadContext, Reliable, Reachable, Timer, CtxErr, NoOrphanRuns
<1>11. LateLinesAreAbandoned'
  BY DEF LateLinesAreAbandoned, Rows, Logs
<1>12. CancelNeedsCause'
  BY DEF CancelNeedsCause, Timer, CtxErr, Rows
<1> QED
  BY <1>1, <1>2, <1>3, <1>4, <1>5, <1>6, <1>7, <1>8, <1>9, <1>10, <1>11, <1>12 DEF IInv

LEMMA LoopContinueKeeps == IInv /\ LoopContinue => IInv'
<1> SUFFICES ASSUME IInv, LoopContinue PROVE IInv'
  OBVIOUS
<1> USE NStepsAssumption, StepSetsAssumption DEF IInv, TypeOK, Control, LoopContinue, StepIds, Containers, Terminal, Call, Before, Around
<1>1. TypeOK'
  OBVIOUS
<1>2. Control'
  OBVIOUS
<1>3. Rows'
  BY DEF Rows
<1>4. Reason'
  BY DEF Rows, Reason
<1>5. Timer'
  BY DEF Timer, Rows
<1>6. Reachable'
  BY DEF Reachable
<1>7. Reliable'
  BY DEF Reliable, Reachable, Timer, CtxErr, NoOrphanRuns
<1>8. Logs'
  BY DEF Logs, Reachable, Rows
<1>9. NoOrphanRuns'
  BY DEF NoOrphanRuns, Reliable, Reachable
<1>10. LeftoverNeedsDeadContext'
  BY DEF LeftoverNeedsDeadContext, Reliable, Reachable, Timer, CtxErr, NoOrphanRuns
<1>11. LateLinesAreAbandoned'
  BY DEF LateLinesAreAbandoned, Rows, Logs
<1>12. CancelNeedsCause'
  BY DEF CancelNeedsCause, Timer, CtxErr, Rows
<1> QED
  BY <1>1, <1>2, <1>3, <1>4, <1>5, <1>6, <1>7, <1>8, <1>9, <1>10, <1>11, <1>12 DEF IInv

LEMMA StartStepKeeps == IInv /\ StartStep => IInv'
<1> SUFFICES ASSUME IInv, StartStep PROVE IInv'
  OBVIOUS
<1> USE NStepsAssumption, StepSetsAssumption DEF IInv, TypeOK, Control, StartStep, StepIds, Containers, Terminal, Call, Before, Around
<1>1. TypeOK'
  OBVIOUS
<1>2. Control'
  OBVIOUS
<1>3. Rows'
  BY DEF Rows
<1>4. Reason'
  BY DEF Rows, Reason
<1>5. Timer'
  BY DEF Timer, Rows
<1>6. Reachable'
  BY DEF Reachable
<1>7. Reliable'
  BY DEF Reliable, Reachable, Timer, CtxErr, NoOrphanRuns
<1>8. Logs'
  BY DEF Logs, Reachable, Rows
<1>9. NoOrphanRuns'
  BY DEF NoOrphanRuns, Reliable, Reachable
<1>10. LeftoverNeedsDeadContext'
  BY DEF LeftoverNeedsDeadContext, Reliable, Reachable, Timer, CtxErr, NoOrphanRuns
<1>11. LateLinesAreAbandoned'
  BY DEF LateLinesAreAbandoned, Rows, Logs
<1>12. CancelNeedsCause'
  BY DEF CancelNeedsCause, Timer, CtxErr, Rows
<1> QED
  BY <1>1, <1>2, <1>3, <1>4, <1>5, <1>6, <1>7, <1>8, <1>9, <1>10, <1>11, <1>12 DEF IInv

LEMMA ContainerStepDoneKeeps == IInv /\ ContainerStepDone => IInv'
<1> SUFFICES ASSUME IInv, ContainerStepDone PROVE IInv'
  OBVIOUS
<1> USE NStepsAssumption, StepSetsAssumption DEF IInv, TypeOK, Control, ContainerStepDone, FinishStep, CtxErr, StepIds, Containers, Terminal, Call, Before, Around
<1>1. TypeOK'
  <2> DEFINE s == CASE ret = "error" /\ CtxErr -> "cancelled"
                    [] ret = "ok" /\ code[cur] = 0 -> "success"
                    [] OTHER -> "failed"
  <2>1. s \in Terminal
    OBVIOUS
  <2>2. FinishStep(s)
    OBVIOUS
  <2> HIDE DEF s
  <2>3. table' \in [StepIds -> {"queued", "running", "skipped"} \cup Terminal]
    BY <2>1, <2>2
  <2>4. cur \in 1..NSteps
    OBVIOUS
  <2>5. cur' \in 0..NSteps + 1 /\ outcome' \in {"none"} \cup Terminal
    BY <2>1, <2>2, <2>4
  <2>6. pc' \in {"loop", "skip"} /\ ret' = "none" /\ expired' = FALSE
    BY <2>2
  <2> QED
    BY <2>3, <2>5, <2>6
<1>2. Control'
  OBVIOUS
<1>3. Rows'
  BY DEF Rows
<1>4. Reason'
  BY DEF Rows, Reason
<1>5. Timer'
  BY DEF Timer, Rows
<1>6. Reachable'
  BY DEF Reachable
<1>7. Reliable'
  BY DEF Reliable, Reachable, Timer, CtxErr, NoOrphanRuns
<1>8. Logs'
  BY DEF Logs, Reachable, Rows
<1>9. NoOrphanRuns'
  BY DEF NoOrphanRuns, Reliable, Reachable
<1>10. LeftoverNeedsDeadContext'
  BY DEF LeftoverNeedsDeadContext, Reliable, Reachable, Timer, CtxErr, NoOrphanRuns
<1>11. LateLinesAreAbandoned'
  BY DEF LateLinesAreAbandoned, Rows, Logs
<1>12. CancelNeedsCause'
  BY DEF CancelNeedsCause, Timer, CtxErr, Rows
<1> QED
  BY <1>1, <1>2, <1>3, <1>4, <1>5, <1>6, <1>7, <1>8, <1>9, <1>10, <1>11, <1>12 DEF IInv

LEMMA OperationDoneKeeps == IInv /\ OperationDone => IInv'
<1> SUFFICES ASSUME IInv, OperationDone PROVE IInv'
  OBVIOUS
<1> USE NStepsAssumption, StepSetsAssumption DEF IInv, TypeOK, Control, OperationDone, FinishStep, StepIds, Containers, Terminal, Call, Before, Around
<1>1. TypeOK'
  <2> PICK s \in {"success", "failed"} : FinishStep(s)
    OBVIOUS
  <2>1. cur \in StepIds
    OBVIOUS
  <2>2. table' \in [StepIds -> {"queued", "running", "skipped"} \cup Terminal]
    OBVIOUS
  <2>3. cur' \in 0..NSteps + 1 /\ outcome' \in {"none"} \cup Terminal
    OBVIOUS
  <2>4. pc' \in {"loop", "skip"} /\ ret' = "none" /\ expired' = FALSE
    OBVIOUS
  <2>5. handled' \subseteq Operations
    BY DEF Rows
  <2> QED
    BY <2>2, <2>3, <2>4, <2>5
<1>2. Control'
  OBVIOUS
<1>3. Rows'
  BY DEF Rows
<1>4. Reason'
  BY DEF Rows, Reason
<1>5. Timer'
  BY DEF Timer, Rows
<1>6. Reachable'
  BY DEF Reachable
<1>7. Reliable'
  BY DEF Reliable, Reachable, Timer, CtxErr, NoOrphanRuns
<1>8. Logs'
  BY DEF Logs, Reachable, Rows
<1>9. NoOrphanRuns'
  BY DEF NoOrphanRuns, Reliable, Reachable
<1>10. LeftoverNeedsDeadContext'
  BY DEF LeftoverNeedsDeadContext, Reliable, Reachable, Timer, CtxErr, NoOrphanRuns
<1>11. LateLinesAreAbandoned'
  BY DEF LateLinesAreAbandoned, Rows, Logs
<1>12. CancelNeedsCause'
  BY DEF CancelNeedsCause, Timer, CtxErr, Rows
<1> QED
  BY <1>1, <1>2, <1>3, <1>4, <1>5, <1>6, <1>7, <1>8, <1>9, <1>10, <1>11, <1>12 DEF IInv

LEMMA SkipStepKeeps == IInv /\ SkipStep => IInv'
<1> SUFFICES ASSUME IInv, SkipStep PROVE IInv'
  OBVIOUS
<1> USE NStepsAssumption, StepSetsAssumption DEF IInv, TypeOK, Control, SkipStep, StepIds, Containers, Terminal, Call, Before, Around
<1>1. TypeOK'
  OBVIOUS
<1>2. Control'
  OBVIOUS
<1>3. Rows'
  BY DEF Rows
<1>4. Reason'
  BY DEF Rows, Reason
<1>5. Timer'
  BY DEF Timer, Rows
<1>6. Reachable'
  BY DEF Reachable
<1>7. Reliable'
  BY DEF Reliable, Reachable, Timer, CtxErr, NoOrphanRuns
<1>8. Logs'
  BY DEF Logs, Reachable, Rows
<1>9. NoOrphanRuns'
  BY DEF NoOrphanRuns, Reliable, Reachable
<1>10. LeftoverNeedsDeadContext'
  BY DEF LeftoverNeedsDeadContext, Reliable, Reachable, Timer, CtxErr, NoOrphanRuns
<1>11. LateLinesAreAbandoned'
  BY DEF LateLinesAreAbandoned, Rows, Logs
<1>12. CancelNeedsCause'
  BY DEF CancelNeedsCause, Timer, CtxErr, Rows
<1> QED
  BY <1>1, <1>2, <1>3, <1>4, <1>5, <1>6, <1>7, <1>8, <1>9, <1>10, <1>11, <1>12 DEF IInv

LEMMA ReturnKeeps == IInv /\ Return => IInv'
<1> SUFFICES ASSUME IInv, Return PROVE IInv'
  OBVIOUS
<1> USE NStepsAssumption, StepSetsAssumption DEF IInv, TypeOK, Control, Return, StepIds, Containers, Terminal, Call, Before, Around
<1>1. TypeOK'
  OBVIOUS
<1>2. Control'
  OBVIOUS
<1>3. Rows'
  BY DEF Rows
<1>4. Reason'
  BY DEF Rows, Reason
<1>5. Timer'
  BY DEF Timer, Rows
<1>6. Reachable'
  BY DEF Reachable
<1>7. Reliable'
  BY DEF Reliable, Reachable, Timer, CtxErr, NoOrphanRuns
<1>8. Logs'
  BY DEF Logs, Reachable, Rows
<1>9. NoOrphanRuns'
  BY DEF NoOrphanRuns, Reliable, Reachable
<1>10. LeftoverNeedsDeadContext'
  BY DEF LeftoverNeedsDeadContext, Reliable, Reachable, Timer, CtxErr, NoOrphanRuns
<1>11. LateLinesAreAbandoned'
  BY DEF LateLinesAreAbandoned, Rows, Logs
<1>12. CancelNeedsCause'
  BY DEF CancelNeedsCause, Timer, CtxErr, Rows
<1> QED
  BY <1>1, <1>2, <1>3, <1>4, <1>5, <1>6, <1>7, <1>8, <1>9, <1>10, <1>11, <1>12 DEF IInv

LEMMA EnsureImageKeeps == IInv /\ EnsureImage => IInv'
<1> SUFFICES ASSUME IInv, EnsureImage PROVE IInv'
  OBVIOUS
<1> USE NStepsAssumption, StepSetsAssumption DEF IInv, TypeOK, Control, EnsureImage, Go, MayFail, CtxErr, StepIds, Containers, Terminal, Call, Before, Around
<1>1. TypeOK'
  OBVIOUS
<1>2. Control'
  OBVIOUS
<1>3. Rows'
  BY DEF Rows
<1>4. Reason'
  BY DEF Rows, Reason
<1>5. Timer'
  BY DEF Timer, Rows
<1>6. Reachable'
  BY DEF Reachable
<1>7. Reliable'
  BY DEF Reliable, Reachable, Timer, CtxErr, NoOrphanRuns
<1>8. Logs'
  BY DEF Logs, Reachable, Rows
<1>9. NoOrphanRuns'
  BY DEF NoOrphanRuns, Reliable, Reachable
<1>10. LeftoverNeedsDeadContext'
  BY DEF LeftoverNeedsDeadContext, Reliable, Reachable, Timer, CtxErr, NoOrphanRuns
<1>11. LateLinesAreAbandoned'
  BY DEF LateLinesAreAbandoned, Rows, Logs
<1>12. CancelNeedsCause'
  BY DEF CancelNeedsCause, Timer, CtxErr, Rows
<1> QED
  BY <1>1, <1>2, <1>3, <1>4, <1>5, <1>6, <1>7, <1>8, <1>9, <1>10, <1>11, <1>12 DEF IInv

LEMMA CreateKeeps == IInv /\ Create => IInv'
<1> SUFFICES ASSUME IInv, Create PROVE IInv'
  OBVIOUS
<1> USE NStepsAssumption, StepSetsAssumption DEF IInv, TypeOK, Control, Create, Go, MayFail, CtxErr, StepIds, Containers, Terminal, Call, Before, Around
<1>1. TypeOK'
  OBVIOUS
<1>2. Control'
  OBVIOUS
<1>3. Rows'
  BY DEF Rows
<1>4. Reason'
  BY DEF Rows, Reason
<1>5. Timer'
  BY DEF Timer, Rows
<1>6. Reachable'
  BY DEF Reachable
<1>7. Reliable'
  BY DEF Reliable, Reachable, Timer, CtxErr, NoOrphanRuns
<1>8. Logs'
  BY DEF Logs, Reachable, Rows
<1>9. NoOrphanRuns'
  BY DEF NoOrphanRuns, Reliable, Reachable
<1>10. LeftoverNeedsDeadContext'
  BY DEF LeftoverNeedsDeadContext, Reliable, Reachable, Timer, CtxErr, NoOrphanRuns
<1>11. LateLinesAreAbandoned'
  BY DEF LateLinesAreAbandoned, Rows, Logs
<1>12. CancelNeedsCause'
  BY DEF CancelNeedsCause, Timer, CtxErr, Rows
<1> QED
  BY <1>1, <1>2, <1>3, <1>4, <1>5, <1>6, <1>7, <1>8, <1>9, <1>10, <1>11, <1>12 DEF IInv

LEMMA RunKeeps == IInv /\ Run => IInv'
<1> SUFFICES ASSUME IInv, Run PROVE IInv'
  OBVIOUS
<1> USE NStepsAssumption, StepSetsAssumption DEF IInv, TypeOK, Control, Run, Go, MayFail, CtxErr, StepIds, Containers, Terminal, Call, Before, Around
<1>1. TypeOK'
  OBVIOUS
<1>2. Control'
  OBVIOUS
<1>3. Rows'
  BY DEF Rows
<1>4. Reason'
  BY DEF Rows, Reason
<1>5. Timer'
  BY DEF Timer, Rows
<1>6. Reachable'
  <2>1. cur \in Containers /\ \A i \in Containers : i # cur => cont'[i] = cont[i]
    OBVIOUS
  <2>2. \A i \in Containers : cont[i] # "none" => cont'[i] # "none"
    BY <2>1
  <2>3. cur \in collecting' => cur \in collecting \/ cont'[cur] # "none"
    BY <2>1
  <2>4. collecting' \subseteq collecting \cup {cur}
    OBVIOUS
  <2>5. collecting' \subseteq {i \in Containers : cont'[i] # "none"}
    BY <2>1, <2>2, <2>3, <2>4 DEF Reachable
  <2>6. pc' \in Call \ Before /\ cur' = cur
    OBVIOUS
  <2> QED
    BY <2>1, <2>5, <2>6 DEF Reachable
<1>7. Reliable'
  BY DEF Reliable, Reachable, Timer, CtxErr, NoOrphanRuns
<1>8. Logs'
  BY DEF Logs, Reachable, Rows
<1>9. NoOrphanRuns'
  BY DEF NoOrphanRuns, Reliable, Reachable
<1>10. LeftoverNeedsDeadContext'
  BY DEF LeftoverNeedsDeadContext, Reliable, Reachable, Timer, CtxErr, NoOrphanRuns
<1>11. LateLinesAreAbandoned'
  BY DEF LateLinesAreAbandoned, Rows, Logs
<1>12. CancelNeedsCause'
  BY DEF CancelNeedsCause, Timer, CtxErr, Rows
<1> QED
  BY <1>1, <1>2, <1>3, <1>4, <1>5, <1>6, <1>7, <1>8, <1>9, <1>10, <1>11, <1>12 DEF IInv

LEMMA WaitExitKeeps == IInv /\ WaitExit => IInv'
<1> SUFFICES ASSUME IInv, WaitExit PROVE IInv'
  OBVIOUS
<1> USE NStepsAssumption, StepSetsAssumption DEF IInv, TypeOK, Control, WaitExit, Go, StepIds, Containers, Terminal, Call, Before, Around
<1>1. TypeOK'
  OBVIOUS
<1>2. Control'
  OBVIOUS
<1>3. Rows'
  BY DEF Rows
<1>4. Reason'
  BY DEF Rows, Reason
<1>5. Timer'
  BY DEF Timer, Rows
<1>6. Reachable'
  BY DEF Reachable
<1>7. Reliable'
  BY DEF Reliable, Reachable, Timer, CtxErr, NoOrphanRuns
<1>8. Logs'
  BY DEF Logs, Reachable, Rows
<1>9. NoOrphanRuns'
  BY DEF NoOrphanRuns, Reliable, Reachable
<1>10. LeftoverNeedsDeadContext'
  BY DEF LeftoverNeedsDeadContext, Reliable, Reachable, Timer, CtxErr, NoOrphanRuns
<1>11. LateLinesAreAbandoned'
  BY DEF LateLinesAreAbandoned, Rows, Logs
<1>12. CancelNeedsCause'
  BY DEF CancelNeedsCause, Timer, CtxErr, Rows
<1> QED
  BY <1>1, <1>2, <1>3, <1>4, <1>5, <1>6, <1>7, <1>8, <1>9, <1>10, <1>11, <1>12 DEF IInv

LEMMA WaitErrorKeeps == IInv /\ WaitError => IInv'
<1> SUFFICES ASSUME IInv, WaitError PROVE IInv'
  OBVIOUS
<1> USE NStepsAssumption, StepSetsAssumption DEF IInv, TypeOK, Control, WaitError, Go, MayFail, CtxErr, StepIds, Containers, Terminal, Call, Before, Around
<1>1. TypeOK'
  OBVIOUS
<1>2. Control'
  OBVIOUS
<1>3. Rows'
  BY DEF Rows
<1>4. Reason'
  BY DEF Rows, Reason
<1>5. Timer'
  BY DEF Timer, Rows
<1>6. Reachable'
  BY DEF Reachable
<1>7. Reliable'
  BY DEF Reliable, Reachable, Timer, CtxErr, NoOrphanRuns
<1>8. Logs'
  BY DEF Logs, Reachable, Rows
<1>9. NoOrphanRuns'
  BY DEF NoOrphanRuns, Reliable, Reachable
<1>10. LeftoverNeedsDeadContext'
  BY DEF LeftoverNeedsDeadContext, Reliable, Reachable, Timer, CtxErr, NoOrphanRuns
<1>11. LateLinesAreAbandoned'
  BY DEF LateLinesAreAbandoned, Rows, Logs
<1>12. CancelNeedsCause'
  BY DEF CancelNeedsCause, Timer, CtxErr, Rows
<1> QED
  BY <1>1, <1>2, <1>3, <1>4, <1>5, <1>6, <1>7, <1>8, <1>9, <1>10, <1>11, <1>12 DEF IInv

LEMMA JoinKeeps == IInv /\ Join => IInv'
<1> SUFFICES ASSUME IInv, Join PROVE IInv'
  OBVIOUS
<1> USE NStepsAssumption, StepSetsAssumption DEF IInv, TypeOK, Control, Join, Go, CtxErr, StepIds, Containers, Terminal, Call, Before, Around
<1>1. TypeOK'
  OBVIOUS
<1>2. Control'
  OBVIOUS
<1>3. Rows'
  BY DEF Rows
<1>4. Reason'
  BY DEF Rows, Reason
<1>5. Timer'
  BY DEF Timer, Rows
<1>6. Reachable'
  BY DEF Reachable
<1>7. Reliable'
  BY DEF Reliable, Reachable, Timer, CtxErr, NoOrphanRuns
<1>8. Logs'
  BY DEF Logs, Reachable, Rows
<1>9. NoOrphanRuns'
  BY DEF NoOrphanRuns, Reliable, Reachable
<1>10. LeftoverNeedsDeadContext'
  BY DEF LeftoverNeedsDeadContext, Reliable, Reachable, Timer, CtxErr, NoOrphanRuns
<1>11. LateLinesAreAbandoned'
  BY DEF LateLinesAreAbandoned, Rows, Logs
<1>12. CancelNeedsCause'
  BY DEF CancelNeedsCause, Timer, CtxErr, Rows
<1> QED
  BY <1>1, <1>2, <1>3, <1>4, <1>5, <1>6, <1>7, <1>8, <1>9, <1>10, <1>11, <1>12 DEF IInv

LEMMA InspectKeeps == IInv /\ Inspect => IInv'
<1> SUFFICES ASSUME IInv, Inspect PROVE IInv'
  OBVIOUS
<1> USE NStepsAssumption, StepSetsAssumption DEF IInv, TypeOK, Control, Inspect, Go, StepIds, Containers, Terminal, Call, Before, Around
<1>1. TypeOK'
  OBVIOUS
<1>2. Control'
  OBVIOUS
<1>3. Rows'
  BY DEF Rows
<1>4. Reason'
  BY DEF Rows, Reason
<1>5. Timer'
  BY DEF Timer, Rows
<1>6. Reachable'
  BY DEF Reachable
<1>7. Reliable'
  BY DEF Reliable, Reachable, Timer, CtxErr, NoOrphanRuns
<1>8. Logs'
  BY DEF Logs, Reachable, Rows
<1>9. NoOrphanRuns'
  BY DEF NoOrphanRuns, Reliable, Reachable
<1>10. LeftoverNeedsDeadContext'
  BY DEF LeftoverNeedsDeadContext, Reliable, Reachable, Timer, CtxErr, NoOrphanRuns
<1>11. LateLinesAreAbandoned'
  BY DEF LateLinesAreAbandoned, Rows, Logs
<1>12. CancelNeedsCause'
  BY DEF CancelNeedsCause, Timer, CtxErr, Rows
<1> QED
  BY <1>1, <1>2, <1>3, <1>4, <1>5, <1>6, <1>7, <1>8, <1>9, <1>10, <1>11, <1>12 DEF IInv

LEMMA CleanupKeeps == IInv /\ Cleanup => IInv'
<1> SUFFICES ASSUME IInv, Cleanup PROVE IInv'
  OBVIOUS
<1> USE NStepsAssumption, StepSetsAssumption DEF IInv, TypeOK, Control, Cleanup, Go, CtxErr, StepIds, Containers, Terminal, Call, Before, Around
<1>1. TypeOK'
  OBVIOUS
<1>2. Control'
  OBVIOUS
<1>3. Rows'
  BY DEF Rows
<1>4. Reason'
  BY DEF Rows, Reason
<1>5. Timer'
  BY DEF Timer, Rows
<1>6. Reachable'
  BY DEF Reachable
<1>7. Reliable'
  BY DEF Reliable, Reachable, Timer, CtxErr, NoOrphanRuns
<1>8. Logs'
  BY DEF Logs, Reachable, Rows
<1>9. NoOrphanRuns'
  BY DEF NoOrphanRuns, Reliable, Reachable
<1>10. LeftoverNeedsDeadContext'
  BY DEF LeftoverNeedsDeadContext, Reliable, Reachable, Timer, CtxErr, NoOrphanRuns
<1>11. LateLinesAreAbandoned'
  BY DEF LateLinesAreAbandoned, Rows, Logs
<1>12. CancelNeedsCause'
  BY DEF CancelNeedsCause, Timer, CtxErr, Rows
<1> QED
  BY <1>1, <1>2, <1>3, <1>4, <1>5, <1>6, <1>7, <1>8, <1>9, <1>10, <1>11, <1>12 DEF IInv

LEMMA RemoveKeeps == IInv /\ Remove => IInv'
<1> SUFFICES ASSUME IInv, Remove PROVE IInv'
  OBVIOUS
<1> USE NStepsAssumption, StepSetsAssumption DEF IInv, TypeOK, Control, Remove, Go, CtxErr, StepIds, Containers, Terminal, Call, Before, Around
<1>1. TypeOK'
  OBVIOUS
<1>2. Control'
  OBVIOUS
<1>3. Rows'
  BY DEF Rows
<1>4. Reason'
  BY DEF Rows, Reason
<1>5. Timer'
  BY DEF Timer, Rows
<1>6. Reachable'
  BY DEF Reachable
<1>7. Reliable'
  BY DEF Reliable, Reachable, Timer, CtxErr, NoOrphanRuns
<1>8. Logs'
  BY DEF Logs, Reachable, Rows
<1>9. NoOrphanRuns'
  BY DEF NoOrphanRuns, Reliable, Reachable
<1>10. LeftoverNeedsDeadContext'
  BY DEF LeftoverNeedsDeadContext, Reliable, Reachable, Timer, CtxErr, NoOrphanRuns
<1>11. LateLinesAreAbandoned'
  BY DEF LateLinesAreAbandoned, Rows, Logs
<1>12. CancelNeedsCause'
  BY DEF CancelNeedsCause, Timer, CtxErr, Rows
<1> QED
  BY <1>1, <1>2, <1>3, <1>4, <1>5, <1>6, <1>7, <1>8, <1>9, <1>10, <1>11, <1>12 DEF IInv

LEMMA CancelKeeps == IInv /\ Cancel => IInv'
<1> SUFFICES ASSUME IInv, Cancel PROVE IInv'
  OBVIOUS
<1> USE NStepsAssumption, StepSetsAssumption DEF IInv, TypeOK, Control, Cancel, StepIds, Containers, Terminal, Call, Before, Around
<1>1. TypeOK'
  OBVIOUS
<1>2. Control'
  OBVIOUS
<1>3. Rows'
  BY DEF Rows
<1>4. Reason'
  BY DEF Rows, Reason
<1>5. Timer'
  BY DEF Timer, Rows
<1>6. Reachable'
  BY DEF Reachable
<1>7. Reliable'
  BY DEF Reliable, Reachable, Timer, CtxErr, NoOrphanRuns
<1>8. Logs'
  BY DEF Logs, Reachable, Rows
<1>9. NoOrphanRuns'
  BY DEF NoOrphanRuns, Reliable, Reachable
<1>10. LeftoverNeedsDeadContext'
  BY DEF LeftoverNeedsDeadContext, Reliable, Reachable, Timer, CtxErr, NoOrphanRuns
<1>11. LateLinesAreAbandoned'
  BY DEF LateLinesAreAbandoned, Rows, Logs
<1>12. CancelNeedsCause'
  BY DEF CancelNeedsCause, Timer, CtxErr, Rows
<1> QED
  BY <1>1, <1>2, <1>3, <1>4, <1>5, <1>6, <1>7, <1>8, <1>9, <1>10, <1>11, <1>12 DEF IInv

LEMMA TimeoutKeeps == IInv /\ Timeout => IInv'
<1> SUFFICES ASSUME IInv, Timeout PROVE IInv'
  OBVIOUS
<1> USE NStepsAssumption, StepSetsAssumption DEF IInv, TypeOK, Control, Timeout, StepIds, Containers, Terminal, Call, Before, Around
<1>1. TypeOK'
  OBVIOUS
<1>2. Control'
  OBVIOUS
<1>3. Rows'
  BY DEF Rows
<1>4. Reason'
  BY DEF Rows, Reason
<1>5. Timer'
  BY DEF Timer, Rows
<1>6. Reachable'
  BY DEF Reachable
<1>7. Reliable'
  BY DEF Reliable, Reachable, Timer, CtxErr, NoOrphanRuns
<1>8. Logs'
  BY DEF Logs, Reachable, Rows
<1>9. NoOrphanRuns'
  BY DEF NoOrphanRuns, Reliable, Reachable
<1>10. LeftoverNeedsDeadContext'
  BY DEF LeftoverNeedsDeadContext, Reliable, Reachable, Timer, CtxErr, NoOrphanRuns
<1>11. LateLinesAreAbandoned'
  BY DEF LateLinesAreAbandoned, Rows, Logs
<1>12. CancelNeedsCause'
  BY DEF CancelNeedsCause, Timer, CtxErr, Rows
<1> QED
  BY <1>1, <1>2, <1>3, <1>4, <1>5, <1>6, <1>7, <1>8, <1>9, <1>10, <1>11, <1>12 DEF IInv

LEMMA ContainerExitsKeeps == ASSUME NEW i \in Containers PROVE IInv /\ ContainerExits(i) => IInv'
<1> SUFFICES ASSUME IInv, ContainerExits(i) PROVE IInv'
  OBVIOUS
<1> USE NStepsAssumption, StepSetsAssumption DEF IInv, TypeOK, Control, ContainerExits, StepIds, Containers, Terminal, Call, Before, Around
<1>1. TypeOK' /\ Control' /\ Rows' /\ Reason' /\ Timer'
  BY DEF Rows, Reason, Timer
<1>2. Reachable' /\ Logs'
  BY DEF Reachable, Logs
<1>3. Reliable'
  BY DEF Reliable, CtxErr, NoOrphanRuns
<1>4. NoOrphanRuns' /\ LeftoverNeedsDeadContext'
  BY DEF NoOrphanRuns, LeftoverNeedsDeadContext
<1>5. LateLinesAreAbandoned' /\ CancelNeedsCause'
  BY DEF LateLinesAreAbandoned, CancelNeedsCause, Logs
<1> QED
  BY <1>1, <1>2, <1>3, <1>4, <1>5 DEF IInv

LEMMA LogLineKeeps == ASSUME NEW i \in Containers PROVE IInv /\ LogLine(i) => IInv'
<1> SUFFICES ASSUME IInv, LogLine(i) PROVE IInv'
  OBVIOUS
<1> USE NStepsAssumption, StepSetsAssumption DEF IInv, TypeOK, Control, LogLine, StepIds, Containers, Terminal, Call, Before, Around
<1>1. TypeOK' /\ Control' /\ Rows' /\ Reason' /\ Timer'
  BY DEF Rows, Reason, Timer
<1>2. Reachable' /\ Logs'
  BY DEF Reachable, Logs
<1>3. Reliable'
  BY DEF Reliable, CtxErr, NoOrphanRuns
<1>4. NoOrphanRuns' /\ LeftoverNeedsDeadContext'
  BY DEF NoOrphanRuns, LeftoverNeedsDeadContext
<1>5. LateLinesAreAbandoned' /\ CancelNeedsCause'
  BY DEF LateLinesAreAbandoned, CancelNeedsCause, Logs
<1> QED
  BY <1>1, <1>2, <1>3, <1>4, <1>5 DEF IInv

LEMMA LogEndsKeeps == ASSUME NEW i \in Containers PROVE IInv /\ LogEnds(i) => IInv'
<1> SUFFICES ASSUME IInv, LogEnds(i) PROVE IInv'
  OBVIOUS
<1> USE NStepsAssumption, StepSetsAssumption DEF IInv, TypeOK, Control, LogEnds, StepIds, Containers, Terminal, Call, Before, Around
<1>1. TypeOK' /\ Control' /\ Rows' /\ Reason' /\ Timer'
  BY DEF Rows, Reason, Timer
<1>2. Reachable' /\ Logs'
  BY DEF Reachable, Logs
<1>3. Reliable'
  BY DEF Reliable, CtxErr, NoOrphanRuns
<1>4. NoOrphanRuns' /\ LeftoverNeedsDeadContext'
  BY DEF NoOrphanRuns, LeftoverNeedsDeadContext
<1>5. LateLinesAreAbandoned' /\ CancelNeedsCause'
  BY DEF LateLinesAreAbandoned, CancelNeedsCause, Logs
<1> QED
  BY <1>1, <1>2, <1>3, <1>4, <1>5 DEF IInv

LEMMA StutterKeeps == IInv /\ UNCHANGED vars => IInv'
BY DEF IInv, vars, TypeOK, Control, Rows, Reason, Timer, Reachable, Reliable, Logs,
       NoOrphanRuns, LeftoverNeedsDeadContext, LateLinesAreAbandoned, CancelNeedsCause,
       CtxErr

LEMMA IInvInit == Init => IInv
<1> SUFFICES ASSUME Init PROVE IInv
  OBVIOUS
<1> USE NStepsAssumption, StepSetsAssumption
    DEF Init, StepIds, Containers, Terminal, Call, Before, Around
<1>1. TypeOK
  <2>1. /\ cancelled \in BOOLEAN /\ expired \in BOOLEAN /\ fresh \in BOOLEAN
        /\ faulty \in BOOLEAN /\ code \in [Containers -> {0, 1}]
    BY Zenon DEF Containers
  <2>2. /\ pc = "sort" /\ cur \in 0..NSteps + 1 /\ outcome = "none" /\ ret = "none"
        /\ table \in [StepIds -> {"queued", "running", "skipped"} \cup Terminal]
        /\ cont \in [Containers -> {"none", "created", "running", "exited", "removed"}]
        /\ collecting = {} /\ late = {} /\ handled = {}
    OBVIOUS
  <2> QED
    BY <2>1, <2>2 DEF TypeOK
<1>2. Control /\ Reason /\ Timer
  BY DEF Control, Reason, Timer
<1>3. Rows
  BY DEF Rows
<1>4. Reachable /\ Reliable /\ Logs
  BY DEF Reachable, Reliable, Logs
<1>5. NoOrphanRuns /\ LeftoverNeedsDeadContext
  BY DEF NoOrphanRuns, LeftoverNeedsDeadContext
<1>6. LateLinesAreAbandoned /\ CancelNeedsCause
  BY DEF LateLinesAreAbandoned, CancelNeedsCause
<1> QED
  BY <1>1, <1>2, <1>3, <1>4, <1>5, <1>6 DEF IInv

LEMMA IInvStep == IInv /\ [Next]_vars => IInv'
<1> SUFFICES ASSUME IInv, [Next]_vars PROVE IInv'
  OBVIOUS
<1>1. CASE ExecStep
  BY <1>1, PrepareKeeps, PermissionsDoneKeeps, LoopCancelledKeeps, LoopContinueKeeps,
     StartStepKeeps, ContainerStepDoneKeeps, OperationDoneKeeps, SkipStepKeeps,
     ReturnKeeps, EnsureImageKeeps, CreateKeeps, RunKeeps,
     WaitExitKeeps, WaitErrorKeeps, JoinKeeps, InspectKeeps,
     CleanupKeeps, RemoveKeeps
     DEF ExecStep
<1>2. CASE \E i \in Containers : ContainerExits(i) \/ LogLine(i) \/ LogEnds(i)
  BY <1>2, ContainerExitsKeeps, LogLineKeeps, LogEndsKeeps
<1>3. CASE Cancel \/ Timeout
  BY <1>3, CancelKeeps, TimeoutKeeps
<1>4. CASE Terminated \/ UNCHANGED vars
  BY <1>4, StutterKeeps DEF Terminated
<1> QED
  BY <1>1, <1>2, <1>3, <1>4 DEF Next

-----------------------------------------------------------------------------
LEMMA Invariance == Spec => []IInv
BY IInvInit, IInvStep, PTL DEF Spec

\* Statuses, containers and contexts keep their types (Executor).
THEOREM Typed == Spec => []TypeOK
<1>1. IInv => TypeOK
  BY DEF IInv
<1> QED
  BY Invariance, <1>1, PTL

\* However many steps there are, whatever the daemon does and whenever the
\* context dies: nothing of a step outlives it but for the named causes.
THEOREM StepsLeaveNothing == Spec => []NothingOutlivesItsStep
<1>1. IInv => NothingOutlivesItsStep
  BY DEF IInv, NothingOutlivesItsStep
<1> QED
  BY Invariance, <1>1, PTL

\* A cancelled status comes from a cancellation or the step's own timeout.
THEOREM CancelHasCause == Spec => []CancelNeedsCause
<1>1. IInv => CancelNeedsCause
  BY DEF IInv
<1> QED
  BY Invariance, <1>1, PTL

-----------------------------------------------------------------------------
(* The refinement of StepProtocol *)

LEMMA ProtocolInitially == Init => Protocol!ProtocolInit
BY DEF Init, Protocol!ProtocolInit, Protocol!Ids, StepIds

LEMMA ProtocolStep == IInv /\ [Next]_vars => [Protocol!ProtocolNext]_(Protocol!protocol)
<1> SUFFICES ASSUME IInv, [Next]_vars, ~UNCHANGED <<table, outcome>>
             PROVE  Protocol!ProtocolNext
  BY DEF Protocol!protocol
<1> USE NStepsAssumption, StepSetsAssumption
    DEF IInv, TypeOK, Control, StepIds, Containers, Terminal, Call, Before, Around,
        Protocol!Ids, Protocol!Settled
<1> DEFINE t == [p \in {"p"} |-> table]
<1> DEFINE o == [p \in {"p"} |-> outcome]
<1>1. CASE Prepare
  <2>1. Protocol!Abort("p")
    BY <1>1 DEF Prepare, Protocol!Abort, Rows
  <2> QED
    BY <2>1 DEF Protocol!ProtocolNext
<1>2. CASE LoopCancelled
  <2>1. cur \in StepIds /\ table[cur] = "queued" /\ \A j \in 1..cur - 1 : table[j] = "success"
    BY <1>2 DEF LoopCancelled, Rows
  <2>2. Protocol!Halt("p")
    BY <1>2, <2>1 DEF LoopCancelled, Protocol!Halt, Protocol!Reached
  <2> QED
    BY <2>2 DEF Protocol!ProtocolNext
<1>3. CASE StartStep
  <2>1. cur \in StepIds /\ table[cur] = "queued" /\ \A j \in 1..cur - 1 : table[j] = "success"
    BY <1>3 DEF StartStep, Rows
  <2>2. Protocol!Begin("p", cur)
    BY <1>3, <2>1 DEF StartStep, Protocol!Begin, Protocol!Reached
  <2> QED
    BY <2>1, <2>2 DEF Protocol!ProtocolNext
<1>4. ASSUME NEW s \in Terminal, FinishStep(s), pc \in {"returned", "operation"}, cur > 0
      PROVE  Protocol!ProtocolNext
  <2>1. cur \in StepIds /\ table[cur] = "running" /\ outcome = "none"
    BY <1>4 DEF Rows
  <2>2. Protocol!Settle("p", cur, s)
    BY <1>4, <2>1 DEF FinishStep, Protocol!Settle
  <2> QED
    BY <2>1, <2>2 DEF Protocol!ProtocolNext
<1>5. CASE ContainerStepDone
  <2> DEFINE s == CASE ret = "error" /\ CtxErr -> "cancelled"
                    [] ret = "ok" /\ code[cur] = 0 -> "success"
                    [] OTHER -> "failed"
  <2>1. s \in Terminal /\ FinishStep(s) /\ pc = "returned" /\ cur > 0
    BY <1>5 DEF ContainerStepDone
  <2> QED
    BY <2>1, <1>4
<1>6. CASE OperationDone
  <2>1. \E s \in Terminal : FinishStep(s)
    BY <1>6 DEF OperationDone
  <2>2. pc = "operation" /\ cur > 0
    BY <1>6 DEF OperationDone
  <2> QED
    BY <2>1, <2>2, <1>4
<1>7. CASE SkipStep
  <2>1. /\ cur \in StepIds /\ table[cur] = "queued"
        /\ \A j \in 1..cur - 1 : table[j] # "queued"
        /\ outcome = "cancelled" \/ \E j \in StepIds : table[j] = "failed"
    BY <1>7 DEF SkipStep, Rows, Reason
  <2>2. Protocol!Skip("p", cur)
    BY <1>7, <2>1 DEF SkipStep, Protocol!Skip
  <2> QED
    BY <2>1, <2>2 DEF Protocol!ProtocolNext
<1>8. CASE Return
  <2>1. outcome = "none" /\ \A j \in StepIds : table[j] = "success"
    BY <1>8 DEF Return, Rows
  <2>2. Protocol!Complete("p")
    BY <1>8, <2>1 DEF Return, Protocol!Complete
  <2> QED
    BY <2>2 DEF Protocol!ProtocolNext
<1>9. ~(PermissionsDone \/ LoopContinue \/ EnsureImage \/ Create \/ Run \/ WaitExit
        \/ WaitError \/ Join \/ Inspect \/ Cleanup \/ Remove)
  BY DEF PermissionsDone, LoopContinue, EnsureImage, Create, Run, WaitExit, WaitError,
         Join, Inspect, Cleanup, Remove, Go
<1>10. ~(\/ \E i \in Containers : ContainerExits(i) \/ LogLine(i) \/ LogEnds(i)
         \/ Cancel \/ Timeout \/ Terminated \/ UNCHANGED vars)
  BY DEF ContainerExits, LogLine, LogEnds, Cancel, Timeout, Terminated, vars
<1> QED
  BY <1>1, <1>2, <1>3, <1>5, <1>6, <1>7, <1>8, <1>9, <1>10 DEF Next, ExecStep

\* Whatever the context, the containers and the daemon do, the observer is told
\* a course of events that StepProtocol allows, for any number of steps.
THEOREM ExecutorKeepsProtocol == Spec => ImplementsProtocol
BY ProtocolInitially, ProtocolStep, Invariance, PTL
   DEF Spec, ImplementsProtocol, Protocol!ProtocolSpec

=============================================================================
