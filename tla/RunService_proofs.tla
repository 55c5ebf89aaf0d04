-------------------------- MODULE RunService_proofs --------------------------
(***************************************************************************)
(* Theorems of RunService, for any runs, requests, subscribers, numbers of *)
(* steps and channel capacities: the types; what becomes of a run; what    *)
(* its subscribers are sent.  The last part is about the daemon, Worker,   *)
(* which extends RunService: it refines the service.                       *)
(***************************************************************************)
EXTENDS Worker, FiniteSetTheorems, TLAPS

-----------------------------------------------------------------------------
(* Lemmas about the vocabulary                                               *)

LEMMA ThreadsOf ==
    /\ \A r \in Runs : Exec(r) \in Threads /\ Logger(r) \in Threads
    /\ \A k \in Cancellers : Caller(k) \in Threads
  BY DEF Exec, Logger, Caller, Threads

LEMMA EventTypes ==
    /\ \A s \in {"queued", "running"} \cup Terminal :
         RunStatusEvent(s) \in Events
    /\ \A i \in StepIds, s \in StepStatuses : StepStatusEvent(i, s) \in Events
    /\ \A i \in 0..NSteps : LogEvent(i) \in Events
    /\ \A s \in {"none"} \cup Terminal : RunDoneEvent(s) \in Events
  BY NStepsAssumption DEF RunStatusEvent, StepStatusEvent, LogEvent, RunDoneEvent,
     Events, Terminal, StepIds, StepStatuses, RunStatuses, Active

\* What publish appends and records has the right type whenever the event has.
LEMMA PublishType ==
    ASSUME TypeOK, NEW t \in Threads, NEW r \in Runs, NEW e \in Events,
           Publish(t, r, e)
    PROVE  /\ history' \in [Runs -> Seq(Events)]
           /\ pub' \in [Threads -> SUBSET (Subscribers \X (Nat \ {0}))]
  <1>1. Append(history[r], e) \in Seq(Events)
    BY DEF TypeOK
  <1>2. Len(history[r]) + 1 \in Nat \ {0}
    BY DEF TypeOK
  <1>3. Live(r) \X {Len(history[r]) + 1} \subseteq Subscribers \X (Nat \ {0})
    BY <1>2 DEF Live
  <1>4. history' = [history EXCEPT ![r] = Append(@, e)]
    BY DEF Publish
  <1>5. pub' = [pub EXCEPT ![t] = @ \cup (Live(r) \X {Len(history[r]) + 1})]
    BY DEF Publish
  <1>6. pub[t] \in SUBSET (Subscribers \X (Nat \ {0}))
    BY DEF TypeOK
  <1>7. history' \in [Runs -> Seq(Events)]
    BY <1>1, <1>4 DEF TypeOK
  <1>8. pub' \in [Threads -> SUBSET (Subscribers \X (Nat \ {0}))]
    BY <1>3, <1>5, <1>6 DEF TypeOK
  <1>. QED BY <1>7, <1>8

-----------------------------------------------------------------------------
(* Types                                                                     *)

\* In the body of the loop the loop index is that of a step.
CurInRange ==
    \A r \in Runs : pc[r] \in {"start", "started", "instep", "settled"} =>
        cur[r] \in StepIds

TypeInv == TypeOK /\ CurInRange

\* The steps of a run preserve the types.
LEMMA RunStepTypeInv ==
    ASSUME TypeInv, NEW r \in Runs, RunStep(r)
    PROVE  TypeInv'
  <1>. USE NStepsAssumption DEF TypeInv, CurInRange, StepIds, runVars, execVars,
           feedVars, callVars, subVars
  <1>1. CASE StartRegister(r)
    BY <1>1 DEF StartRegister, TypeOK, PcStates, RunStatuses, StepStatuses, Active, Terminal
  <1>2. CASE StartPublish(r)
    <2>1. RunStatusEvent("queued") \in Events
      BY <1>2, EventTypes DEF StartPublish, TypeOK, StepStatuses, RunStatuses, Active, Terminal
    <2>2. Publish(Exec(r), r, RunStatusEvent("queued"))
      BY <1>2 DEF StartPublish
    <2>3. /\ history' \in [Runs -> Seq(Events)]
          /\ pub' \in [Threads -> SUBSET (Subscribers \X (Nat \ {0}))]
      BY <2>1, <2>2, PublishType, ThreadsOf
    <2>. QED BY <1>2, <2>3 DEF StartPublish, TypeOK, PcStates
  <1>3. CASE StartSpawn(r)
    BY <1>3 DEF StartSpawn, TypeOK, PcStates, RunStatuses, StepStatuses, Active, Terminal
  <1>4. CASE ExecBegin(r)
    BY <1>4 DEF ExecBegin, TypeOK, PcStates, RunStatuses, StepStatuses, Active, Terminal
  <1>5. CASE ExecAnnounce(r)
    <2>1. RunStatusEvent("running") \in Events
      BY <1>5, EventTypes DEF ExecAnnounce, TypeOK, StepStatuses, RunStatuses, Active, Terminal
    <2>2. Publish(Exec(r), r, RunStatusEvent("running"))
      BY <1>5 DEF ExecAnnounce
    <2>3. /\ history' \in [Runs -> Seq(Events)]
          /\ pub' \in [Threads -> SUBSET (Subscribers \X (Nat \ {0}))]
      BY <2>1, <2>2, PublishType, ThreadsOf
    <2>. QED BY <1>5, <2>3 DEF ExecAnnounce, TypeOK, PcStates
  <1>6. CASE Prepare(r)
    <2>0. \/ pc' = pc
          \/ pc' = [pc EXCEPT ![r] = "plan"]
          \/ pc' = [pc EXCEPT ![r] = "finish"]
      BY <1>6 DEF Prepare
    <2>1. pc' \in [Runs -> PcStates]
      BY <2>0 DEF TypeOK, PcStates
    <2>2. verdict' \in [Runs -> {"none"} \cup Terminal]
      BY <1>6 DEF Prepare, TypeOK, Terminal
    <2>3. TypeOK'
      BY <1>6, <2>1, <2>2 DEF Prepare, TypeOK
    <2>4. CurInRange'
      BY <1>6 DEF Prepare, TypeOK
    <2>. QED BY <2>3, <2>4
  <1>7. CASE Plan(r)
    <2>0. \/ pc' = pc
          \/ pc' = [pc EXCEPT ![r] = "loop"]
          \/ pc' = [pc EXCEPT ![r] = "save"]
      BY <1>7 DEF Plan
    <2>1. pc' \in [Runs -> PcStates]
      BY <2>0 DEF TypeOK, PcStates
    <2>2. verdict' \in [Runs -> {"none"} \cup Terminal]
      BY <1>7 DEF Plan, TypeOK, Terminal
    <2>3. TypeOK'
      BY <1>7, <2>1, <2>2 DEF Plan, TypeOK
    <2>4. CurInRange'
      BY <1>7 DEF Plan, TypeOK
    <2>. QED BY <2>3, <2>4
  <1>8. CASE LoopTop(r)
    <2>0. \/ pc' = pc
          \/ pc' = [pc EXCEPT ![r] = "save"]
          \/ pc' = [pc EXCEPT ![r] = "start"]
      BY <1>8 DEF LoopTop
    <2>1. pc' \in [Runs -> PcStates]
      BY <2>0 DEF TypeOK, PcStates
    <2>2. verdict' \in [Runs -> {"none"} \cup Terminal]
      BY <1>8 DEF LoopTop, TypeOK, Terminal
    <2>3. TypeOK'
      BY <1>8, <2>1, <2>2 DEF LoopTop, TypeOK
    <2>4. CurInRange'
      BY <1>8 DEF LoopTop, TypeOK
    <2>. QED BY <2>3, <2>4
  <1>9. CASE StepStart(r)
    BY <1>9 DEF StepStart, UpdateStep, TypeOK, PcStates, RunStatuses, StepStatuses, Active, Terminal
  <1>10. CASE StepRun(r)
    <2>1. StepStatusEvent(cur[r], "running") \in Events
      BY <1>10, EventTypes DEF StepRun, TypeOK, StepStatuses, RunStatuses, Active, Terminal
    <2>2. Publish(Exec(r), r, StepStatusEvent(cur[r], "running"))
      BY <1>10 DEF StepRun
    <2>3. /\ history' \in [Runs -> Seq(Events)]
          /\ pub' \in [Threads -> SUBSET (Subscribers \X (Nat \ {0}))]
      BY <2>1, <2>2, PublishType, ThreadsOf
    <2>4. logging' \in [Runs -> 0..NSteps] /\ pc' \in [Runs -> PcStates]
      BY <1>10 DEF StepRun, TypeOK, PcStates
    <2>5. TypeOK'
      BY <1>10, <2>3, <2>4 DEF StepRun, TypeOK
    <2>6. CurInRange'
      BY <1>10 DEF StepRun, TypeOK
    <2>. QED BY <2>5, <2>6
  <1>11. CASE StepEnd(r)
    BY <1>11 DEF StepEnd, UpdateStep, TypeOK, PcStates, RunStatuses, StepStatuses, Active, Terminal
  <1>12. CASE StepSkip(r)
    BY <1>12 DEF StepSkip, UpdateStep, TypeOK, PcStates, RunStatuses, StepStatuses, Active, Terminal
  <1>13. CASE StepReport(r)
    <2>1. cur[r] \in StepIds /\ steps[r][cur[r]] \in StepStatuses
      BY <1>13 DEF StepReport, TypeOK
    <2>2. StepStatusEvent(cur[r], steps[r][cur[r]]) \in Events
      BY ONLY <2>1, EventTypes
    <2>3. Publish(Exec(r), r, StepStatusEvent(cur[r], steps[r][cur[r]]))
      BY <1>13 DEF StepReport
    <2>4. /\ history' \in [Runs -> Seq(Events)]
          /\ pub' \in [Threads -> SUBSET (Subscribers \X (Nat \ {0}))]
      BY <2>2, <2>3, PublishType, ThreadsOf
    <2>5. cur' \in [Runs -> 1..(NSteps + 1)]
      BY <1>13, <2>1 DEF StepReport, TypeOK
    <2>6. pc' \in [Runs -> PcStates]
      BY <1>13 DEF StepReport, TypeOK, PcStates
    <2>7. TypeOK'
      BY <1>13, <2>4, <2>5, <2>6 DEF StepReport, TypeOK
    <2>8. CurInRange'
      BY <1>13 DEF StepReport, TypeOK
    <2>. QED BY <2>7, <2>8
  <1>14. CASE StepLog(r)
    <2>1. LogEvent(logging[r]) \in Events
      BY <1>14, EventTypes DEF StepLog, TypeOK, StepStatuses, RunStatuses, Active, Terminal
    <2>2. Publish(Logger(r), r, LogEvent(logging[r]))
      BY <1>14 DEF StepLog
    <2>3. /\ history' \in [Runs -> Seq(Events)]
          /\ pub' \in [Threads -> SUBSET (Subscribers \X (Nat \ {0}))]
      BY <2>1, <2>2, PublishType, ThreadsOf
    <2>. QED BY <1>14, <2>3 DEF StepLog, TypeOK, PcStates
  <1>15. CASE LogEnd(r)
    <2>1. logging' \in [Runs -> 0..NSteps]
      BY <1>15 DEF LogEnd, TypeOK
    <2>2. TypeOK'
      BY <1>15, <2>1 DEF LogEnd, TypeOK
    <2>. QED BY <1>15, <2>2 DEF LogEnd
  <1>16. CASE Save(r)
    <2>1. stored' = stored \/ stored' = [stored EXCEPT ![r] = verdict[r]]
      BY <1>16 DEF Save
    <2>2. verdict[r] \in {"none"} \cup Terminal /\ stored \in [Runs -> {"none"} \cup Terminal]
      BY DEF TypeOK
    <2>3. stored' \in [Runs -> {"none"} \cup Terminal]
      BY <2>1, <2>2
    <2>. QED BY <1>16, <2>3 DEF Save, TypeOK, PcStates
  <1>17. CASE Finish(r)
    BY <1>17 DEF Finish, TypeOK, PcStates, RunStatuses, StepStatuses, Active, Terminal
  <1>18. CASE FinishPublish(r)
    <2>1. RunDoneEvent(verdict[r]) \in Events
      BY <1>18, EventTypes DEF FinishPublish, TypeOK, StepStatuses, RunStatuses, Active, Terminal
    <2>2. Publish(Exec(r), r, RunDoneEvent(verdict[r]))
      BY <1>18 DEF FinishPublish
    <2>3. /\ history' \in [Runs -> Seq(Events)]
          /\ pub' \in [Threads -> SUBSET (Subscribers \X (Nat \ {0}))]
      BY <2>1, <2>2, PublishType, ThreadsOf
    <2>. QED BY <1>18, <2>3 DEF FinishPublish, TypeOK, PcStates
  <1>. QED BY <1>1, <1>2, <1>3, <1>4, <1>5, <1>6, <1>7, <1>8, <1>9, <1>10, <1>11, <1>12, <1>13, <1>14, <1>15, <1>16, <1>17, <1>18 DEF RunStep

\* So do the steps of Cancel, of Subscribe and of the sends.
LEMMA CallStepTypeInv ==
    ASSUME TypeInv, NEW k \in Cancellers, CallStep(k)
    PROVE  TypeInv'
  <1>. USE DEF TypeInv, CurInRange, StepIds, runVars, execVars, feedVars,
           callVars, subVars
  <1>1. CASE CancelMark(k)
    <2>0. \/ callPc' = [callPc EXCEPT ![k] = "marked"]
          \/ callPc' = [callPc EXCEPT ![k] = "returned"]
      BY <1>1 DEF CancelMark
    <2>1. callPc' \in [Cancellers ->
                         {"idle", "marked", "signalled", "published", "returned"}]
      BY <2>0 DEF TypeOK
    <2>2. status' \in [Runs -> RunStatuses]
      BY <1>1 DEF CancelMark, TypeOK, RunStatuses, Terminal
    <2>3. answer' \in [Cancellers -> RunStatuses] /\ callFn' \in [Cancellers -> BOOLEAN]
      BY <1>1, <2>2 DEF CancelMark, TypeOK
    <2>4. TypeOK'
      BY <1>1, <2>1, <2>2, <2>3 DEF CancelMark, TypeOK
    <2>. QED BY <1>1, <2>4 DEF CancelMark, TypeOK
  <1>2. CASE CancelSignal(k)
    BY <1>2 DEF CancelSignal, TypeOK
  <1>3. CASE CancelPublish(k)
    <2>1. RunStatusEvent("cancelled") \in Events
      BY EventTypes DEF Terminal
    <2>2. Publish(Caller(k), callRun[k], RunStatusEvent("cancelled"))
      BY <1>3 DEF CancelPublish
    <2>3. /\ history' \in [Runs -> Seq(Events)]
          /\ pub' \in [Threads -> SUBSET (Subscribers \X (Nat \ {0}))]
      BY <2>1, <2>2, PublishType, ThreadsOf DEF TypeOK
    <2>. QED BY <1>3, <2>3 DEF CancelPublish, TypeOK
  <1>4. CASE CancelReturn(k)
    BY <1>4 DEF CancelReturn, TypeOK
  <1>. QED BY <1>1, <1>2, <1>3, <1>4 DEF CallStep

LEMMA SubStepTypeInv ==
    ASSUME TypeInv, NEW c \in Subscribers, SubStep(c)
    PROVE  TypeInv'
  <1>. USE DEF TypeInv, CurInRange, StepIds, runVars, execVars, feedVars,
           callVars, subVars
  <1>1. CASE SubscribeLock(c)
    BY <1>1 DEF SubscribeLock, TypeOK
  <1>2. CASE SubscribeReplay(c)
    <2>1. Append(sent[c], Len(sent[c]) + 1) \in Seq(Nat \ {0})
      BY DEF TypeOK
    <2>2. sent' \in [Subscribers -> Seq(Nat \ {0})]
      BY <1>2, <2>1 DEF SubscribeReplay, TypeOK
    <2>3. TypeOK'
      BY <1>2, <2>2 DEF SubscribeReplay, TypeOK
    <2>. QED BY <1>2, <2>3 DEF SubscribeReplay
  <1>3. CASE SubscribeReturn(c)
    BY <1>3 DEF SubscribeReturn, TypeOK
  <1>4. CASE Receive(c)
    <2>1. nread' \in [Subscribers -> Nat]
      BY <1>4 DEF Receive, TypeOK
    <2>2. TypeOK'
      BY <1>4, <2>1 DEF Receive, TypeOK
    <2>. QED BY <1>4, <2>2 DEF Receive
  <1>5. CASE Unsubscribe(c)
    BY <1>5 DEF Unsubscribe, TypeOK
  <1>. QED BY <1>1, <1>2, <1>3, <1>4, <1>5 DEF SubStep

LEMMA SendingTypeInv ==
    ASSUME TypeInv, Sending
    PROVE  TypeInv'
  <1>. USE DEF TypeInv, CurInRange, StepIds, runVars, execVars, feedVars,
           callVars, subVars
  <1>0. PICK t \in Threads : \E d \in pub[t] : Deliver(t, d[1], d[2])
    BY DEF Sending
  <1>1. PICK d \in pub[t] : Deliver(t, d[1], d[2])
    BY <1>0
  <1>2. d[1] \in Subscribers /\ d[2] \in Nat \ {0}
    BY DEF TypeOK
  <1>3. pub' \in [Threads -> SUBSET (Subscribers \X (Nat \ {0}))]
    BY <1>1, <1>2 DEF Deliver, TypeOK
  <1>4. Append(sent[d[1]], d[2]) \in Seq(Nat \ {0})
    BY <1>2 DEF TypeOK
  <1>5. sent' \in [Subscribers -> Seq(Nat \ {0})]
    BY <1>1, <1>2, <1>4 DEF Deliver, TypeOK
  <1>6. dropped' \in [Subscribers -> SUBSET (Nat \ {0})]
    <2>1. \/ dropped' = dropped
          \/ dropped' = [dropped EXCEPT ![d[1]] = dropped[d[1]] \cup {d[2]}]
      BY <1>1 DEF Deliver
    <2>2. dropped[d[1]] \cup {d[2]} \in SUBSET (Nat \ {0})
      BY <1>2 DEF TypeOK
    <2>. QED BY <2>1, <2>2 DEF TypeOK
  <1>. QED BY <1>1, <1>3, <1>5, <1>6 DEF Deliver, TypeOK

LEMMA TypeInvInit == Init => TypeInv
  BY NStepsAssumption DEF Init, TypeInv, TypeOK, CurInRange, PcStates, RunStatuses,
     StepStatuses, Active, StepIds

LEMMA TypeInvStep == TypeInv /\ [Next]_vars => TypeInv'
  <1>. SUFFICES ASSUME TypeInv, [Next]_vars PROVE TypeInv'
    OBVIOUS
  <1>1. CASE UNCHANGED vars
    BY <1>1 DEF vars, runVars, execVars, feedVars, callVars, subVars, TypeInv,
       TypeOK, CurInRange
  <1>2. CASE Next
    BY <1>1, <1>2, RunStepTypeInv, CallStepTypeInv, SubStepTypeInv, SendingTypeInv
       DEF Next, Terminated
  <1>. QED BY <1>1, <1>2

\* Every reachable state of the service is well typed.
THEOREM Typed == Spec => []TypeOK
  <1>1. TypeInv => TypeOK
    BY DEF TypeInv
  <1>. QED BY <1>1, TypeInvInit, TypeInvStep, PTL DEF Spec

-----------------------------------------------------------------------------
(***************************************************************************)
(* What becomes of a run: its verdict, its status, its stored result, its  *)
(* cancel function and its step table.  The theorems need three            *)
(* strengthenings: one ties the bookkeeping of a run to the place its      *)
(* goroutines have reached, one its step table to the executor's loop, one *)
(* a finished run's verdict to its step table.                             *)
(***************************************************************************)

Ended == {"finished", "done"}
After == {"save", "finish"} \cup Ended
Body  == {"loop", "start", "started", "instep", "settled"}
Early == {"registered", "announced", "spawned", "begun", "prepare", "plan"}

\* The bookkeeping of run r follows its goroutine.
BooksOf(r) ==
    /\ pc[r] \in After => verdict[r] \in Terminal
    /\ finished[r] <=> pc[r] \in Ended
    /\ cancels[r] <=> Known(r) /\ ~finished[r]
    /\ finished[r] => status[r] = verdict[r]
    /\ stored[r] # "none" =>
         pc[r] \in {"finish"} \cup Ended /\ stored[r] = verdict[r]

Books == \A r \in Runs : BooksOf(r)

\* Steps 1 to Past(r) are behind the loop of run r.
Past(r) == IF pc[r] = "settled" THEN cur[r] ELSE cur[r] - 1
Done(r, i) == steps[r][i] \in Terminal \cup {"skipped"}

\* Before its loop a run has done nothing.
Fresh(r) ==
    /\ pc[r] = "idle" => \A i \in StepIds : steps[r][i] = "none"
    /\ pc[r] \in Early => \A i \in StepIds : steps[r][i] = "queued"
    /\ pc[r] \in {"idle"} \cup Early => verdict[r] = "none" /\ cur[r] = 1

\* Inside the loop the table is settled behind the index and queued beyond it,
\* and the verdict is open exactly as long as every step succeeded.
InLoop(r) ==
    pc[r] \in Body =>
        /\ \A i \in StepIds : i <= Past(r) => Done(r, i)
        /\ \A i \in StepIds : i > cur[r] => steps[r][i] = "queued"
        /\ pc[r] \in {"loop", "start"} =>
             \A i \in StepIds : i = cur[r] => steps[r][i] = "queued"
        /\ pc[r] \in {"started", "instep"} => steps[r][cur[r]] = "running"
        /\ pc[r] \in {"start", "started", "instep"} => verdict[r] = "none"
        /\ verdict[r] = "none" =>
             \A i \in StepIds : i <= Past(r) => steps[r][i] = "success"
        /\ verdict[r] # "success"
        /\ verdict[r] = "failed" =>
             \E i \in StepIds : i <= Past(r) /\ steps[r][i] = "failed"
        /\ verdict[r] = "cancelled" =>
             \/ pc[r] = "loop" /\ cur[r] <= NSteps
             \/ \E i \in StepIds :
                  i <= Past(r) /\ steps[r][i] \in {"cancelled", "skipped"}

\* After the loop the verdict and the table tell one story.
Story(r) ==
    pc[r] \in After =>
        \/ verdict[r] = "failed" /\ \A i \in StepIds : steps[r][i] = "queued"
        \/ /\ \A i \in StepIds : Done(r, i)
           /\ verdict[r] = "success" => \A i \in StepIds : steps[r][i] = "success"
           /\ verdict[r] = "failed" => \E i \in StepIds : steps[r][i] = "failed"
           /\ verdict[r] = "cancelled" =>
                \E i \in StepIds : steps[r][i] \in {"cancelled", "skipped"}

Table == \A r \in Runs : Fresh(r) /\ InLoop(r) /\ Story(r)

ControlInv == TypeInv /\ Books /\ Table

-----------------------------------------------------------------------------
(* Preservation, first for the run that moves.  A step of another run, of a  *)
(* request or of a subscriber leaves a run's books and table alone, but for  *)
(* CancelMark, which changes the status of a run that is not finished.       *)

LEMMA ControlInit == Init => ControlInv
  <1>. SUFFICES ASSUME Init PROVE ControlInv
    OBVIOUS
  <1>1. TypeInv
    BY TypeInvInit
  <1>2. Books
    BY DEF Init, Books, BooksOf, After, Ended, Known
  <1>3. Table
    BY DEF Init, Table, Fresh, InLoop, Story, After, Ended, Early, Body
  <1>. QED BY <1>1, <1>2, <1>3 DEF ControlInv

\* The variables the books and the table of run r are about.
LEMMA OthersKeepBooks ==
    ASSUME NEW r, BooksOf(r),
           status'[r] = status[r], finished'[r] = finished[r], pc'[r] = pc[r],
           cancels'[r] = cancels[r], stored'[r] = stored[r], verdict'[r] = verdict[r]
    PROVE  BooksOf(r)'
  BY DEF BooksOf, Known, After, Ended

LEMMA OthersKeepTable ==
    ASSUME NEW r, Fresh(r), InLoop(r), Story(r),
           pc'[r] = pc[r], cur'[r] = cur[r], verdict'[r] = verdict[r],
           steps'[r] = steps[r]
    PROVE  Fresh(r)' /\ InLoop(r)' /\ Story(r)'
  BY DEF Fresh, InLoop, Story, Past, Done, After, Ended, Early, Body

LEMMA OwnBooks ==
    ASSUME TypeInv, NEW r \in Runs, BooksOf(r), RunStep(r)
    PROVE  BooksOf(r)'
  <1>. USE DEF TypeInv, TypeOK, BooksOf, Known, After, Ended, Terminal, runVars, execVars
  <1>1. CASE StartRegister(r) BY <1>1 DEF StartRegister
  <1>2. CASE StartPublish(r) BY <1>2 DEF StartPublish
  <1>3. CASE StartSpawn(r) BY <1>3 DEF StartSpawn
  <1>4. CASE ExecBegin(r) BY <1>4 DEF ExecBegin
  <1>5. CASE ExecAnnounce(r) BY <1>5 DEF ExecAnnounce
  <1>6. CASE Prepare(r) BY <1>6 DEF Prepare
  <1>7. CASE Plan(r) BY <1>7 DEF Plan
  <1>8. CASE LoopTop(r) BY <1>8 DEF LoopTop
  <1>9. CASE StepStart(r) BY <1>9 DEF StepStart, UpdateStep
  <1>10. CASE StepRun(r) BY <1>10 DEF StepRun
  <1>11. CASE StepEnd(r) BY <1>11 DEF StepEnd, UpdateStep
  <1>12. CASE StepSkip(r) BY <1>12 DEF StepSkip, UpdateStep
  <1>13. CASE StepReport(r) BY <1>13 DEF StepReport
  <1>14. CASE StepLog(r) BY <1>14 DEF StepLog
  <1>15. CASE LogEnd(r) BY <1>15 DEF LogEnd
  <1>16. CASE Save(r) BY <1>16 DEF Save
  <1>17. CASE Finish(r) BY <1>17 DEF Finish
  <1>18. CASE FinishPublish(r) BY <1>18 DEF FinishPublish
  <1>. QED BY <1>1, <1>2, <1>3, <1>4, <1>5, <1>6, <1>7, <1>8, <1>9, <1>10,
       <1>11, <1>12, <1>13, <1>14, <1>15, <1>16, <1>17, <1>18 DEF RunStep

LEMMA OwnTable ==
    ASSUME TypeInv, NEW r \in Runs, Fresh(r), InLoop(r), Story(r), RunStep(r)
    PROVE  Fresh(r)' /\ InLoop(r)' /\ Story(r)'
  <1>. USE NStepsAssumption DEF TypeInv, TypeOK, CurInRange, Fresh, InLoop, Story, Past, Done, After, Ended,
           Early, Body, StepIds, Terminal, runVars, execVars
  <1>1. CASE StartRegister(r) BY <1>1 DEF StartRegister
  <1>2. CASE StartPublish(r) BY <1>2 DEF StartPublish
  <1>3. CASE StartSpawn(r) BY <1>3 DEF StartSpawn
  <1>4. CASE ExecBegin(r) BY <1>4 DEF ExecBegin
  <1>5. CASE ExecAnnounce(r) BY <1>5 DEF ExecAnnounce
  <1>6. CASE Prepare(r) BY <1>6 DEF Prepare
  <1>7. CASE Plan(r) BY <1>7 DEF Plan
  <1>8. CASE LoopTop(r) BY <1>8 DEF LoopTop
  <1>9. CASE StepStart(r) BY <1>9 DEF StepStart, UpdateStep
  <1>10. CASE StepRun(r) BY <1>10 DEF StepRun
  <1>11. CASE StepEnd(r) BY <1>11 DEF StepEnd, UpdateStep
  <1>12. CASE StepSkip(r) BY <1>12 DEF StepSkip, UpdateStep
  <1>13. CASE StepReport(r) BY <1>13 DEF StepReport
  <1>14. CASE StepLog(r) BY <1>14 DEF StepLog
  <1>15. CASE LogEnd(r) BY <1>15 DEF LogEnd
  <1>16. CASE Save(r) BY <1>16 DEF Save
  <1>17. CASE Finish(r) BY <1>17 DEF Finish
  <1>18. CASE FinishPublish(r) BY <1>18 DEF FinishPublish
  <1>. QED BY <1>1, <1>2, <1>3, <1>4, <1>5, <1>6, <1>7, <1>8, <1>9, <1>10,
       <1>11, <1>12, <1>13, <1>14, <1>15, <1>16, <1>17, <1>18 DEF RunStep

\* A run's step touches no other run.
LEMMA RunStepLocal ==
    ASSUME TypeInv, NEW q \in Runs, RunStep(q), NEW r \in Runs, r # q
    PROVE  /\ status'[r] = status[r] /\ finished'[r] = finished[r]
           /\ cancels'[r] = cancels[r] /\ stored'[r] = stored[r]
           /\ pc'[r] = pc[r] /\ cur'[r] = cur[r] /\ verdict'[r] = verdict[r]
           /\ steps'[r] = steps[r]
  <1>. USE DEF TypeInv, TypeOK, runVars, execVars
  <1>1. CASE StartRegister(q) BY <1>1 DEF StartRegister
  <1>2. CASE StartPublish(q) BY <1>2 DEF StartPublish
  <1>3. CASE StartSpawn(q) BY <1>3 DEF StartSpawn
  <1>4. CASE ExecBegin(q) BY <1>4 DEF ExecBegin
  <1>5. CASE ExecAnnounce(q) BY <1>5 DEF ExecAnnounce
  <1>6. CASE Prepare(q) BY <1>6 DEF Prepare
  <1>7. CASE Plan(q) BY <1>7 DEF Plan
  <1>8. CASE LoopTop(q) BY <1>8 DEF LoopTop
  <1>9. CASE StepStart(q) BY <1>9 DEF StepStart, UpdateStep
  <1>10. CASE StepRun(q) BY <1>10 DEF StepRun
  <1>11. CASE StepEnd(q) BY <1>11 DEF StepEnd, UpdateStep
  <1>12. CASE StepSkip(q) BY <1>12 DEF StepSkip, UpdateStep
  <1>13. CASE StepReport(q) BY <1>13 DEF StepReport
  <1>14. CASE StepLog(q) BY <1>14 DEF StepLog
  <1>15. CASE LogEnd(q) BY <1>15 DEF LogEnd
  <1>16. CASE Save(q) BY <1>16 DEF Save
  <1>17. CASE Finish(q) BY <1>17 DEF Finish
  <1>18. CASE FinishPublish(q) BY <1>18 DEF FinishPublish
  <1>. QED BY <1>1, <1>2, <1>3, <1>4, <1>5, <1>6, <1>7, <1>8, <1>9, <1>10,
       <1>11, <1>12, <1>13, <1>14, <1>15, <1>16, <1>17, <1>18 DEF RunStep

\* No other thread touches the control state of a run, except that CancelMark
\* sets the status of an active one.
LEMMA ThreadsLeaveRuns ==
    ASSUME TypeInv,
           \/ \E k \in Cancellers : CallStep(k)
           \/ \E c \in Subscribers : SubStep(c)
           \/ Sending
           \/ Terminated
           \/ UNCHANGED vars
    PROVE  /\ UNCHANGED <<finished, cancels, stored, pc, cur, verdict, steps>>
           /\ \A r \in Runs : status'[r] = status[r] \/ status[r] \in Active
  <1>. USE DEF TypeInv, TypeOK, runVars, execVars
  <1>1. CASE \E k \in Cancellers : CallStep(k)
    <2>1. PICK k \in Cancellers : CallStep(k)
      BY <1>1
    <2>2. CASE CancelMark(k) BY <2>2 DEF CancelMark
    <2>3. CASE CancelSignal(k) BY <2>3 DEF CancelSignal
    <2>4. CASE CancelPublish(k) BY <2>4 DEF CancelPublish
    <2>5. CASE CancelReturn(k) BY <2>5 DEF CancelReturn
    <2>. QED BY <2>1, <2>2, <2>3, <2>4, <2>5 DEF CallStep
  <1>2. CASE \E c \in Subscribers : SubStep(c)
    BY <1>2 DEF SubStep, SubscribeLock, SubscribeReplay, SubscribeReturn, Receive, Unsubscribe
  <1>3. CASE Sending
    BY <1>3 DEF Sending, Deliver
  <1>4. CASE Terminated \/ UNCHANGED vars
    BY <1>4 DEF Terminated, vars
  <1>. QED BY <1>1, <1>2, <1>3, <1>4

LEMMA ControlStep == ControlInv /\ [Next]_vars => ControlInv'
  <1>. SUFFICES ASSUME ControlInv, [Next]_vars PROVE ControlInv'
    OBVIOUS
  <1>1. TypeInv /\ TypeInv'
    BY TypeInvStep DEF ControlInv
  <1>2. CASE \E q \in Runs : RunStep(q)
    <2>1. PICK q \in Runs : RunStep(q)
      BY <1>2
    <2>2. ASSUME NEW r \in Runs
          PROVE  BooksOf(r)' /\ Fresh(r)' /\ InLoop(r)' /\ Story(r)'
      <3>1. BooksOf(r) /\ Fresh(r) /\ InLoop(r) /\ Story(r)
        BY DEF ControlInv, Books, Table
      <3>2. CASE r = q
        BY <1>1, <2>1, <3>1, <3>2, OwnBooks, OwnTable
      <3>3. CASE r # q
        <4>1. /\ status'[r] = status[r] /\ finished'[r] = finished[r]
              /\ cancels'[r] = cancels[r] /\ stored'[r] = stored[r]
              /\ pc'[r] = pc[r] /\ cur'[r] = cur[r] /\ verdict'[r] = verdict[r]
              /\ steps'[r] = steps[r]
          BY <1>1, <2>1, <3>3, RunStepLocal
        <4>. QED BY <3>1, <4>1, OthersKeepBooks, OthersKeepTable
      <3>. QED BY <3>2, <3>3
    <2>. QED BY <1>1, <2>2 DEF ControlInv, Books, Table
  <1>3. CASE \/ \E k \in Cancellers : CallStep(k)
             \/ \E c \in Subscribers : SubStep(c)
             \/ Sending
             \/ Terminated
             \/ UNCHANGED vars
    <2>1. /\ UNCHANGED <<finished, cancels, stored, pc, cur, verdict, steps>>
          /\ \A r \in Runs : status'[r] = status[r] \/ status[r] \in Active
      BY <1>1, <1>3, ThreadsLeaveRuns
    <2>2. ASSUME NEW r \in Runs
          PROVE  BooksOf(r)' /\ Fresh(r)' /\ InLoop(r)' /\ Story(r)'
      <3>1. BooksOf(r) /\ Fresh(r) /\ InLoop(r) /\ Story(r)
        BY DEF ControlInv, Books, Table
      <3>2. BooksOf(r)'
        BY <2>1, <3>1 DEF BooksOf, Known, After, Ended, Terminal, Active
      <3>. QED BY <2>1, <3>1, <3>2, OthersKeepTable
    <2>. QED BY <1>1, <2>2 DEF ControlInv, Books, Table
  <1>. QED BY <1>2, <1>3 DEF Next

LEMMA Controlled == Spec => []ControlInv
  BY ControlInit, ControlStep, PTL DEF Spec

-----------------------------------------------------------------------------
(* Theorems                                                                  *)

\* While clients see a run queued or running its cancel function is there, and
\* a finished run keeps none.
THEOREM CancelIsReachable == Spec => []CancelReachable
  <1>1. ControlInv => CancelReachable
    BY DEF ControlInv, TypeInv, TypeOK, Books, BooksOf, CancelReachable, Known, Ended, After
  <1>. QED BY <1>1, Controlled, PTL

\* Whenever the process dies, the rows in the database are final.
THEOREM StoredResultAgrees == Spec => []StoredAgrees
  <1>1. ControlInv => StoredAgrees
    BY NStepsAssumption DEF ControlInv, Books, BooksOf, Table, Story, Done, StoredAgrees,
       Ended, After, StepIds, Terminal
  <1>. QED BY <1>1, Controlled, PTL

\* A finished run's status and step table tell one story.
THEOREM OutcomeAgrees == Spec => []OutcomeMatchesSteps
  <1>1. ControlInv => OutcomeMatchesSteps
    BY NStepsAssumption DEF ControlInv, Books, BooksOf, Table, Story, Done, OutcomeMatchesSteps, Ended, After,
       StepIds, Terminal
  <1>. QED BY <1>1, Controlled, PTL

\* Every step of the service is a step of one run, or leaves the runs' control
\* state alone.
LEMMA Moves ==
    ASSUME ControlInv, [Next]_vars
    PROVE  \/ \E q \in Runs : RunStep(q)
           \/ /\ UNCHANGED <<finished, cancels, stored, pc, cur, verdict, steps>>
              /\ \A r \in Runs : status'[r] = status[r] \/ status[r] \in Active
  BY ThreadsLeaveRuns DEF ControlInv, Next

LEMMA EndedRunStep ==
    ASSUME TypeInv, NEW r \in Runs, pc[r] \in Ended, RunStep(r)
    PROVE  FinishPublish(r) \/ StepLog(r) \/ LogEnd(r)
  BY DEF Ended, RunStep, StartRegister, StartPublish, StartSpawn, ExecBegin,
     ExecAnnounce, Prepare, Plan, LoopTop, StepStart, StepRun, StepEnd, StepSkip,
     StepReport, Save, Finish

\* Nothing changes a finished run.
THEOREM FinishedStaysFrozen == Spec => FinishedIsFrozen
  <1>. DEFINE Frozen(r) ==
          /\ status'[r] = status[r] /\ steps'[r] = steps[r]
          /\ finished'[r] /\ stored'[r] = stored[r]
          /\ cancels'[r] = cancels[r]
  <1>1. ControlInv /\ [Next]_vars => [\A r \in Runs : finished[r] => Frozen(r)]_vars
    <2>. SUFFICES ASSUME ControlInv, [Next]_vars, NEW r \in Runs, finished[r]
                  PROVE  Frozen(r)
      OBVIOUS
    <2>1. TypeInv /\ BooksOf(r)
      BY DEF ControlInv, Books
    <2>2. pc[r] \in Ended /\ status[r] \notin Active
      BY <2>1 DEF BooksOf, After, Terminal, Active
    <2>3. ASSUME NEW q \in Runs, RunStep(q)
          PROVE  Frozen(r)
      <3>1. CASE q = r
        BY <2>1, <2>2, <2>3, <3>1, EndedRunStep DEF FinishPublish, StepLog, LogEnd,
           runVars
      <3>2. CASE q # r
        BY <2>1, <2>3, <3>2, RunStepLocal
      <3>. QED BY <3>1, <3>2
    <2>. QED BY <2>2, <2>3, Moves
  <1>. QED BY <1>1, Controlled, PTL DEF Spec, FinishedIsFrozen

\* No step of a run is started, settled or skipped twice.
THEOREM StepsAdvance == Spec => StepsOnlyAdvance
  <1>. DEFINE Advance(r, i) ==
          <<steps[r][i], steps'[r][i]>> \in
              {<<"none", "queued">>, <<"queued", "running">>, <<"queued", "skipped">>}
              \cup ({"running"} \X Terminal)
  <1>1. ControlInv /\ [Next]_vars =>
          [\A r \in Runs, i \in StepIds :
              steps'[r][i] # steps[r][i] => Advance(r, i)]_vars
    <2>. SUFFICES ASSUME ControlInv, [Next]_vars, NEW r \in Runs, NEW i \in StepIds,
                         steps'[r][i] # steps[r][i]
                  PROVE  Advance(r, i)
      OBVIOUS
    <2>1. TypeInv /\ Fresh(r) /\ InLoop(r)
      BY DEF ControlInv, Table
    <2>2. RunStep(r)
      BY <2>1, Moves, RunStepLocal
    <2>. USE DEF TypeInv, TypeOK
    <2>3. CASE StartRegister(r)
      BY <2>1, <2>3 DEF StartRegister, Fresh
    <2>4. CASE StepStart(r)
      BY <2>1, <2>4 DEF StepStart, UpdateStep, InLoop, Body, CurInRange
    <2>5. CASE StepEnd(r)
      BY <2>1, <2>5 DEF StepEnd, UpdateStep, InLoop, Body, CurInRange
    <2>6. CASE StepSkip(r)
      BY <2>1, <2>6 DEF StepSkip, UpdateStep, InLoop, Body
    <2>7. ASSUME steps' = steps
          PROVE  FALSE
      BY <2>7
    <2>. QED BY <2>2, <2>3, <2>4, <2>5, <2>6, <2>7 DEF RunStep, StartPublish,
         StartSpawn, ExecBegin, ExecAnnounce, Prepare, Plan, LoopTop, StepRun,
         StepReport, StepLog, LogEnd, Save, Finish, FinishPublish, runVars
  <1>. QED BY <1>1, Controlled, PTL DEF Spec, StepsOnlyAdvance

-----------------------------------------------------------------------------
(* The service keeps the executor's contract.                                *)

Ptable == [r \in Runs |-> [i \in StepIds |->
             IF steps[r][i] = "none" THEN "queued" ELSE steps[r][i]]]

LEMMA ProtocolInitially == Init => Protocol!ProtocolInit
  BY DEF Init, Protocol!ProtocolInit, Protocol!Ids, StepIds

\* A step of the table of run q at the loop index, as the contract sees it.
LEMMA TableStep ==
    ASSUME TypeInv, NEW q \in Runs, cur[q] \in StepIds, NEW s \in StepStatuses \ {"none"},
           steps' = [steps EXCEPT ![q][cur[q]] = s]
    PROVE  Ptable' = [Ptable EXCEPT ![q][cur[q]] = s]
  <1>1. steps \in [Runs -> [StepIds -> StepStatuses]]
    BY DEF TypeInv, TypeOK
  <1>2. Ptable' = [r \in Runs |-> [i \in StepIds |->
           IF steps'[r][i] = "none" THEN "queued" ELSE steps'[r][i]]]
    BY DEF Ptable
  <1>3. \A r \in Runs \ {q} : Ptable'[r] = Ptable[r]
    BY <1>1, <1>2 DEF Ptable
  <1>4. Ptable'[q] = [Ptable[q] EXCEPT ![cur[q]] = s]
    BY <1>1, <1>2 DEF Ptable
  <1>5. Ptable' = [Ptable EXCEPT ![q] = [Ptable[q] EXCEPT ![cur[q]] = s]]
    BY <1>2, <1>3, <1>4 DEF Ptable
  <1>. QED BY <1>5

LEMMA ProtocolStep ==
    ASSUME ControlInv, [Next]_vars
    PROVE  [Protocol!ProtocolNext]_(Protocol!protocol)
  <1>0. TypeInv
    BY DEF ControlInv
  <1>1. CASE UNCHANGED <<Ptable, verdict>>
    BY <1>1 DEF Protocol!protocol, Ptable
  <1>2. ASSUME NEW q \in Runs, RunStep(q)
        PROVE  Protocol!ProtocolNext \/ UNCHANGED <<Ptable, verdict>>
    <2>1. Fresh(q) /\ InLoop(q)
      BY DEF ControlInv, Table
    <2>2. CASE UNCHANGED <<steps, verdict>>
      BY <2>2 DEF Ptable
    <2>3. CASE StartRegister(q)
      BY <1>0, <2>1, <2>3 DEF StartRegister, Ptable, Fresh, TypeInv, TypeOK
    <2>4. CASE /\ pc[q] \in {"prepare", "plan"} /\ steps' = steps
               /\ verdict' = [verdict EXCEPT ![q] = "failed"]
      <3>1. Protocol!Abort(q)
        BY <1>0, <2>1, <2>4 DEF Protocol!Abort, Protocol!Ids, Fresh, Early, StepIds,
           TypeInv, TypeOK
      <3>. QED BY <3>1 DEF Protocol!ProtocolNext
    <2>5. CASE LoopTop(q)
      <3>1. pc[q] = "loop" /\ steps' = steps /\ Ptable' = Ptable
        BY <2>5 DEF LoopTop, runVars, Ptable
      <3>2. CASE verdict[q] # "none"
        BY <1>0, <2>5, <3>1, <3>2 DEF LoopTop, TypeInv, TypeOK
      <3>3. CASE verdict[q] = "none" /\ cur[q] > NSteps
        <4>1. Protocol!Complete(q)
          BY <1>0, <2>1, <2>5, <3>1, <3>3, NStepsAssumption DEF LoopTop, InLoop, Body, Past,
             Protocol!Complete, Protocol!Ids, StepIds, TypeInv, TypeOK
        <4>. QED BY <4>1 DEF Protocol!ProtocolNext
      <3>4. CASE verdict[q] = "none" /\ cur[q] <= NSteps
        <4>1. cur[q] \in StepIds
          BY <1>0, <3>4, NStepsAssumption DEF StepIds, TypeInv, TypeOK
        <4>2. /\ steps[q][cur[q]] = "queued"
              /\ \A i \in StepIds : i <= cur[q] - 1 => steps[q][i] = "success"
          BY <2>1, <3>1, <3>4, <4>1 DEF InLoop, Body, Past
        <4>3. CASE ctxDone[q]
          <5>1. PICK i \in StepIds : i = cur[q]
            BY <4>1
          <5>2. Protocol!Reached(q, i)
            BY <1>0, <4>2, <5>1, NStepsAssumption DEF Protocol!Reached, StepIds, TypeInv, TypeOK
          <5>3. Ptable[q][i] = "queued"
            BY <4>2, <5>1 DEF Ptable
          <5>4. verdict' = [verdict EXCEPT ![q] = "cancelled"]
            BY <1>0, <2>5, <3>4, <4>3, NStepsAssumption DEF LoopTop, TypeInv, TypeOK
          <5>5. Protocol!Halt(q)
            BY <3>1, <3>4, <5>2, <5>3, <5>4 DEF Protocol!Halt, Protocol!Ids, Ptable, StepIds
          <5>. QED BY <5>5 DEF Protocol!ProtocolNext
        <4>4. CASE ~ctxDone[q]
          BY <1>0, <2>5, <3>1, <3>4, <4>4, NStepsAssumption DEF LoopTop, Ptable, TypeInv, TypeOK
        <4>. QED BY <4>3, <4>4
      <3>. QED BY <1>0, <3>2, <3>3, <3>4, NStepsAssumption DEF TypeInv, TypeOK
    <2>6. CASE StepStart(q)
      <3>1. /\ cur[q] \in StepIds /\ verdict[q] = "none" /\ verdict' = verdict
            /\ steps[q][cur[q]] = "queued"
            /\ \A i \in StepIds : i <= cur[q] - 1 => steps[q][i] = "success"
        BY <1>0, <2>1, <2>6 DEF StepStart, InLoop, Body, Past, TypeInv, CurInRange
      <3>2. Ptable' = [Ptable EXCEPT ![q][cur[q]] = "running"]
        BY <1>0, <2>6, <3>1, TableStep DEF StepStart, UpdateStep, StepStatuses, RunStatuses, Active
      <3>3. PICK i \in StepIds : i = cur[q]
        BY <3>1
      <3>4. Protocol!Reached(q, i)
        BY <1>0, <3>1, <3>3, NStepsAssumption DEF Protocol!Reached, StepIds, TypeInv, TypeOK
      <3>5. Ptable[q][i] = "queued"
        BY <3>1, <3>3 DEF Ptable
      <3>6. Protocol!Begin(q, i)
        BY <3>1, <3>2, <3>3, <3>4, <3>5 DEF Protocol!Begin, Ptable
      <3>. QED BY <3>6 DEF Protocol!ProtocolNext, Protocol!Ids, StepIds
    <2>7. CASE StepEnd(q)
      <3>1. cur[q] \in StepIds /\ steps[q][cur[q]] = "running" /\ verdict[q] = "none"
        BY <1>0, <2>1, <2>7 DEF StepEnd, InLoop, Body, TypeInv, CurInRange
      <3>2. PICK s \in Terminal :
               /\ steps' = [steps EXCEPT ![q][cur[q]] = s]
               /\ verdict' = [verdict EXCEPT ![q] = IF s = "success" THEN "none" ELSE s]
        BY <2>7 DEF StepEnd, UpdateStep
      <3>3. Ptable' = [Ptable EXCEPT ![q][cur[q]] = s]
        BY <1>0, <3>1, <3>2, TableStep DEF StepStatuses, RunStatuses, Terminal
      <3>4. PICK i \in StepIds : i = cur[q]
        BY <3>1
      <3>5. Ptable[q][i] = "running"
        BY <3>1, <3>4 DEF Ptable
      <3>6. verdict' = [verdict EXCEPT ![q] = IF s = "success" THEN @ ELSE s]
        BY <1>0, <3>1, <3>2 DEF TypeInv, TypeOK
      <3>7. Protocol!Settle(q, i, s)
        BY <3>3, <3>4, <3>5, <3>6 DEF Protocol!Settle, Ptable
      <3>. QED BY <3>7 DEF Protocol!ProtocolNext, Protocol!Ids, Protocol!Settled,
           StepIds, Terminal
    <2>8. CASE StepSkip(q)
      <3>1. /\ pc[q] = "loop" /\ verdict[q] # "none" /\ cur[q] \in StepIds
            /\ verdict' = verdict
        BY <1>0, <2>8, NStepsAssumption DEF StepSkip, TypeInv, TypeOK, StepIds
      <3>2. /\ steps[q][cur[q]] = "queued"
            /\ \A i \in StepIds : i <= cur[q] - 1 => Done(q, i)
            /\ \/ verdict[q] = "cancelled"
               \/ \E i \in StepIds : steps[q][i] = "failed"
        BY <1>0, <2>1, <3>1 DEF InLoop, Body, Past, TypeInv, TypeOK, Terminal
      <3>3. Ptable' = [Ptable EXCEPT ![q][cur[q]] = "skipped"]
        BY <1>0, <2>8, <3>1, TableStep DEF StepSkip, UpdateStep, StepStatuses
      <3>4. PICK i \in StepIds : i = cur[q]
        BY <3>1
      <3>5. Ptable[q][i] = "queued"
        BY <3>2, <3>4 DEF Ptable
      <3>6. \A j \in 1..(i - 1) : Ptable[q][j] # "queued"
        BY <3>2, <3>4, NStepsAssumption DEF Ptable, Done, Terminal, StepIds
      <3>7. verdict[q] = "cancelled" \/ \E j \in StepIds : Ptable[q][j] = "failed"
        BY <3>2 DEF Ptable
      <3>8. Protocol!Skip(q, i)
        BY <3>1, <3>3, <3>4, <3>5, <3>6, <3>7 DEF Protocol!Skip, Protocol!Ids, Ptable, StepIds
      <3>. QED BY <3>8 DEF Protocol!ProtocolNext, Protocol!Ids, StepIds
    <2>. QED BY <1>2, <2>2, <2>3, <2>4, <2>5, <2>6, <2>7, <2>8 DEF RunStep, StartPublish,
         StartSpawn, ExecBegin, ExecAnnounce, Prepare, Plan, StepRun, StepReport,
         StepLog, LogEnd, Save, Finish, FinishPublish, runVars, execVars
  <1>3. Protocol!ProtocolNext \/ UNCHANGED <<Ptable, verdict>>
    BY <1>2, Moves DEF Ptable
  <1>. QED BY <1>1, <1>3

\* Whatever the run service does, its step tables and verdicts follow the
\* contract between executor and observer.
THEOREM KeepsProtocol == Spec => ImplementsProtocol
  <1>1. ControlInv /\ [Next]_vars => [Protocol!ProtocolNext]_(Protocol!protocol)
    BY ProtocolStep
  <1>. QED BY <1>1, ProtocolInitially, Controlled, PTL
       DEF Spec, ImplementsProtocol, Protocol!ProtocolSpec

-----------------------------------------------------------------------------
(***************************************************************************)
(* The event feeds: what a subscriber's channel holds, lost or may still   *)
(* be given, whatever the interleaving of replays, publishes and sends.    *)
(***************************************************************************)

Upto(c)       == Len(history[subRun[c]])
Slots(c)      == 1..Len(sent[c])
Owes(t, c, n) == <<c, n>> \in pub[t]

\* Until Subscribe returns, the channel holds a prefix of the history and
\* nobody else knows of it.
Joining(c) ==
    /\ subPc[c] = "out" => sent[c] = <<>>
    /\ subPc[c] \in {"out", "replay"} =>
         /\ nread[c] = 0 /\ dropped[c] = {}
         /\ \A t \in Threads, n \in Nat : ~Owes(t, c, n)
    /\ subPc[c] = "replay" =>
         /\ Len(sent[c]) <= Upto(c)
         /\ \A p \in Slots(c) : sent[c][p] = p

\* Only published events are sent, dropped or owed.
Published(c) ==
    /\ \A p \in Slots(c) : sent[c][p] \in 1..Upto(c)
    /\ dropped[c] \subseteq 1..Upto(c)
    /\ \A t \in Threads, n \in Nat : Owes(t, c, n) => n \in 1..Upto(c)

\* An event is in one place, and once.
Once(c) ==
    /\ \A p, q \in Slots(c) : sent[c][p] = sent[c][q] => p = q
    /\ \A p \in Slots(c) : sent[c][p] \notin dropped[c]
    /\ \A t \in Threads, n \in Nat : Owes(t, c, n) =>
         n \notin dropped[c] /\ \A p \in Slots(c) : sent[c][p] # n
    /\ \A t, u \in Threads, n \in Nat : Owes(t, c, n) /\ Owes(u, c, n) => t = u

\* A registered channel misses nothing that was not dropped.
Whole(c) ==
    subPc[c] = "in" => \A n \in 1..Upto(c) :
        \/ \E p \in Slots(c) : sent[c][p] = n
        \/ n \in dropped[c]
        \/ \E t \in Threads : Owes(t, c, n)

FeedOf(c) == Joining(c) /\ Published(c) /\ Once(c) /\ Whole(c)

FeedInv == TypeInv /\ \A c \in Subscribers : FeedOf(c)

-----------------------------------------------------------------------------
(* What a step does to the feeds                                             *)

\* A step of a run or of a request touches the feeds by at most one publish.
LEMMA RunStepFeed ==
    ASSUME TypeInv, NEW r \in Runs, RunStep(r)
    PROVE  /\ UNCHANGED subVars
           /\ \/ UNCHANGED feedVars
              \/ \E t \in Threads, e \in Events : Publish(t, r, e)
  <1>. USE DEF TypeInv
  <1>1. ASSUME NEW t \in Threads, NEW e \in Events, Publish(t, r, e)
        PROVE  \E u \in Threads, d \in Events : Publish(u, r, d)
    BY <1>1
  <1>2. CASE StartPublish(r)
    BY <1>1, <1>2, ThreadsOf, EventTypes DEF StartPublish
  <1>3. CASE ExecAnnounce(r)
    BY <1>1, <1>3, ThreadsOf, EventTypes DEF ExecAnnounce
  <1>4. CASE StepRun(r)
    <2>1. StepStatusEvent(cur[r], "running") \in Events
      BY <1>4, EventTypes DEF StepRun, CurInRange, StepStatuses, RunStatuses, Active
    <2>. QED BY <1>1, <1>4, <2>1, ThreadsOf DEF StepRun
  <1>5. CASE StepReport(r)
    <2>1. cur[r] \in StepIds /\ steps[r][cur[r]] \in StepStatuses
      BY <1>5 DEF StepReport, CurInRange, TypeOK
    <2>2. StepStatusEvent(cur[r], steps[r][cur[r]]) \in Events
      BY <2>1, EventTypes
    <2>. QED BY <1>1, <1>5, <2>2, ThreadsOf DEF StepReport
  <1>6. CASE StepLog(r)
    <2>1. LogEvent(logging[r]) \in Events
      BY EventTypes DEF TypeOK
    <2>. QED BY <1>1, <1>6, <2>1, ThreadsOf DEF StepLog
  <1>7. CASE FinishPublish(r)
    <2>1. RunDoneEvent(verdict[r]) \in Events
      BY EventTypes DEF TypeOK
    <2>. QED BY <1>1, <1>7, <2>1, ThreadsOf DEF FinishPublish
  <1>. QED BY <1>2, <1>3, <1>4, <1>5, <1>6, <1>7 DEF RunStep, StartRegister, StartSpawn,
       ExecBegin, Prepare, Plan, LoopTop, StepStart, StepEnd, StepSkip, LogEnd, Save,
       Finish

LEMMA CallStepFeed ==
    ASSUME TypeInv, NEW k \in Cancellers, CallStep(k)
    PROVE  /\ UNCHANGED subVars
           /\ \/ UNCHANGED feedVars
              \/ \E t \in Threads, r \in Runs, e \in Events : Publish(t, r, e)
  <1>1. CASE CancelPublish(k)
    <2>1. RunStatusEvent("cancelled") \in Events
      BY EventTypes DEF Terminal
    <2>2. callRun[k] \in Runs
      BY DEF TypeInv, TypeOK
    <2>3. Publish(Caller(k), callRun[k], RunStatusEvent("cancelled"))
      BY <1>1 DEF CancelPublish
    <2>4. PICK r \in Runs : Publish(Caller(k), r, RunStatusEvent("cancelled"))
      BY <2>2, <2>3
    <2>. QED BY <1>1, <2>1, <2>4, ThreadsOf DEF CancelPublish
  <1>. QED BY <1>1 DEF CallStep, CancelMark, CancelSignal, CancelReturn

\* A step is one publish, one send, one step of a subscriber, or nothing.
LEMMA FeedMoves ==
    ASSUME TypeInv, [Next]_vars
    PROVE  \/ UNCHANGED <<feedVars, subVars>>
           \/ /\ UNCHANGED subVars
              /\ \E t \in Threads, r \in Runs, e \in Events : Publish(t, r, e)
           \/ \E c \in Subscribers : SubStep(c)
           \/ Sending
  BY RunStepFeed, CallStepFeed DEF Next, Terminated, vars

\* What a publish does to subscriber c: its run's history grows by one event,
\* owed to c if c is registered.
LEMMA PublishAdds ==
    ASSUME TypeInv, NEW t \in Threads, NEW r \in Runs, NEW e \in Events,
           Publish(t, r, e), UNCHANGED subVars, NEW c \in Subscribers
    PROVE  /\ subPc[c] # "replay"
           /\ Upto(c) \in Nat
           /\ Upto(c)' = IF subRun[c] = r THEN Upto(c) + 1 ELSE Upto(c)
           /\ \A u \in Threads, n \in Nat :
                Owes(u, c, n)' <=>
                  \/ Owes(u, c, n)
                  \/ u = t /\ subPc[c] = "in" /\ subRun[c] = r /\ n = Upto(c) + 1
  <1>. USE DEF TypeInv, TypeOK, subVars
  <1>1. /\ history' = [history EXCEPT ![r] = Append(@, e)]
        /\ pub' = [pub EXCEPT ![t] = @ \cup (Live(r) \X {Len(history[r]) + 1})]
        /\ subPc[c] # "replay"
    BY DEF Publish, MuFree
  <1>2. /\ history[r] \in Seq(Events) /\ history[subRun[c]] \in Seq(Events)
        /\ Len(Append(history[r], e)) = Len(history[r]) + 1
    OBVIOUS
  <1>3. history'[r] = Append(history[r], e)
        /\ \A q \in Runs \ {r} : history'[q] = history[q]
    BY <1>1
  <1>4. ASSUME NEW u \in Threads, NEW n \in Nat
        PROVE  Owes(u, c, n)' <=>
                  \/ Owes(u, c, n)
                  \/ u = t /\ subPc[c] = "in" /\ subRun[c] = r /\ n = Upto(c) + 1
    <2>1. CASE u # t
      BY <1>1, <2>1 DEF Owes
    <2>2. CASE u = t
      <3>1. Owes(t, c, n)' <=> Owes(t, c, n)
                \/ <<c, n>> \in Live(r) \X {Len(history[r]) + 1}
        BY <1>1 DEF Owes
      <3>2. <<c, n>> \in Live(r) \X {Len(history[r]) + 1} <=>
                subPc[c] = "in" /\ subRun[c] = r /\ n = Len(history[r]) + 1
        BY DEF Live
      <3>. QED BY <2>2, <3>1, <3>2 DEF Upto
    <2>. QED BY <2>1, <2>2
  <1>5. Upto(c)' = IF subRun[c] = r THEN Upto(c) + 1 ELSE Upto(c)
    <2>1. subRun' = subRun /\ subRun[c] \in Runs
      OBVIOUS
    <2>2. CASE subRun[c] = r
      BY <1>2, <1>3, <2>1, <2>2 DEF Upto
    <2>3. CASE subRun[c] # r
      BY <1>3, <2>1, <2>3 DEF Upto
    <2>. QED BY <2>2, <2>3
  <1>6. Upto(c) \in Nat
    BY <1>2 DEF Upto
  <1>. QED BY <1>1, <1>4, <1>5, <1>6

-----------------------------------------------------------------------------
(* Preservation                                                              *)

LEMMA FeedPublish ==
    ASSUME FeedInv, NEW t \in Threads, NEW r \in Runs, NEW e \in Events,
           Publish(t, r, e), UNCHANGED subVars, NEW c \in Subscribers
    PROVE  FeedOf(c)'
  <1>1. /\ FeedOf(c) /\ TypeInv
        /\ subPc' = subPc /\ sent' = sent /\ nread' = nread /\ dropped' = dropped
    BY DEF FeedInv, subVars
  <1>2. /\ subPc[c] # "replay"
        /\ Upto(c) \in Nat
        /\ Upto(c)' = IF subRun[c] = r THEN Upto(c) + 1 ELSE Upto(c)
        /\ \A u \in Threads, n \in Nat :
             Owes(u, c, n)' <=>
               \/ Owes(u, c, n)
               \/ u = t /\ subPc[c] = "in" /\ subRun[c] = r /\ n = Upto(c) + 1
    BY <1>1, PublishAdds
  <1>3. Slots(c)' = Slots(c)
    BY <1>1 DEF Slots
  <1>4. Joining(c)'
    BY <1>1, <1>2, <1>3 DEF FeedOf, Joining
  <1>5. Published(c)'
    BY <1>1, <1>2, <1>3 DEF FeedOf, Published
  <1>6. Once(c)'
    <2>1. Upto(c) + 1 \notin dropped[c] /\ \A p \in Slots(c) : sent[c][p] # Upto(c) + 1
      BY <1>1, <1>2 DEF FeedOf, Published
    <2>2. \A u \in Threads : ~Owes(u, c, Upto(c) + 1)
      BY <1>1, <1>2 DEF FeedOf, Published
    <2>3. \A u \in Threads, n \in Nat : Owes(u, c, n)' =>
            n \notin dropped[c] /\ \A p \in Slots(c) : sent[c][p] # n
      BY <1>1, <1>2, <2>1 DEF FeedOf, Once
    <2>4. \A u, v \in Threads, n \in Nat : Owes(u, c, n)' /\ Owes(v, c, n)' => u = v
      BY <1>1, <1>2, <2>2 DEF FeedOf, Once
    <2>. QED BY <1>1, <1>3, <2>3, <2>4 DEF FeedOf, Once
  <1>7. Whole(c)'
    <2>. SUFFICES ASSUME subPc[c] = "in", NEW n \in 1..Upto(c)'
                  PROVE  \/ \E p \in Slots(c) : sent[c][p] = n
                         \/ n \in dropped[c]
                         \/ \E u \in Threads : Owes(u, c, n)'
      BY <1>1, <1>3 DEF Whole
    <2>1. CASE n \in 1..Upto(c)
      BY <1>1, <1>2, <2>1 DEF FeedOf, Whole
    <2>2. CASE subRun[c] = r /\ n = Upto(c) + 1
      BY <1>2, <2>2
    <2>. QED BY <1>2, <2>1, <2>2
  <1>. QED BY <1>4, <1>5, <1>6, <1>7 DEF FeedOf

\* Nothing a feed invariant is about changes for subscriber c.
LEMMA FeedKept ==
    ASSUME NEW c, FeedOf(c), subPc'[c] = subPc[c], Upto(c)' = Upto(c),
           sent'[c] = sent[c], nread'[c] = nread[c], dropped'[c] = dropped[c],
           \A t \in Threads, n \in Nat : Owes(t, c, n)' <=> Owes(t, c, n)
    PROVE  FeedOf(c)'
  <1>1. Slots(c)' = Slots(c)
    BY DEF Slots
  <1>. QED BY <1>1 DEF FeedOf, Joining, Published, Once, Whole

LEMMA FeedDeliver ==
    ASSUME FeedInv, NEW t \in Threads, NEW c \in Subscribers, NEW n \in Nat \ {0},
           Deliver(t, c, n), NEW d \in Subscribers
    PROVE  FeedOf(d)'
  <1>1. /\ TypeInv /\ FeedOf(d) /\ FeedOf(c)
        /\ subPc' = subPc /\ nread' = nread /\ Upto(d)' = Upto(d)
    BY DEF FeedInv, Deliver, Upto
  <1>2. /\ Owes(t, c, n)
        /\ \A u \in Threads, b \in Subscribers, m \in Nat :
             Owes(u, b, m)' <=> Owes(u, b, m) /\ ~(u = t /\ b = c /\ m = n)
    BY <1>1 DEF Deliver, Owes, TypeInv, TypeOK
  <1>3. /\ n \in 1..Upto(c) /\ subPc[c] \in {"in", "gone"}
        /\ n \notin dropped[c] /\ \A p \in Slots(c) : sent[c][p] # n
        /\ \A u \in Threads : Owes(u, c, n) => u = t
    <2>1. subPc[c] \in {"out", "replay", "in", "gone"}
      BY <1>1 DEF TypeInv, TypeOK
    <2>. QED BY <1>1, <1>2, <2>1 DEF FeedOf, Joining, Published, Once
  <1>4. CASE d # c
    <2>1. sent'[d] = sent[d] /\ dropped'[d] = dropped[d]
      BY <1>1, <1>4 DEF Deliver, TypeInv, TypeOK
    <2>. QED BY <1>1, <1>2, <1>4, <2>1, FeedKept
  <1>5. CASE d = c
    <2>0. \A u \in Threads, m \in Nat : Owes(u, c, m)' <=> Owes(u, c, m) /\ m # n
      BY <1>2, <1>3
    <2>1. CASE /\ sent' = [sent EXCEPT ![c] = Append(@, n)] /\ dropped' = dropped
      <3>1. sent[c] \in Seq(Nat \ {0}) /\ sent'[c] = Append(sent[c], n)
        BY <1>1, <2>1 DEF TypeInv, TypeOK
      <3>2. /\ Slots(c)' = Slots(c) \cup {Len(sent[c]) + 1}
            /\ Len(sent[c]) + 1 \notin Slots(c)
            /\ sent'[c][Len(sent[c]) + 1] = n
            /\ \A p \in Slots(c) : sent'[c][p] = sent[c][p]
        BY <3>1 DEF Slots
      <3>3. Joining(c)'
        BY <1>1, <1>3 DEF Joining
      <3>4. Published(c)'
        BY <1>1, <1>3, <1>5, <2>0, <2>1, <3>2 DEF FeedOf, Published
      <3>5. Once(c)'
        BY <1>1, <1>3, <2>0, <2>1, <3>2 DEF FeedOf, Once
      <3>6. Whole(c)'
        <4>. SUFFICES ASSUME subPc[c] = "in", NEW m \in 1..Upto(c)
                      PROVE  \/ \E p \in Slots(c)' : sent'[c][p] = m
                             \/ m \in dropped[c]
                             \/ \E u \in Threads : Owes(u, c, m)'
          BY <1>1, <1>5, <2>1 DEF Whole
        <4>1. CASE m = n
          BY <3>2, <4>1
        <4>2. CASE m # n
          BY <1>1, <1>3, <2>0, <3>2, <4>2 DEF FeedOf, Whole
        <4>. QED BY <4>1, <4>2
      <3>. QED BY <1>5, <3>3, <3>4, <3>5, <3>6 DEF FeedOf
    <2>2. CASE /\ dropped' = [dropped EXCEPT ![c] = @ \cup {n}] /\ sent' = sent
      <3>1. dropped'[c] = dropped[c] \cup {n} /\ Slots(c)' = Slots(c)
        BY <1>1, <2>2 DEF TypeInv, TypeOK, Slots
      <3>2. Joining(c)'
        BY <1>1, <1>3 DEF Joining
      <3>3. Published(c)'
        BY <1>1, <1>3, <1>5, <2>0, <2>2, <3>1 DEF FeedOf, Published
      <3>4. Once(c)'
        BY <1>1, <1>3, <2>0, <2>2, <3>1 DEF FeedOf, Once
      <3>5. Whole(c)'
        BY <1>1, <1>3, <1>5, <2>0, <2>2, <3>1 DEF FeedOf, Whole
      <3>. QED BY <1>5, <3>2, <3>3, <3>4, <3>5 DEF FeedOf
    <2>. QED BY <2>1, <2>2 DEF Deliver
  <1>. QED BY <1>4, <1>5

LEMMA FeedSubStep ==
    ASSUME FeedInv, NEW c \in Subscribers, SubStep(c), NEW d \in Subscribers
    PROVE  FeedOf(d)'
  <1>1. /\ TypeInv /\ FeedOf(d)
        /\ history' = history /\ pub' = pub /\ subRun' = subRun /\ dropped' = dropped
    BY DEF FeedInv, SubStep, SubscribeLock, SubscribeReplay, SubscribeReturn, Receive,
       Unsubscribe, feedVars
  <1>2. Upto(d)' = Upto(d) /\ \A t \in Threads, n \in Nat : Owes(t, d, n)' <=> Owes(t, d, n)
    BY <1>1 DEF Upto, Owes
  <1>3. CASE d # c
    <2>1. subPc'[d] = subPc[d] /\ sent'[d] = sent[d] /\ nread'[d] = nread[d]
      BY <1>1, <1>3 DEF SubStep, SubscribeLock, SubscribeReplay, SubscribeReturn, Receive,
         Unsubscribe, TypeInv, TypeOK
    <2>. QED BY <1>1, <1>2, <2>1, FeedKept
  <1>4. CASE d = c /\ SubscribeReplay(c)
    <2>1. /\ sent[c] \in Seq(Nat \ {0}) /\ sent'[c] = Append(sent[c], Len(sent[c]) + 1)
          /\ Len(sent[c]) \in Nat /\ Len(sent[c]) < Upto(c) /\ Upto(c) \in Nat
          /\ subPc[c] = "replay" /\ subPc' = subPc /\ nread' = nread
      BY <1>1, <1>4 DEF SubscribeReplay, TypeInv, TypeOK, Upto
    <2>2. /\ Slots(c)' = Slots(c) \cup {Len(sent[c]) + 1}
          /\ Len(sent'[c]) = Len(sent[c]) + 1
          /\ sent'[c][Len(sent[c]) + 1] = Len(sent[c]) + 1
          /\ \A p \in Slots(c) : sent'[c][p] = sent[c][p]
      BY <2>1 DEF Slots
    <2>3. \A p \in Slots(c)' : sent'[c][p] = p
      BY <1>1, <1>4, <2>1, <2>2 DEF FeedOf, Joining
    <2>4. Joining(c)'
      <3>1. Len(sent'[c]) <= Upto(c)'
        BY <1>2, <1>4, <2>1, <2>2
      <3>2. /\ nread'[c] = 0 /\ dropped'[c] = {}
            /\ \A t \in Threads, n \in Nat : ~Owes(t, c, n)'
        BY <1>1, <1>2, <1>4, <2>1 DEF FeedOf, Joining
      <3>. QED BY <2>1, <2>3, <3>1, <3>2 DEF Joining
    <2>5. Published(c)'
      BY <1>1, <1>2, <1>4, <2>1, <2>2, <2>3 DEF FeedOf, Published, Slots
    <2>6. Once(c)'
      BY <1>1, <1>2, <1>4, <2>1, <2>3 DEF FeedOf, Once, Joining
    <2>7. Whole(c)'
      BY <2>1 DEF Whole
    <2>. QED BY <1>4, <2>4, <2>5, <2>6, <2>7 DEF FeedOf
  <1>5. CASE d = c /\ SubscribeReturn(c)
    <2>1. /\ subPc[c] = "replay" /\ subPc'[c] = "in" /\ sent' = sent /\ nread' = nread
          /\ Len(sent[c]) = Upto(c) /\ Slots(c)' = Slots(c)
      BY <1>1, <1>5 DEF SubscribeReturn, TypeInv, TypeOK, Upto, Slots
    <2>2. \A n \in 1..Upto(c) : n \in Slots(c) /\ sent[c][n] = n
      BY <1>1, <1>5, <2>1 DEF FeedOf, Joining, Slots
    <2>3. Whole(c)'
      BY <1>2, <1>5, <2>1, <2>2 DEF Whole
    <2>. QED BY <1>1, <1>2, <1>5, <2>1, <2>3 DEF FeedOf, Joining, Published, Once
  <1>6. CASE d = c /\ (SubscribeLock(c) \/ Receive(c) \/ Unsubscribe(c))
    <2>1. /\ sent' = sent /\ Slots(c)' = Slots(c)
          /\ \/ subPc[c] = "out" /\ subPc'[c] = "replay" /\ nread' = nread
             \/ subPc[c] = "in" /\ subPc'[c] = "in"
             \/ subPc[c] = "in" /\ subPc'[c] = "gone"
      BY <1>1, <1>6 DEF SubscribeLock, Receive, Unsubscribe, TypeInv, TypeOK, Slots
    <2>2. Upto(c) \in Nat /\ (sent[c] = <<>> => Len(sent[c]) = 0 /\ Slots(c) = {})
      BY <1>1 DEF Upto, TypeInv, TypeOK, Slots
    <2>3. Joining(c)'
      BY <1>1, <1>2, <1>6, <2>1, <2>2 DEF FeedOf, Joining
    <2>. QED BY <1>1, <1>2, <1>6, <2>1, <2>3 DEF FeedOf, Published, Once, Whole
  <1>. QED BY <1>3, <1>4, <1>5, <1>6 DEF SubStep

LEMMA FeedInit == Init => FeedInv
  <1>. SUFFICES ASSUME Init, NEW c \in Subscribers PROVE FeedOf(c)
    BY TypeInvInit DEF FeedInv
  <1>1. /\ subPc[c] = "out" /\ sent[c] = <<>> /\ nread[c] = 0 /\ dropped[c] = {}
        /\ Slots(c) = {} /\ \A t \in Threads, n \in Nat : ~Owes(t, c, n)
    BY DEF Init, Slots, Owes
  <1>. QED BY <1>1 DEF FeedOf, Joining, Published, Once, Whole

LEMMA FeedStep == FeedInv /\ [Next]_vars => FeedInv'
  <1>. SUFFICES ASSUME FeedInv, [Next]_vars, NEW c \in Subscribers
                PROVE  FeedOf(c)'
    BY TypeInvStep DEF FeedInv
  <1>0. TypeInv /\ FeedOf(c)
    BY DEF FeedInv
  <1>1. CASE UNCHANGED <<feedVars, subVars>>
    BY <1>0, <1>1, FeedKept DEF feedVars, subVars, Upto, Owes
  <1>2. CASE UNCHANGED subVars /\ \E t \in Threads, r \in Runs, e \in Events : Publish(t, r, e)
    BY <1>2, FeedPublish
  <1>3. CASE \E d \in Subscribers : SubStep(d)
    BY <1>3, FeedSubStep
  <1>4. CASE Sending
    <2>1. PICK t \in Threads : \E d \in pub[t] : Deliver(t, d[1], d[2])
      BY <1>4 DEF Sending
    <2>2. PICK d \in pub[t] : Deliver(t, d[1], d[2])
      BY <2>1
    <2>3. d[1] \in Subscribers /\ d[2] \in Nat \ {0}
      BY <1>0 DEF TypeInv, TypeOK
    <2>. QED BY <2>2, <2>3, FeedDeliver
  <1>. QED BY <1>0, <1>1, <1>2, <1>3, <1>4, FeedMoves

LEMMA Fed == Spec => []FeedInv
  BY FeedInit, FeedStep, PTL DEF Spec

-----------------------------------------------------------------------------
(* Theorems                                                                  *)

LEMMA HistoryLength ==
    ASSUME TypeInv, NEW c \in Subscribers
    PROVE  /\ Upto(c) \in Nat /\ DOMAIN history[subRun[c]] = 1..Upto(c)
           /\ sent[c] \in Seq(Nat \ {0}) /\ DOMAIN sent[c] = Slots(c)
           /\ Len(sent[c]) \in Nat
  BY DEF TypeInv, TypeOK, Upto, Slots

LEMMA OwedOf ==
    ASSUME TypeInv, NEW c \in Subscribers, Published(c)
    PROVE  \A n : n \in Owed(c) <=> n \in Nat /\ \E t \in Threads : Owes(t, c, n)
  <1>1. \A n \in 1..Upto(c) : n \in Nat
    BY HistoryLength
  <1>. QED BY <1>1, HistoryLength DEF Owed, Owes, Published

\* No event reaches a channel twice, is dropped after it was sent, or is owed
\* by two publishers.
THEOREM FeedsNeverRepeat == Spec => []NeverTwice
  <1>1. FeedInv => NeverTwice
    <2>. SUFFICES ASSUME FeedInv, NEW c \in Subscribers
                  PROVE
                    /\ \A p, q \in DOMAIN sent[c] : sent[c][p] = sent[c][q] => p = q
                    /\ Delivered(c) \cap dropped[c] = {}
                    /\ Owed(c) \cap (Delivered(c) \cup dropped[c]) = {}
                    /\ \A t, u \in Threads, n \in Owed(c) :
                         <<c, n>> \in pub[t] /\ <<c, n>> \in pub[u] => t = u
      BY DEF NeverTwice
    <2>1. TypeInv /\ FeedOf(c)
      BY DEF FeedInv
    <2>2. DOMAIN sent[c] = Slots(c)
      BY <2>1, HistoryLength
    <2>3. \A n : n \in Owed(c) <=> n \in Nat /\ \E t \in Threads : Owes(t, c, n)
      BY <2>1, OwedOf DEF FeedOf
    <2>4. \A p, q \in DOMAIN sent[c] : sent[c][p] = sent[c][q] => p = q
      BY <2>1, <2>2 DEF FeedOf, Once
    <2>5. Delivered(c) \cap dropped[c] = {}
      BY <2>1, <2>2 DEF FeedOf, Once, Delivered
    <2>6. Owed(c) \cap (Delivered(c) \cup dropped[c]) = {}
      BY <2>1, <2>2, <2>3 DEF FeedOf, Once, Delivered
    <2>7. \A t, u \in Threads, n \in Owed(c) :
            <<c, n>> \in pub[t] /\ <<c, n>> \in pub[u] => t = u
      BY <2>1, <2>3 DEF FeedOf, Once, Owes
    <2>. QED BY <2>4, <2>5, <2>6, <2>7
  <1>. QED BY <1>1, Fed, PTL

\* Between the replay and the live feed no event is lost.
THEOREM FeedsHaveNoGap == Spec => []NoGap
  <1>1. FeedInv => NoGap
    <2>. SUFFICES ASSUME FeedInv, NEW c \in Subscribers, subPc[c] = "in",
                         NEW n \in DOMAIN history[subRun[c]]
                  PROVE  n \in Delivered(c) \cup dropped[c] \cup Owed(c)
      BY DEF NoGap
    <2>1. TypeInv /\ FeedOf(c)
      BY DEF FeedInv
    <2>2. n \in 1..Upto(c) /\ DOMAIN sent[c] = Slots(c) /\ Upto(c) \in Nat
      BY <2>1, HistoryLength
    <2>3. n \in Nat
      BY <2>2
    <2>. QED BY <2>1, <2>2, <2>3, OwedOf DEF FeedOf, Whole, Delivered
  <1>. QED BY <1>1, Fed, PTL

-----------------------------------------------------------------------------
(* The service's feeds implement EventFeed.                                  *)

Flength == [r \in Runs |-> Len(history[r])]
Fstate  == [c \in Subscribers |-> IF subPc[c] = "replay" THEN "out" ELSE subPc[c]]
Fgot    == [c \in Subscribers |-> IF subPc[c] = "replay" THEN {} ELSE Delivered(c)]
Fowed   == [c \in Subscribers |-> Owed(c)]

\* A channel holds as many events as it was sent.
LEMMA DeliveredCount ==
    ASSUME TypeInv, NEW c \in Subscribers, Once(c)
    PROVE  Cardinality(Delivered(c)) = Len(sent[c])
  <1>1. /\ sent[c] \in [Slots(c) -> Delivered(c)]
        /\ \A n \in Delivered(c) : \E p \in Slots(c) : sent[c][p] = n
        /\ \A p, q \in Slots(c) : sent[c][p] = sent[c][q] => p = q
    <2>1. sent[c] \in Seq(Nat \ {0}) /\ DOMAIN sent[c] = Slots(c)
      BY HistoryLength
    <2>2. sent[c] = [p \in Slots(c) |-> sent[c][p]]
      BY <2>1
    <2>. QED BY <2>1, <2>2 DEF Once, Delivered
  <1>2. sent[c] \in Bijection(Slots(c), Delivered(c))
    BY <1>1 DEF Bijection, Injection, Surjection, IsInjective
  <1>3. ExistsBijection(1..Len(sent[c]), Delivered(c))
    BY <1>2 DEF ExistsBijection, Slots
  <1>. QED BY <1>3, HistoryLength, FS_CountingElements

\* OwedOf, after a step.
LEMMA OwedNext ==
    ASSUME TypeInv', NEW c \in Subscribers, Published(c)'
    PROVE  \A n : n \in Owed(c)' <=> n \in Nat /\ \E t \in Threads : Owes(t, c, n)'
  <1>1. Upto(c)' \in Nat /\ DOMAIN history'[subRun'[c]] = 1..Upto(c)'
    BY DEF TypeInv, TypeOK, Upto
  <1>2. \A n \in 1..Upto(c)' : n \in Nat
    BY <1>1
  <1>. QED BY <1>1, <1>2 DEF Owed, Owes, Published

\* EventFeed counts as this module does.
LEMMA FeedCounts == \A S : Feed!Cardinality(S) = Cardinality(S)
  BY Zenon DEF Feed!Cardinality, Cardinality

\* Two actions of EventFeed in this module's words.
LEMMA LoseIs ==
    ASSUME NEW c, NEW n
    PROVE  Feed!Lose(c, n) <=>
             /\ n \in Fowed[c]
             /\ Cardinality(Fgot[c]) - nread[c] >= BufCap
             /\ Fowed' = [Fowed EXCEPT ![c] = @ \ {n}]
             /\ dropped' = [dropped EXCEPT ![c] = @ \cup {n}]
             /\ UNCHANGED <<Flength, subRun, Fstate, Fgot, nread>>
  BY FeedCounts DEF Feed!Lose, Flength, Fstate, Fgot, Fowed

LEMMA ConsumeIs ==
    ASSUME NEW c
    PROVE  Feed!Consume(c) <=>
             /\ Fstate[c] = "in" /\ nread[c] < Cardinality(Fgot[c])
             /\ nread' = [nread EXCEPT ![c] = @ + 1]
             /\ UNCHANGED <<Flength, subRun, Fstate, Fgot, Fowed, dropped>>
  BY FeedCounts DEF Feed!Consume, Flength, Fstate, Fgot, Fowed

LEMMA FeedInitially == Init => Feed!FeedInit
  BY DEF Init, Feed!FeedInit, Delivered, Owed

LEMMA EmitStep ==
    ASSUME FeedInv, FeedInv', NEW t \in Threads, NEW r \in Runs, NEW e \in Events,
           Publish(t, r, e), UNCHANGED subVars
    PROVE  Feed!Emit(r)
  <1>1. TypeInv /\ TypeInv'
    BY DEF FeedInv
  <1>2. Flength' = [Flength EXCEPT ![r] = @ + 1]
    <2>1. history[r] \in Seq(Events) /\ history' = [history EXCEPT ![r] = Append(@, e)]
      BY <1>1 DEF TypeInv, TypeOK, Publish
    <2>2. Len(Append(history[r], e)) = Len(history[r]) + 1
      BY <2>1
    <2>. QED BY <1>1, <2>1, <2>2 DEF Flength, TypeInv, TypeOK
  <1>3. ASSUME NEW c \in Subscribers
        PROVE  Owed(c)' = IF Fstate[c] = "in" /\ subRun[c] = r
                          THEN Owed(c) \cup {Flength[r] + 1} ELSE Owed(c)
    <2>1. FeedOf(c) /\ FeedOf(c)'
      BY DEF FeedInv
    <2>2. \A n : n \in Owed(c) <=> n \in Nat /\ \E u \in Threads : Owes(u, c, n)
      BY <1>1, <2>1, OwedOf DEF FeedOf
    <2>3. \A n : n \in Owed(c)' <=> n \in Nat /\ \E u \in Threads : Owes(u, c, n)'
      BY <1>1, <2>1, OwedNext DEF FeedOf
    <2>4. \A u \in Threads, n \in Nat :
            Owes(u, c, n)' <=>
              \/ Owes(u, c, n)
              \/ u = t /\ subPc[c] = "in" /\ subRun[c] = r /\ n = Upto(c) + 1
      BY <1>1, PublishAdds
    <2>5. subRun[c] = r => Flength[r] = Upto(c)
      BY DEF Flength, Upto
    <2>6. Upto(c) + 1 \in Nat
      BY <1>1, HistoryLength
    <2>7. Fstate[c] = "in" <=> subPc[c] = "in"
      BY DEF Fstate
    <2>8. CASE subPc[c] = "in" /\ subRun[c] = r
      <3>1. \A n : n \in Owed(c)' <=> n \in Owed(c) \/ n = Upto(c) + 1
        BY <2>2, <2>3, <2>4, <2>6, <2>8
      <3>. QED BY <2>5, <2>7, <2>8, <3>1
    <2>9. CASE ~(subPc[c] = "in" /\ subRun[c] = r)
      <3>1. \A n : n \in Owed(c)' <=> n \in Owed(c)
        BY <2>2, <2>3, <2>4, <2>9
      <3>. QED BY <2>7, <2>9, <3>1
    <2>. QED BY <2>8, <2>9
  <1>4. Fowed' = [c \in Subscribers |->
                    IF Fstate[c] = "in" /\ subRun[c] = r
                    THEN Fowed[c] \cup {Flength[r] + 1} ELSE Fowed[c]]
    BY <1>3 DEF Fowed
  <1>5. Fstate' = Fstate /\ Fgot' = Fgot /\ UNCHANGED <<subRun, nread, dropped>>
    BY DEF subVars, Fstate, Fgot, Delivered
  <1>. QED BY <1>2, <1>4, <1>5 DEF Feed!Emit, Flength, Fowed, Fstate, Fgot

LEMMA SendStep ==
    ASSUME FeedInv, FeedInv', NEW t \in Threads, NEW c \in Subscribers,
           NEW n \in Nat \ {0}, Deliver(t, c, n)
    PROVE  n \in Owed(c) /\ (Feed!Hand(c, n) \/ Feed!Lose(c, n))
  <1>1. /\ TypeInv /\ TypeInv' /\ FeedOf(c)
        /\ UNCHANGED <<history, subPc, subRun, nread>>
    BY DEF FeedInv, Deliver
  <1>2. /\ Owes(t, c, n)
        /\ \A u \in Threads, b \in Subscribers, m \in Nat :
             Owes(u, b, m)' <=> Owes(u, b, m) /\ ~(u = t /\ b = c /\ m = n)
    BY <1>1 DEF Deliver, Owes, TypeInv, TypeOK
  <1>3. /\ n \in Owed(c) /\ subPc[c] \in {"in", "gone"}
        /\ \A u \in Threads : Owes(u, c, n) => u = t
    <2>1. subPc[c] \in {"out", "replay", "in", "gone"}
      BY <1>1 DEF TypeInv, TypeOK
    <2>. QED BY <1>1, <1>2, <2>1, OwedOf DEF FeedOf, Joining, Once
  <1>4. ASSUME NEW b \in Subscribers
        PROVE  Owed(b)' = IF b = c THEN Owed(b) \ {n} ELSE Owed(b)
    <2>1. FeedOf(b) /\ FeedOf(b)'
      BY DEF FeedInv
    <2>2. \A m : m \in Owed(b) <=> m \in Nat /\ \E u \in Threads : Owes(u, b, m)
      BY <1>1, <2>1, OwedOf DEF FeedOf
    <2>3. \A m : m \in Owed(b)' <=> m \in Nat /\ \E u \in Threads : Owes(u, b, m)'
      BY <1>1, <2>1, OwedNext DEF FeedOf
    <2>4. CASE b = c
      <3>1. \A m : m \in Owed(c)' <=> m \in Owed(c) /\ m # n
        BY <1>2, <1>3, <2>2, <2>3, <2>4
      <3>. QED BY <2>4, <3>1
    <2>5. CASE b # c
      <3>1. \A m : m \in Owed(b)' <=> m \in Owed(b)
        BY <1>2, <2>2, <2>3, <2>5
      <3>. QED BY <2>5, <3>1
    <2>. QED BY <2>4, <2>5
  <1>5. Fowed' = [Fowed EXCEPT ![c] = @ \ {n}]
    BY <1>4 DEF Fowed
  <1>6. /\ Flength' = Flength /\ Fstate' = Fstate
        /\ Fowed[c] = Owed(c) /\ Fgot[c] = Delivered(c)
    BY <1>1, <1>3 DEF Flength, Fstate, Fowed, Fgot
  <1>7. CASE sent' = [sent EXCEPT ![c] = Append(@, n)] /\ dropped' = dropped
    <2>1. sent[c] \in Seq(Nat \ {0}) /\ sent'[c] = Append(sent[c], n)
          /\ \A b \in Subscribers \ {c} : sent'[b] = sent[b]
      BY <1>1, <1>7 DEF TypeInv, TypeOK
    <2>2. Delivered(c)' = Delivered(c) \cup {n}
      <3>1. /\ DOMAIN sent[c] = 1..Len(sent[c]) /\ Len(sent[c]) \in Nat
            /\ DOMAIN sent'[c] = DOMAIN sent[c] \cup {Len(sent[c]) + 1}
            /\ \A p \in DOMAIN sent[c] : sent'[c][p] = sent[c][p]
            /\ sent'[c][Len(sent[c]) + 1] = n
        BY <2>1
      <3>. QED BY <3>1 DEF Delivered
    <2>3. \A b \in Subscribers \ {c} : Delivered(b)' = Delivered(b)
      BY <2>1 DEF Delivered
    <2>4. Fgot' = [Fgot EXCEPT ![c] = @ \cup {n}]
      BY <1>1, <1>3, <2>2, <2>3 DEF Fgot
    <2>5. Feed!Hand(c, n)
      BY <1>1, <1>3, <1>5, <1>6, <1>7, <2>4 DEF Feed!Hand, Flength, Fstate, Fgot, Fowed
    <2>. QED BY <1>3, <2>5
  <1>8. CASE /\ ~HasRoom(c) /\ sent' = sent
             /\ dropped' = [dropped EXCEPT ![c] = @ \cup {n}]
    <2>1. Cardinality(Fgot[c]) - nread[c] >= BufCap
      <3>1. Len(sent[c]) \in Nat /\ nread[c] \in Nat
        BY <1>1, HistoryLength DEF TypeInv, TypeOK
      <3>2. Cardinality(Fgot[c]) = Len(sent[c])
        BY <1>1, <1>6, DeliveredCount DEF FeedOf
      <3>. QED BY <1>8, <3>1, <3>2, BufCapAssumption DEF HasRoom
    <2>2. Fgot' = Fgot
      BY <1>1, <1>8 DEF Fgot, Delivered
    <2>3. Feed!Lose(c, n)
      BY <1>1, <1>3, <1>5, <1>6, <1>8, <2>1, <2>2, LoseIs
    <2>. QED BY <1>3, <2>3
  <1>. QED BY <1>7, <1>8 DEF Deliver

LEMMA SubscriberStep ==
    ASSUME FeedInv, NEW c \in Subscribers, SubStep(c)
    PROVE  \/ Feed!Join(c) \/ Feed!Consume(c) \/ Feed!Leave(c)
           \/ UNCHANGED Feed!feed
  <1>1. /\ TypeInv /\ FeedOf(c)
        /\ UNCHANGED <<history, pub, subRun, dropped>>
        /\ subPc[c] \in {"out", "replay", "in", "gone"}
    BY DEF FeedInv, TypeInv, TypeOK, SubStep, SubscribeLock, SubscribeReplay,
       SubscribeReturn, Receive, Unsubscribe, feedVars
  <1>2. Flength' = Flength /\ Fowed' = Fowed
    BY <1>1 DEF Flength, Fowed, Owed
  <1>3. CASE SubscribeLock(c)
    <2>1. Delivered(c) = {} /\ sent' = sent
      BY <1>1, <1>3 DEF SubscribeLock, FeedOf, Joining, Delivered
    <2>2. /\ subPc[c] = "out" /\ subPc'[c] = "replay"
          /\ \A b \in Subscribers \ {c} : subPc'[b] = subPc[b]
      BY <1>1, <1>3 DEF SubscribeLock, TypeInv, TypeOK
    <2>3. Fstate' = Fstate
      BY <2>2 DEF Fstate
    <2>4. \A b \in Subscribers : Delivered(b)' = Delivered(b)
      BY <2>1 DEF Delivered
    <2>5. Fgot' = Fgot
      BY <2>1, <2>2, <2>4 DEF Fgot
    <2>. QED BY <1>1, <1>2, <1>3, <2>3, <2>5
         DEF Feed!feed, SubscribeLock, Flength, Fowed, Fstate, Fgot
  <1>4. CASE SubscribeReplay(c)
    <2>1. \A b \in Subscribers : subPc[b] # "replay" => sent'[b] = sent[b]
      BY <1>1, <1>4 DEF SubscribeReplay, TypeInv, TypeOK
    <2>2. \A b \in Subscribers : subPc[b] # "replay" => Delivered(b)' = Delivered(b)
      BY <2>1 DEF Delivered
    <2>3. subPc' = subPc
      BY <1>4 DEF SubscribeReplay
    <2>4. Fstate' = Fstate
      BY <2>3 DEF Fstate
    <2>5. Fgot' = Fgot
      BY <2>2, <2>3 DEF Fgot
    <2>. QED BY <1>1, <1>2, <1>4, <2>4, <2>5
         DEF Feed!feed, SubscribeReplay, Flength, Fowed, Fstate, Fgot
  <1>5. CASE SubscribeReturn(c)
    <2>1. /\ subPc[c] = "replay" /\ subPc' = [subPc EXCEPT ![c] = "in"]
          /\ sent' = sent /\ nread' = nread /\ Len(sent[c]) = Upto(c)
      BY <1>5 DEF SubscribeReturn, Upto
    <2>2. Delivered(c) = 1..Upto(c)
      BY <1>1, <2>1, HistoryLength DEF FeedOf, Joining, Delivered, Slots
    <2>3. Fstate[c] = "out" /\ Fstate' = [Fstate EXCEPT ![c] = "in"]
      BY <1>1, <2>1 DEF Fstate, TypeInv, TypeOK
    <2>4. Upto(c) = Flength[subRun[c]]
      BY <1>1 DEF Flength, Upto, TypeInv, TypeOK
    <2>5. Fgot' = [Fgot EXCEPT ![c] = 1..Flength[subRun[c]]]
      <3>1. /\ subPc'[c] = "in"
            /\ \A b \in Subscribers \ {c} : subPc'[b] = subPc[b]
        BY <1>1, <2>1 DEF TypeInv, TypeOK
      <3>2. \A b \in Subscribers : Delivered(b)' = Delivered(b)
        BY <2>1 DEF Delivered
      <3>. QED BY <2>2, <2>4, <3>1, <3>2 DEF Fgot
    <2>6. Feed!Join(c)
      BY <1>1, <1>2, <2>1, <2>3, <2>5 DEF Feed!Join, Flength, Fowed, Fstate, Fgot
    <2>. QED BY <2>6
  <1>6. CASE Receive(c)
    <2>1. /\ subPc[c] = "in" /\ nread[c] < Len(sent[c])
          /\ nread' = [nread EXCEPT ![c] = @ + 1]
          /\ subPc' = subPc /\ sent' = sent
      BY <1>6 DEF Receive
    <2>2. Fstate' = Fstate /\ Fgot' = Fgot /\ Fstate[c] = "in" /\ Fgot[c] = Delivered(c)
      BY <2>1 DEF Fstate, Fgot, Delivered
    <2>3. Cardinality(Fgot[c]) = Len(sent[c])
      BY <1>1, <2>2, DeliveredCount DEF FeedOf
    <2>4. nread[c] < Cardinality(Fgot[c])
      BY <2>1, <2>3
    <2>5. Feed!Consume(c)
      BY <1>1, <1>2, <2>1, <2>2, <2>4, ConsumeIs
    <2>. QED BY <2>5
  <1>7. CASE Unsubscribe(c)
    <2>1. /\ subPc[c] = "in" /\ subPc' = [subPc EXCEPT ![c] = "gone"]
          /\ sent' = sent /\ nread' = nread
      BY <1>7 DEF Unsubscribe
    <2>2. /\ Fstate[c] = "in" /\ Fstate' = [Fstate EXCEPT ![c] = "gone"]
          /\ Fgot' = Fgot
      <3>1. /\ subPc'[c] = "gone"
            /\ \A b \in Subscribers \ {c} : subPc'[b] = subPc[b]
        BY <1>1, <2>1 DEF TypeInv, TypeOK
      <3>2. \A b \in Subscribers : Delivered(b)' = Delivered(b)
        BY <2>1 DEF Delivered
      <3>3. Fgot' = Fgot
        BY <2>1, <3>1, <3>2 DEF Fgot
      <3>4. Fstate[c] = "in" /\ Fstate' = [Fstate EXCEPT ![c] = "gone"]
        BY <2>1, <3>1 DEF Fstate
      <3>. QED BY <3>3, <3>4
    <2>3. Feed!Leave(c)
      BY <1>1, <1>2, <2>1, <2>2 DEF Feed!Leave, Flength, Fowed, Fstate, Fgot
    <2>. QED BY <2>3
  <1>. QED BY <1>3, <1>4, <1>5, <1>6, <1>7 DEF SubStep

\* The feeds the run service offers are those of EventFeed: a reader joins with
\* the whole past and loses later events only when a full backlog behind.
THEOREM FeedsImplemented == Spec => ImplementsEventFeed
  <1>1. FeedInv /\ FeedInv' /\ [Next]_vars => [Feed!FeedNext]_(Feed!feed)
    <2>. SUFFICES ASSUME FeedInv, FeedInv', [Next]_vars
                  PROVE  [Feed!FeedNext]_(Feed!feed)
      OBVIOUS
    <2>0. TypeInv
      BY DEF FeedInv
    <2>1. CASE UNCHANGED <<feedVars, subVars>>
      BY <2>1 DEF feedVars, subVars, Feed!feed, Delivered, Owed
    <2>2. ASSUME UNCHANGED subVars, NEW t \in Threads, NEW r \in Runs, NEW e \in Events,
                 Publish(t, r, e)
          PROVE  [Feed!FeedNext]_(Feed!feed)
      <3>1. Feed!Emit(r)
        BY <2>2, EmitStep
      <3>. QED BY <3>1 DEF Feed!FeedNext
    <2>3. ASSUME NEW c \in Subscribers, SubStep(c)
          PROVE  [Feed!FeedNext]_(Feed!feed)
      <3>1. \/ Feed!Join(c) \/ Feed!Consume(c) \/ Feed!Leave(c)
            \/ UNCHANGED Feed!feed
        BY <2>3, SubscriberStep
      <3>. QED BY <3>1 DEF Feed!FeedNext
    <2>4. CASE Sending
      <3>1. PICK t \in Threads : \E d \in pub[t] : Deliver(t, d[1], d[2])
        BY <2>4 DEF Sending
      <3>2. PICK d \in pub[t] : Deliver(t, d[1], d[2])
        BY <3>1
      <3>3. d[1] \in Subscribers /\ d[2] \in Nat \ {0}
        BY <2>0 DEF TypeInv, TypeOK
      <3>4. PICK c \in Subscribers, n \in Nat \ {0} : Deliver(t, c, n)
        BY <3>2, <3>3
      <3>5. n \in Owed(c) /\ (Feed!Hand(c, n) \/ Feed!Lose(c, n))
        BY <3>4, SendStep
      <3>6. n \in Fowed[c]
        BY <3>5 DEF Fowed
      <3>. QED BY <3>5, <3>6 DEF Feed!FeedNext, Fowed
    <2>. QED BY <2>0, <2>1, <2>2, <2>3, <2>4, FeedMoves
  <1>. QED BY <1>1, FeedInitially, Fed, PTL DEF Spec, ImplementsEventFeed, Feed!FeedSpec

-----------------------------------------------------------------------------
(* The end of a feed                                                         *)

\* run_done is the last word of the execute goroutine, and its status the
\* verdict.
EndOf(r) ==
    \A n \in DOMAIN history[r] : history[r][n].type = "run_done" =>
        /\ pc[r] = "done" /\ history[r][n].status = verdict[r]
        /\ \A m \in DOMAIN history[r] : m > n => Publisher(history[r][m]) # "exec"

EndInv == ControlInv /\ \A r \in Runs : EndOf(r)

\* The feed of a run grows at its end, by events that keep EndOf.
Closing(r, e) ==
    /\ e.type = "run_done" => pc'[r] = "done" /\ e.status = verdict'[r]
    /\ pc[r] = "done" => Publisher(e) # "exec" /\ e.type # "run_done"

LEMMA EndKept ==
    ASSUME TypeInv, NEW r \in Runs, EndOf(r), history'[r] = history[r],
           pc[r] = "done" => pc'[r] = "done" /\ verdict'[r] = verdict[r]
    PROVE  EndOf(r)'
  BY DEF EndOf

LEMMA EndAppended ==
    ASSUME TypeInv, NEW r \in Runs, EndOf(r), NEW e \in Events,
           history'[r] = Append(history[r], e), Closing(r, e),
           pc[r] = "done" => pc'[r] = "done" /\ verdict'[r] = verdict[r]
    PROVE  EndOf(r)'
  <1>1. history[r] \in Seq(Events) /\ Len(history[r]) \in Nat
    BY DEF TypeInv, TypeOK
  <1>2. /\ DOMAIN history[r] = 1..Len(history[r])
        /\ DOMAIN history'[r] = 1..(Len(history[r]) + 1)
        /\ history'[r][Len(history[r]) + 1] = e
        /\ \A n \in 1..Len(history[r]) : history'[r][n] = history[r][n]
    BY <1>1
  <1>. SUFFICES ASSUME NEW n \in 1..(Len(history[r]) + 1),
                       history'[r][n].type = "run_done"
                PROVE  /\ pc'[r] = "done" /\ history'[r][n].status = verdict'[r]
                       /\ \A m \in 1..(Len(history[r]) + 1) : m > n =>
                            Publisher(history'[r][m]) # "exec"
    BY <1>2 DEF EndOf
  <1>3. CASE n = Len(history[r]) + 1
    BY <1>1, <1>2, <1>3 DEF Closing
  <1>4. CASE n # Len(history[r]) + 1
    <2>1. n \in 1..Len(history[r]) /\ history[r][n].type = "run_done"
      BY <1>1, <1>2, <1>4
    <2>2. /\ pc[r] = "done" /\ history[r][n].status = verdict[r]
          /\ \A m \in 1..Len(history[r]) : m > n => Publisher(history[r][m]) # "exec"
      BY <1>2, <2>1 DEF EndOf
    <2>3. Publisher(e) # "exec"
      BY <2>2 DEF Closing
    <2>4. ASSUME NEW m \in 1..(Len(history[r]) + 1), m > n
          PROVE  Publisher(history'[r][m]) # "exec"
      BY <1>1, <1>2, <2>2, <2>3, <2>4
    <2>. QED BY <1>2, <2>1, <2>2, <2>4
  <1>. QED BY <1>3, <1>4

\* The events of a run's own steps.
LEMMA RunStepCloses ==
    ASSUME TypeInv, NEW r \in Runs, RunStep(r)
    PROVE  /\ pc[r] = "done" => pc'[r] = "done" /\ verdict'[r] = verdict[r]
           /\ \/ history' = history
              \/ \E e \in Events : history' = [history EXCEPT ![r] = Append(@, e)]
                                   /\ Closing(r, e)
  <1>. USE DEF TypeInv
  <1>0. pc[r] = "done" => pc'[r] = "done" /\ verdict'[r] = verdict[r]
    BY EndedRunStep DEF Ended, FinishPublish, StepLog, LogEnd, execVars
  <1>1. CASE StartPublish(r)
    <2>1. /\ RunStatusEvent("queued") \in Events /\ pc[r] # "done"
          /\ history' = [history EXCEPT ![r] = Append(@, RunStatusEvent("queued"))]
      BY <1>1, EventTypes DEF StartPublish, Publish
    <2>. QED BY <1>0, <2>1 DEF Closing, RunStatusEvent
  <1>2. CASE ExecAnnounce(r)
    <2>1. /\ RunStatusEvent("running") \in Events /\ pc[r] # "done"
          /\ history' = [history EXCEPT ![r] = Append(@, RunStatusEvent("running"))]
      BY <1>2, EventTypes DEF ExecAnnounce, Publish
    <2>. QED BY <1>0, <2>1 DEF Closing, RunStatusEvent
  <1>3. CASE StepRun(r)
    <2>1. /\ StepStatusEvent(cur[r], "running") \in Events /\ pc[r] # "done"
          /\ history' = [history EXCEPT ![r] = Append(@, StepStatusEvent(cur[r], "running"))]
      BY <1>3, EventTypes DEF StepRun, Publish, CurInRange, StepStatuses, RunStatuses, Active
    <2>. QED BY <1>0, <2>1 DEF Closing, StepStatusEvent
  <1>4. CASE StepReport(r)
    <2>1. cur[r] \in StepIds /\ steps[r][cur[r]] \in StepStatuses
      BY <1>4 DEF StepReport, CurInRange, TypeOK
    <2>2. PICK s \in StepStatuses : s = steps[r][cur[r]]
      BY <2>1
    <2>3. PICK i \in StepIds : i = cur[r]
      BY <2>1
    <2>4. /\ StepStatusEvent(i, s) \in Events /\ pc[r] # "done"
          /\ history' = [history EXCEPT ![r] = Append(@, StepStatusEvent(i, s))]
      BY <1>4, <2>2, <2>3, EventTypes DEF StepReport, Publish
    <2>. QED BY <1>0, <2>4 DEF Closing, StepStatusEvent
  <1>5. CASE StepLog(r)
    <2>1. /\ LogEvent(logging[r]) \in Events
          /\ history' = [history EXCEPT ![r] = Append(@, LogEvent(logging[r]))]
      BY <1>5, EventTypes DEF StepLog, Publish, TypeOK
    <2>. QED BY <1>0, <2>1 DEF Closing, LogEvent, Publisher
  <1>6. CASE FinishPublish(r)
    <2>1. /\ RunDoneEvent(verdict[r]) \in Events /\ pc[r] = "finished"
          /\ pc'[r] = "done" /\ verdict' = verdict
          /\ history' = [history EXCEPT ![r] = Append(@, RunDoneEvent(verdict[r]))]
      BY <1>6, EventTypes DEF FinishPublish, Publish, TypeOK
    <2>. QED BY <1>0, <2>1 DEF Closing, RunDoneEvent
  <1>. QED BY <1>0, <1>1, <1>2, <1>3, <1>4, <1>5, <1>6 DEF RunStep, StartRegister,
       StartSpawn, ExecBegin, Prepare, Plan, LoopTop, StepStart, StepEnd, StepSkip,
       LogEnd, Save, Finish, feedVars

LEMMA EndStep == EndInv /\ [Next]_vars => EndInv'
  <1>. SUFFICES ASSUME EndInv, [Next]_vars, NEW r \in Runs
                PROVE  EndOf(r)'
    BY ControlStep DEF EndInv
  <1>0. ControlInv /\ TypeInv /\ EndOf(r)
    BY DEF EndInv, ControlInv
  <1>1. ASSUME NEW q \in Runs, RunStep(q)
        PROVE  EndOf(r)'
    <2>1. CASE q = r
      <3>1. /\ pc[r] = "done" => pc'[r] = "done" /\ verdict'[r] = verdict[r]
            /\ \/ history' = history
               \/ \E e \in Events : history' = [history EXCEPT ![r] = Append(@, e)]
                                    /\ Closing(r, e)
        BY <1>0, <1>1, <2>1, RunStepCloses
      <3>2. CASE history' = history
        BY <1>0, <3>1, <3>2, EndKept
      <3>3. ASSUME NEW e \in Events, history' = [history EXCEPT ![r] = Append(@, e)],
                   Closing(r, e)
            PROVE  EndOf(r)'
        <4>1. history'[r] = Append(history[r], e)
          BY <1>0, <3>3 DEF TypeInv, TypeOK
        <4>. QED BY <1>0, <3>1, <3>3, <4>1, EndAppended
      <3>. QED BY <3>1, <3>2, <3>3
    <2>2. CASE q # r
      <3>1. pc'[r] = pc[r] /\ verdict'[r] = verdict[r]
        BY <1>0, <1>1, <2>2, RunStepLocal
      <3>2. \/ history' = history
            \/ \E e \in Events : history' = [history EXCEPT ![q] = Append(@, e)]
        BY <1>0, <1>1, RunStepCloses
      <3>3. history'[r] = history[r]
        BY <1>0, <2>2, <3>2 DEF TypeInv, TypeOK
      <3>. QED BY <1>0, <3>1, <3>3, EndKept
    <2>. QED BY <2>1, <2>2
  <1>2. ASSUME NEW k \in Cancellers, CallStep(k)
        PROVE  EndOf(r)'
    <2>1. pc' = pc /\ verdict' = verdict
      BY <1>0, <1>2, ThreadsLeaveRuns
    <2>2. CASE history'[r] = history[r]
      BY <1>0, <2>1, <2>2, EndKept
    <2>3. CASE CancelPublish(k) /\ callRun[k] = r
      <3>1. /\ RunStatusEvent("cancelled") \in Events
            /\ history'[r] = Append(history[r], RunStatusEvent("cancelled"))
        BY <1>0, <2>3, EventTypes DEF CancelPublish, Publish, Terminal, TypeInv, TypeOK
      <3>2. Closing(r, RunStatusEvent("cancelled"))
        BY DEF Closing, RunStatusEvent, Publisher
      <3>. QED BY <1>0, <2>1, <3>1, <3>2, EndAppended
    <2>4. CASE CancelPublish(k) /\ callRun[k] # r
      <3>1. history'[r] = history[r]
        BY <1>0, <2>4 DEF CancelPublish, Publish, TypeInv, TypeOK
      <3>. QED BY <2>2, <3>1
    <2>. QED BY <1>2, <2>2, <2>3, <2>4 DEF CallStep, CancelMark, CancelSignal,
         CancelReturn, feedVars
  <1>3. CASE history' = history /\ UNCHANGED execVars
    BY <1>0, <1>3, EndKept DEF execVars
  <1>. QED BY <1>1, <1>2, <1>3 DEF Next, SubStep, SubscribeLock, SubscribeReplay,
       SubscribeReturn, Receive, Unsubscribe, Sending, Deliver, Terminated, vars,
       feedVars

\* run_done carries the final status and ends the execute goroutine's events.
THEOREM DoneIsLast == Spec => []DoneEndsFeed
  <1>1. Init => EndInv
    BY ControlInit DEF EndInv, EndOf, Init
  <1>2. EndInv => DoneEndsFeed
    <2>. SUFFICES ASSUME EndInv, NEW r \in Runs, NEW n \in DOMAIN history[r],
                         history[r][n].type = "run_done"
                  PROVE  /\ finished[r]
                         /\ history[r][n].status = status[r]
                         /\ \A m \in DOMAIN history[r] : m > n =>
                              Publisher(history[r][m]) # "exec"
      BY DEF DoneEndsFeed
    <2>1. EndOf(r) /\ BooksOf(r)
      BY DEF EndInv, ControlInv, Books
    <2>. QED BY <2>1 DEF EndOf, BooksOf, Ended
  <1>. QED BY <1>1, <1>2, EndStep, PTL DEF Spec

-----------------------------------------------------------------------------
(* The step table a client folds from the feed                               *)

\* The feed says of step i of run r what the step table says.
Told(r, i) ==
    \/ Reports(r, i) = {} /\ steps[r][i] = "queued"
    \/ \E n \in Reports(r, i) :
         /\ \A m \in Reports(r, i) : m <= n
         /\ history[r][n].status = steps[r][i]

\* Only the step at the loop index may be ahead of its event, and only between
\* the observer's two halves.
ToldOf(r) ==
    /\ pc[r] = "idle" => \A i \in StepIds : Reports(r, i) = {}
    /\ pc[r] # "idle" => \A i \in StepIds :
         (pc[r] \in {"started", "settled"} /\ cur[r] = i) \/ Told(r, i)

ToldInv == ControlInv /\ \A r \in Runs : ToldOf(r)

\* The last event of a feed, and what it adds to the reports about a step.
Last(r) == Len(history[r]) + 1

LEMMA ReportsGrow ==
    ASSUME TypeInv, NEW r \in Runs, NEW e \in Events, NEW i \in StepIds,
           history'[r] = Append(history[r], e)
    PROVE  /\ Last(r) \in Nat
           /\ e.type = "step_status" /\ e.step = i =>
                Reports(r, i)' = Reports(r, i) \cup {Last(r)}
           /\ ~(e.type = "step_status" /\ e.step = i) => Reports(r, i)' = Reports(r, i)
           /\ \A n \in Reports(r, i) :
                n \in Nat /\ n < Last(r) /\ history'[r][n] = history[r][n]
           /\ history'[r][Last(r)] = e
  <1>1. history[r] \in Seq(Events) /\ Len(history[r]) \in Nat
    BY DEF TypeInv, TypeOK
  <1>2. /\ DOMAIN history[r] = 1..Len(history[r])
        /\ DOMAIN history'[r] = 1..(Len(history[r]) + 1)
        /\ history'[r][Len(history[r]) + 1] = e
        /\ \A n \in 1..Len(history[r]) : history'[r][n] = history[r][n]
    BY <1>1
  <1>. QED BY <1>1, <1>2 DEF Reports, Last

\* An event about another step, or about none, leaves a step told.
LEMMA ToldKept ==
    ASSUME TypeInv, NEW r \in Runs, NEW i \in StepIds, Told(r, i),
           steps'[r][i] = steps[r][i],
           \/ history'[r] = history[r]
           \/ \E e \in Events : /\ history'[r] = Append(history[r], e)
                                /\ ~(e.type = "step_status" /\ e.step = i)
    PROVE  Told(r, i)'
  <1>1. CASE history'[r] = history[r]
    BY <1>1 DEF Told, Reports
  <1>2. ASSUME NEW e \in Events, history'[r] = Append(history[r], e),
               ~(e.type = "step_status" /\ e.step = i)
        PROVE  Told(r, i)'
    <2>1. Reports(r, i)' = Reports(r, i)
      BY ONLY TypeInv, <1>2, ReportsGrow
    <2>2. \A n \in Reports(r, i) : history'[r][n] = history[r][n]
      BY ONLY TypeInv, <1>2, ReportsGrow
    <2>. QED BY <2>1, <2>2 DEF Told
  <1>. QED BY <1>1, <1>2

\* The report of a step tells it.
LEMMA ToldNow ==
    ASSUME TypeInv, NEW r \in Runs, NEW i \in StepIds, NEW s \in StepStatuses,
           steps'[r][i] = s, history'[r] = Append(history[r], StepStatusEvent(i, s))
    PROVE  Told(r, i)'
  <1>1. PICK e \in Events : e = StepStatusEvent(i, s)
    BY EventTypes
  <1>2. PICK n : n = Last(r)
    OBVIOUS
  <1>0. history'[r] = Append(history[r], e) /\ e.type = "step_status" /\ e.step = i
    BY <1>1 DEF StepStatusEvent
  <1>3. /\ n \in Nat /\ Reports(r, i)' = Reports(r, i) \cup {n}
        /\ \A m \in Reports(r, i) : m \in Nat /\ m < n
        /\ history'[r][n] = e
    BY <1>0, <1>2, ReportsGrow
  <1>4. e.status = s
    BY <1>1 DEF StepStatusEvent
  <1>5. history'[r][n].status = steps'[r][i]
    BY <1>3, <1>4
  <1>6. n \in Reports(r, i)' /\ \A m \in Reports(r, i)' : m <= n
    BY <1>3
  <1>. QED BY <1>5, <1>6 DEF Told

\* Steps of a run that are not about its step table.
Silent(r) ==
    /\ steps'[r] = steps[r] /\ cur'[r] = cur[r]
    /\ pc[r] \in {"started", "settled"} => pc'[r] = pc[r]
    /\ (pc'[r] = "idle") <=> (pc[r] = "idle")
    /\ \/ history'[r] = history[r]
       \/ \E e \in Events : /\ history'[r] = Append(history[r], e)
                            /\ e.type # "step_status"

LEMMA SilentKeepsTold ==
    ASSUME TypeInv, NEW r \in Runs, ToldOf(r), Silent(r)
    PROVE  ToldOf(r)'
  <1>1. ASSUME NEW i \in StepIds, Told(r, i)
        PROVE  Told(r, i)'
    BY <1>1, ToldKept DEF Silent
  <1>2. ASSUME NEW i \in StepIds, Reports(r, i) = {}
        PROVE  Reports(r, i)' = {}
    <2>1. CASE history'[r] = history[r]
      BY <1>2, <2>1 DEF Reports
    <2>2. ASSUME NEW e \in Events, history'[r] = Append(history[r], e),
                 e.type # "step_status"
          PROVE  Reports(r, i)' = {}
      BY <1>2, <2>2, ReportsGrow
    <2>. QED BY <2>1, <2>2 DEF Silent
  <1>. QED BY <1>1, <1>2 DEF ToldOf, Silent

LEMMA RunStepTells ==
    ASSUME ControlInv, NEW r \in Runs, ToldOf(r), RunStep(r)
    PROVE  ToldOf(r)'
  <1>0. TypeInv /\ Fresh(r) /\ InLoop(r)
    BY DEF ControlInv, Table
  <1>. USE DEF TypeInv, TypeOK
  <1>1. CASE StartRegister(r)
    <2>1. /\ \A i \in StepIds : Reports(r, i)' = {} /\ steps'[r][i] = "queued"
          /\ pc'[r] = "registered"
      BY <1>0, <1>1 DEF StartRegister, ToldOf, Reports, feedVars
    <2>. QED BY <2>1 DEF ToldOf, Told
  <1>2. CASE StepStart(r) \/ StepEnd(r) \/ StepSkip(r)
    <2>1. /\ pc[r] \notin {"idle", "started", "settled"} /\ pc'[r] \in {"started", "settled"}
          /\ cur' = cur /\ history' = history
          /\ \A i \in StepIds : i # cur[r] => steps'[r][i] = steps[r][i]
      BY <1>0, <1>2 DEF StepStart, StepEnd, StepSkip, UpdateStep, feedVars
    <2>2. \A i \in StepIds : i # cur[r] => Told(r, i)'
      BY <1>0, <2>1, ToldKept DEF ToldOf
    <2>. QED BY <2>1, <2>2 DEF ToldOf
  <1>3. CASE StepRun(r) \/ StepReport(r)
    <2>1. /\ pc[r] \in {"started", "settled"} /\ pc'[r] \in {"instep", "loop"}
          /\ cur[r] \in StepIds /\ steps' = steps
          /\ steps[r][cur[r]] \in StepStatuses
      BY <1>0, <1>3 DEF StepRun, StepReport, CurInRange, runVars
    <2>2. history'[r] = Append(history[r], StepStatusEvent(cur[r], steps[r][cur[r]]))
      BY <1>0, <1>3 DEF StepRun, StepReport, Publish, InLoop, Body
    <2>3. PICK j \in StepIds : j = cur[r]
      BY <2>1
    <2>4. PICK s \in StepStatuses : s = steps[r][j]
      BY <2>1, <2>3
    <2>5. PICK e \in Events : e = StepStatusEvent(j, s)
      BY <2>3, <2>4, EventTypes
    <2>6. Told(r, j)'
      BY <1>0, <2>1, <2>2, <2>3, <2>4, ToldNow
    <2>7. ASSUME NEW i \in StepIds, i # j
          PROVE  Told(r, i)'
      <3>1. Told(r, i)
        BY <2>1, <2>3, <2>7 DEF ToldOf
      <3>2. history'[r] = Append(history[r], e) /\ ~(e.type = "step_status" /\ e.step = i)
        BY <2>2, <2>3, <2>4, <2>5, <2>7 DEF StepStatusEvent
      <3>. QED BY <1>0, <2>1, <3>1, <3>2, ToldKept
    <2>. QED BY <2>1, <2>6, <2>7 DEF ToldOf
  <1>4. CASE StartPublish(r)
    <2>1. /\ RunStatusEvent("queued") \in Events
          /\ history'[r] = Append(history[r], RunStatusEvent("queued"))
          /\ pc[r] = "registered" /\ pc'[r] = "announced" /\ cur' = cur /\ steps' = steps
      BY <1>0, <1>4, EventTypes DEF StartPublish, Publish, runVars
    <2>2. Silent(r)
      BY <2>1 DEF Silent, RunStatusEvent
    <2>. QED BY <1>0, <2>2, SilentKeepsTold
  <1>5. CASE ExecAnnounce(r)
    <2>1. /\ RunStatusEvent("running") \in Events
          /\ history'[r] = Append(history[r], RunStatusEvent("running"))
          /\ pc[r] = "begun" /\ pc'[r] = "prepare" /\ cur' = cur /\ steps' = steps
      BY <1>0, <1>5, EventTypes DEF ExecAnnounce, Publish, runVars
    <2>2. Silent(r)
      BY <2>1 DEF Silent, RunStatusEvent
    <2>. QED BY <1>0, <2>2, SilentKeepsTold
  <1>6. CASE StepLog(r)
    <2>1. /\ LogEvent(logging[r]) \in Events
          /\ history'[r] = Append(history[r], LogEvent(logging[r]))
          /\ pc' = pc /\ cur' = cur /\ steps' = steps
      BY <1>0, <1>6, EventTypes DEF StepLog, Publish, runVars, execVars
    <2>2. Silent(r)
      BY <2>1 DEF Silent, LogEvent
    <2>. QED BY <1>0, <2>2, SilentKeepsTold
  <1>7. CASE FinishPublish(r)
    <2>1. /\ RunDoneEvent(verdict[r]) \in Events
          /\ history'[r] = Append(history[r], RunDoneEvent(verdict[r]))
          /\ pc[r] = "finished" /\ pc'[r] = "done" /\ cur' = cur /\ steps' = steps
      BY <1>0, <1>7, EventTypes DEF FinishPublish, Publish, runVars
    <2>2. Silent(r)
      BY <2>1 DEF Silent, RunDoneEvent
    <2>. QED BY <1>0, <2>2, SilentKeepsTold
  <1>8. CASE \/ StartSpawn(r) \/ ExecBegin(r) \/ Prepare(r) \/ Plan(r) \/ LoopTop(r)
             \/ LogEnd(r) \/ Save(r) \/ Finish(r)
    <2>1. Silent(r)
      BY <1>0, <1>8 DEF Silent, StartSpawn, ExecBegin, Prepare, Plan, LoopTop, LogEnd, Save,
         Finish, feedVars, runVars
    <2>. QED BY <1>0, <2>1, SilentKeepsTold
  <1>. QED BY <1>1, <1>2, <1>3, <1>4, <1>5, <1>6, <1>7, <1>8 DEF RunStep

LEMMA ToldStep == ToldInv /\ [Next]_vars => ToldInv'
  <1>. SUFFICES ASSUME ToldInv, [Next]_vars, NEW r \in Runs
                PROVE  ToldOf(r)'
    BY ControlStep DEF ToldInv
  <1>0. ControlInv /\ TypeInv /\ ToldOf(r)
    BY DEF ToldInv, ControlInv
  <1>1. ASSUME NEW q \in Runs, RunStep(q)
        PROVE  ToldOf(r)'
    <2>1. CASE q = r
      BY <1>0, <1>1, <2>1, RunStepTells
    <2>2. CASE q # r
      <3>1. pc'[r] = pc[r] /\ steps'[r] = steps[r] /\ cur'[r] = cur[r]
        BY <1>0, <1>1, <2>2, RunStepLocal
      <3>2. \/ history' = history
            \/ \E e \in Events : history' = [history EXCEPT ![q] = Append(@, e)]
        BY <1>0, <1>1, RunStepCloses
      <3>3. history'[r] = history[r]
        BY <1>0, <2>2, <3>2 DEF TypeInv, TypeOK
      <3>4. Silent(r)
        BY <3>1, <3>3 DEF Silent
      <3>. QED BY <1>0, <3>4, SilentKeepsTold
    <2>. QED BY <2>1, <2>2
  <1>2. ASSUME NEW k \in Cancellers, CallStep(k)
        PROVE  ToldOf(r)'
    <2>1. pc' = pc /\ steps' = steps /\ cur' = cur
      BY <1>0, <1>2, ThreadsLeaveRuns
    <2>2. \/ history'[r] = history[r]
          \/ \E e \in Events : history'[r] = Append(history[r], e) /\ e.type # "step_status"
      <3>1. CASE CancelPublish(k)
        <4>1. /\ RunStatusEvent("cancelled") \in Events
              /\ RunStatusEvent("cancelled").type # "step_status"
              /\ history' = [history EXCEPT ![callRun[k]] =
                               Append(@, RunStatusEvent("cancelled"))]
          BY <3>1, EventTypes DEF CancelPublish, Publish, Terminal, RunStatusEvent
        <4>. QED BY <1>0, <4>1 DEF TypeInv, TypeOK
      <3>. QED BY <1>2, <3>1 DEF CallStep, CancelMark, CancelSignal, CancelReturn, feedVars
    <2>3. Silent(r)
      BY <2>1, <2>2 DEF Silent
    <2>. QED BY <1>0, <2>3, SilentKeepsTold
  <1>3. CASE history' = history /\ UNCHANGED <<execVars, runVars>>
    <2>1. Silent(r)
      BY <1>3 DEF Silent, execVars, runVars
    <2>. QED BY <1>0, <2>1, SilentKeepsTold
  <1>. QED BY <1>1, <1>2, <1>3 DEF Next, SubStep, SubscribeLock, SubscribeReplay,
       SubscribeReturn, Receive, Unsubscribe, Sending, Deliver, Terminated, vars,
       feedVars

\* Folding the step_status events of the feed gives the step table.
THEOREM TableIsTold == Spec => []StepTableMatchesFeed
  <1>1. Init => ToldInv
    BY ControlInit DEF ToldInv, ToldOf, Reports, Init
  <1>2. ToldInv => StepTableMatchesFeed
    BY DEF ToldInv, ToldOf, Told, StepTableMatchesFeed
  <1>. QED BY <1>1, <1>2, ToldStep, PTL DEF Spec

-----------------------------------------------------------------------------
(* The order of one publisher's events                                       *)

\* Where the execute goroutine is when a publish of its may be in progress.
Sends == {"announced", "prepare", "loop", "instep", "done"}

Waits == \A r \in Runs : pc[r] \notin Sends => Idle(Exec(r))

Speaker(c, n) == Publisher(history[subRun[c]][n])

\* A goroutine owes only its own run's subscribers, and no event that another
\* of its own has followed.
InTurn(c) ==
    \A t \in Threads, n \in Nat : Owes(t, c, n) =>
        /\ Speaker(c, n) = t[1]
        /\ t[1] # "call" =>
             /\ t[2] = subRun[c]
             /\ \A m \in 1..Upto(c) : m > n => Speaker(c, m) # t[1]

\* What was sent is in history order for each publisher.
Sorted(c) ==
    \A p, q \in Slots(c) :
        /\ p < q
        /\ Speaker(c, sent[c][p]) = Speaker(c, sent[c][q])
        /\ Speaker(c, sent[c][p]) # "call"
        => sent[c][p] < sent[c][q]

OrderInv == FeedInv /\ Waits /\ \A c \in Subscribers : InTurn(c) /\ Sorted(c)

LEMMA ThreadIs ==
    ASSUME NEW t \in Threads
    PROVE  t = <<t[1], t[2]>> /\ t[1] \in {"exec", "log", "call"}
  BY DEF Threads

\* The goroutines that publish a run's events, each its own kind and one at a
\* time.
OwnPublish(t, r, e) ==
    /\ t \in Threads /\ e \in Events
    /\ Publish(t, r, e)
    /\ Publisher(e) = t[1]
    /\ t[1] # "call" => t = <<t[1], r>> /\ Idle(t)

LEMMA RunStepSpeaks ==
    ASSUME TypeInv, Waits, NEW r \in Runs, RunStep(r)
    PROVE  UNCHANGED feedVars \/ \E t \in Threads, e \in Events : OwnPublish(t, r, e)
  <1>. USE DEF TypeInv
  <1>0. /\ Exec(r) \in Threads /\ Exec(r)[1] = "exec" /\ Exec(r) = <<"exec", r>>
        /\ Logger(r) \in Threads /\ Logger(r)[1] = "log" /\ Logger(r) = <<"log", r>>
    BY ThreadsOf DEF Exec, Logger
  <1>1. ASSUME NEW t \in Threads, NEW e \in Events, OwnPublish(t, r, e)
        PROVE  \E u \in Threads, d \in Events : OwnPublish(u, r, d)
    BY <1>1
  <1>2. CASE StartPublish(r)
    <2>1. Publisher(RunStatusEvent("queued")) = "exec" /\ RunStatusEvent("queued") \in Events
      BY EventTypes DEF Publisher, RunStatusEvent
    <2>2. OwnPublish(Exec(r), r, RunStatusEvent("queued"))
      BY <1>0, <1>2, <2>1 DEF OwnPublish, StartPublish, Waits, Sends
    <2>. QED BY <1>0, <2>1, <2>2
  <1>3. CASE ExecAnnounce(r)
    <2>1. Publisher(RunStatusEvent("running")) = "exec" /\ RunStatusEvent("running") \in Events
      BY EventTypes DEF Publisher, RunStatusEvent
    <2>2. OwnPublish(Exec(r), r, RunStatusEvent("running"))
      BY <1>0, <1>3, <2>1 DEF OwnPublish, ExecAnnounce, Waits, Sends
    <2>. QED BY <1>0, <2>1, <2>2
  <1>4. CASE StepRun(r) \/ StepReport(r)
    <2>1. PICK i \in StepIds, s \in StepStatuses : Publish(Exec(r), r, StepStatusEvent(i, s))
      <3>1. cur[r] \in StepIds /\ steps[r][cur[r]] \in StepStatuses
        BY <1>4 DEF StepRun, StepReport, CurInRange, TypeOK
      <3>2. "running" \in StepStatuses
        BY DEF StepStatuses, RunStatuses, Active
      <3>3. CASE StepRun(r)
        BY <3>1, <3>2, <3>3 DEF StepRun
      <3>4. CASE StepReport(r)
        BY <3>1, <3>4 DEF StepReport
      <3>. QED BY <1>4, <3>3, <3>4
    <2>2. PICK e \in Events : e = StepStatusEvent(i, s)
      BY EventTypes
    <2>3. Publisher(e) = "exec"
      BY <2>2 DEF Publisher, StepStatusEvent
    <2>4. pc[r] \in {"started", "settled"}
      BY <1>4 DEF StepRun, StepReport
    <2>5. OwnPublish(Exec(r), r, e)
      BY <1>0, <2>1, <2>2, <2>3, <2>4 DEF OwnPublish, Waits, Sends
    <2>. QED BY <1>0, <2>5
  <1>5. CASE StepLog(r)
    <2>1. LogEvent(logging[r]) \in Events /\ Publisher(LogEvent(logging[r])) = "log"
      BY EventTypes DEF TypeOK, Publisher, LogEvent
    <2>2. OwnPublish(Logger(r), r, LogEvent(logging[r]))
      BY <1>0, <1>5, <2>1 DEF OwnPublish, StepLog
    <2>. QED BY <1>0, <2>1, <2>2
  <1>6. CASE FinishPublish(r)
    <2>1. RunDoneEvent(verdict[r]) \in Events /\ Publisher(RunDoneEvent(verdict[r])) = "exec"
      BY EventTypes DEF TypeOK, Publisher, RunDoneEvent
    <2>2. OwnPublish(Exec(r), r, RunDoneEvent(verdict[r]))
      BY <1>0, <1>6, <2>1 DEF OwnPublish, FinishPublish, Waits, Sends
    <2>. QED BY <1>0, <2>1, <2>2
  <1>. QED BY <1>2, <1>3, <1>4, <1>5, <1>6 DEF RunStep, StartRegister, StartSpawn,
       ExecBegin, Prepare, Plan, LoopTop, StepStart, StepEnd, StepSkip, LogEnd, Save,
       Finish

LEMMA CallStepSpeaks ==
    ASSUME TypeInv, NEW k \in Cancellers, CallStep(k)
    PROVE  \/ UNCHANGED feedVars
           \/ \E t \in Threads, r \in Runs, e \in Events : OwnPublish(t, r, e)
  <1>1. CASE CancelPublish(k)
    <2>1. /\ RunStatusEvent("cancelled") \in Events
          /\ Publisher(RunStatusEvent("cancelled")) = "call"
      BY EventTypes DEF Terminal, Publisher, RunStatusEvent
    <2>2. Caller(k) \in Threads /\ Caller(k)[1] = "call" /\ callRun[k] \in Runs
      BY ThreadsOf DEF Caller, TypeInv, TypeOK
    <2>3. OwnPublish(Caller(k), callRun[k], RunStatusEvent("cancelled"))
      BY <1>1, <2>1, <2>2 DEF CancelPublish, OwnPublish
    <2>. QED BY <2>1, <2>2, <2>3
  <1>. QED BY <1>1 DEF CallStep, CancelMark, CancelSignal, CancelReturn

LEMMA SpokenMoves ==
    ASSUME TypeInv, Waits, [Next]_vars
    PROVE  \/ UNCHANGED <<feedVars, subVars>>
           \/ /\ UNCHANGED subVars
              /\ \E t \in Threads, r \in Runs, e \in Events : OwnPublish(t, r, e)
           \/ \E c \in Subscribers : SubStep(c)
           \/ \E t \in Threads, c \in Subscribers, n \in Nat \ {0} : Deliver(t, c, n)
  <1>1. ASSUME NEW r \in Runs, RunStep(r)
        PROVE  /\ UNCHANGED subVars
               /\ \/ UNCHANGED feedVars
                  \/ \E t \in Threads, e \in Events : OwnPublish(t, r, e)
    BY <1>1, RunStepFeed, RunStepSpeaks
  <1>2. ASSUME NEW k \in Cancellers, CallStep(k)
        PROVE  /\ UNCHANGED subVars
               /\ \/ UNCHANGED feedVars
                  \/ \E t \in Threads, r \in Runs, e \in Events : OwnPublish(t, r, e)
    BY <1>2, CallStepFeed, CallStepSpeaks
  <1>3. CASE Sending
    <2>1. PICK t \in Threads : \E d \in pub[t] : Deliver(t, d[1], d[2])
      BY <1>3 DEF Sending
    <2>2. PICK d \in pub[t] : Deliver(t, d[1], d[2])
      BY <2>1
    <2>3. d[1] \in Subscribers /\ d[2] \in Nat \ {0}
      BY DEF TypeInv, TypeOK
    <2>. QED BY <2>2, <2>3
  <1>. QED BY <1>1, <1>2, <1>3 DEF Next, Terminated, vars

\* The execute goroutine passes no statement between two publishes before the
\* sends of the first are made.
LEMMA WaitsStep ==
    ASSUME TypeInv, Waits, [Next]_vars, NEW r \in Runs, pc'[r] \notin Sends
    PROVE  Idle(Exec(r))'
  <1>0. Exec(r) \in Threads /\ \A q \in Runs : Logger(q) # Exec(r) /\ (q # r => Exec(q) # Exec(r))
    BY ThreadsOf DEF Exec, Logger
  <1>1. ASSUME NEW t \in Threads, t # Exec(r), NEW q \in Runs, NEW e \in Events,
               Publish(t, q, e)
        PROVE  pub'[Exec(r)] = pub[Exec(r)]
    BY <1>0, <1>1 DEF Publish, TypeInv, TypeOK
  <1>2. ASSUME NEW q \in Runs, RunStep(q), q # r
        PROVE  Idle(Exec(r))'
    <2>1. pc'[r] = pc[r]
      BY <1>2, RunStepLocal
    <2>2. Idle(Exec(r))
      BY <2>1 DEF Waits
    <2>3. CASE pub' = pub
      BY <2>2, <2>3 DEF Idle
    <2>4. ASSUME NEW t \in Threads, NEW e \in Events, OwnPublish(t, q, e)
          PROVE  Idle(Exec(r))'
      <3>1. t # Exec(r)
        BY <1>2, <2>4 DEF OwnPublish, Exec
      <3>2. pub'[Exec(r)] = pub[Exec(r)]
        BY <1>1, <2>4, <3>1 DEF OwnPublish
      <3>. QED BY <2>2, <3>2 DEF Idle
    <2>. QED BY <1>2, <2>3, <2>4, RunStepSpeaks DEF feedVars
  <1>3. CASE RunStep(r)
    <2>1. CASE StepLog(r)
      <3>1. pc' = pc
        BY <2>1 DEF StepLog, execVars
      <3>2. pub'[Exec(r)] = pub[Exec(r)]
        BY <1>0, <2>1 DEF StepLog, Publish, TypeInv, TypeOK
      <3>. QED BY <3>1, <3>2 DEF Waits, Idle
    <2>2. CASE \/ StartPublish(r) \/ ExecAnnounce(r) \/ StepRun(r) \/ StepReport(r)
               \/ FinishPublish(r)
      BY <2>2 DEF StartPublish, ExecAnnounce, StepRun, StepReport, FinishPublish, Sends,
         TypeInv, TypeOK
    <2>3. CASE \/ StartRegister(r) \/ ExecBegin(r) \/ Plan(r) \/ StepStart(r) \/ Save(r)
               \/ Finish(r) \/ LogEnd(r)
      <3>1. pub' = pub /\ pc[r] \notin Sends
        BY <2>3 DEF StartRegister, ExecBegin, Plan, StepStart, Save, Finish, LogEnd, Sends,
           feedVars, TypeInv, TypeOK
      <3>. QED BY <3>1 DEF Waits, Idle
    <2>4. CASE StartSpawn(r) \/ Prepare(r) \/ LoopTop(r) \/ StepEnd(r) \/ StepSkip(r)
      <3>1. pub' = pub /\ Idle(Exec(r))
        BY <2>4 DEF StartSpawn, Prepare, LoopTop, StepEnd, StepSkip, feedVars
      <3>. QED BY <3>1 DEF Idle
    <2>. QED BY <1>3, <2>1, <2>2, <2>3, <2>4 DEF RunStep
  <1>4. ASSUME NEW k \in Cancellers, CallStep(k)
        PROVE  Idle(Exec(r))'
    <2>1. pc' = pc
      BY <1>4, ThreadsLeaveRuns
    <2>2. Caller(k) \in Threads /\ Caller(k) # Exec(r)
      BY ThreadsOf DEF Caller, Exec
    <2>3. pub'[Exec(r)] = pub[Exec(r)]
      BY <1>0, <1>4, <2>2 DEF CallStep, CancelMark, CancelSignal, CancelPublish, CancelReturn,
         Publish, feedVars, TypeInv, TypeOK
    <2>. QED BY <2>1, <2>3 DEF Waits, Idle
  <1>5. CASE Sending
    <2>1. pc' = pc /\ pub'[Exec(r)] \subseteq pub[Exec(r)]
      BY <1>0, <1>5 DEF Sending, Deliver, execVars, TypeInv, TypeOK
    <2>. QED BY <2>1 DEF Waits, Idle
  <1>6. CASE pc' = pc /\ pub' = pub
    BY <1>6 DEF Waits, Idle
  <1>. QED BY <1>2, <1>3, <1>4, <1>5, <1>6 DEF Next, SubStep, SubscribeLock, SubscribeReplay,
       SubscribeReturn, Receive, Unsubscribe, Terminated, vars, execVars, feedVars

LEMMA OrderPublish ==
    ASSUME OrderInv, NEW t \in Threads, NEW r \in Runs, NEW e \in Events,
           OwnPublish(t, r, e), UNCHANGED subVars, NEW c \in Subscribers
    PROVE  InTurn(c)' /\ Sorted(c)'
  <1>1. /\ TypeInv /\ FeedOf(c) /\ InTurn(c) /\ Sorted(c) /\ Publish(t, r, e)
        /\ subRun' = subRun /\ sent' = sent /\ Upto(c) \in Nat
        /\ DOMAIN history[subRun[c]] = 1..Upto(c)
    BY HistoryLength DEF OrderInv, FeedInv, OwnPublish, subVars
  <1>2. /\ Upto(c)' = IF subRun[c] = r THEN Upto(c) + 1 ELSE Upto(c)
        /\ \A u \in Threads, n \in Nat :
             Owes(u, c, n)' <=>
               \/ Owes(u, c, n)
               \/ u = t /\ subPc[c] = "in" /\ subRun[c] = r /\ n = Upto(c) + 1
    BY <1>1, PublishAdds
  <1>3. /\ \A n \in 1..Upto(c) : Speaker(c, n)' = Speaker(c, n)
        /\ \A n : subRun[c] = r /\ n = Upto(c) + 1 => Speaker(c, n)' = t[1]
    <2>1. CASE subRun[c] # r
      <3>1. history'[subRun[c]] = history[subRun[c]]
        BY <1>1, <2>1 DEF Publish, TypeInv, TypeOK
      <3>. QED BY <1>1, <2>1, <3>1 DEF Speaker
    <2>2. CASE subRun[c] = r
      <3>1. history'[r] = Append(history[r], e) /\ history[r] \in Seq(Events)
        BY <1>1 DEF Publish, TypeInv, TypeOK
      <3>2. /\ \A n \in 1..Upto(c) : history'[r][n] = history[r][n]
            /\ history'[r][Upto(c) + 1] = e
        BY <1>1, <2>2, <3>1 DEF Upto
      <3>3. Publisher(e) = t[1]
        BY DEF OwnPublish
      <3>. QED BY <1>1, <2>2, <3>2, <3>3 DEF Speaker
    <2>. QED BY <2>1, <2>2
  <1>4. InTurn(c)'
    <2>. SUFFICES ASSUME NEW u \in Threads, NEW n \in Nat, Owes(u, c, n)'
                  PROVE  /\ Speaker(c, n)' = u[1]
                         /\ u[1] # "call" =>
                              /\ u[2] = subRun[c]
                              /\ \A m \in 1..Upto(c)' : m > n => Speaker(c, m)' # u[1]
      BY <1>1 DEF InTurn
    <2>1. CASE Owes(u, c, n)
      <3>1. /\ n \in 1..Upto(c) /\ Speaker(c, n) = u[1]
            /\ u[1] # "call" =>
                 /\ u[2] = subRun[c]
                 /\ \A m \in 1..Upto(c) : m > n => Speaker(c, m) # u[1]
        BY <1>1, <2>1 DEF InTurn, FeedOf, Published
      <3>2. ASSUME u[1] # "call", subRun[c] = r
            PROVE  t[1] # u[1]
        <4>1. t[1] = u[1] => t = u
          BY <3>1, <3>2, ThreadIs DEF OwnPublish
        <4>2. t = u => Idle(u)
          BY <3>2 DEF OwnPublish
        <4>. QED BY <2>1, <4>1, <4>2 DEF Idle, Owes
      <3>3. ASSUME u[1] # "call", NEW m \in 1..Upto(c)', m > n
            PROVE  Speaker(c, m)' # u[1]
        <4>1. CASE m \in 1..Upto(c)
          BY <1>3, <3>1, <3>3, <4>1
        <4>2. CASE subRun[c] = r /\ m = Upto(c) + 1
          BY <1>3, <3>2, <3>3, <4>2
        <4>. QED BY <1>1, <1>2, <4>1, <4>2
      <3>. QED BY <1>3, <3>1, <3>3
    <2>2. CASE u = t /\ subPc[c] = "in" /\ subRun[c] = r /\ n = Upto(c) + 1
      <3>1. Speaker(c, n)' = u[1] /\ (u[1] # "call" => u[2] = subRun[c])
        BY <1>3, <2>2, ThreadIs DEF OwnPublish
      <3>. QED BY <1>1, <1>2, <2>2, <3>1
    <2>. QED BY <1>2, <2>1, <2>2
  <1>5. Sorted(c)'
    <2>1. Slots(c)' = Slots(c) /\ \A p \in Slots(c) : sent[c][p] \in 1..Upto(c)
      BY <1>1 DEF Slots, FeedOf, Published
    <2>2. \A p \in Slots(c) : Speaker(c, sent[c][p])' = Speaker(c, sent[c][p])
      <3>. SUFFICES ASSUME NEW p \in Slots(c)
                    PROVE  Speaker(c, sent[c][p])' = Speaker(c, sent[c][p])
        OBVIOUS
      <3>1. PICK n \in 1..Upto(c) : n = sent[c][p]
        BY <2>1
      <3>2. sent'[c][p] = n
        BY <1>1, <3>1
      <3>. QED BY <1>3, <3>1, <3>2 DEF Speaker
    <2>. QED BY <1>1, <2>1, <2>2 DEF Sorted
  <1>. QED BY <1>4, <1>5

LEMMA OrderDeliver ==
    ASSUME OrderInv, NEW t \in Threads, NEW c \in Subscribers, NEW n \in Nat \ {0},
           Deliver(t, c, n), NEW d \in Subscribers
    PROVE  InTurn(d)' /\ Sorted(d)'
  <1>1. /\ TypeInv /\ FeedOf(d) /\ FeedOf(c) /\ InTurn(d) /\ InTurn(c) /\ Sorted(d)
        /\ subRun' = subRun /\ history' = history
    BY DEF OrderInv, FeedInv, Deliver
  <1>2. /\ Upto(d)' = Upto(d) /\ Upto(c) \in Nat
        /\ \A m : Speaker(d, m)' = Speaker(d, m)
        /\ \A u \in Threads, m \in Nat : Owes(u, d, m)' => Owes(u, d, m)
    BY <1>1 DEF Upto, Speaker, Deliver, Owes, TypeInv, TypeOK
  <1>3. InTurn(d)'
    BY <1>1, <1>2 DEF InTurn
  <1>4. CASE sent'[d] = sent[d]
    <2>1. Slots(d)' = Slots(d) /\ \A p : Speaker(d, sent[d][p])' = Speaker(d, sent[d][p])
      BY <1>1, <1>4 DEF Slots, Speaker
    <2>. QED BY <1>1, <1>3, <1>4, <2>1 DEF Sorted
  <1>5. CASE d = c /\ sent' = [sent EXCEPT ![c] = Append(@, n)]
    <2>1. sent[c] \in Seq(Nat \ {0}) /\ sent'[c] = Append(sent[c], n) /\ Len(sent[c]) \in Nat
      BY <1>1, <1>5 DEF TypeInv, TypeOK
    <2>2. /\ Slots(c)' = Slots(c) \cup {Len(sent[c]) + 1}
          /\ \A p \in Slots(c) : p < Len(sent[c]) + 1 /\ sent'[c][p] = sent[c][p]
          /\ sent'[c][Len(sent[c]) + 1] = n
      BY <2>1 DEF Slots
    <2>3. /\ Owes(t, c, n) /\ n \in 1..Upto(c)
          /\ \A p \in Slots(c) : sent[c][p] \in 1..Upto(c) /\ sent[c][p] # n
      BY <1>1 DEF Deliver, Owes, FeedOf, Published, Once
    <2>4. Speaker(c, n) # "call" =>
             \A m \in 1..Upto(c) : m > n => Speaker(c, m) # Speaker(c, n)
      BY <1>1, <2>3 DEF InTurn
    <2>5. ASSUME NEW p \in Slots(c), Speaker(c, sent[c][p]) = Speaker(c, n),
                 Speaker(c, n) # "call"
          PROVE  sent[c][p] < n
      BY <1>2, <2>3, <2>4, <2>5
    <2>6. \A p \in Slots(c) : Speaker(c, sent[c][p])' = Speaker(c, sent[c][p])
      BY <1>1, <2>2 DEF Speaker
    <2>7. \A q : q = Len(sent[c]) + 1 => Speaker(c, sent[c][q])' = Speaker(c, n)
      BY <1>1, <2>2 DEF Speaker
    <2>8. \A p, q \in Slots(c) \cup {Len(sent[c]) + 1} :
            p < q /\ Speaker(c, sent[c][p])' = Speaker(c, sent[c][q])'
                  /\ Speaker(c, sent[c][p])' # "call"
            => sent'[c][p] < sent'[c][q]
      <3>. SUFFICES ASSUME NEW p \in Slots(c) \cup {Len(sent[c]) + 1},
                           NEW q \in Slots(c) \cup {Len(sent[c]) + 1},
                           p < q, Speaker(c, sent[c][p])' = Speaker(c, sent[c][q])',
                           Speaker(c, sent[c][p])' # "call"
                    PROVE  sent'[c][p] < sent'[c][q]
        OBVIOUS
      <3>1. p \in Slots(c)
        BY <2>1, <2>2 DEF Slots
      <3>2. CASE q \in Slots(c)
        BY <1>1, <1>5, <2>2, <2>6, <3>1, <3>2 DEF Sorted
      <3>3. CASE q = Len(sent[c]) + 1
        BY <2>2, <2>5, <2>6, <2>7, <3>1, <3>3
      <3>. QED BY <3>2, <3>3
    <2>. QED BY <1>3, <1>5, <2>2, <2>8 DEF Sorted
  <1>6. sent'[d] = sent[d] \/ (d = c /\ sent' = [sent EXCEPT ![c] = Append(@, n)])
    BY <1>1 DEF Deliver, TypeInv, TypeOK
  <1>. QED BY <1>3, <1>4, <1>5, <1>6

LEMMA OrderSubStep ==
    ASSUME OrderInv, NEW c \in Subscribers, SubStep(c), NEW d \in Subscribers
    PROVE  InTurn(d)' /\ Sorted(d)'
  <1>1. /\ TypeInv /\ FeedOf(d) /\ InTurn(d) /\ Sorted(d)
        /\ history' = history /\ pub' = pub /\ subRun' = subRun
    BY DEF OrderInv, FeedInv, SubStep, SubscribeLock, SubscribeReplay, SubscribeReturn, Receive,
       Unsubscribe, feedVars
  <1>2. InTurn(d)'
    BY <1>1 DEF InTurn, Speaker, Upto, Owes
  <1>3. CASE sent'[d] = sent[d]
    BY <1>1, <1>2, <1>3 DEF Sorted, Slots, Speaker
  <1>4. CASE d = c /\ SubscribeReplay(c)
    <2>1. /\ sent[c] \in Seq(Nat \ {0}) /\ sent'[c] = Append(sent[c], Len(sent[c]) + 1)
          /\ Len(sent[c]) \in Nat /\ subPc[c] = "replay"
      BY <1>1, <1>4 DEF SubscribeReplay, TypeInv, TypeOK
    <2>2. /\ Slots(c)' = Slots(c) \cup {Len(sent[c]) + 1}
          /\ sent'[c][Len(sent[c]) + 1] = Len(sent[c]) + 1
          /\ \A p \in Slots(c) : sent'[c][p] = sent[c][p]
      BY <2>1 DEF Slots
    <2>3. \A p \in Slots(c)' : sent'[c][p] = p
      BY <1>1, <1>4, <2>1, <2>2 DEF FeedOf, Joining
    <2>. QED BY <1>2, <1>4, <2>3 DEF Sorted
  <1>5. sent'[d] = sent[d] \/ (d = c /\ SubscribeReplay(c))
    BY <1>1 DEF SubStep, SubscribeLock, SubscribeReplay, SubscribeReturn, Receive, Unsubscribe,
       TypeInv, TypeOK
  <1>. QED BY <1>2, <1>3, <1>4, <1>5

LEMMA OrderStep == OrderInv /\ [Next]_vars => OrderInv'
  <1>. SUFFICES ASSUME OrderInv, [Next]_vars
                PROVE  Waits' /\ \A c \in Subscribers : InTurn(c)' /\ Sorted(c)'
    BY FeedStep DEF OrderInv
  <1>0. TypeInv /\ Waits
    BY DEF OrderInv, FeedInv
  <1>1. Waits'
    BY <1>0, WaitsStep DEF Waits
  <1>2. ASSUME NEW c \in Subscribers
        PROVE  InTurn(c)' /\ Sorted(c)'
    <2>1. CASE UNCHANGED <<feedVars, subVars>>
      <3>1. InTurn(c) /\ Sorted(c)
        BY DEF OrderInv
      <3>. QED BY <2>1, <3>1 DEF InTurn, Sorted, Speaker, Upto, Owes, Slots, feedVars, subVars
    <2>2. CASE UNCHANGED subVars /\ \E t \in Threads, r \in Runs, e \in Events : OwnPublish(t, r, e)
      BY <2>2, OrderPublish
    <2>3. CASE \E d \in Subscribers : SubStep(d)
      BY <2>3, OrderSubStep
    <2>4. CASE \E t \in Threads, d \in Subscribers, n \in Nat \ {0} : Deliver(t, d, n)
      BY <2>4, OrderDeliver
    <2>. QED BY <1>0, <2>1, <2>2, <2>3, <2>4, SpokenMoves
  <1>. QED BY <1>1, <1>2

\* One goroutine's events never overtake each other on the way to a subscriber.
THEOREM PublishersKeepOrder == Spec => []PublisherOrder
  <1>1. Init => OrderInv
    <2>. SUFFICES ASSUME Init PROVE Waits /\ \A c \in Subscribers : InTurn(c) /\ Sorted(c)
      BY FeedInit DEF OrderInv
    <2>1. Waits
      BY ThreadsOf DEF Init, Waits, Idle
    <2>2. ASSUME NEW c \in Subscribers
          PROVE  InTurn(c) /\ Sorted(c)
      BY DEF Init, InTurn, Sorted, Owes, Slots
    <2>. QED BY <2>1, <2>2
  <1>2. OrderInv => PublisherOrder
    <2>. SUFFICES ASSUME OrderInv, NEW c \in Subscribers
                  PROVE  Sorted(c) => \A p, q \in DOMAIN sent[c] :
                            p < q /\ Speaker(c, sent[c][p]) = Speaker(c, sent[c][q])
                                  /\ Speaker(c, sent[c][p]) # "call"
                            => sent[c][p] < sent[c][q]
      BY DEF PublisherOrder, Speaker, OrderInv
    <2>. QED BY HistoryLength DEF OrderInv, FeedInv, Sorted
  <1>. QED BY <1>1, <1>2, OrderStep, PTL DEF Spec

-----------------------------------------------------------------------------
(* The daemon refines the run service: whatever the requests, the signal   *)
(* and the end of the process do, its runs, feeds and cancellations take   *)
(* only steps that RunService has.  Service is RunService over the same    *)
(* variables with a database that may refuse; each operator means the same *)
(* in it, except that a refused write is then a step of its own.           *)

LEMMA SameState ==
    /\ Service!vars = vars
    /\ Service!Init = Init
    /\ Service!MuFree = MuFree
  BY DEF Service!vars, vars, Service!Init, Init, Service!Threads, Threads,
      Service!StepIds, StepIds, Service!MuFree, MuFree,
      Service!runVars, runVars, Service!execVars, execVars,
      Service!feedVars, feedVars, Service!callVars, callVars,
      Service!subVars, subVars

LEMMA SamePublish ==
    ASSUME NEW t, NEW r, NEW e, Publish(t, r, e)
    PROVE  Service!Publish(t, r, e)
  BY SameState DEF Service!Publish, Publish, Service!Live, Live

\* Every step of a run except the write of its result.
LEMMA SameRunStep ==
    ASSUME NEW r, RunStep(r), ~Save(r)
    PROVE  Service!RunStep(r)
  <1>1. CASE StartRegister(r) \/ StartPublish(r) \/ StartSpawn(r) \/
               ExecBegin(r) \/ ExecAnnounce(r) \/ Prepare(r) \/ Plan(r) \/
               LoopTop(r)
    BY <1>1, SameState, SamePublish DEF Service!RunStep,
      Service!StartRegister, StartRegister,
      Service!StartPublish, StartPublish, Service!StartSpawn, StartSpawn,
      Service!ExecBegin, ExecBegin, Service!ExecAnnounce, ExecAnnounce,
      Service!Prepare, Prepare, Service!Plan, Plan,
      Service!LoopTop, LoopTop, Service!StepIds, StepIds,
      Service!Exec, Exec, Service!Idle, Idle,
      Service!RunStatusEvent, RunStatusEvent, Service!MuFree, MuFree,
      Service!runVars, runVars, Service!execVars, execVars,
      Service!feedVars, feedVars, Service!callVars, callVars,
      Service!subVars, subVars
  <1>2. CASE StepStart(r) \/ StepRun(r) \/ StepEnd(r) \/ StepSkip(r) \/
               StepReport(r)
    BY <1>2, SameState, SamePublish DEF Service!RunStep,
      Service!StepStart, StepStart, Service!StepRun, StepRun,
      Service!StepEnd, StepEnd, Service!StepSkip, StepSkip,
      Service!StepReport, StepReport, Service!UpdateStep, UpdateStep,
      Service!Exec, Exec, Service!Logger, Logger, Service!Idle, Idle,
      Service!Terminal, Terminal, Service!StepStatusEvent, StepStatusEvent,
      Service!MuFree, MuFree, Service!runVars, runVars,
      Service!execVars, execVars, Service!feedVars, feedVars,
      Service!callVars, callVars, Service!subVars, subVars
  <1>3. CASE LogEnd(r) \/ Finish(r) \/ FinishPublish(r)
    BY <1>3, SamePublish DEF Service!RunStep, Service!LogEnd, LogEnd,
      Service!Finish, Finish, Service!FinishPublish, FinishPublish, Service!Exec,
      Exec, Service!Logger, Logger, Service!Idle, Idle, Service!RunDoneEvent,
      RunDoneEvent, Service!MuFree, MuFree, Service!runVars, runVars,
      Service!execVars, execVars, Service!feedVars, feedVars, Service!callVars,
      callVars, Service!subVars, subVars
  <1>4. CASE StepLog(r)
    <2>1. Service!Cardinality(Service!Logs(r)) = Cardinality(Logs(r))
      BY Zenon DEF Service!Logs, Logs, Service!Cardinality, Cardinality
    <2>2. Service!Publish(Service!Logger(r), r, Service!LogEvent(logging[r]))
      BY <1>4, SamePublish DEF StepLog, Service!Logger, Logger, Service!LogEvent, LogEvent
    <2>3. Service!StepLog(r)
      BY <1>4, <2>1, <2>2 DEF StepLog, Service!StepLog, Service!Exec, Exec,
         Service!Logger, Logger, Service!Idle, Idle,
         Service!runVars, runVars, Service!execVars, execVars,
         Service!callVars, callVars, Service!subVars, subVars
    <2>. QED BY <2>3 DEF Service!RunStep
  <1>. QED BY <1>1, <1>2, <1>3, <1>4 DEF RunStep

\* A write that succeeds, fails, or finds the database closed.
LEMMA SameSave ==
    ASSUME NEW r, Save(r) \/ SaveRefused(r)
    PROVE  Service!RunStep(r)
  <1>1. Service!Save(r)
    BY DEF SaveRefused, Save, Service!Save,
      Service!runVars, runVars, Service!execVars, execVars,
      Service!feedVars, feedVars, Service!callVars, callVars,
      Service!subVars, subVars
  <1>. QED BY <1>1 DEF Service!RunStep

LEMMA SameCall ==
    ASSUME NEW k, CallStep(k)
    PROVE  Service!CallStep(k)
  BY SamePublish DEF Service!CallStep, CallStep,
      Service!CancelMark, CancelMark, Service!CancelSignal, CancelSignal,
      Service!CancelPublish, CancelPublish,
      Service!CancelReturn, CancelReturn, Service!MuFree, MuFree,
      Service!Known, Known, Service!Active, Active, Service!Caller, Caller,
      Service!RunStatusEvent, RunStatusEvent, Service!Idle, Idle,
      Service!runVars, runVars, Service!execVars, execVars,
      Service!feedVars, feedVars, Service!callVars, callVars,
      Service!subVars, subVars

LEMMA SameSub ==
    ASSUME NEW c, SubStep(c)
    PROVE  Service!SubStep(c)
  BY DEF Service!SubStep, SubStep,
      Service!SubscribeLock, SubscribeLock,
      Service!SubscribeReplay, SubscribeReplay,
      Service!SubscribeReturn, SubscribeReturn, Service!Receive, Receive,
      Service!Unsubscribe, Unsubscribe, Service!MuFree, MuFree,
      Service!Known, Known, Service!HasRoom, HasRoom,
      Service!runVars, runVars, Service!execVars, execVars,
      Service!feedVars, feedVars, Service!callVars, callVars,
      Service!subVars, subVars

LEMMA SameSending == Sending => Service!Sending
  BY DEF Sending, Service!Sending,
      Service!Deliver, Deliver, Service!Threads, Threads,
      Service!HasRoom, HasRoom, Service!runVars, runVars,
      Service!execVars, execVars, Service!feedVars, feedVars,
      Service!callVars, callVars, Service!subVars, subVars

\* The worker's own steps leave the service alone; the service's steps are
\* RunService's.
LEMMA WorkerStep ==
    ASSUME [WorkerNext]_allVars
    PROVE  [Service!Next]_(Service!vars)
  <1>1. CASE ServiceStep
    <2>1. ASSUME NEW r \in accepted \cap Runs,
                 SaveRefused(r) \/ (RunStep(r) /\ (StoreOpen(r) \/ stored' = stored))
          PROVE  Service!Next
      BY <2>1, SameRunStep, SameSave DEF Service!Next
    <2>2. ASSUME NEW k \in accepted \cap Cancellers, CallStep(k)
          PROVE  Service!Next
      BY <2>2, SameCall DEF Service!Next
    <2>3. ASSUME NEW c \in accepted \cap Subscribers, SubStep(c)
          PROVE  Service!Next
      BY <2>3, SameSub DEF Service!Next
    <2>4. CASE Sending
      BY <2>4, SameSending DEF Service!Next
    <2>. QED BY <1>1, <2>1, <2>2, <2>3, <2>4 DEF ServiceStep
  <1>2. CASE UNCHANGED vars
    BY <1>2 DEF Service!vars, vars,
      Service!runVars, runVars, Service!execVars, execVars,
      Service!feedVars, feedVars, Service!callVars, callVars,
      Service!subVars, subVars
  <1>3. ~ServiceStep => UNCHANGED vars
    BY DEF WorkerNext, allVars, Boot, Serve, ServeEnd, ServeError, Signal, Shutdown,
           Join, CloseStore, Exit, Accept, Exited
  <1>. QED BY <1>1, <1>2, <1>3

\* To the rest of the program the worker is a run service that may stop at any
\* step and whose database may refuse: its safety theorems hold in the worker,
\* for any number of runs, requests and streams.
THEOREM WorkerServes == WorkerSpec => ImplementsRunService
  <1>1. WorkerInit => Service!Init
    BY SameState DEF WorkerInit
  <1>. QED BY <1>1, WorkerStep, PTL DEF WorkerSpec, ImplementsRunService, Service!Spec

-----------------------------------------------------------------------------
(* A clean exit.  Once Shutdown saw no open request with the accept loop gone *)
(* no request can open again: none is accepted, and a handler that has        *)
(* answered does not come back.                                               *)

Domains == DOMAIN pc = Runs /\ DOMAIN callPc = Cancellers /\ DOMAIN subPc = Subscribers

Leaving == phase = "join" \/ code = "ok"

QuietInv ==
    /\ Domains
    /\ code = "ok" => phase \in {"unwind", "closed", "exited"}
    /\ Leaving => serve # "listening" /\ \A q \in Requests : ~Open(q)

Starting == {"idle", "registered", "announced"}

\* An answered request stays answered.
LEMMA AnsweredStays ==
    ASSUME Domains, ServiceStep
    PROVE  Domains' /\ \A q \in Requests : Open(q)' => Open(q)
  <1>0. UNCHANGED accepted
    BY DEF ServiceStep, workerVars
  <1>1. ASSUME NEW r \in Runs, RunStep(r) \/ SaveRefused(r)
        PROVE  Domains' /\ \A q \in Requests : Open(q)' => Open(q)
    <2>1. \/ pc' = pc
          \/ \E s : pc' = [pc EXCEPT ![r] = s] /\ (s \notin Starting \/ pc[r] \in Starting)
      BY <1>1 DEF RunStep, SaveRefused, StartRegister, StartPublish, StartSpawn, ExecBegin,
         ExecAnnounce, Prepare, Plan, LoopTop, StepStart, StepRun, StepEnd, StepSkip,
         StepReport, StepLog, LogEnd, Save, Finish, FinishPublish, execVars, Starting
    <2>2. UNCHANGED <<callVars, subVars>>
      BY <1>1 DEF RunStep, SaveRefused, StartRegister, StartPublish, StartSpawn, ExecBegin,
         ExecAnnounce, Prepare, Plan, LoopTop, StepStart, StepRun, StepEnd, StepSkip,
         StepReport, StepLog, LogEnd, Save, Finish, FinishPublish
    <2>. QED BY <1>0, <2>1, <2>2 DEF Domains, Open, Starting, callVars, subVars
  <1>2. ASSUME NEW k \in Cancellers, CallStep(k)
        PROVE  Domains' /\ \A q \in Requests : Open(q)' => Open(q)
    <2>1. \E s : callPc' = [callPc EXCEPT ![k] = s] /\ callPc[k] # "returned"
      BY <1>2 DEF CallStep, CancelMark, CancelSignal, CancelPublish, CancelReturn
    <2>2. UNCHANGED <<pc, subPc>>
      BY <1>2 DEF CallStep, CancelMark, CancelSignal, CancelPublish, CancelReturn,
         execVars, subVars
    <2>. QED BY <1>0, <2>1, <2>2 DEF Domains, Open
  <1>3. ASSUME NEW c \in Subscribers, SubStep(c)
        PROVE  Domains' /\ \A q \in Requests : Open(q)' => Open(q)
    <2>1. subPc' = subPc \/ \E s : subPc' = [subPc EXCEPT ![c] = s] /\ subPc[c] # "gone"
      BY <1>3 DEF SubStep, SubscribeLock, SubscribeReplay, SubscribeReturn, Receive,
         Unsubscribe
    <2>2. UNCHANGED <<pc, callPc>>
      BY <1>3 DEF SubStep, SubscribeLock, SubscribeReplay, SubscribeReturn, Receive,
         Unsubscribe, execVars, callVars
    <2>. QED BY <1>0, <2>1, <2>2 DEF Domains, Open
  <1>4. CASE Sending
    BY <1>0, <1>4 DEF Sending, Deliver, execVars, callVars, Domains, Open
  <1>. QED BY <1>1, <1>2, <1>3, <1>4 DEF ServiceStep

LEMMA QuietStep ==
    ASSUME QuietInv, [WorkerNext]_allVars
    PROVE  QuietInv'
  <1>1. CASE ServiceStep
    BY <1>1, AnsweredStays DEF QuietInv, Leaving, ServiceStep, workerVars
  <1>2. CASE ~ServiceStep
    <2>1. UNCHANGED vars
      BY <1>2 DEF WorkerNext, allVars, Boot, Serve, ServeEnd, ServeError, Signal,
         Shutdown, Join, CloseStore, Exit, Accept, Exited
    <2>2. Domains' /\ \A q \in Requests : Open(q)' => Open(q) \/ q \notin accepted
      BY <2>1 DEF QuietInv, Domains, Open, vars, execVars, callVars, subVars
    <2>3. CASE \E q \in Requests : Accept(q)
      BY <2>2, <2>3 DEF Accept, QuietInv, Leaving
    <2>4. CASE UNCHANGED accepted
      BY <1>2, <2>2, <2>4 DEF QuietInv, Leaving, Open, WorkerNext, allVars, workerVars, Boot, Serve,
         ServeEnd, ServeError, Signal, Shutdown, Join, CloseStore, Exit, Accept, Exited
    <2>. QED BY <1>2, <2>3, <2>4 DEF WorkerNext, allVars, workerVars, Boot, Serve,
         ServeEnd, ServeError, Signal, Shutdown, Join, CloseStore, Exit, Exited
  <1>. QED BY <1>1, <1>2

\* Whenever the worker exits with status 0, no request it accepted is cut off.
THEOREM CleanExits == WorkerSpec => []CleanExitCutsNobody
  <1>1. WorkerInit => QuietInv
    BY DEF WorkerInit, Init, QuietInv, Domains, Leaving
  <1>2. QuietInv => CleanExitCutsNobody
    BY DEF QuietInv, CleanExitCutsNobody, Leaving
  <1>. QED BY <1>1, <1>2, QuietStep, PTL DEF WorkerSpec

-----------------------------------------------------------------------------
(* Stored results.  ControlInv, the inductive invariant of the runs' control *)
(* state, survives a refused write as well; to it comes that a run past its  *)
(* save has its row, unless something kept the row from being written.       *)

Saved(r) ==
    /\ pc[r] \in {"finish"} \cup Ended /\ ~ctxDone[r] /\ ~StoreFails
    /\ phase \notin {"closed", "exited"}
    /\ \E i \in StepIds : steps[r][i] # "queued"
    => stored[r] = verdict[r]

StoreInv == ControlInv /\ \A r \in Runs : Saved(r)

LEMMA RefusedKeepsControl ==
    ASSUME ControlInv, NEW q \in Runs, SaveRefused(q)
    PROVE  ControlInv'
  <1>. USE DEF SaveRefused, runVars, feedVars, callVars, subVars
  <1>1. TypeInv'
    BY DEF ControlInv, TypeInv, TypeOK, CurInRange, PcStates
  <1>2. ASSUME NEW r \in Runs
        PROVE  BooksOf(r)' /\ Fresh(r)' /\ InLoop(r)' /\ Story(r)'
    <2>1. TypeInv /\ BooksOf(r) /\ Fresh(r) /\ InLoop(r) /\ Story(r)
      BY DEF ControlInv, Books, Table
    <2>2. BooksOf(r)'
      BY <2>1 DEF TypeInv, TypeOK, BooksOf, Known, After, Ended
    <2>3. Fresh(r)' /\ InLoop(r)' /\ Story(r)'
      BY <2>1 DEF TypeInv, TypeOK, Fresh, InLoop, Story, Past, Done, After, Ended, Early, Body
    <2>. QED BY <2>2, <2>3
  <1>. QED BY <1>1, <1>2 DEF ControlInv, Books, Table

\* The run that moves: its row is written by Save, and only a run whose steps
\* are all queued gets past the save without it.
LEMMA OwnSaved ==
    ASSUME ControlInv, NEW r \in Runs, Saved(r), RunStep(r), UNCHANGED phase
    PROVE  Saved(r)'
  <1>1. TypeInv /\ BooksOf(r) /\ Fresh(r)
    BY DEF ControlInv, Books, Table
  <1>. USE <1>1 DEF TypeInv, TypeOK, BooksOf, Fresh, Saved, After, Ended, Early, runVars, execVars
  <1>2. CASE Prepare(r) BY <1>2 DEF Prepare
  <1>3. CASE Save(r) BY <1>3 DEF Save
  <1>4. CASE Finish(r) BY <1>4 DEF Finish
  <1>5. CASE FinishPublish(r) BY <1>5 DEF FinishPublish
  <1>6. CASE StepLog(r) \/ LogEnd(r) BY <1>6 DEF StepLog, LogEnd
  <1>7. CASE StartRegister(r) \/ StartPublish(r) \/ StartSpawn(r) \/ ExecBegin(r)
               \/ ExecAnnounce(r) \/ Plan(r) \/ LoopTop(r) \/ StepStart(r) \/ StepRun(r)
               \/ StepEnd(r) \/ StepSkip(r) \/ StepReport(r)
    <2>1. pc'[r] \notin {"finish"} \cup Ended
      BY <1>7 DEF StartRegister, StartPublish, StartSpawn, ExecBegin, ExecAnnounce, Plan,
         LoopTop, StepStart, StepRun, StepEnd, StepSkip, StepReport
    <2>. QED BY <2>1
  <1>. QED BY <1>2, <1>3, <1>4, <1>5, <1>6, <1>7 DEF RunStep

\* A context that is cancelled stays so, and only Cancel cancels one.
LEMMA ContextsStayCancelled ==
    ASSUME TypeInv, ServiceStep, NEW r \in Runs, ctxDone[r]
    PROVE  ctxDone'[r]
  <1>1. UNCHANGED ctxDone \/ \E k \in Cancellers : CancelSignal(k)
    BY DEF ServiceStep, SaveRefused, RunStep, StartRegister, StartPublish, StartSpawn,
       ExecBegin, ExecAnnounce, Prepare, Plan, LoopTop, StepStart, StepRun, StepEnd,
       StepSkip, StepReport, StepLog, LogEnd, Save, Finish, FinishPublish, UpdateStep,
       CallStep, CancelMark, CancelPublish, CancelReturn, SubStep, SubscribeLock,
       SubscribeReplay, SubscribeReturn, Receive, Unsubscribe, Sending, Deliver, runVars
  <1>2. ASSUME NEW k \in Cancellers, CancelSignal(k)
        PROVE  ctxDone'[r]
    BY <1>2, Zenon DEF CancelSignal, TypeInv, TypeOK
  <1>. QED BY <1>1, <1>2

LEMMA StoreStep ==
    ASSUME StoreInv, [WorkerNext]_allVars
    PROVE  StoreInv'
  <1>0. ControlInv /\ TypeInv /\ \A r \in Runs : Saved(r)
    BY DEF StoreInv, ControlInv
  <1>1. CASE ServiceStep
    <2>1. UNCHANGED phase
      BY <1>1 DEF ServiceStep, workerVars
    <2>2. ASSUME NEW q \in Runs, SaveRefused(q)
          PROVE  StoreInv'
      BY <1>0, <2>1, <2>2, RefusedKeepsControl DEF StoreInv, Saved, SaveRefused, StoreOpen
    <2>3. ASSUME NEW q \in Runs, RunStep(q)
          PROVE  StoreInv'
      <3>1. ControlInv'
        BY <1>0, <2>3, ControlStep DEF Next
      <3>2. ASSUME NEW r \in Runs, r # q
            PROVE  Saved(r)'
        <4>1. /\ stored'[r] = stored[r] /\ pc'[r] = pc[r]
              /\ verdict'[r] = verdict[r] /\ steps'[r] = steps[r]
          BY <1>0, <2>3, <3>2, RunStepLocal
        <4>. QED BY <1>0, <1>1, <2>1, <4>1, ContextsStayCancelled DEF Saved
      <3>. QED BY <1>0, <2>1, <2>3, <3>1, <3>2, OwnSaved DEF StoreInv
    <2>4. CASE \/ \E k \in Cancellers : CallStep(k)
               \/ \E c \in Subscribers : SubStep(c)
               \/ Sending
      <3>1. ControlInv'
        BY <1>0, <2>4, ControlStep DEF Next
      <3>2. UNCHANGED <<stored, pc, verdict, steps>>
        BY <1>0, <2>4, ThreadsLeaveRuns
      <3>. QED BY <1>0, <1>1, <2>1, <3>1, <3>2, ContextsStayCancelled DEF StoreInv, Saved
    <2>. QED BY <1>1, <2>2, <2>3, <2>4 DEF ServiceStep
  <1>2. CASE ~ServiceStep
    <2>1. UNCHANGED vars /\ (phase \in {"closed", "exited"} => phase' \in {"closed", "exited"})
      BY <1>2 DEF WorkerNext, allVars, workerVars, Boot, Serve, ServeEnd, ServeError,
         Signal, Shutdown, Join, CloseStore, Exit, Accept, Exited
    <2>2. ControlInv'
      BY <1>0, <2>1, ControlStep
    <2>. QED BY <1>0, <2>1, <2>2 DEF StoreInv, Saved, vars, runVars, execVars
  <1>. QED BY <1>1, <1>2

\* While the worker has its database open, every run that finished on its own
\* has its row.
THEOREM ServedAreStored == WorkerSpec => []ServedResultsAreStored
  <1>1. WorkerInit => StoreInv
    BY ControlInit DEF WorkerInit, Init, StoreInv, Saved, Ended
  <1>2. StoreInv => ServedResultsAreStored
    BY DEF StoreInv, ControlInv, Books, BooksOf, Saved, ServedResultsAreStored
  <1>. QED BY <1>1, <1>2, StoreStep, PTL DEF WorkerSpec

=============================================================================
