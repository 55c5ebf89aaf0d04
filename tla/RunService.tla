----------------------------- MODULE RunService -----------------------------
(***************************************************************************)
(* internal/run: the service that runs pipelines in the background for the *)
(* HTTP API.  Threads: the goroutine Start spawns for a run (thread        *)
(* Exec(r)), the goroutine that collects the log of the container step in  *)
(* progress (thread Logger(r)), the callers of Cancel (thread Caller(k))   *)
(* and the SSE handlers that Subscribe (Subscribers).  They share the maps *)
(* of Service under s.mu, and the subscribers' channels without it.        *)
(*                                                                         *)
(* A critical section of s.mu is one action, guarded by MuFree; the only   *)
(* section that can block inside is the replay loop of Subscribe, so a     *)
(* Subscribe in its replay is what holding s.mu looks like.  publish is    *)
(* two kinds of step: the locked append with its snapshot of subscribers,  *)
(* and afterwards one unlocked, non-blocking send per channel.             *)
(*                                                                         *)
(* An event in a channel is its index in the run's history.  The pipeline  *)
(* executor is modelled by the observer calls and the verdict it produces; *)
(* the results of containers, builds and checkouts are nondeterministic.   *)
(***************************************************************************)
EXTENDS Integers, Sequences, FiniteSets

CONSTANTS
    Runs,         \* the run ids uuid.New() may return
    Cancellers,   \* HTTP requests that cancel a run, one Cancel call each
    Subscribers,  \* SSE requests, one Subscribe call each
    NSteps,       \* steps of a run's pipeline
    BufCap,       \* capacity of a subscriber's channel (64 in the code)
    StoreFails,   \* the database may refuse a write it is asked to make
    MaxLogs       \* bound: log events of a run

ASSUME NStepsAssumption == NSteps \in Nat \ {0}   \* spec.Validate: at least one step
ASSUME BufCapAssumption == BufCap \in Nat \ {0}
ASSUME StoreFailsAssumption == StoreFails \in BOOLEAN
ASSUME MaxLogsAssumption == MaxLogs \in Nat

VARIABLES
    status,    \* status[r]: run.Status in s.runs, "none" while r is not there
    finished,  \* finished[r]: run.FinishedAt is set
    steps,     \* steps[r][i]: status of step i in s.steps
    history,   \* history[r]: s.history
    cancels,   \* cancels[r]: s.cancels has an entry
    ctxDone,   \* ctxDone[r]: execCtx is cancelled
    stored,    \* stored[r]: status SavePipelineResult persisted, or "none"
    pc,        \* pc[r]: where Start and then execute are
    cur,       \* cur[r]: the executor's loop index
    verdict,   \* verdict[r]: result.Status of the executor, "none" while open
    logging,   \* logging[r]: step whose log goroutine is alive, 0 without one
    pub,       \* pub[t]: sends thread t's publish has still to make
    callPc,    \* callPc[k]: where Cancel call k is
    callRun,   \* callRun[k]: the run it cancels
    callFn,    \* callFn[k]: it read a cancel function from s.cancels
    answer,    \* answer[k]: run.Status in its response
    subPc,     \* subPc[c]: where subscription c is
    subRun,    \* subRun[c]: the run it follows
    sent,      \* sent[c]: every event put into c's channel, in order
    nread,     \* nread[c]: how many of them the handler has received
    dropped    \* dropped[c]: events not sent because the channel was full

runVars  == <<status, finished, steps, cancels, ctxDone, stored>>
execVars == <<pc, cur, verdict, logging>>
feedVars == <<history, pub>>
callVars == <<callPc, callRun, callFn, answer>>
subVars  == <<subPc, subRun, sent, nread, dropped>>
vars     == <<runVars, execVars, feedVars, callVars, subVars>>

-----------------------------------------------------------------------------
StepIds  == 1..NSteps
Terminal == {"success", "failed", "cancelled"}
Active   == {"queued", "running"}

Exec(r)   == <<"exec", r>>
Logger(r) == <<"log", r>>
Caller(k) == <<"call", k>>
Threads   == ({"exec", "log"} \X Runs) \cup ({"call"} \X Cancellers)

RunStatusEvent(s)     == [type |-> "run_status", step |-> 0, status |-> s]
StepStatusEvent(i, s) == [type |-> "step_status", step |-> i, status |-> s]
LogEvent(i)           == [type |-> "log", step |-> i, status |-> "none"]
RunDoneEvent(s)       == [type |-> "run_done", step |-> 0, status |-> s]

Events ==
    [type : {"run_status", "step_status", "log", "run_done"},
     step : 0..NSteps,
     status : {"none", "queued", "running", "skipped"} \cup Terminal]

\* s.mu is held across steps only by a Subscribe that is replaying.
MuFree == \A c \in Subscribers : subPc[c] # "replay"

\* Mutant of Live: unsubscribe leaves the channel in the map.
LiveForever(r) == {c \in Subscribers : subPc[c] \in {"in", "gone"} /\ subRun[c] = r}

\* s.subscribers[r]
Live(r) == {c \in Subscribers : subPc[c] = "in" /\ subRun[c] = r}

\* Thread t has no publish in progress.
Idle(t) == pub[t] = {}

\* Mutant of Publish: a channel is registered before its replay, which does
\* not hold the lock.
PublishDuringReplay(t, r, e) ==
    /\ history' = [history EXCEPT ![r] = Append(@, e)]
    /\ pub' = [pub EXCEPT ![t] = @ \cup
                 ({c \in Subscribers : subPc[c] \in {"replay", "in"} /\ subRun[c] = r}
                  \X {Len(history[r]) + 1})]

\* publish, up to the unlock: append and snapshot of the subscribers.
Publish(t, r, e) ==
    /\ MuFree
    /\ history' = [history EXCEPT ![r] = Append(@, e)]
    /\ pub' = [pub EXCEPT ![t] = @ \cup (Live(r) \X {Len(history[r]) + 1})]

Logs(r) == {n \in DOMAIN history[r] : history[r][n].type = "log"}
HasRoom(c) == Len(sent[c]) - nread[c] < BufCap

Init ==
    /\ status   = [r \in Runs |-> "none"]
    /\ finished = [r \in Runs |-> FALSE]
    /\ steps    = [r \in Runs |-> [i \in StepIds |-> "none"]]
    /\ history  = [r \in Runs |-> <<>>]
    /\ cancels  = [r \in Runs |-> FALSE]
    /\ ctxDone  = [r \in Runs |-> FALSE]
    /\ stored   = [r \in Runs |-> "none"]
    /\ pc       = [r \in Runs |-> "idle"]
    /\ cur      = [r \in Runs |-> 1]
    /\ verdict  = [r \in Runs |-> "none"]
    /\ logging  = [r \in Runs |-> 0]
    /\ pub      = [t \in Threads |-> {}]
    /\ callPc   = [k \in Cancellers |-> "idle"]
    /\ callRun  \in [Cancellers -> Runs]
    /\ callFn   = [k \in Cancellers |-> FALSE]
    /\ answer   = [k \in Cancellers |-> "none"]
    /\ subPc    = [c \in Subscribers |-> "out"]
    /\ subRun   \in [Subscribers -> Runs]
    /\ sent     = [c \in Subscribers |-> <<>>]
    /\ nread    = [c \in Subscribers |-> 0]
    /\ dropped  = [c \in Subscribers |-> {}]

-----------------------------------------------------------------------------
(* Start *)

\* The validated run and its steps enter the maps.
StartRegister(r) ==
    /\ pc[r] = "idle" /\ MuFree
    /\ status' = [status EXCEPT ![r] = "queued"]
    /\ steps' = [steps EXCEPT ![r] = [i \in StepIds |-> "queued"]]
    /\ pc' = [pc EXCEPT ![r] = "registered"]
    /\ UNCHANGED <<finished, cancels, ctxDone, stored, cur, verdict, logging,
                   feedVars, callVars, subVars>>

StartPublish(r) ==
    /\ pc[r] = "registered"
    /\ Publish(Exec(r), r, RunStatusEvent("queued"))
    /\ pc' = [pc EXCEPT ![r] = "announced"]
    /\ UNCHANGED <<runVars, cur, verdict, logging, callVars, subVars>>

\* The cancel function is stored, execute is spawned, the id is returned:
\* from here on clients can name the run.
StartSpawn(r) ==
    /\ pc[r] = "announced" /\ Idle(Exec(r)) /\ MuFree
    /\ cancels' = [cancels EXCEPT ![r] = TRUE]
    /\ pc' = [pc EXCEPT ![r] = "spawned"]
    /\ UNCHANGED <<status, finished, steps, ctxDone, stored, cur, verdict,
                   logging, feedVars, callVars, subVars>>

Known(r) == pc[r] \notin {"idle", "registered", "announced"}

-----------------------------------------------------------------------------
(* execute *)

\* updateRun(StatusRunning)
ExecBegin(r) ==
    /\ pc[r] = "spawned" /\ MuFree
    /\ status' = [status EXCEPT ![r] = "running"]
    /\ pc' = [pc EXCEPT ![r] = "begun"]
    /\ UNCHANGED <<finished, steps, cancels, ctxDone, stored, cur, verdict,
                   logging, feedVars, callVars, subVars>>

ExecAnnounce(r) ==
    /\ pc[r] = "begun"
    /\ Publish(Exec(r), r, RunStatusEvent("running"))
    /\ pc' = [pc EXCEPT ![r] = "prepare"]
    /\ UNCHANGED <<runVars, cur, verdict, logging, callVars, subVars>>

\* BuildSteps, and with a source the workspace and its checkout: an error
\* (a cancelled checkout is one) fails the run before the executor is built.
Prepare(r) ==
    /\ pc[r] = "prepare" /\ Idle(Exec(r))
    /\ \/ /\ pc' = [pc EXCEPT ![r] = "plan"]
          /\ UNCHANGED verdict
       \/ /\ pc' = [pc EXCEPT ![r] = "finish"]
          /\ verdict' = [verdict EXCEPT ![r] = "failed"]
    /\ UNCHANGED <<runVars, cur, logging, feedVars, callVars, subVars>>

\* The executor's own preparation: a bad DAG or workspace fails the pipeline
\* without one observer call.
Plan(r) ==
    /\ pc[r] = "plan"
    /\ \/ /\ pc' = [pc EXCEPT ![r] = "loop"]
          /\ UNCHANGED verdict
       \/ /\ pc' = [pc EXCEPT ![r] = "save"]
          /\ verdict' = [verdict EXCEPT ![r] = "failed"]
    /\ UNCHANGED <<runVars, cur, logging, feedVars, callVars, subVars>>

\* Mutant of LoopTop: a cancellation leaves the loop without skipping.
LoopTopBreak(r) ==
    /\ pc[r] = "loop" /\ Idle(Exec(r))
    /\ verdict' = [verdict EXCEPT ![r] =
                     CASE @ # "none" -> @
                       [] cur[r] > NSteps -> "success"
                       [] ctxDone[r] -> "cancelled"
                       [] OTHER -> @]
    /\ pc' = [pc EXCEPT ![r] = IF verdict'[r] = "none" THEN "start" ELSE "save"]
    /\ UNCHANGED <<runVars, cur, logging, feedVars, callVars, subVars>>

\* Top of the loop: past the last step, or the ctx.Err() test.
LoopTop(r) ==
    /\ pc[r] = "loop" /\ Idle(Exec(r))
    /\ \/ /\ cur[r] > NSteps
          /\ pc' = [pc EXCEPT ![r] = "save"]
          /\ verdict' = [verdict EXCEPT ![r] = IF @ = "none" THEN "success" ELSE @]
       \/ /\ cur[r] <= NSteps
          /\ verdict[r] = "none"
          /\ IF ctxDone[r]
             THEN /\ verdict' = [verdict EXCEPT ![r] = "cancelled"]
                  /\ UNCHANGED pc
             ELSE /\ pc' = [pc EXCEPT ![r] = "start"]
                  /\ UNCHANGED verdict
    /\ UNCHANGED <<runVars, cur, logging, feedVars, callVars, subVars>>

\* updateStep sets the status of step cur[r]; the observer publishes it next.
UpdateStep(r, s) ==
    /\ MuFree
    /\ steps' = [steps EXCEPT ![r][cur[r]] = s]
    /\ UNCHANGED <<status, finished, cancels, ctxDone, stored>>

\* StepStarted, first half.
StepStart(r) ==
    /\ pc[r] = "start"
    /\ UpdateStep(r, "running")
    /\ pc' = [pc EXCEPT ![r] = "started"]
    /\ UNCHANGED <<cur, verdict, logging, feedVars, callVars, subVars>>

\* StepStarted, second half; the container and its log goroutine start.
StepRun(r) ==
    /\ pc[r] = "started"
    /\ Publish(Exec(r), r, StepStatusEvent(cur[r], "running"))
    /\ pc' = [pc EXCEPT ![r] = "instep"]
    /\ logging' = [logging EXCEPT ![r] = cur[r]]
    /\ UNCHANGED <<runVars, cur, verdict, callVars, subVars>>

\* Mutant of StepEnd: publish does not wait for its sends.
StepEndAsync(r) ==
    /\ pc[r] = "instep"
    /\ \E s \in Terminal :
         /\ UpdateStep(r, s)
         /\ verdict' = [verdict EXCEPT ![r] = IF s = "success" THEN "none" ELSE s]
    /\ pc' = [pc EXCEPT ![r] = "settled"]
    /\ UNCHANGED <<cur, logging, feedVars, callVars, subVars>>

\* Mutant of StepEnd: only a failed step stops the pipeline.
StepEndContinue(r) ==
    /\ pc[r] = "instep" /\ Idle(Exec(r))
    /\ \E s \in Terminal :
         /\ UpdateStep(r, s)
         /\ verdict' = [verdict EXCEPT ![r] = IF s = "failed" THEN s ELSE "none"]
    /\ pc' = [pc EXCEPT ![r] = "settled"]
    /\ UNCHANGED <<cur, logging, feedVars, callVars, subVars>>

\* executeStep returns and StepFinished updates the table.  A container that
\* ends well is joined with its log goroutine (its last callback returned);
\* when waiting for it fails - cancelled, timed out, lost - RunContainer
\* returns and leaves the goroutine behind.  executeStep tells a dead context
\* from other errors, and a step's own timeout also counts as cancelled.
StepEnd(r) ==
    /\ pc[r] = "instep" /\ Idle(Exec(r))
    /\ \E s \in Terminal, joined \in BOOLEAN :
         /\ s = "success" => joined
         /\ joined => Idle(Logger(r))
         /\ UpdateStep(r, s)
         /\ logging' = [logging EXCEPT ![r] = IF joined THEN 0 ELSE @]
         /\ verdict' = [verdict EXCEPT ![r] = IF s = "success" THEN "none" ELSE s]
    /\ pc' = [pc EXCEPT ![r] = "settled"]
    /\ UNCHANGED <<cur, feedVars, callVars, subVars>>

\* Mutant of StepSkip: the observer is not told of skipped steps.
StepSkipSilent(r) ==
    /\ pc[r] = "loop" /\ Idle(Exec(r))
    /\ verdict[r] # "none" /\ cur[r] <= NSteps
    /\ UpdateStep(r, "skipped")
    /\ cur' = [cur EXCEPT ![r] = @ + 1]
    /\ UNCHANGED <<pc, verdict, logging, feedVars, callVars, subVars>>

\* After a failure or a cancellation every later step is reported skipped.
StepSkip(r) ==
    /\ pc[r] = "loop" /\ Idle(Exec(r))
    /\ verdict[r] # "none" /\ cur[r] <= NSteps
    /\ UpdateStep(r, "skipped")
    /\ pc' = [pc EXCEPT ![r] = "settled"]
    /\ UNCHANGED <<cur, verdict, logging, feedVars, callVars, subVars>>

\* Mutant of StepReport: after a failure skipping starts at the failed step.
StepReportRepeat(r) ==
    /\ pc[r] = "settled"
    /\ Publish(Exec(r), r, StepStatusEvent(cur[r], steps[r][cur[r]]))
    /\ cur' = [cur EXCEPT ![r] = IF steps[r][cur[r]] = "failed" THEN @ ELSE @ + 1]
    /\ pc' = [pc EXCEPT ![r] = "loop"]
    /\ UNCHANGED <<runVars, verdict, logging, callVars, subVars>>

\* StepFinished, second half.
StepReport(r) ==
    /\ pc[r] = "settled"
    /\ Publish(Exec(r), r, StepStatusEvent(cur[r], steps[r][cur[r]]))
    /\ cur' = [cur EXCEPT ![r] = @ + 1]
    /\ pc' = [pc EXCEPT ![r] = "loop"]
    /\ UNCHANGED <<runVars, verdict, logging, callVars, subVars>>

\* StepLog, called by the log goroutine (or by an operation step inside it).
StepLog(r) ==
    /\ logging[r] # 0 /\ Idle(Logger(r))
    /\ pc[r] = "instep" => Idle(Exec(r))
    /\ Cardinality(Logs(r)) < MaxLogs
    /\ Publish(Logger(r), r, LogEvent(logging[r]))
    /\ UNCHANGED <<runVars, execVars, callVars, subVars>>

\* SavePipelineResult(ctx, ...): database/sql refuses a cancelled context, any
\* other error is ignored as well (StoreFails).
Save(r) ==
    /\ pc[r] = "save"
    /\ \/ /\ ~ctxDone[r]
          /\ stored' = [stored EXCEPT ![r] = verdict[r]]
       \/ /\ ctxDone[r] \/ StoreFails
          /\ UNCHANGED stored
    /\ pc' = [pc EXCEPT ![r] = "finish"]
    /\ UNCHANGED <<status, finished, steps, cancels, ctxDone, cur, verdict,
                   logging, feedVars, callVars, subVars>>

\* The mutants of Finish set another status or another cancel entry.
FinishWith(r, s, entry) ==
    /\ pc[r] = "finish" /\ MuFree
    /\ status' = [status EXCEPT ![r] = s]
    /\ finished' = [finished EXCEPT ![r] = TRUE]
    /\ cancels' = [cancels EXCEPT ![r] = entry]
    /\ pc' = [pc EXCEPT ![r] = "finished"]
    /\ UNCHANGED <<steps, ctxDone, stored, cur, verdict, logging, feedVars,
                   callVars, subVars>>

\* Mutant: convertStatus confuses two statuses.
FinishMisnamed(r) ==
    FinishWith(r, IF verdict[r] = "cancelled" THEN "skipped" ELSE verdict[r], FALSE)

\* Mutant: the cancel function stays behind.
FinishKeepsCancel(r) == FinishWith(r, verdict[r], cancels[r])

\* Mutant: a status set by Cancel wins over the result.
FinishKeepsStatus(r) ==
    FinishWith(r, IF status[r] = "cancelled" THEN "cancelled" ELSE verdict[r], FALSE)

\* finishRun, the locked part.
Finish(r) ==
    /\ pc[r] = "finish" /\ MuFree
    /\ status' = [status EXCEPT ![r] = verdict[r]]
    /\ finished' = [finished EXCEPT ![r] = TRUE]
    /\ cancels' = [cancels EXCEPT ![r] = FALSE]
    /\ pc' = [pc EXCEPT ![r] = "finished"]
    /\ UNCHANGED <<steps, ctxDone, stored, cur, verdict, logging, feedVars,
                   callVars, subVars>>

\* Mutant of FinishPublish: run_done carries the context's view.
FinishPublishContext(r) ==
    /\ pc[r] = "finished"
    /\ Publish(Exec(r), r, RunDoneEvent(IF ctxDone[r] THEN "cancelled" ELSE verdict[r]))
    /\ pc' = [pc EXCEPT ![r] = "done"]
    /\ UNCHANGED <<runVars, cur, verdict, logging, callVars, subVars>>

FinishPublish(r) ==
    /\ pc[r] = "finished"
    /\ Publish(Exec(r), r, RunDoneEvent(verdict[r]))
    /\ pc' = [pc EXCEPT ![r] = "done"]
    /\ UNCHANGED <<runVars, cur, verdict, logging, callVars, subVars>>

\* The container's log stream ends.
LogEnd(r) ==
    /\ logging[r] # 0 /\ Idle(Logger(r)) /\ pc[r] # "instep"
    /\ logging' = [logging EXCEPT ![r] = 0]
    /\ UNCHANGED <<runVars, pc, cur, verdict, feedVars, callVars, subVars>>

-----------------------------------------------------------------------------
(* publish, after the unlock: each send takes a free slot or drops the event. *)
Deliver(t, c, n) ==
    /\ <<c, n>> \in pub[t]
    /\ pub' = [pub EXCEPT ![t] = @ \ {<<c, n>>}]
    /\ \/ /\ HasRoom(c)
          /\ sent' = [sent EXCEPT ![c] = Append(@, n)]
          /\ UNCHANGED dropped
       \/ /\ ~HasRoom(c)
          /\ dropped' = [dropped EXCEPT ![c] = @ \cup {n}]
          /\ UNCHANGED sent
    /\ UNCHANGED <<runVars, execVars, history, callVars, subPc, subRun, nread>>

-----------------------------------------------------------------------------
(* Cancel *)

\* Mutant of CancelMark: the status is set whatever it was.
CancelMarkAlways(k) ==
    /\ callPc[k] = "idle" /\ Known(callRun[k]) /\ MuFree
    /\ callFn' = [callFn EXCEPT ![k] = cancels[callRun[k]]]
    /\ status' = [status EXCEPT ![callRun[k]] = "cancelled"]
    /\ callPc' = [callPc EXCEPT ![k] = "marked"]
    /\ answer' = [answer EXCEPT ![k] = "cancelled"]
    /\ UNCHANGED <<finished, steps, cancels, ctxDone, stored, execVars,
                   feedVars, callRun, subVars>>

\* The locked section: an active run is marked cancelled and its cancel
\* function picked up; any other run is only copied into the answer.
CancelMark(k) ==
    LET r == callRun[k] IN
    /\ callPc[k] = "idle" /\ Known(r) /\ MuFree
    /\ callFn' = [callFn EXCEPT ![k] = cancels[r]]
    /\ IF status[r] \in Active
       THEN /\ status' = [status EXCEPT ![r] = "cancelled"]
            /\ callPc' = [callPc EXCEPT ![k] = "marked"]
       ELSE /\ callPc' = [callPc EXCEPT ![k] = "returned"]
            /\ UNCHANGED status
    /\ answer' = [answer EXCEPT ![k] = status'[r]]
    /\ UNCHANGED <<finished, steps, cancels, ctxDone, stored, execVars,
                   feedVars, callRun, subVars>>

\* Mutant of CancelSignal: whether the run is active is read again after the
\* unlock.
CancelSignalReread(k) ==
    /\ callPc[k] = "marked"
    /\ ctxDone' = [ctxDone EXCEPT ![callRun[k]] =
                     @ \/ (callFn[k] /\ status[callRun[k]] \in Active)]
    /\ callPc' = [callPc EXCEPT ![k] = "signalled"]
    /\ UNCHANGED <<status, finished, steps, cancels, stored, execVars, feedVars,
                   callRun, callFn, answer, subVars>>

\* cancel(), outside the lock.
CancelSignal(k) ==
    /\ callPc[k] = "marked"
    /\ ctxDone' = [ctxDone EXCEPT ![callRun[k]] = @ \/ callFn[k]]
    /\ callPc' = [callPc EXCEPT ![k] = "signalled"]
    /\ UNCHANGED <<status, finished, steps, cancels, stored, execVars, feedVars,
                   callRun, callFn, answer, subVars>>

CancelPublish(k) ==
    /\ callPc[k] = "signalled"
    /\ Publish(Caller(k), callRun[k], RunStatusEvent("cancelled"))
    /\ callPc' = [callPc EXCEPT ![k] = "published"]
    /\ UNCHANGED <<runVars, execVars, callRun, callFn, answer, subVars>>

CancelReturn(k) ==
    /\ callPc[k] = "published" /\ Idle(Caller(k))
    /\ callPc' = [callPc EXCEPT ![k] = "returned"]
    /\ UNCHANGED <<runVars, execVars, feedVars, callRun, callFn, answer, subVars>>

-----------------------------------------------------------------------------
(* Subscribe and the SSE handler *)

SubscribeLock(c) ==
    /\ subPc[c] = "out" /\ Known(subRun[c]) /\ MuFree
    /\ subPc' = [subPc EXCEPT ![c] = "replay"]
    /\ UNCHANGED <<runVars, execVars, feedVars, callVars, subRun, sent, nread,
                   dropped>>

\* ch <- event under the lock: it blocks while the channel is full, and the
\* handler that would drain the channel does not have it yet.
SubscribeReplay(c) ==
    /\ subPc[c] = "replay"
    /\ Len(sent[c]) < Len(history[subRun[c]])
    /\ HasRoom(c)
    /\ sent' = [sent EXCEPT ![c] = Append(@, Len(@) + 1)]
    /\ UNCHANGED <<runVars, execVars, feedVars, callVars, subPc, subRun, nread,
                   dropped>>

\* Mutant of SubscribeReturn: the replay stops at a full channel.
SubscribeReturnFull(c) ==
    /\ subPc[c] = "replay"
    /\ Len(sent[c]) = Len(history[subRun[c]]) \/ ~HasRoom(c)
    /\ subPc' = [subPc EXCEPT ![c] = "in"]
    /\ UNCHANGED <<runVars, execVars, feedVars, callVars, subRun, sent, nread,
                   dropped>>

\* The channel joins s.subscribers and the lock is released.
SubscribeReturn(c) ==
    /\ subPc[c] = "replay"
    /\ Len(sent[c]) = Len(history[subRun[c]])
    /\ subPc' = [subPc EXCEPT ![c] = "in"]
    /\ UNCHANGED <<runVars, execVars, feedVars, callVars, subRun, sent, nread,
                   dropped>>

\* StreamRunEvents writes the next event to its client; run_done is an event
\* like any other.
Receive(c) ==
    /\ subPc[c] = "in" /\ nread[c] < Len(sent[c])
    /\ nread' = [nread EXCEPT ![c] = @ + 1]
    /\ UNCHANGED <<runVars, execVars, feedVars, callVars, subPc, subRun, sent,
                   dropped>>

\* The client goes away (or a write to it fails): unsubscribe.
Unsubscribe(c) ==
    /\ subPc[c] = "in" /\ MuFree
    /\ subPc' = [subPc EXCEPT ![c] = "gone"]
    /\ UNCHANGED <<runVars, execVars, feedVars, callVars, subRun, sent, nread,
                   dropped>>

-----------------------------------------------------------------------------
RunStep(r) ==
    \/ StartRegister(r) \/ StartPublish(r) \/ StartSpawn(r)
    \/ ExecBegin(r) \/ ExecAnnounce(r) \/ Prepare(r) \/ Plan(r) \/ LoopTop(r)
    \/ StepStart(r) \/ StepRun(r) \/ StepEnd(r) \/ StepSkip(r) \/ StepReport(r)
    \/ StepLog(r) \/ LogEnd(r) \/ Save(r) \/ Finish(r) \/ FinishPublish(r)

CallStep(k) ==
    CancelMark(k) \/ CancelSignal(k) \/ CancelPublish(k) \/ CancelReturn(k)

SubStep(c) ==
    \/ SubscribeLock(c) \/ SubscribeReplay(c) \/ SubscribeReturn(c)
    \/ Receive(c) \/ Unsubscribe(c)

Sending ==
    \E c \in Subscribers : \E t \in Threads : \E d \in pub[t] :
        d[1] = c /\ Deliver(t, c, d[2])

\* Everything anyone asked for has happened; a Subscribe stuck in its replay
\* is not that.
Terminated ==
    /\ \A r \in Runs : pc[r] = "done" /\ logging[r] = 0
    /\ \A k \in Cancellers : callPc[k] = "returned"
    /\ \A c \in Subscribers : subPc[c] = "gone"
    /\ \A t \in Threads : Idle(t)
    /\ UNCHANGED vars

Next ==
    \/ \E r \in Runs : RunStep(r)
    \/ \E k \in Cancellers : CallStep(k)
    \/ \E c \in Subscribers : SubStep(c)
    \/ Sending
    \/ Terminated

Spec == Init /\ [][Next]_vars

-----------------------------------------------------------------------------
(* Fairness.  Goroutines that can run do run, and Go's mutex starves nobody. *)
(* Nothing bounds how long a checkout or a container takes, except that both *)
(* are run under execCtx: once it is cancelled they return.                  *)

Goroutine(r) ==
    \/ StartPublish(r) \/ StartSpawn(r) \/ ExecBegin(r) \/ ExecAnnounce(r)
    \/ Plan(r) \/ LoopTop(r) \/ StepStart(r) \/ StepRun(r) \/ StepSkip(r)
    \/ StepReport(r) \/ Save(r) \/ Finish(r) \/ FinishPublish(r)

Fairness ==
    /\ \A r \in Runs :
         /\ WF_vars(Goroutine(r))
         /\ WF_vars(ctxDone[r] /\ (Prepare(r) \/ StepEnd(r)))
    /\ \A k \in Cancellers :
         WF_vars(CancelSignal(k) \/ CancelPublish(k) \/ CancelReturn(k))
    /\ \A c \in Subscribers : WF_vars(SubscribeReplay(c) \/ SubscribeReturn(c))
    /\ WF_vars(Sending)

FairSpec == Spec /\ Fairness

-----------------------------------------------------------------------------
(* Properties *)

RunStatuses  == {"none"} \cup Active \cup Terminal
StepStatuses == RunStatuses \cup {"skipped"}
PcStates ==
    {"idle", "registered", "announced", "spawned", "begun", "prepare", "plan",
     "loop", "start", "started", "instep", "settled", "save", "finish",
     "finished", "done"}

\* Every variable has its type: the run, step and event statuses are the ones
\* types.go declares, and a publish owes only channels of known subscribers.
TypeOK ==
    /\ status \in [Runs -> RunStatuses]
    /\ finished \in [Runs -> BOOLEAN]
    /\ steps \in [Runs -> [StepIds -> StepStatuses]]
    /\ history \in [Runs -> Seq(Events)]
    /\ cancels \in [Runs -> BOOLEAN]
    /\ ctxDone \in [Runs -> BOOLEAN]
    /\ stored \in [Runs -> {"none"} \cup Terminal]
    /\ pc \in [Runs -> PcStates]
    /\ cur \in [Runs -> 1..NSteps + 1]
    /\ verdict \in [Runs -> {"none"} \cup Terminal]
    /\ logging \in [Runs -> 0..NSteps]
    /\ pub \in [Threads -> SUBSET (Subscribers \X (Nat \ {0}))]
    /\ callPc \in [Cancellers -> {"idle", "marked", "signalled", "published", "returned"}]
    /\ callRun \in [Cancellers -> Runs]
    /\ callFn \in [Cancellers -> BOOLEAN]
    /\ answer \in [Cancellers -> RunStatuses]
    /\ subPc \in [Subscribers -> {"out", "replay", "in", "gone"}]
    /\ subRun \in [Subscribers -> Runs]
    /\ sent \in [Subscribers -> Seq(Nat \ {0})]
    /\ nread \in [Subscribers -> Nat]
    /\ dropped \in [Subscribers -> SUBSET (Nat \ {0})]

Delivered(c) == {sent[c][p] : p \in DOMAIN sent[c]}
Owed(c) == {n \in DOMAIN history[subRun[c]] : \E t \in Threads : <<c, n>> \in pub[t]}

\* No event reaches a channel twice, whether from the replay, from a publish
\* that was under way when Subscribe ran, or from two publishers: the events
\* sent, dropped and still owed to a subscriber are pairwise distinct.
NeverTwice ==
    \A c \in Subscribers :
        /\ \A p, q \in DOMAIN sent[c] : sent[c][p] = sent[c][q] => p = q
        /\ Delivered(c) \cap dropped[c] = {}
        /\ Owed(c) \cap (Delivered(c) \cup dropped[c]) = {}
        /\ \A t, u \in Threads, n \in Owed(c) :
             <<c, n>> \in pub[t] /\ <<c, n>> \in pub[u] => t = u

\* No event is lost between the replay and the live feed: each event of the
\* run is in a registered channel, was dropped because that channel was full,
\* or is owed to it by a publish in progress.
NoGap ==
    \A c \in Subscribers : subPc[c] = "in" =>
        DOMAIN history[subRun[c]] \subseteq Delivered(c) \cup dropped[c] \cup Owed(c)

Publisher(e) ==
    CASE e.type = "log" -> "log"
      [] e.type = "run_status" /\ e.status = "cancelled" -> "call"
      [] OTHER -> "exec"

\* publish sends outside the lock, so a channel may see events of different
\* goroutines out of history order; the execute goroutine's own events, and a
\* log's lines, never overtake each other.
PublisherOrder ==
    \A c \in Subscribers :
        LET at(p) == history[subRun[c]][sent[c][p]] IN
        \A p, q \in DOMAIN sent[c] :
            /\ p < q
            /\ Publisher(at(p)) = Publisher(at(q))
            /\ Publisher(at(p)) # "call"
            => sent[c][p] < sent[c][q]

Reports(r, i) ==
    {n \in DOMAIN history[r] :
        history[r][n].type = "step_status" /\ history[r][n].step = i}

\* A client that folds the event feed gets the same step table as GET /steps:
\* the latest step_status event of a step carries the step's status, except
\* between the observer's updateStep and its publish.
StepTableMatchesFeed ==
    \A r \in Runs : pc[r] # "idle" => \A i \in StepIds :
        \/ pc[r] \in {"started", "settled"} /\ cur[r] = i
        \/ Reports(r, i) = {} /\ steps[r][i] = "queued"
        \/ \E n \in Reports(r, i) :
             /\ \A m \in Reports(r, i) : m <= n
             /\ history[r][n].status = steps[r][i]

\* run_done is published once, with the status GET /runs/{id} reports from
\* then on; after it the feed carries only stragglers: lines of an abandoned
\* container's log and late announcements of a cancellation.
DoneEndsFeed ==
    \A r \in Runs : \A n \in DOMAIN history[r] :
        history[r][n].type = "run_done" =>
            /\ finished[r]
            /\ history[r][n].status = status[r]
            /\ \A m \in DOMAIN history[r] : m > n =>
                 Publisher(history[r][m]) # "exec"

\* A finished run's outcome and its step table tell one story: nothing is left
\* running, success means every step succeeded, and steps that stay queued
\* belong to a failed run none of whose steps ever started.
OutcomeMatchesSteps ==
    \A r \in Runs : finished[r] =>
        /\ \A i \in StepIds : steps[r][i] # "running"
        /\ status[r] = "success" <=> \A i \in StepIds : steps[r][i] = "success"
        /\ (\E i \in StepIds : steps[r][i] = "queued") =>
             status[r] = "failed" /\ \A i \in StepIds : steps[r][i] = "queued"
        /\ status[r] = "cancelled" =>
             \E i \in StepIds : steps[r][i] \in {"cancelled", "skipped"}

\* While a run is queued or running as clients see it, Cancel finds a cancel
\* function, so an acknowledged cancellation reaches the context; a finished
\* run keeps none.
CancelReachable ==
    \A r \in Runs :
        /\ Known(r) /\ ~finished[r] => cancels[r]
        /\ finished[r] => ~cancels[r] /\ status[r] \in Terminal

\* A row is final from the moment it is written, so the process may die at any
\* step: it tells the outcome of steps that are all settled (or never began),
\* success only of steps that all succeeded, and it is the status the API
\* reports once the run is finished.
StoredAgrees ==
    \A r \in Runs : stored[r] # "none" =>
        /\ finished[r] => stored[r] = status[r]
        /\ stored[r] = "success" <=> \A i \in StepIds : steps[r][i] = "success"
        /\ \/ \A i \in StepIds : steps[r][i] \in Terminal \cup {"skipped"}
           \/ stored[r] = "failed" /\ \A i \in StepIds : steps[r][i] = "queued"

\* Once finishRun has run, nothing - a late Cancel, a straggling log line, a
\* new subscriber - changes the run, its steps or its stored result.
FinishedIsFrozen ==
    [][\A r \in Runs : finished[r] =>
          /\ status'[r] = status[r] /\ steps'[r] = steps[r]
          /\ finished'[r] /\ stored'[r] = stored[r]
          /\ cancels'[r] = cancels[r]]_vars

\* A step runs at most once and settles at most once: queued steps start or
\* are skipped, running steps end, and no settled step ever changes.
StepsOnlyAdvance ==
    [][\A r \in Runs, i \in StepIds : steps'[r][i] # steps[r][i] =>
          <<steps[r][i], steps'[r][i]>> \in
              {<<"none", "queued">>, <<"queued", "running">>, <<"queued", "skipped">>}
              \cup ({"running"} \X Terminal)]_vars

HasDone(r) == \E n \in DOMAIN history[r] : history[r][n].type = "run_done"

\* A cancellation that was acknowledged with status "cancelled" brings the run
\* to its end: run_done is eventually published, however long its containers
\* would have run.
CancelEndsRun ==
    \A k \in Cancellers : (answer[k] = "cancelled") ~> HasDone(callRun[k])

\* Subscribe returns: its replay of the history gets through.
SubscribeReturns ==
    \A c \in Subscribers : (subPc[c] = "replay") ~> (subPc[c] = "in")

\* The feed as its readers may rely on it: RunService implements EventFeed,
\* with an event owed to a subscriber while a publish has its send to make and
\* the joining moment at the end of the replay.
Feed == INSTANCE EventFeed WITH
    Feeds   <- Runs,
    Readers <- Subscribers,
    Backlog <- BufCap,
    length  <- [r \in Runs |-> Len(history[r])],
    follows <- subRun,
    state   <- [c \in Subscribers |-> IF subPc[c] = "replay" THEN "out" ELSE subPc[c]],
    got     <- [c \in Subscribers |-> IF subPc[c] = "replay" THEN {} ELSE Delivered(c)],
    read    <- nread,
    owed    <- [c \in Subscribers |-> Owed(c)],
    lost    <- dropped

\* Every behaviour of the service's feed is one EventFeed allows: the replay
\* and the live feed join without a gap or a repetition, and only a subscriber
\* with a full channel loses an event.
ImplementsEventFeed == Feed!FeedSpec

Protocol == INSTANCE StepProtocol WITH
    Pipelines <- Runs,
    N         <- NSteps,
    table     <- [r \in Runs |-> [i \in StepIds |->
                    IF steps[r][i] = "none" THEN "queued" ELSE steps[r][i]]],
    outcome   <- verdict

\* The step table the API shows and the run's verdict change only as the
\* executor's contract allows - the contract module Executor is shown to keep.
ImplementsProtocol == Protocol!ProtocolSpec

-----------------------------------------------------------------------------
(* Statements of the repository's tests and documents that the code breaks. *)

\* TestRouterCancelsRun waits for a cancelled run to report "cancelled" and
\* takes that for its outcome: a run whose cancellation was acknowledged while
\* it was active finishes as cancelled.
CancelledStaysCancelled ==
    \A k \in Cancellers :
        answer[k] = "cancelled" /\ finished[callRun[k]]
            => status[callRun[k]] = "cancelled"

\* The README keeps the results of pipelines in SQLite: with a database that
\* takes every write it is asked to make, a finished run whose executor
\* produced a cancelled result is stored as such.
CancelledIsStored ==
    \A r \in Runs : finished[r] /\ status[r] = "cancelled" => stored[r] = "cancelled"

=============================================================================
