------------------------------- MODULE Worker -------------------------------
(***************************************************************************)
(* cmd/worker: the daemon around the run service.  It boots (Docker, data  *)
(* directory, database), serves the HTTP API from a goroutine of its own,  *)
(* and on the first signal shuts the HTTP server down, joins that          *)
(* goroutine, closes the database and exits.  Shutdown waits for requests, *)
(* not for runs: their goroutines go on until the process is gone, which   *)
(* is the end of every one of them wherever it is.                         *)
(*                                                                         *)
(* The requests are those of RunService: r posts a pipeline, k cancels a   *)
(* run, c streams a run's events.  net/http is external: a request whose   *)
(* connection the server accepted is answered by a handler; Shutdown       *)
(* closes the listener and polls until no request is open, or until its    *)
(* context has expired; it does not cancel the requests' contexts.         *)
(***************************************************************************)
EXTENDS RunService

VARIABLES
    phase,     \* where runWorker is
    serve,     \* the ListenAndServe goroutine, and with it what errCh holds
    accepted,  \* requests whose connection the server accepted
    code       \* how runWorker returns: nil is "ok"

workerVars == <<phase, serve, accepted, code>>
allVars    == <<vars, workerVars>>

Requests == Runs \cup Cancellers \cup Subscribers

WorkerInit ==
    /\ Init
    /\ phase = "boot" /\ serve = "starting" /\ accepted = {} /\ code = "none"

-----------------------------------------------------------------------------
(* runWorker *)

\* Docker, its health check, the data directory and the database, in turn: the
\* first that fails ends the worker, as does a signal nobody listens for yet.
Boot ==
    /\ phase = "boot"
    /\ \/ phase' = "serving" /\ UNCHANGED code
       \/ phase' = "exited" /\ code' \in {"error", "killed"}
    /\ UNCHANGED <<vars, serve, accepted>>

\* ListenAndServe: the address is bound or it is not; Accept may fail later.
Serve ==
    /\ phase = "serving"
    /\ \/ serve = "starting" /\ serve' \in {"listening", "failed"}
       \/ serve = "listening" /\ serve' = "failed"
    /\ UNCHANGED <<vars, phase, accepted, code>>

\* Once Shutdown has begun it returns ErrServerClosed.
ServeEnd ==
    /\ phase \in {"draining", "join"}
    /\ serve \in {"starting", "listening"}
    /\ serve' = "ended"
    /\ UNCHANGED <<vars, phase, accepted, code>>

\* The select: the error of the goroutine is returned.
ServeError ==
    /\ phase = "serving" /\ serve = "failed"
    /\ phase' = "unwind" /\ code' = "error"
    /\ UNCHANGED <<vars, serve, accepted>>

\* The select: the first signal cancels the context and Shutdown begins; the
\* channel takes later signals and nobody reads them.
Signal ==
    /\ phase = "serving"
    /\ phase' = "draining"
    /\ UNCHANGED <<vars, serve, accepted, code>>

\* The handler of q is running: a start until the run is spawned, a stream
\* until its client leaves, also while they wait for s.mu.
Open(q) ==
    /\ q \in accepted
    /\ \/ q \in Runs /\ pc[q] \in {"idle", "registered", "announced"}
       \/ q \in Cancellers /\ callPc[q] # "returned"
       \/ q \in Subscribers /\ subPc[q] # "gone"

\* Mutant of Shutdown: Close instead of Shutdown.
ShutdownAbrupt ==
    /\ phase = "draining"
    /\ phase' = "join"
    /\ UNCHANGED <<vars, serve, accepted, code>>

\* Mutant of Shutdown: its context has no deadline.
ShutdownPatient ==
    /\ phase = "draining"
    /\ serve # "listening" /\ \A q \in Requests : ~Open(q)
    /\ phase' = "join"
    /\ UNCHANGED <<vars, serve, accepted, code>>

\* Shutdown waits for the accept loop to end; it returns nil once no request
\* is open, and an error when its ten seconds are over.
Shutdown ==
    /\ phase = "draining" /\ serve # "listening"
    /\ \/ /\ \A q \in Requests : ~Open(q)
          /\ phase' = "join" /\ UNCHANGED code
       \/ phase' = "unwind" /\ code' = "error"
    /\ UNCHANGED <<vars, serve, accepted>>

\* <-errCh
Join ==
    /\ phase = "join" /\ serve \in {"ended", "failed"}
    /\ phase' = "unwind"
    /\ code' = IF serve = "ended" THEN "ok" ELSE "error"
    /\ UNCHANGED <<vars, serve, accepted>>

\* The deferred store.Close.
CloseStore ==
    /\ phase = "unwind"
    /\ phase' = "closed"
    /\ UNCHANGED <<vars, serve, accepted, code>>

\* The deferred mgr.Close, and main's exit.
Exit ==
    /\ phase = "closed"
    /\ phase' = "exited"
    /\ UNCHANGED <<vars, serve, accepted, code>>

-----------------------------------------------------------------------------
(* The service inside the process *)

\* A request reaches the server; a client can only name a run it was told of.
Accept(q) ==
    /\ serve = "listening" /\ phase # "exited" /\ q \notin accepted
    /\ q \in Cancellers => Known(callRun[q])
    /\ q \in Subscribers => Known(subRun[q])
    /\ accepted' = accepted \cup {q}
    /\ UNCHANGED <<vars, phase, serve, code>>

\* Mutant of StoreOpen: the run inherits the context of the request that
\* started it, which ends with its answer.
StoreOpenInRequest(r) == phase # "closed" /\ Open(r)

\* The database takes a write of run r: it was not closed yet.
StoreOpen(r) == phase # "closed"

\* SavePipelineResult on a closed database: the error is ignored.
SaveRefused(r) ==
    /\ pc[r] = "save" /\ ~StoreOpen(r)
    /\ pc' = [pc EXCEPT ![r] = "finish"]
    /\ UNCHANGED <<runVars, cur, verdict, logging, feedVars, callVars, subVars>>

\* A step of the service's code, while there is a process to take it.
ServiceStep ==
    /\ phase # "exited"
    /\ \/ \E r \in accepted \cap Runs :
            SaveRefused(r) \/ (RunStep(r) /\ (StoreOpen(r) \/ stored' = stored))
       \/ \E k \in accepted \cap Cancellers : CallStep(k)
       \/ \E c \in accepted \cap Subscribers : SubStep(c)
       \/ Sending
    /\ UNCHANGED workerVars

\* The process is gone.
Exited == phase = "exited" /\ UNCHANGED allVars

WorkerNext ==
    \/ Boot \/ Serve \/ ServeEnd \/ ServeError \/ Signal \/ Shutdown \/ Join
    \/ CloseStore \/ Exit
    \/ \E q \in Requests : Accept(q)
    \/ ServiceStep
    \/ Exited

WorkerSpec == WorkerInit /\ [][WorkerNext]_allVars

\* runWorker and the serving goroutine run when they can, and Shutdown's timer
\* fires.  Nothing is assumed of the clients, the runs or s.mu.
FairWorkerSpec ==
    /\ WorkerSpec
    /\ WF_allVars(ServeEnd)
    /\ WF_allVars(ServeError \/ Shutdown \/ Join \/ CloseStore \/ Exit)

-----------------------------------------------------------------------------
(* Properties *)

\* A worker that exits with status 0 cut nobody off: every request it accepted
\* was answered - no run is registered but not started, no cancellation marked
\* but not signalled - and every event stream was closed by its client.
CleanExitCutsNobody ==
    phase = "exited" /\ code = "ok" => \A q \in Requests : ~Open(q)

\* As long as the database is open, a finished run that reached the executor
\* and was not cancelled has its row, with the status the API reports.
ServedResultsAreStored ==
    \A r \in Runs :
        /\ finished[r] /\ ~ctxDone[r] /\ ~StoreFails
        /\ phase \notin {"closed", "exited"}
        /\ \E i \in StepIds : steps[r][i] # "queued"
        => stored[r] = status[r]

\* The first signal ends the worker, whatever its clients and runs do: with an
\* event stream open for ever, or a Subscribe stuck under the service's lock.
StopEnds == (phase = "draining") ~> (phase = "exited")

Service == INSTANCE RunService WITH StoreFails <- TRUE

\* To the rest of the program the daemon is a run service that may stop at any
\* step and whose database may refuse writes: what RunService promises holds in
\* the worker, at every instant of its start, service and end.
ImplementsRunService == Service!Spec

=============================================================================
