----------------------------- MODULE WorkerPool -----------------------------
(***************************************************************************)
(* The worker pool (internal/worker/pool.go, job.go) with the calls that   *)
(* feed it: DoWithContext, DoBatchWithContext and Close of                 *)
(* rapidproxy/pool.go.                                                     *)
(*                                                                         *)
(* Callers, workers, the collectors of a batch and Close are goroutines    *)
(* that share one buffered channel, jobQueue, a one-place channel per job, *)
(* ResultCh, and two cancellable contexts, the pool's and the worker       *)
(* pool's.  A select is a choice among the cases that are ready; to send   *)
(* on, or to close, a closed channel panics.  A panic ends the goroutine   *)
(* that made it, as in a program that recovers from it.                    *)
(*                                                                         *)
(* The proxy side of a job (Select, the wait for the domain limit, the     *)
(* HTTP exchange) is reduced here to its possible results.                 *)
(***************************************************************************)
EXTENDS Sequences, FiniteSets, Integers, SequencesExt

CONSTANTS
  Workers,     \* worker goroutines
  Doers,       \* calls of DoWithContext; each names its job, too
  BatchJobs,   \* the jobs of one call of DoBatchWithContext, in order
  BatchCtx,    \* the context of that call
  Closers,     \* calls of Close
  NoJob,       \* not a job
  QueueSize    \* capacity of jobQueue

ASSUME PoolAssumption ==
  /\ IsFiniteSet(Workers) /\ IsFiniteSet(Doers) /\ IsFiniteSet(Closers)
  /\ BatchJobs \in Seq(Range(BatchJobs))
  /\ IsInjective(BatchJobs)
  /\ Range(BatchJobs) \intersect Doers = {}
  /\ BatchCtx \notin Doers
  /\ NoJob \notin Doers \union Range(BatchJobs)
  /\ QueueSize \in Nat \ {0}       \* Config.Validate

InBatch == Range(BatchJobs)
Jobs    == Doers \union InBatch

(* The context of a job: each Do has its own, the jobs of a batch one.     *)
Contexts == Doers \union {BatchCtx}
CtxOf(j) == IF j \in Doers THEN j ELSE BatchCtx

(* What a call can end with.  The packages declare their errors apart: an  *)
(* error is told by its package and name.                                  *)
WorkerResults == {"response", "request failed", "selector.ErrAllProxiesBusy", "context"}
CallErrors    == {"context", "worker.ErrQueueFull", "worker.ErrPoolClosed",
                  "rapidproxy.ErrPoolClosed", "panic"}
Outcomes      == WorkerResults \union CallErrors

(* Those that come from an execution, and those that deny one. *)
Executed == WorkerResults \ {"context"}
Refused  == {"worker.ErrQueueFull", "worker.ErrPoolClosed"}

VARIABLES
  jobQueue, queueClosed,
  poolDone,     \* Pool.ctx of rapidproxy is cancelled
  workDone,     \* Pool.ctx of the worker pool is cancelled
  ctxDone,      \* contexts of callers that are cancelled or past a deadline
  resultCh,     \* resultCh[j]: the content of j's result channel, a sequence
  wpc, wjob, wresult,  \* per worker: next step, job, result about to be sent
  totalJobs, successJobs, failedJobs,
  cpc,          \* cpc[j]: state of the goroutine that submits or awaits job j
  outcome,      \* outcome[j]: what the call got for job j
  bpc, bnext,   \* the batch call: its state, and the index of its next job
  xpc,          \* xpc[c]: the state of a call of Close
  runs,         \* history: runs[j], times a worker has taken job j
  stale,        \* history: jobs in execution that were taken after their context was done
  lateCalls     \* history: jobs of calls made after a Close had returned

queue    == <<jobQueue, queueClosed>>
contexts == <<poolDone, workDone, ctxDone>>
worker   == <<wpc, wjob, wresult, totalJobs, successJobs, failedJobs>>
callers  == <<cpc, outcome, bpc, bnext, lateCalls>>
history  == <<runs, stale>>
vars     == <<queue, contexts, resultCh, worker, callers, xpc, history>>

(* In "release", which only Pipeline has, a worker without a job gives back *)
(* the slot of its last one.                                               *)
WorkerStates == {"select", "proxy", "domain", "http", "send", "release", "exited"}
CallerStates == {"new", "submit", "queued", "wait", "returned"}
BatchStates  == {"new", "submit", "collect", "returned", "panicked"}
CloserStates == {"new", "cancelWork", "closeQueue", "wait", "closed", "panicked"}
ResultSlot   == {<<>>} \union {<<r>> : r \in WorkerResults}   \* a channel of one place

TypeOK ==
  /\ jobQueue \in Seq(Jobs) /\ Len(jobQueue) <= QueueSize
  /\ queueClosed \in BOOLEAN /\ poolDone \in BOOLEAN /\ workDone \in BOOLEAN
  /\ ctxDone \subseteq Contexts
  /\ resultCh \in [Jobs -> ResultSlot]
  /\ wpc \in [Workers -> WorkerStates]
  /\ wjob \in [Workers -> Jobs \union {NoJob}]
  /\ wresult \in [Workers -> WorkerResults \union {"none"}]
  /\ {totalJobs, successJobs, failedJobs} \subseteq Nat
  /\ cpc \in [Jobs -> CallerStates]
  /\ outcome \in [Jobs -> Outcomes \union {"none"}]
  /\ bpc \in BatchStates
  /\ bnext \in 1 .. Len(BatchJobs) + 1
  /\ xpc \in [Closers -> CloserStates]
  /\ runs \in [Jobs -> Nat]
  /\ stale \subseteq Jobs
  /\ lateCalls \subseteq Jobs

Init ==
  /\ jobQueue = <<>> /\ queueClosed = FALSE
  /\ poolDone = FALSE /\ workDone = FALSE
  /\ ctxDone = {}
  /\ resultCh = [j \in Jobs |-> <<>>]
  /\ wpc = [w \in Workers |-> "select"]
  /\ wjob = [w \in Workers |-> NoJob]
  /\ wresult = [w \in Workers |-> "none"]
  /\ totalJobs = 0 /\ successJobs = 0 /\ failedJobs = 0
  /\ cpc = [j \in Jobs |-> "new"]
  /\ outcome = [j \in Jobs |-> "none"]
  /\ bpc = "new" /\ bnext = 1
  /\ xpc = [c \in Closers |-> "new"]
  /\ runs = [j \in Jobs |-> 0]
  /\ stale = {}
  /\ lateCalls = {}

RoomForOneMore == Len(jobQueue) <= QueueSize   \* mutant

Room == Len(jobQueue) < QueueSize
Enqueue(j) == Room /\ ~ queueClosed /\ jobQueue' = Append(jobQueue, j)

(* The call ends with result r for job j. *)
Ends(j, r) ==
  /\ outcome' = [outcome EXCEPT ![j] = r]
  /\ cpc' = [cpc EXCEPT ![j] = "returned"]
Becomes(j, state) == cpc' = [cpc EXCEPT ![j] = state] /\ UNCHANGED outcome

Late(js) ==
  lateCalls' = IF \E c \in Closers : xpc[c] = "closed" THEN lateCalls \union js
               ELSE lateCalls

----------------------------------------------------------------------------
(* DoWithContext *)

Do(j) ==
  /\ j \in Doers /\ cpc[j] = "new"
  /\ Becomes(j, "submit")
  /\ Late({j})
  /\ UNCHANGED <<queue, contexts, resultCh, worker, bpc, bnext, xpc, history>>

(* The select of SubmitBlocking.  A case for a closed queue is ready, and  *)
(* panics when it is chosen.                                               *)
SubmitBlocking(j) ==
  /\ j \in Doers /\ cpc[j] = "submit"
  /\ \/ Enqueue(j) /\ Becomes(j, "wait")
     \/ queueClosed /\ Ends(j, "panic") /\ UNCHANGED jobQueue
     \/ CtxOf(j) \in ctxDone /\ Ends(j, "context") /\ UNCHANGED jobQueue
     \/ workDone /\ Ends(j, "worker.ErrPoolClosed") /\ UNCHANGED jobQueue
  /\ UNCHANGED <<queueClosed, contexts, resultCh, worker, bpc, bnext, lateCalls,
                 xpc, history>>

(* Mutant: a result channel that Close has closed yields a zero result. *)
AwaitZeroResult(j) ==
  /\ cpc[j] = "wait"
  /\ poolDone
  /\ Ends(j, "response")
  /\ UNCHANGED <<queue, contexts, resultCh, worker, bpc, bnext, lateCalls, xpc, history>>

(* Mutant: the two contexts are taken for each other. *)
AwaitSwapped(j) ==
  /\ cpc[j] = "wait"
  /\ \/ poolDone /\ Ends(j, "context")
     \/ CtxOf(j) \in ctxDone /\ Ends(j, "rapidproxy.ErrPoolClosed")
  /\ UNCHANGED <<queue, contexts, resultCh, worker, bpc, bnext, lateCalls, xpc, history>>

(* Mutant: the case of the pool's context is missing. *)
AwaitResultOnly(j) ==
  /\ cpc[j] = "wait"
  /\ \/ /\ resultCh[j] # <<>>
        /\ Ends(j, Head(resultCh[j]))
        /\ resultCh' = [resultCh EXCEPT ![j] = Tail(@)]
     \/ CtxOf(j) \in ctxDone /\ Ends(j, "context") /\ UNCHANGED resultCh
  /\ UNCHANGED <<queue, contexts, worker, bpc, bnext, lateCalls, xpc, history>>

(* The select that waits for the result, in DoWithContext and in each      *)
(* collector of a batch.                                                   *)
Await(j) ==
  /\ cpc[j] = "wait"
  /\ \/ /\ resultCh[j] # <<>>
        /\ Ends(j, Head(resultCh[j]))
        /\ resultCh' = [resultCh EXCEPT ![j] = Tail(@)]
     \/ CtxOf(j) \in ctxDone /\ Ends(j, "context") /\ UNCHANGED resultCh
     \/ poolDone /\ Ends(j, "rapidproxy.ErrPoolClosed") /\ UNCHANGED resultCh
  /\ UNCHANGED <<queue, contexts, worker, bpc, bnext, lateCalls, xpc, history>>

----------------------------------------------------------------------------
(* DoBatchWithContext: all jobs are submitted without blocking before any  *)
(* result is collected.                                                    *)

DoBatch ==
  /\ bpc = "new" /\ BatchJobs # <<>>
  /\ bpc' = "submit"
  /\ cpc' = [j \in Jobs |-> IF j \in InBatch THEN "submit" ELSE cpc[j]]
  /\ Late(InBatch)
  /\ UNCHANGED <<queue, contexts, resultCh, worker, outcome, bnext, xpc, history>>

Submit ==
  /\ bpc = "submit" /\ bnext <= Len(BatchJobs)
  /\ LET j == BatchJobs[bnext]
     IN  \/ /\ Enqueue(j)
            /\ Becomes(j, "queued")
            /\ bnext' = bnext + 1
            /\ UNCHANGED bpc
         \/ /\ ~ Room /\ ~ queueClosed
            /\ Ends(j, "worker.ErrQueueFull")
            /\ bnext' = bnext + 1
            /\ UNCHANGED <<bpc, jobQueue>>
         \/ /\ queueClosed             \* the whole call panics
            /\ bpc' = "panicked"
            /\ outcome' = [k \in Jobs |-> IF k \in InBatch THEN "panic" ELSE outcome[k]]
            /\ cpc' = [k \in Jobs |-> IF k \in InBatch THEN "returned" ELSE cpc[k]]
            /\ UNCHANGED <<bnext, jobQueue>>
  /\ UNCHANGED <<queueClosed, contexts, resultCh, worker, lateCalls, xpc, history>>

(* Mutant: a result is awaited for the jobs that were refused, too. *)
CollectAll ==
  /\ bpc = "submit" /\ bnext > Len(BatchJobs)
  /\ bpc' = "collect"
  /\ cpc' = [j \in Jobs |-> IF j \in InBatch THEN "wait" ELSE cpc[j]]
  /\ UNCHANGED <<queue, contexts, resultCh, worker, outcome, bnext, lateCalls, xpc,
                 history>>

StartCollectors ==
  /\ bpc = "submit" /\ bnext > Len(BatchJobs)
  /\ bpc' = "collect"
  /\ cpc' = [j \in Jobs |-> IF j \in InBatch /\ cpc[j] = "queued" THEN "wait" ELSE cpc[j]]
  /\ UNCHANGED <<queue, contexts, resultCh, worker, outcome, bnext, lateCalls, xpc,
                 history>>

BatchReturns ==
  /\ bpc = "collect"
  /\ \A j \in InBatch : cpc[j] = "returned"
  /\ bpc' = "returned"
  /\ UNCHANGED <<queue, contexts, resultCh, worker, cpc, outcome, bnext, lateCalls,
                 xpc, history>>

----------------------------------------------------------------------------
(* A worker *)

Goto(w, label) == wpc' = [wpc EXCEPT ![w] = label]

(* Mutant: the job stays in the queue. *)
PeekJob(w) ==
  /\ wpc[w] = "select" /\ jobQueue # <<>>
  /\ wjob' = [wjob EXCEPT ![w] = Head(jobQueue)]
  /\ runs' = [runs EXCEPT ![Head(jobQueue)] = @ + 1]
  /\ totalJobs' = totalJobs + 1
  /\ Goto(w, "proxy")
  /\ UNCHANGED <<queue, contexts, resultCh, wresult, successJobs, failedJobs, callers,
                 xpc, stale>>

(* The select of the worker loop, when it chooses a job. *)
TakeJob(w) ==
  /\ wpc[w] = "select" /\ jobQueue # <<>>
  /\ LET j == Head(jobQueue)
     IN  /\ wjob' = [wjob EXCEPT ![w] = j]
         /\ runs' = [runs EXCEPT ![j] = @ + 1]
         /\ stale' = IF CtxOf(j) \in ctxDone THEN stale \union {j} ELSE stale
  /\ jobQueue' = Tail(jobQueue)
  /\ totalJobs' = totalJobs + 1
  /\ Goto(w, "proxy")
  /\ UNCHANGED <<queueClosed, contexts, resultCh, wresult, successJobs, failedJobs,
                 callers, xpc>>

(* Mutant: a worker that finds no job goes home. *)
ExitWhenIdle(w) ==
  /\ wpc[w] = "select"
  /\ workDone \/ jobQueue = <<>>
  /\ Goto(w, "exited")
  /\ UNCHANGED <<queue, contexts, resultCh, wjob, wresult, totalJobs, successJobs,
                 failedJobs, callers, xpc, history>>

(* ... or finds the context done, or the queue closed and drained. *)
Exit(w) ==
  /\ wpc[w] = "select"
  /\ workDone \/ (queueClosed /\ jobQueue = <<>>)
  /\ Goto(w, "exited")
  /\ UNCHANGED <<queue, contexts, resultCh, wjob, wresult, totalJobs, successJobs,
                 failedJobs, callers, xpc, history>>

(* The result is known: it is counted, and sent next. *)
Succeed(w) ==
  /\ wresult' = [wresult EXCEPT ![w] = "response"]
  /\ successJobs' = successJobs + 1
  /\ Goto(w, "send")
  /\ UNCHANGED failedJobs

Fail(w, r) ==
  /\ wresult' = [wresult EXCEPT ![w] = r]
  /\ failedJobs' = failedJobs + 1
  /\ Goto(w, "send")
  /\ UNCHANGED successJobs
Continue(w, label) == Goto(w, label) /\ UNCHANGED <<wresult, successJobs, failedJobs>>

NeverDone(w)  == FALSE    \* mutant

JobCtxDone(w) == CtxOf(wjob[w]) \in ctxDone

(* Select checks the context before it looks at a proxy. *)
SelectProxy(w) ==
  /\ wpc[w] = "proxy"
  /\ \/ JobCtxDone(w) /\ Fail(w, "context")
     \/ ~ JobCtxDone(w) /\ Fail(w, "selector.ErrAllProxiesBusy")
     \/ ~ JobCtxDone(w) /\ (Continue(w, "domain") \/ Continue(w, "http"))
  /\ UNCHANGED <<queue, contexts, resultCh, wjob, totalJobs, callers, xpc, history>>

(* A domain limit applies: Acquire waits for a token or the context. *)
AcquireDomain(w) ==
  /\ wpc[w] = "domain"
  /\ \/ Continue(w, "http")
     \/ JobCtxDone(w) /\ Fail(w, "context")
  /\ UNCHANGED <<queue, contexts, resultCh, wjob, totalJobs, callers, xpc, history>>

(* The exchange ends by itself, in http.Client's timeout at the latest, or *)
(* because the context of the request is done.                             *)
Exchange(w) ==
  /\ wpc[w] = "http"
  /\ \/ Succeed(w)
     \/ Fail(w, "request failed")
     \/ JobCtxDone(w) /\ Fail(w, "context")
  /\ UNCHANGED <<queue, contexts, resultCh, wjob, totalJobs, callers, xpc, history>>

(* Mutant: an unbuffered channel takes a result only while someone waits. *)
DeliverUnbuffered(w, label) ==
  /\ wpc[w] = "send" /\ cpc[wjob[w]] = "wait"
  /\ resultCh' = [resultCh EXCEPT ![wjob[w]] = <<wresult[w]>>]
  /\ wjob' = [wjob EXCEPT ![w] = NoJob]
  /\ wresult' = [wresult EXCEPT ![w] = "none"]
  /\ stale' = stale \ {wjob[w]}
  /\ Goto(w, label)
  /\ UNCHANGED <<queue, contexts, totalJobs, successJobs, failedJobs, callers, xpc, runs>>

(* job.ResultCh <- Result{...}: blocks while the channel is full. *)
Deliver(w, label) ==
  /\ wpc[w] = "send"
  /\ resultCh[wjob[w]] = <<>>
  /\ resultCh' = [resultCh EXCEPT ![wjob[w]] = <<wresult[w]>>]
  /\ wjob' = [wjob EXCEPT ![w] = NoJob]
  /\ wresult' = [wresult EXCEPT ![w] = "none"]
  /\ stale' = stale \ {wjob[w]}
  /\ Goto(w, label)
  /\ UNCHANGED <<queue, contexts, totalJobs, successJobs, failedJobs, callers, xpc, runs>>

SendResult(w) == Deliver(w, "select")

----------------------------------------------------------------------------
(* Close *)

CloserAt(c, label, next) == xpc[c] = label /\ xpc' = [xpc EXCEPT ![c] = next]

CancelPool(c) ==
  /\ CloserAt(c, "new", "cancelWork")
  /\ poolDone' = TRUE
  /\ UNCHANGED <<queue, workDone, ctxDone, resultCh, worker, callers, history>>

CancelWork(c) ==
  /\ CloserAt(c, "cancelWork", "closeQueue")
  /\ workDone' = TRUE
  /\ UNCHANGED <<queue, poolDone, ctxDone, resultCh, worker, callers, history>>

CloseQueue(c) ==
  /\ \/ /\ ~ queueClosed
        /\ CloserAt(c, "closeQueue", "wait")
        /\ queueClosed' = TRUE
     \/ /\ queueClosed
        /\ CloserAt(c, "closeQueue", "panicked")
        /\ UNCHANGED queueClosed
  /\ UNCHANGED <<jobQueue, contexts, resultCh, worker, callers, history>>

(* wg.Wait returns; what is left is to close the connection manager. *)
WaitWorkers(c) ==
  /\ \A w \in Workers : wpc[w] = "exited"
  /\ CloserAt(c, "wait", "closed")
  /\ UNCHANGED <<queue, contexts, resultCh, worker, callers, history>>

(* A caller gives up, or its deadline passes. *)
CancelCall(x) ==
  /\ ctxDone' = ctxDone \union {x}
  /\ UNCHANGED <<queue, poolDone, workDone, resultCh, worker, callers, xpc, history>>

----------------------------------------------------------------------------
WorkerStep(w) ==
  TakeJob(w) \/ Exit(w) \/ SelectProxy(w) \/ AcquireDomain(w) \/ Exchange(w) \/ SendResult(w)
CallerStep(j)  == SubmitBlocking(j) \/ Await(j)
BatchStep      == Submit \/ StartCollectors \/ BatchReturns
CloserStep(c)  == CancelWork(c) \/ CloseQueue(c) \/ WaitWorkers(c)

Next ==
  \/ \E j \in Jobs : Do(j) \/ CallerStep(j)
  \/ DoBatch \/ BatchStep
  \/ \E w \in Workers : WorkerStep(w)
  \/ \E c \in Closers : CancelPool(c) \/ CloserStep(c)
  \/ \E x \in Contexts : CancelCall(x)

Spec == Init /\ [][Next]_vars

(* The scheduler runs a goroutine that can go on; nobody has to make,      *)
(* cancel or close anything.                                               *)
Fairness ==
  /\ \A w \in Workers : WF_vars(WorkerStep(w))
  /\ \A j \in Jobs : WF_vars(CallerStep(j))
  /\ WF_vars(BatchStep)
  /\ \A c \in Closers : WF_vars(CloserStep(c))

----------------------------------------------------------------------------
Running(j) == {w \in Workers : wjob[w] = j}

(* A job is in one place: with its caller, in the queue, with one worker,  *)
(* or done.  It is never executed twice, and a worker never finds the      *)
(* result channel full, which would leave it stuck in the send.            *)
JobRunsOnce ==
  /\ IsInjective(jobQueue)
  /\ \A j \in Jobs :
       /\ runs[j] <= 1
       /\ j \in Range(jobQueue) => runs[j] = 0
       /\ Running(j) # {} => resultCh[j] = <<>> /\ outcome[j] \notin Executed

(* An error that blames the caller's context or the closing of the pool    *)
(* has that cause.                                                         *)
OutcomeJustified ==
  \A j \in Jobs :
    /\ outcome[j] = "context" => CtxOf(j) \in ctxDone
    /\ outcome[j] = "rapidproxy.ErrPoolClosed" => poolDone
    /\ outcome[j] = "worker.ErrPoolClosed" => workDone
    /\ outcome[j] = "panic" => queueClosed

(* A job that waited in the queue longer than its caller did sends nothing *)
(* to a proxy.                                                             *)
AbandonedJobSendsNothing ==
  \A w \in Workers : wjob[w] \in stale => wpc[w] \notin {"domain", "http"}

(* Once Close has returned no worker runs a job, and none ever will.       *)
QuiescentAfterClose ==
  (\E c \in Closers : xpc[c] = "closed") => \A w \in Workers : wpc[w] = "exited"

(* What makes the properties above inductive.  A job that has not been     *)
(* accepted is nowhere, one that has been taken is with one worker or done.*)
OnePlace ==
  /\ IsInjective(jobQueue)
  /\ \A j \in Jobs :
       /\ runs[j] <= 1
       /\ j \in Range(jobQueue) => runs[j] = 0
       /\ cpc[j] \in {"new", "submit"} \/ outcome[j] \in Refused
            => runs[j] = 0 /\ j \notin Range(jobQueue)
       /\ resultCh[j] # <<>> \/ outcome[j] \in Executed
            => runs[j] = 1 /\ \A w \in Workers : wjob[w] # j
  /\ \A w \in Workers :
       wjob[w] # NoJob => runs[wjob[w]] = 1 /\ \A v \in Workers : wjob[v] = wjob[w] => v = w

WorkerAtJob ==
  \A w \in Workers :
    /\ wjob[w] = NoJob <=> wpc[w] \in {"select", "release", "exited"}
    /\ wresult[w] = "none" <=> wpc[w] # "send"

(* The batch call goes through its jobs in order, and ends with all of them. *)
BatchOrder ==
  /\ bpc = "new" => \A j \in InBatch : cpc[j] = "new"
  /\ bpc = "submit" => \A k \in bnext .. Len(BatchJobs) : cpc[BatchJobs[k]] = "submit"
  /\ bpc \in {"returned", "panicked"} => \A j \in InBatch : cpc[j] = "returned"

Told == \A j \in Jobs : cpc[j] = "returned" <=> outcome[j] # "none"

(* A worker, or a result on its way, blames a context that is done. *)
Causes ==
  /\ \A w \in Workers : wresult[w] = "context" => JobCtxDone(w)
  /\ \A j \in Jobs : resultCh[j] = <<"context">> => CtxOf(j) \in ctxDone
  /\ \A j \in stale : CtxOf(j) \in ctxDone

IInv ==
  /\ TypeOK /\ OnePlace /\ WorkerAtJob /\ BatchOrder /\ Told /\ Causes
  /\ OutcomeJustified /\ AbandonedJobSendsNothing /\ QuiescentAfterClose

(* The pool keeps the promise of Calls.  A batch has returned when all its *)
(* answers are in, and Do when its one is.                                 *)
CallState(c) ==
  LET state == IF c \in Doers THEN cpc[c] ELSE bpc
  IN  IF state \in {"new", "returned"} THEN state
      ELSE IF state = "panicked" THEN "returned" ELSE "open"
ExecutionState(j) ==
  IF Running(j) # {} THEN "running" ELSE IF runs[j] = 0 THEN "none" ELSE "done"

API == INSTANCE Calls WITH
         CallIds   <- Contexts,
         JobsOf    <- [c \in Contexts |-> IF c \in Doers THEN {c} ELSE InBatch],
         Answers   <- Outcomes,
         Executed  <- Executed,
         Refused   <- Refused,
         NoAnswer  <- "none",
         call      <- [c \in Contexts |-> CallState(c)],
         execution <- [j \in Jobs |-> ExecutionState(j)],
         answer    <- [j \in Jobs |-> IF CallState(CtxOf(j)) = "returned" THEN outcome[j]
                                                                         ELSE "none"],
         closed    <- \E c \in Closers : xpc[c] = "closed"

ImplementsCalls == API!Spec

(* Every call returns, whether a worker, the caller's context or Close     *)
(* ends it: also the call whose job is dropped in the queue by Close, and  *)
(* the batch that the queue has refused in part.  No call is in progress   *)
(* for ever.                                                               *)
CallsReturn ==
  /\ \A j \in Doers : []<> (cpc[j] \notin {"submit", "wait"})
  /\ []<> (bpc \notin {"submit", "collect"})

(* Close returns although calls are in progress or the queue is full.      *)
CloseReturns == \A c \in Closers : []<> (xpc[c] \in {"new", "closed", "panicked"})

(* While the pool is open no accepted job is lost: none stays in the queue *)
(* and none is waited for without being executed.                          *)
AcceptedJobRuns ==
  \A j \in Jobs :
    []<> (cpc[j] \in {"queued", "wait"} \/ j \in Range(jobQueue) => runs[j] = 1 \/ poolDone)

----------------------------------------------------------------------------
(* What the documentation says. *)

(* errors.go: ErrPoolClosed is returned for all new Do and DoBatch calls   *)
(* after shutdown.                                                         *)
NewCallsGetPoolClosed ==
  \A j \in lateCalls : outcome[j] \in {"none", "rapidproxy.ErrPoolClosed"}
============================================================================
