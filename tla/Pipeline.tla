------------------------------ MODULE Pipeline ------------------------------
(***************************************************************************)
(* The worker pool with the proxies behind it: what WorkerPool reduces to  *)
(* possible results is here the semaphore of the proxy that Select has     *)
(* chosen, the wait for a token of the domain, and the deferred            *)
(* ReleaseConcurrency of executeJob, which runs after the result has been  *)
(* delivered.  Select itself is one step (Selector has its inside, and     *)
(* health and rate limits, for which it may find all proxies busy).        *)
(***************************************************************************)
EXTENDS WorkerPool

CONSTANTS
  Proxies,
  NoProxy,
  MaxConcurrent,   \* MaxConcurrentPerProxy
  LimitedJobs,     \* jobs whose domain has a limit; they are of one domain
  DomainBurst      \* the capacity of a domain's bucket

ASSUME PipelineAssumption ==
  /\ NoProxy \notin Proxies
  /\ MaxConcurrent \in Nat \ {0}
  /\ LimitedJobs \subseteq Jobs
  /\ DomainBurst \in Nat \ {0}

VARIABLES
  slots,      \* slots[p]: the length of p's semaphore channel
  held,       \* held[w]: the proxy whose slot worker w has to give back
  tokens      \* tokens[p]: the tokens p has left for the domain

proxies  == <<slots, held, tokens>>
allVars  == <<vars, proxies>>

PipelineTypeOK ==
  /\ TypeOK
  /\ slots \in [Proxies -> 0 .. MaxConcurrent]
  /\ held \in [Workers -> Proxies \union {NoProxy}]
  /\ tokens \in [Proxies -> 0 .. DomainBurst]

PipelineInit ==
  /\ Init
  /\ slots = [p \in Proxies |-> 0]
  /\ held = [w \in Workers |-> NoProxy]
  /\ tokens = [p \in Proxies |-> DomainBurst]

----------------------------------------------------------------------------
(* executeJob *)

jobVars == <<queue, contexts, resultCh, wjob, totalJobs, callers, xpc, history>>

(* Mutant: the semaphore has one place more. *)
OneMore(p) == slots[p] <= MaxConcurrent /\ slots' = [slots EXCEPT ![p] = @ + 1]

TryAcquireConcurrency(p) == slots[p] < MaxConcurrent /\ slots' = [slots EXCEPT ![p] = @ + 1]

(* Mutant: the context is not looked at before a proxy is chosen. *)
SelectUnchecked(w) ==
  /\ wpc[w] = "proxy"
  /\ \/ /\ \E p \in Proxies : TryAcquireConcurrency(p) /\ held' = [held EXCEPT ![w] = p]
        /\ Continue(w, IF wjob[w] \in LimitedJobs THEN "domain" ELSE "http")
     \/ /\ Fail(w, "selector.ErrAllProxiesBusy")
        /\ UNCHANGED <<slots, held>>
  /\ UNCHANGED <<jobVars, tokens>>

Select(w) ==
  /\ wpc[w] = "proxy"
  /\ \/ /\ ~ JobCtxDone(w)
        /\ \E p \in Proxies : TryAcquireConcurrency(p) /\ held' = [held EXCEPT ![w] = p]
        /\ Continue(w, IF wjob[w] \in LimitedJobs THEN "domain" ELSE "http")
     \/ /\ Fail(w, IF JobCtxDone(w) THEN "context" ELSE "selector.ErrAllProxiesBusy")
        /\ UNCHANGED <<slots, held>>
  /\ UNCHANGED <<jobVars, tokens>>

(* Mutant: the error returns before the release is deferred. *)
AcquireThenDefer(w) ==
  /\ wpc[w] = "domain"
  /\ \/ /\ tokens[held[w]] > 0
        /\ tokens' = [tokens EXCEPT ![held[w]] = @ - 1]
        /\ Continue(w, "http")
        /\ UNCHANGED held
     \/ /\ JobCtxDone(w) /\ Fail(w, "context")
        /\ held' = [held EXCEPT ![w] = NoProxy]
        /\ UNCHANGED tokens
  /\ UNCHANGED <<jobVars, slots>>

(* Acquire polls the bucket until it gets a token or the context is done:  *)
(* that of the job, since closing the pool does not cancel it.             *)
Acquire(w) ==
  /\ wpc[w] = "domain"
  /\ \/ /\ tokens[held[w]] > 0
        /\ tokens' = [tokens EXCEPT ![held[w]] = @ - 1]
        /\ Continue(w, "http")
     \/ JobCtxDone(w) /\ Fail(w, "context") /\ UNCHANGED tokens
  /\ UNCHANGED <<jobVars, slots, held>>

Respond(w) == Exchange(w) /\ UNCHANGED proxies

(* Mutant: the release is forgotten. *)
SendOnly(w) == Deliver(w, "select") /\ UNCHANGED proxies

(* executeJob returns: at once when no proxy was found, else it releases.  *)
Send(w) ==
  /\ Deliver(w, IF held[w] = NoProxy THEN "select" ELSE "release")
  /\ UNCHANGED proxies

ReleaseConcurrency(w) ==
  /\ wpc[w] = "release"
  /\ slots' = [slots EXCEPT ![held[w]] = @ - 1]
  /\ held' = [held EXCEPT ![w] = NoProxy]
  /\ Goto(w, "select")
  /\ UNCHANGED <<jobVars, wresult, successJobs, failedJobs, tokens>>

(* Time refills the bucket of the domain. *)
Refill(p) ==
  /\ tokens[p] < DomainBurst
  /\ tokens' = [tokens EXCEPT ![p] = @ + 1]
  /\ UNCHANGED <<vars, slots, held>>

----------------------------------------------------------------------------
Loop(w) == (TakeJob(w) \/ Exit(w)) /\ UNCHANGED proxies
Execute(w) ==
  Select(w) \/ Acquire(w) \/ Respond(w) \/ Send(w) \/ ReleaseConcurrency(w)

Clients ==
  /\ \/ \E j \in Jobs : Do(j) \/ CallerStep(j)
     \/ DoBatch \/ BatchStep
     \/ \E c \in Closers : CancelPool(c) \/ CloserStep(c)
     \/ \E x \in Contexts : CancelCall(x)
  /\ UNCHANGED proxies

PipelineNext ==
  \/ Clients
  \/ \E w \in Workers : Loop(w) \/ Execute(w)
  \/ \E p \in Proxies : Refill(p)

(* Goroutines run, and time goes on. *)
PipelineFairness ==
  /\ \A w \in Workers : WF_allVars(Loop(w) \/ Execute(w))
  /\ \A p \in Proxies : WF_allVars(Refill(p))
  /\ \A j \in Jobs : WF_allVars(CallerStep(j) /\ UNCHANGED proxies)
  /\ WF_allVars(BatchStep /\ UNCHANGED proxies)
  /\ \A c \in Closers : WF_allVars(CloserStep(c) /\ UNCHANGED proxies)

PipelineSpec == PipelineInit /\ [][PipelineNext]_allVars /\ PipelineFairness

----------------------------------------------------------------------------
(* A proxy has no more requests in flight, those that wait for their       *)
(* domain among them, than it has slots; every slot taken is held by a     *)
(* worker that still has to give it back, and one without a job holds      *)
(* none, so that all are free when Close has returned.                     *)
SlotsBalance ==
  /\ \A p \in Proxies :
       /\ slots[p] = Cardinality({w \in Workers : held[w] = p})
       /\ Cardinality({w \in Workers : held[w] = p /\ wpc[w] \in {"domain", "http"}})
            <= MaxConcurrent
  /\ \A w \in Workers : wpc[w] \in {"select", "proxy", "exited"} => held[w] = NoProxy
  /\ (\E c \in Closers : xpc[c] = "closed") => \A p \in Proxies : slots[p] = 0

(* A worker has a proxy from the moment Select has chosen it until it has  *)
(* given back the slot.                                                    *)
WorkersHold ==
  \A w \in Workers : wpc[w] \in {"domain", "http", "release"} => held[w] \in Proxies

PipelineIInv == PipelineTypeOK /\ IInv /\ WorkersHold /\ SlotsBalance

(* A proxy that is full has a slot again, also when callers have gone, the *)
(* domain's bucket is empty or the pool is being closed.                   *)
SlotsComeBack == \A p \in Proxies : []<> (slots[p] < MaxConcurrent)

(* The pipeline is a worker pool: its waits and its release change nothing *)
(* that a caller, or Close, may count on.  A worker that releases a slot   *)
(* is one that waits for a job.                                            *)
Pool == INSTANCE WorkerPool WITH
          wpc <- [w \in Workers |-> IF wpc[w] = "release" THEN "select" ELSE wpc[w]]
ImplementsPool == Pool!Spec
============================================================================
