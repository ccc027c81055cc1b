--------------------------- MODULE PipelineProofs ---------------------------
(***************************************************************************)
(* Proofs about the worker pool and the pipeline, for any number of        *)
(* workers, calls, jobs, proxies and slots per proxy, and any queue.  The  *)
(* worker pool: a job is executed at most once, errors have their causes,  *)
(* and the pool implements Calls.  The pipeline: the slots taken are held  *)
(* by workers; it is a worker pool, with the pool's invariant; and it      *)
(* implements Calls, too.                                                  *)
(***************************************************************************)
EXTENDS Pipeline, FiniteSetTheorems, TLAPS

LEMMA ConstantTypes ==
  /\ QueueSize \in Nat \ {0}
  /\ InBatch \subseteq Jobs /\ Doers \subseteq Jobs
  /\ InBatch \intersect Doers = {}
  /\ NoJob \notin Jobs
  /\ BatchJobs \in Seq(InBatch)
  /\ \A j \in Jobs : CtxOf(j) \in Contexts
BY PoolAssumption DEF InBatch, Jobs, CtxOf, Contexts

LEMMA BatchJobAt ==
  /\ \A k \in 1 .. Len(BatchJobs) : BatchJobs[k] \in InBatch
  /\ \A k, l \in 1 .. Len(BatchJobs) : BatchJobs[k] = BatchJobs[l] => k = l
BY PoolAssumption DEF InBatch, Range, IsInjective

LEMMA TypeFacts ==
  ASSUME TypeOK
  PROVE  /\ totalJobs \in Nat /\ successJobs \in Nat /\ failedJobs \in Nat
         /\ DOMAIN cpc = Jobs /\ DOMAIN outcome = Jobs /\ DOMAIN resultCh = Jobs
         /\ DOMAIN runs = Jobs /\ DOMAIN xpc = Closers
         /\ DOMAIN wpc = Workers /\ DOMAIN wjob = Workers /\ DOMAIN wresult = Workers
         /\ jobQueue \in Seq(Jobs) /\ bnext \in Nat \ {0}
         /\ \A w \in Workers : wjob[w] \in Jobs \union {NoJob}
BY DEF TypeOK

LEMMA SlotFacts ==
  /\ <<>> \in ResultSlot
  /\ \A r \in WorkerResults : <<r>> \in ResultSlot /\ <<r>> # <<>>
  /\ \A ch \in ResultSlot :
       ch # <<>> => Head(ch) \in WorkerResults /\ Tail(ch) = <<>> /\ ch = <<Head(ch)>>
<1>1. \A r : <<r>> # <<>> /\ Head(<<r>>) = r /\ Tail(<<r>>) = <<>>
  OBVIOUS
<1> QED
  BY <1>1, Zenon DEF ResultSlot

LEMMA EnqueueFacts ==
  ASSUME NEW S, NEW q \in Seq(S), NEW e \in S, IsInjective(q), e \notin Range(q)
  PROVE  /\ Append(q, e) \in Seq(S) /\ Len(Append(q, e)) = Len(q) + 1
         /\ IsInjective(Append(q, e))
         /\ Range(Append(q, e)) = Range(q) \union {e}
<1>1. /\ Append(q, e) \in Seq(S) /\ Len(Append(q, e)) = Len(q) + 1
      /\ DOMAIN q = 1 .. Len(q) /\ DOMAIN Append(q, e) = 1 .. Len(q) + 1
      /\ \A k \in 1 .. Len(q) : Append(q, e)[k] = q[k]
      /\ Append(q, e)[Len(q) + 1] = e
      /\ Len(q) \in Nat
  OBVIOUS
<1>2. \A k \in 1 .. Len(q) + 1 : k \in 1 .. Len(q) \/ k = Len(q) + 1
  BY <1>1
<1>3. IsInjective(Append(q, e))
  BY <1>1, <1>2 DEF IsInjective, Range
<1>4. Range(Append(q, e)) \subseteq Range(q) \union {e}
  BY <1>1, <1>2 DEF Range
<1>5. Range(q) \union {e} \subseteq Range(Append(q, e))
  <2>1. 1 .. Len(q) \subseteq 1 .. Len(q) + 1 /\ Len(q) + 1 \in 1 .. Len(q) + 1
    BY <1>1
  <2> QED
    BY <1>1, <2>1 DEF Range
<1> QED
  BY <1>1, <1>3, <1>4, <1>5

(* To take the head off such a queue. *)
LEMMA DequeueFacts ==
  ASSUME NEW S, NEW q \in Seq(S), q # <<>>, IsInjective(q)
  PROVE  /\ Head(q) \in S /\ Head(q) \in Range(q)
         /\ Tail(q) \in Seq(S) /\ Len(Tail(q)) < Len(q)
         /\ IsInjective(Tail(q))
         /\ Range(Tail(q)) \subseteq Range(q)
         /\ Head(q) \notin Range(Tail(q))
<1>1. /\ Head(q) \in S /\ Tail(q) \in Seq(S) /\ Len(Tail(q)) = Len(q) - 1
      /\ Len(q) \in Nat \ {0} /\ DOMAIN q = 1 .. Len(q)
      /\ Head(q) = q[1]
      /\ DOMAIN Tail(q) = 1 .. Len(q) - 1
      /\ \A k \in 1 .. Len(q) - 1 : Tail(q)[k] = q[k + 1]
  OBVIOUS
<1>2. \A k \in 1 .. Len(q) - 1 : k + 1 \in 1 .. Len(q) /\ k + 1 # 1
  BY <1>1
<1>3. 1 \in 1 .. Len(q)
  BY <1>1
<1>4. IsInjective(Tail(q))
  <2> SUFFICES ASSUME NEW a \in DOMAIN Tail(q), NEW b \in DOMAIN Tail(q),
                      Tail(q)[a] = Tail(q)[b]
               PROVE  a = b
    BY DEF IsInjective
  <2>1. a + 1 = b + 1
    BY <1>1, <1>2 DEF IsInjective
  <2> QED
    BY <1>1, <2>1
<1>5. Range(Tail(q)) \subseteq Range(q) /\ Head(q) \in Range(q)
  BY <1>1, <1>2, <1>3 DEF Range
<1>6. Head(q) \notin Range(Tail(q))
  BY <1>1, <1>2, <1>3 DEF Range, IsInjective
<1> QED
  BY <1>1, <1>4, <1>5, <1>6

LEMMA InitIInv == Init => IInv
<1> SUFFICES ASSUME Init
             PROVE  IInv
  OBVIOUS
<1> USE ConstantTypes DEF Init
<1>1. TypeOK
  <2>1. jobQueue \in Seq(Jobs) /\ Len(jobQueue) <= QueueSize
    OBVIOUS
  <2>2. bnext \in 1 .. Len(BatchJobs) + 1 /\ bpc \in BatchStates
    BY DEF BatchStates
  <2>3. resultCh \in [Jobs -> ResultSlot]
    BY SlotFacts
  <2>4. {totalJobs, successJobs, failedJobs} \subseteq Nat
    OBVIOUS
  <2>5. /\ runs \in [Jobs -> Nat] /\ outcome \in [Jobs -> Outcomes \union {"none"}]
        /\ wresult \in [Workers -> WorkerResults \union {"none"}]
        /\ wjob \in [Workers -> Jobs \union {NoJob}]
    OBVIOUS
  <2>6. /\ cpc \in [Jobs -> CallerStates] /\ wpc \in [Workers -> WorkerStates]
        /\ xpc \in [Closers -> CloserStates]
    BY DEF CallerStates, WorkerStates, CloserStates
  <2> QED
    BY <2>1, <2>2, <2>3, <2>4, <2>5, <2>6, Zenon DEF TypeOK
<1>2. OnePlace
  BY DEF OnePlace, IsInjective, Range, Refused, Executed, WorkerResults
<1>3. WorkerAtJob /\ BatchOrder /\ Told /\ Causes
  BY DEF WorkerAtJob, BatchOrder, Told, Causes
<1>4. OutcomeJustified /\ AbandonedJobSendsNothing /\ QuiescentAfterClose
  BY DEF OutcomeJustified, AbandonedJobSendsNothing, QuiescentAfterClose
<1> QED
  BY <1>1, <1>2, <1>3, <1>4 DEF IInv

LEMMA DoStep ==
  ASSUME IInv, NEW j \in Jobs, Do(j)
  PROVE  IInv'
<1> USE DEF Do, Becomes, Late, queue, contexts, worker, callers, history
<1>0. TypeOK /\ OnePlace /\ WorkerAtJob /\ BatchOrder /\ Told /\ Causes
  BY Zenon DEF IInv
<1>1. TypeOK'
  <2>1. cpc' \in [Jobs -> CallerStates]
    BY <1>0 DEF TypeOK, CallerStates
  <2>2. lateCalls' \subseteq Jobs
    BY <1>0 DEF TypeOK
  <2> QED
    BY <1>0, <2>1, <2>2 DEF TypeOK
<1>2. OnePlace'
  BY <1>0, TypeFacts, ConstantTypes DEF OnePlace
<1>3. WorkerAtJob' /\ Causes'
  BY <1>0, TypeFacts, ConstantTypes DEF WorkerAtJob, Causes, JobCtxDone
<1>4. OutcomeJustified' /\ AbandonedJobSendsNothing' /\ QuiescentAfterClose'
  BY <1>0, TypeFacts, ConstantTypes
     DEF IInv, WorkerAtJob, OutcomeJustified, AbandonedJobSendsNothing,
         QuiescentAfterClose, JobCtxDone, Causes
<1>5. BatchOrder' /\ Told'
  BY <1>0, TypeFacts, ConstantTypes, BatchJobAt DEF BatchOrder, Told
<1> QED
  BY <1>1, <1>2, <1>3, <1>4, <1>5, Zenon DEF IInv

LEMMA SubmitBlockingStep ==
  ASSUME IInv, NEW j \in Jobs, SubmitBlocking(j)
  PROVE  IInv'
<1>0. /\ TypeOK /\ OnePlace /\ WorkerAtJob /\ BatchOrder /\ Told /\ Causes
      /\ OutcomeJustified /\ AbandonedJobSendsNothing /\ QuiescentAfterClose
  BY Zenon DEF IInv
<1>a. /\ j \in Doers /\ cpc[j] = "submit"
      /\ UNCHANGED <<queueClosed, contexts, resultCh, worker, bpc, bnext, lateCalls, xpc,
                     history>>
  BY Zenon DEF SubmitBlocking
<1>b. \/ Enqueue(j) /\ Becomes(j, "wait")
      \/ UNCHANGED jobQueue
         /\ \E r \in CallErrors :
              /\ Ends(j, r)
              /\ r = "panic" => queueClosed
              /\ r = "context" => CtxOf(j) \in ctxDone
              /\ r = "worker.ErrPoolClosed" => workDone
              /\ r # "rapidproxy.ErrPoolClosed"
  BY SubmitBlocking(j) DEF SubmitBlocking, CallErrors
<1>c. /\ outcome[j] = "none" /\ runs[j] = 0 /\ j \notin Range(jobQueue)
      /\ \A k \in 1 .. Len(BatchJobs) : BatchJobs[k] # j
  BY <1>0, <1>a, ConstantTypes, BatchJobAt DEF OnePlace, Told
<1> USE DEF queue, contexts, worker, callers, history
<1>1. CASE Enqueue(j) /\ Becomes(j, "wait")
  <2>1. /\ jobQueue' \in Seq(Jobs) /\ Len(jobQueue') <= QueueSize
        /\ IsInjective(jobQueue') /\ Range(jobQueue') = Range(jobQueue) \union {j}
    <3>1. jobQueue \in Seq(Jobs) /\ IsInjective(jobQueue) /\ jobQueue' = Append(jobQueue, j)
          /\ Len(jobQueue) < QueueSize
      BY <1>0, <1>1 DEF TypeOK, OnePlace, Enqueue, Room
    <3>2. Len(jobQueue) \in Nat
      BY <3>1
    <3> QED
      BY <1>c, <3>1, <3>2, EnqueueFacts, ConstantTypes
  <2>2. cpc' = [cpc EXCEPT ![j] = "wait"] /\ outcome' = outcome
    BY <1>1 DEF Becomes
  <2>3. cpc' \in [Jobs -> CallerStates]
    BY <1>0, <2>2 DEF TypeOK, CallerStates
  <2>4. TypeOK'
    BY <1>0, <1>a, <2>1, <2>2, <2>3 DEF TypeOK
  <2>5. OnePlace'
    BY <1>0, <1>a, <1>c, <2>1, <2>2, TypeFacts DEF OnePlace, Refused, Executed
  <2>6. BatchOrder' /\ Told'
    BY <1>0, <1>a, <1>c, <2>2, TypeFacts, ConstantTypes, BatchJobAt DEF BatchOrder, Told
  <2>7. WorkerAtJob' /\ Causes' /\ OutcomeJustified'
    BY <1>0, <1>a, <2>2 DEF WorkerAtJob, Causes, JobCtxDone, OutcomeJustified
  <2>8. AbandonedJobSendsNothing' /\ QuiescentAfterClose'
    BY <1>0, <1>a DEF AbandonedJobSendsNothing, QuiescentAfterClose
  <2> QED
    BY <2>4, <2>5, <2>6, <2>7, <2>8 DEF IInv
<1>2. ASSUME NEW r \in CallErrors, Ends(j, r), UNCHANGED jobQueue,
             r = "panic" => queueClosed,
             r = "context" => CtxOf(j) \in ctxDone,
             r = "worker.ErrPoolClosed" => workDone,
             r # "rapidproxy.ErrPoolClosed"
      PROVE  IInv'
  <2>1. cpc' = [cpc EXCEPT ![j] = "returned"] /\ outcome' = [outcome EXCEPT ![j] = r]
    BY <1>2 DEF Ends
  <2>2. r # "none" /\ r \in Outcomes /\ r \notin Executed
    BY <1>2 DEF CallErrors, Outcomes, Executed, WorkerResults
  <2>3. cpc' \in [Jobs -> CallerStates] /\ outcome' \in [Jobs -> Outcomes \union {"none"}]
    BY <1>0, <2>1, <2>2 DEF TypeOK, CallerStates
  <2>4. TypeOK'
    BY <1>0, <1>2, <1>a, <2>3 DEF TypeOK
  <2>5. OnePlace'
    BY <1>0, <1>2, <1>a, <1>c, <2>1, <2>2, TypeFacts DEF OnePlace
  <2>6. BatchOrder' /\ Told'
    BY <1>0, <1>a, <1>c, <2>1, <2>2, TypeFacts, ConstantTypes, BatchJobAt
    DEF BatchOrder, Told
  <2>7. WorkerAtJob' /\ Causes'
    BY <1>0, <1>a DEF WorkerAtJob, Causes, JobCtxDone
  <2>8. OutcomeJustified'
    BY <1>0, <1>2, <1>a, <2>1, TypeFacts DEF OutcomeJustified
  <2>9. AbandonedJobSendsNothing' /\ QuiescentAfterClose'
    BY <1>0, <1>a DEF AbandonedJobSendsNothing, QuiescentAfterClose
  <2> QED
    BY <2>4, <2>5, <2>6, <2>7, <2>8, <2>9 DEF IInv
<1> QED
  BY <1>1, <1>2, <1>b

LEMMA AwaitStep ==
  ASSUME IInv, NEW j \in Jobs, Await(j)
  PROVE  IInv'
<1>0. /\ TypeOK /\ OnePlace /\ WorkerAtJob /\ BatchOrder /\ Told /\ Causes
      /\ OutcomeJustified /\ AbandonedJobSendsNothing /\ QuiescentAfterClose
  BY Zenon DEF IInv
<1>a. /\ cpc[j] = "wait"
      /\ UNCHANGED <<queue, contexts, worker, bpc, bnext, lateCalls, xpc, history>>
  BY Zenon DEF Await
<1>b. /\ resultCh[j] \in ResultSlot /\ outcome[j] = "none"
      /\ resultCh[j] # <<>> => runs[j] = 1 /\ \A w \in Workers : wjob[w] # j
      /\ resultCh[j] = <<"context">> => CtxOf(j) \in ctxDone
  BY <1>0, <1>a DEF TypeOK, OnePlace, Causes, Told
<1>c. PICK r \in Outcomes :
        /\ Ends(j, r)
        /\ r \in Executed => resultCh[j] # <<>>
        /\ r = "context" => CtxOf(j) \in ctxDone
        /\ r = "rapidproxy.ErrPoolClosed" => poolDone
        /\ r \in WorkerResults \union {"context", "rapidproxy.ErrPoolClosed"}
        /\ resultCh' = resultCh \/ resultCh' = [resultCh EXCEPT ![j] = <<>>]
  <2>1. CASE /\ resultCh[j] # <<>> /\ Ends(j, Head(resultCh[j]))
             /\ resultCh' = [resultCh EXCEPT ![j] = Tail(@)]
    <3>1. /\ Head(resultCh[j]) \in WorkerResults /\ Tail(resultCh[j]) = <<>>
          /\ Head(resultCh[j]) = "context" => CtxOf(j) \in ctxDone
      BY <1>b, <2>1, SlotFacts
    <3> QED
      BY <2>1, <3>1 DEF Outcomes, WorkerResults
  <2>2. CASE CtxOf(j) \in ctxDone /\ Ends(j, "context") /\ UNCHANGED resultCh
    BY <2>2 DEF Outcomes, CallErrors, Executed
  <2>3. CASE poolDone /\ Ends(j, "rapidproxy.ErrPoolClosed") /\ UNCHANGED resultCh
    BY <2>3 DEF Outcomes, CallErrors, Executed, WorkerResults
  <2> QED
    BY <2>1, <2>2, <2>3, Await(j) DEF Await
<1> USE DEF queue, contexts, worker, callers, history
<1>1. cpc' = [cpc EXCEPT ![j] = "returned"] /\ outcome' = [outcome EXCEPT ![j] = r]
  BY <1>c DEF Ends
<1>2. r # "none" /\ r \notin Refused /\ r \notin {"worker.ErrPoolClosed", "panic"}
  BY <1>c DEF WorkerResults, Refused
<1>3. TypeOK'
  <2>1. cpc' \in [Jobs -> CallerStates] /\ outcome' \in [Jobs -> Outcomes \union {"none"}]
    BY <1>0, <1>1 DEF TypeOK, CallerStates
  <2>2. resultCh' \in [Jobs -> ResultSlot]
    BY <1>0, <1>c, SlotFacts DEF TypeOK
  <2> QED
    BY <1>0, <1>a, <2>1, <2>2 DEF TypeOK
<1>4. OnePlace'
  BY <1>0, <1>a, <1>b, <1>c, <1>1, <1>2, TypeFacts DEF OnePlace
<1>5. BatchOrder' /\ Told'
  BY <1>0, <1>a, <1>1, <1>2, TypeFacts, ConstantTypes, BatchJobAt DEF BatchOrder, Told
<1>6. WorkerAtJob' /\ Causes'
  <2>1. \A k \in Jobs : resultCh'[k] = resultCh[k] \/ resultCh'[k] = <<>>
    BY <1>0, <1>c, TypeFacts
  <2>2. <<"context">> # <<>>
    OBVIOUS
  <2> QED
    BY <1>0, <1>a, <2>1, <2>2 DEF WorkerAtJob, Causes, JobCtxDone
<1>7. OutcomeJustified'
  BY <1>0, <1>a, <1>c, <1>1, <1>2, TypeFacts DEF OutcomeJustified
<1>8. AbandonedJobSendsNothing' /\ QuiescentAfterClose'
  BY <1>0, <1>a DEF AbandonedJobSendsNothing, QuiescentAfterClose
<1> QED
  BY <1>3, <1>4, <1>5, <1>6, <1>7, <1>8 DEF IInv

LEMMA DoBatchStep ==
  ASSUME IInv, DoBatch
  PROVE  IInv'
<1> USE DEF DoBatch, Late, queue, contexts, worker, callers, history
<1>0. TypeOK /\ OnePlace /\ WorkerAtJob /\ BatchOrder /\ Told /\ Causes
  BY Zenon DEF IInv
<1>1. TypeOK'
  <2>1. cpc' \in [Jobs -> CallerStates]
    BY <1>0 DEF TypeOK, CallerStates
  <2>2. bpc' \in BatchStates
    BY <1>0 DEF TypeOK, BatchStates
  <2>3. lateCalls' \subseteq Jobs
    BY <1>0, ConstantTypes DEF TypeOK
  <2> QED
    BY <1>0, <2>1, <2>2, <2>3 DEF TypeOK
<1>2. OnePlace'
  BY <1>0, TypeFacts, ConstantTypes DEF OnePlace, BatchOrder
<1>3. WorkerAtJob' /\ Causes'
  BY <1>0, TypeFacts, ConstantTypes DEF WorkerAtJob, Causes, JobCtxDone
<1>4. OutcomeJustified' /\ AbandonedJobSendsNothing' /\ QuiescentAfterClose'
  BY <1>0, TypeFacts, ConstantTypes
     DEF IInv, WorkerAtJob, OutcomeJustified, AbandonedJobSendsNothing,
         QuiescentAfterClose, JobCtxDone, Causes
<1>5. BatchOrder' /\ Told'
  BY <1>0, TypeFacts, ConstantTypes, BatchJobAt DEF BatchOrder, Told
<1> QED
  BY <1>1, <1>2, <1>3, <1>4, <1>5, Zenon DEF IInv

LEMMA SubmitStep ==
  ASSUME IInv, Submit
  PROVE  IInv'
<1>0. /\ TypeOK /\ OnePlace /\ WorkerAtJob /\ BatchOrder /\ Told /\ Causes
      /\ OutcomeJustified /\ AbandonedJobSendsNothing /\ QuiescentAfterClose
  BY Zenon DEF IInv
<1> DEFINE j == BatchJobs[bnext]
<1>a. /\ bpc = "submit" /\ bnext <= Len(BatchJobs)
      /\ UNCHANGED <<queueClosed, contexts, resultCh, worker, lateCalls, xpc, history>>
  BY Zenon DEF Submit
<1>b. /\ bnext \in 1 .. Len(BatchJobs) /\ Len(BatchJobs) \in Nat
      /\ bnext + 1 \in 1 .. Len(BatchJobs) + 1
  BY <1>0, <1>a, ConstantTypes DEF TypeOK
<1>c. j \in InBatch /\ j \in Jobs /\ CtxOf(j) = BatchCtx /\ cpc[j] = "submit"
  BY <1>0, <1>a, <1>b, BatchJobAt, ConstantTypes DEF BatchOrder, CtxOf
<1>d. /\ outcome[j] = "none" /\ runs[j] = 0 /\ j \notin Range(jobQueue)
      /\ \A k \in bnext + 1 .. Len(BatchJobs) :
           k \in bnext .. Len(BatchJobs) /\ BatchJobs[k] \in InBatch /\ BatchJobs[k] # j
  BY <1>0, <1>b, <1>c, BatchJobAt DEF OnePlace, Told
<1> HIDE DEF j
<1> USE DEF queue, contexts, worker, callers, history
<1>7. WorkerAtJob' /\ Causes' /\ AbandonedJobSendsNothing' /\ QuiescentAfterClose'
  BY <1>0, <1>a DEF WorkerAtJob, Causes, JobCtxDone, AbandonedJobSendsNothing,
                    QuiescentAfterClose
<1>1. CASE Enqueue(j) /\ Becomes(j, "queued") /\ bnext' = bnext + 1 /\ UNCHANGED bpc
  <2>1. /\ jobQueue' \in Seq(Jobs) /\ Len(jobQueue') <= QueueSize
        /\ IsInjective(jobQueue') /\ Range(jobQueue') = Range(jobQueue) \union {j}
    <3>1. jobQueue \in Seq(Jobs) /\ IsInjective(jobQueue) /\ jobQueue' = Append(jobQueue, j)
          /\ Len(jobQueue) < QueueSize
      BY <1>0, <1>1 DEF TypeOK, OnePlace, Enqueue, Room
    <3>2. Len(jobQueue) \in Nat
      BY <3>1
    <3> QED
      BY <1>c, <1>d, <3>1, <3>2, EnqueueFacts, ConstantTypes
  <2>2. cpc' = [cpc EXCEPT ![j] = "queued"] /\ outcome' = outcome
    BY <1>1 DEF Becomes
  <2>3. cpc' \in [Jobs -> CallerStates]
    BY <1>0, <1>c, <2>2 DEF TypeOK, CallerStates
  <2>4. TypeOK'
    BY <1>0, <1>1, <1>a, <1>b, <2>1, <2>2, <2>3 DEF TypeOK
  <2>5. OnePlace'
    BY <1>0, <1>a, <1>c, <1>d, <2>1, <2>2, TypeFacts DEF OnePlace, Refused, Executed
  <2>6. BatchOrder'
    BY <1>0, <1>1, <1>a, <1>d, <2>2, TypeFacts, ConstantTypes DEF BatchOrder
  <2>7. Told' /\ OutcomeJustified'
    BY <1>0, <1>a, <1>c, <1>d, <2>2, TypeFacts DEF Told, OutcomeJustified
  <2> QED
    BY <1>7, <2>4, <2>5, <2>6, <2>7 DEF IInv
<1>2. CASE /\ ~ Room /\ Ends(j, "worker.ErrQueueFull") /\ bnext' = bnext + 1
           /\ UNCHANGED <<bpc, jobQueue>>
  <2>1. cpc' = [cpc EXCEPT ![j] = "returned"]
        /\ outcome' = [outcome EXCEPT ![j] = "worker.ErrQueueFull"]
    BY <1>2 DEF Ends
  <2>2. "worker.ErrQueueFull" \in Outcomes /\ "worker.ErrQueueFull" \notin Executed
    BY DEF CallErrors, Outcomes, Executed, WorkerResults
  <2>3. cpc' \in [Jobs -> CallerStates] /\ outcome' \in [Jobs -> Outcomes \union {"none"}]
    BY <1>0, <1>c, <2>1, <2>2 DEF TypeOK, CallerStates
  <2>4. TypeOK'
    BY <1>0, <1>2, <1>a, <1>b, <2>3 DEF TypeOK
  <2>5. OnePlace'
    BY <1>0, <1>2, <1>a, <1>c, <1>d, <2>1, <2>2, TypeFacts DEF OnePlace
  <2>6. BatchOrder'
    BY <1>0, <1>2, <1>a, <1>d, <2>1, TypeFacts, ConstantTypes DEF BatchOrder
  <2>7. Told' /\ OutcomeJustified'
    BY <1>0, <1>a, <1>c, <2>1, TypeFacts DEF Told, OutcomeJustified
  <2> QED
    BY <1>7, <2>4, <2>5, <2>6, <2>7 DEF IInv
<1>3. CASE /\ queueClosed /\ bpc' = "panicked"
           /\ outcome' = [k \in Jobs |-> IF k \in InBatch THEN "panic" ELSE outcome[k]]
           /\ cpc' = [k \in Jobs |-> IF k \in InBatch THEN "returned" ELSE cpc[k]]
           /\ UNCHANGED <<bnext, jobQueue>>
  <2>2. "panic" \in Outcomes /\ "panic" \notin Executed /\ "panic" \notin Refused
    BY DEF CallErrors, Outcomes, Executed, Refused, WorkerResults
  <2>3. /\ cpc' \in [Jobs -> CallerStates] /\ outcome' \in [Jobs -> Outcomes \union {"none"}]
        /\ bpc' \in BatchStates
    BY <1>0, <1>3, <2>2 DEF TypeOK, CallerStates, BatchStates
  <2>4. TypeOK'
    BY <1>0, <1>3, <1>a, <2>3 DEF TypeOK
  <2>5. OnePlace'
    BY <1>0, <1>3, <1>a, <2>2 DEF OnePlace
  <2>6. BatchOrder'
    BY <1>3, ConstantTypes DEF BatchOrder
  <2>7. Told' /\ OutcomeJustified'
    BY <1>0, <1>3, <1>a DEF Told, OutcomeJustified
  <2> QED
    BY <1>7, <2>4, <2>5, <2>6, <2>7 DEF IInv
<1> QED
  BY <1>1, <1>2, <1>3, Submit, Zenon DEF Submit, j

LEMMA StartCollectorsStep ==
  ASSUME IInv, StartCollectors
  PROVE  IInv'
<1> USE DEF StartCollectors, queue, contexts, worker, callers, history
<1>0. TypeOK /\ OnePlace /\ WorkerAtJob /\ BatchOrder /\ Told /\ Causes
  BY Zenon DEF IInv
<1>1. TypeOK'
  <2>1. cpc' \in [Jobs -> CallerStates]
    BY <1>0 DEF TypeOK, CallerStates
  <2>2. bpc' \in BatchStates
    BY <1>0 DEF TypeOK, BatchStates
  <2> QED
    BY <1>0, <2>1, <2>2 DEF TypeOK
<1>2. OnePlace'
  BY <1>0, TypeFacts, ConstantTypes DEF OnePlace
<1>3. WorkerAtJob' /\ Causes'
  BY <1>0, TypeFacts, ConstantTypes DEF WorkerAtJob, Causes, JobCtxDone
<1>4. OutcomeJustified' /\ AbandonedJobSendsNothing' /\ QuiescentAfterClose'
  BY <1>0, TypeFacts, ConstantTypes
     DEF IInv, WorkerAtJob, OutcomeJustified, AbandonedJobSendsNothing,
         QuiescentAfterClose, JobCtxDone, Causes
<1>5. BatchOrder' /\ Told'
  BY <1>0, TypeFacts, ConstantTypes, BatchJobAt DEF BatchOrder, Told
<1> QED
  BY <1>1, <1>2, <1>3, <1>4, <1>5, Zenon DEF IInv

LEMMA BatchReturnsStep ==
  ASSUME IInv, BatchReturns
  PROVE  IInv'
<1> USE DEF BatchReturns, queue, contexts, worker, callers, history
<1>0. TypeOK /\ OnePlace /\ WorkerAtJob /\ BatchOrder /\ Told /\ Causes
  BY Zenon DEF IInv
<1>1. TypeOK'
  <2>1. bpc' \in BatchStates
    BY <1>0 DEF TypeOK, BatchStates
  <2> QED
    BY <1>0, <2>1 DEF TypeOK
<1>2. OnePlace'
  BY <1>0, TypeFacts, ConstantTypes DEF OnePlace
<1>3. WorkerAtJob' /\ Causes'
  BY <1>0, TypeFacts, ConstantTypes DEF WorkerAtJob, Causes, JobCtxDone
<1>4. OutcomeJustified' /\ AbandonedJobSendsNothing' /\ QuiescentAfterClose'
  BY <1>0, TypeFacts, ConstantTypes
     DEF IInv, WorkerAtJob, OutcomeJustified, AbandonedJobSendsNothing,
         QuiescentAfterClose, JobCtxDone, Causes
<1>5. BatchOrder' /\ Told'
  BY <1>0, TypeFacts, ConstantTypes, BatchJobAt DEF BatchOrder, Told
<1> QED
  BY <1>1, <1>2, <1>3, <1>4, <1>5, Zenon DEF IInv

LEMMA TakeJobStep ==
  ASSUME IInv, NEW w \in Workers, TakeJob(w)
  PROVE  IInv'
<1> USE DEF TakeJob, Goto, queue, contexts, worker, callers, history
<1>0. TypeOK /\ OnePlace /\ WorkerAtJob /\ BatchOrder /\ Told /\ Causes
  BY Zenon DEF IInv
<1>1. TypeOK'
  <2>1. jobQueue' \in Seq(Jobs) /\ Len(jobQueue') <= QueueSize
    BY <1>0, ConstantTypes DEF TypeOK
  <2>2. wpc' \in [Workers -> WorkerStates]
    BY <1>0 DEF TypeOK, WorkerStates
  <2>3. wjob' \in [Workers -> Jobs \union {NoJob}] /\ stale' \subseteq Jobs
    BY <1>0 DEF TypeOK
  <2>4. runs' \in [Jobs -> Nat]
    BY <1>0 DEF TypeOK
  <2>5. totalJobs' \in Nat /\ successJobs' \in Nat /\ failedJobs' \in Nat
    BY <1>0 DEF TypeOK
  <2> QED
    BY <1>0, <2>1, <2>2, <2>3, <2>4, <2>5 DEF TypeOK
<1>2. OnePlace'
  BY <1>0, TypeFacts, ConstantTypes, DequeueFacts DEF OnePlace
<1>3. WorkerAtJob' /\ Causes'
  BY <1>0, TypeFacts, ConstantTypes, DequeueFacts
     DEF WorkerAtJob, Causes, JobCtxDone, OnePlace
<1>4. OutcomeJustified' /\ AbandonedJobSendsNothing' /\ QuiescentAfterClose'
  BY <1>0, TypeFacts, ConstantTypes, DequeueFacts
     DEF IInv, WorkerAtJob, OutcomeJustified, AbandonedJobSendsNothing,
         QuiescentAfterClose, JobCtxDone, Causes, OnePlace
<1>5. BatchOrder' /\ Told'
  BY <1>0, TypeFacts, ConstantTypes, BatchJobAt DEF BatchOrder, Told
<1> QED
  BY <1>1, <1>2, <1>3, <1>4, <1>5, Zenon DEF IInv

LEMMA ExitStep ==
  ASSUME IInv, NEW w \in Workers, Exit(w)
  PROVE  IInv'
<1> USE DEF Exit, Goto, queue, contexts, worker, callers, history
<1>0. TypeOK /\ OnePlace /\ WorkerAtJob /\ BatchOrder /\ Told /\ Causes
  BY Zenon DEF IInv
<1>1. TypeOK'
  <2>1. wpc' \in [Workers -> WorkerStates]
    BY <1>0 DEF TypeOK, WorkerStates
  <2> QED
    BY <1>0, <2>1 DEF TypeOK
<1>2. OnePlace'
  BY <1>0, TypeFacts, ConstantTypes DEF OnePlace
<1>3. WorkerAtJob' /\ Causes'
  BY <1>0, TypeFacts, ConstantTypes DEF WorkerAtJob, Causes, JobCtxDone
<1>4. OutcomeJustified' /\ AbandonedJobSendsNothing' /\ QuiescentAfterClose'
  BY <1>0, TypeFacts, ConstantTypes
     DEF IInv, WorkerAtJob, OutcomeJustified, AbandonedJobSendsNothing,
         QuiescentAfterClose, JobCtxDone, Causes
<1>5. BatchOrder' /\ Told'
  BY <1>0, TypeFacts, ConstantTypes, BatchJobAt DEF BatchOrder, Told
<1> QED
  BY <1>1, <1>2, <1>3, <1>4, <1>5, Zenon DEF IInv

LEMMA SelectProxyStep ==
  ASSUME IInv, NEW w \in Workers, SelectProxy(w)
  PROVE  IInv'
<1> USE DEF SelectProxy, Fail, Continue, Goto, queue, contexts, worker, callers, history
<1>0. TypeOK /\ OnePlace /\ WorkerAtJob /\ BatchOrder /\ Told /\ Causes
  BY Zenon DEF IInv
<1>1. TypeOK'
  <2>1. wpc' \in [Workers -> WorkerStates]
    BY <1>0 DEF TypeOK, WorkerStates
  <2>2. wresult' \in [Workers -> WorkerResults \union {"none"}]
    BY <1>0 DEF TypeOK, WorkerResults
  <2>3. totalJobs' \in Nat /\ successJobs' \in Nat /\ failedJobs' \in Nat
    BY <1>0 DEF TypeOK
  <2> QED
    BY <1>0, <2>1, <2>2, <2>3 DEF TypeOK
<1>2. OnePlace'
  BY <1>0, TypeFacts, ConstantTypes DEF OnePlace
<1>3. WorkerAtJob' /\ Causes'
  BY <1>0, TypeFacts, ConstantTypes DEF WorkerAtJob, Causes, JobCtxDone
<1>4. OutcomeJustified' /\ AbandonedJobSendsNothing' /\ QuiescentAfterClose'
  BY <1>0, TypeFacts, ConstantTypes
     DEF IInv, WorkerAtJob, OutcomeJustified, AbandonedJobSendsNothing,
         QuiescentAfterClose, JobCtxDone, Causes
<1>5. BatchOrder' /\ Told'
  BY <1>0, TypeFacts, ConstantTypes, BatchJobAt DEF BatchOrder, Told
<1> QED
  BY <1>1, <1>2, <1>3, <1>4, <1>5, Zenon DEF IInv

LEMMA AcquireDomainStep ==
  ASSUME IInv, NEW w \in Workers, AcquireDomain(w)
  PROVE  IInv'
<1> USE DEF AcquireDomain, Fail, Continue, Goto, queue, contexts, worker, callers, history
<1>0. TypeOK /\ OnePlace /\ WorkerAtJob /\ BatchOrder /\ Told /\ Causes
  BY Zenon DEF IInv
<1>1. TypeOK'
  <2>1. wpc' \in [Workers -> WorkerStates]
    BY <1>0 DEF TypeOK, WorkerStates
  <2>2. wresult' \in [Workers -> WorkerResults \union {"none"}]
    BY <1>0 DEF TypeOK, WorkerResults
  <2>3. totalJobs' \in Nat /\ successJobs' \in Nat /\ failedJobs' \in Nat
    BY <1>0 DEF TypeOK
  <2> QED
    BY <1>0, <2>1, <2>2, <2>3 DEF TypeOK
<1>2. OnePlace'
  BY <1>0, TypeFacts, ConstantTypes DEF OnePlace
<1>3. WorkerAtJob' /\ Causes'
  BY <1>0, TypeFacts, ConstantTypes DEF WorkerAtJob, Causes, JobCtxDone
<1>4. OutcomeJustified' /\ AbandonedJobSendsNothing' /\ QuiescentAfterClose'
  BY <1>0, TypeFacts, ConstantTypes
     DEF IInv, WorkerAtJob, OutcomeJustified, AbandonedJobSendsNothing,
         QuiescentAfterClose, JobCtxDone, Causes
<1>5. BatchOrder' /\ Told'
  BY <1>0, TypeFacts, ConstantTypes, BatchJobAt DEF BatchOrder, Told
<1> QED
  BY <1>1, <1>2, <1>3, <1>4, <1>5, Zenon DEF IInv

LEMMA ExchangeStep ==
  ASSUME IInv, NEW w \in Workers, Exchange(w)
  PROVE  IInv'
<1>a. \/ successJobs' = successJobs + 1 /\ UNCHANGED <<totalJobs, failedJobs>>
      \/ failedJobs' = failedJobs + 1 /\ UNCHANGED <<totalJobs, successJobs>>
  BY Zenon DEF Exchange, Succeed, Fail
<1>b. totalJobs' \in Nat /\ successJobs' \in Nat /\ failedJobs' \in Nat
  <2>1. totalJobs \in Nat /\ successJobs \in Nat /\ failedJobs \in Nat
    BY TypeFacts, Zenon, IInv DEF IInv
  <2>2. \A n \in Nat : n + 1 \in Nat
    OBVIOUS
  <2> QED
    BY <1>a, <2>1, <2>2, Zenon
<1> USE DEF Exchange, Succeed, Fail, Goto, queue, contexts, worker, callers, history
<1>0. TypeOK /\ OnePlace /\ WorkerAtJob /\ BatchOrder /\ Told /\ Causes
  BY Zenon DEF IInv
<1>1. TypeOK'
  <2>1. wpc' \in [Workers -> WorkerStates]
    BY <1>0 DEF TypeOK, WorkerStates
  <2>2. wresult' \in [Workers -> WorkerResults \union {"none"}]
    BY <1>0 DEF TypeOK, WorkerResults
  <2>3. totalJobs' \in Nat /\ successJobs' \in Nat /\ failedJobs' \in Nat
    BY <1>b
  <2> QED
    BY <1>0, <2>1, <2>2, <2>3 DEF TypeOK
<1>2. OnePlace'
  BY <1>0, TypeFacts, ConstantTypes DEF OnePlace
<1>3. WorkerAtJob' /\ Causes'
  BY <1>0, TypeFacts, ConstantTypes DEF WorkerAtJob, Causes, JobCtxDone
<1>4. OutcomeJustified' /\ AbandonedJobSendsNothing' /\ QuiescentAfterClose'
  BY <1>0, TypeFacts, ConstantTypes
     DEF IInv, WorkerAtJob, OutcomeJustified, AbandonedJobSendsNothing,
         QuiescentAfterClose, JobCtxDone, Causes
<1>5. BatchOrder' /\ Told'
  BY <1>0, TypeFacts, ConstantTypes, BatchJobAt DEF BatchOrder, Told
<1> QED
  BY <1>1, <1>2, <1>3, <1>4, <1>5, Zenon DEF IInv

LEMMA DeliverStep ==
  ASSUME IInv, NEW w \in Workers, NEW label \in {"select", "release"}, Deliver(w, label)
  PROVE  IInv'
<1> USE DEF Deliver, Goto, queue, contexts, worker, callers, history
<1>0. TypeOK /\ OnePlace /\ WorkerAtJob /\ BatchOrder /\ Told /\ Causes
  BY Zenon DEF IInv
<1>1. TypeOK'
  <2>1. wpc' \in [Workers -> WorkerStates]
    BY <1>0 DEF TypeOK, WorkerStates
  <2>2. wresult' \in [Workers -> WorkerResults \union {"none"}]
    BY <1>0 DEF TypeOK
  <2>3. wjob' \in [Workers -> Jobs \union {NoJob}] /\ stale' \subseteq Jobs
    BY <1>0 DEF TypeOK
  <2>4. resultCh' \in [Jobs -> ResultSlot]
    BY <1>0, SlotFacts, TypeFacts DEF TypeOK, WorkerAtJob
  <2> QED
    BY <1>0, <2>1, <2>2, <2>3, <2>4 DEF TypeOK
<1>2. OnePlace'
  BY <1>0, TypeFacts, ConstantTypes DEF OnePlace
<1>3. WorkerAtJob' /\ Causes'
  BY <1>0, TypeFacts, ConstantTypes, SlotFacts
     DEF WorkerAtJob, Causes, JobCtxDone, OnePlace
<1>4. OutcomeJustified' /\ AbandonedJobSendsNothing' /\ QuiescentAfterClose'
  BY <1>0, TypeFacts, ConstantTypes
     DEF IInv, WorkerAtJob, OutcomeJustified, AbandonedJobSendsNothing,
         QuiescentAfterClose, JobCtxDone, Causes, OnePlace
<1>5. BatchOrder' /\ Told'
  BY <1>0, TypeFacts, ConstantTypes, BatchJobAt DEF BatchOrder, Told
<1> QED
  BY <1>1, <1>2, <1>3, <1>4, <1>5, Zenon DEF IInv

LEMMA ClosersStep ==
  ASSUME IInv, NEW c \in Closers,
         CancelPool(c) \/ CancelWork(c) \/ CloseQueue(c) \/ WaitWorkers(c)
  PROVE  IInv'
<1> USE DEF CancelPool, CancelWork, CloseQueue, WaitWorkers, CloserAt,
           queue, contexts, worker, callers, history
<1>0. TypeOK /\ OnePlace /\ WorkerAtJob /\ BatchOrder /\ Told /\ Causes
  BY Zenon DEF IInv
<1>1. TypeOK'
  <2>1. xpc' \in [Closers -> CloserStates]
    BY <1>0 DEF TypeOK, CloserStates
  <2> QED
    BY <1>0, <2>1 DEF TypeOK
<1>2. OnePlace'
  BY <1>0, TypeFacts, ConstantTypes DEF OnePlace
<1>3. WorkerAtJob' /\ Causes'
  BY <1>0, TypeFacts, ConstantTypes DEF WorkerAtJob, Causes, JobCtxDone
<1>4. OutcomeJustified' /\ AbandonedJobSendsNothing' /\ QuiescentAfterClose'
  BY <1>0, TypeFacts, ConstantTypes
     DEF IInv, WorkerAtJob, OutcomeJustified, AbandonedJobSendsNothing,
         QuiescentAfterClose, JobCtxDone, Causes
<1>5. BatchOrder' /\ Told'
  BY <1>0, TypeFacts, ConstantTypes, BatchJobAt DEF BatchOrder, Told
<1> QED
  BY <1>1, <1>2, <1>3, <1>4, <1>5, Zenon DEF IInv

LEMMA CancelCallStep ==
  ASSUME IInv, NEW x \in Contexts, CancelCall(x)
  PROVE  IInv'
<1> USE DEF CancelCall, queue, contexts, worker, callers, history
<1>0. TypeOK /\ OnePlace /\ WorkerAtJob /\ BatchOrder /\ Told /\ Causes
  BY Zenon DEF IInv
<1>1. TypeOK'
  <2>1. ctxDone' \subseteq Contexts
    BY <1>0 DEF TypeOK
  <2> QED
    BY <1>0, <2>1 DEF TypeOK
<1>2. OnePlace'
  BY <1>0, TypeFacts, ConstantTypes DEF OnePlace
<1>3. WorkerAtJob' /\ Causes'
  BY <1>0, TypeFacts, ConstantTypes DEF WorkerAtJob, Causes, JobCtxDone
<1>4. OutcomeJustified' /\ AbandonedJobSendsNothing' /\ QuiescentAfterClose'
  BY <1>0, TypeFacts, ConstantTypes
     DEF IInv, WorkerAtJob, OutcomeJustified, AbandonedJobSendsNothing,
         QuiescentAfterClose, JobCtxDone, Causes
<1>5. BatchOrder' /\ Told'
  BY <1>0, TypeFacts, ConstantTypes, BatchJobAt DEF BatchOrder, Told
<1> QED
  BY <1>1, <1>2, <1>3, <1>4, <1>5, Zenon DEF IInv

LEMMA StutterStep == IInv /\ UNCHANGED vars => IInv'
<1> SUFFICES ASSUME IInv, UNCHANGED vars
             PROVE  IInv'
  OBVIOUS
<1> USE DEF IInv, vars, queue, contexts, worker, callers, history
<1>1. TypeOK' /\ OnePlace'
  BY DEF TypeOK, OnePlace
<1>2. WorkerAtJob' /\ Causes' /\ BatchOrder' /\ Told'
  BY DEF WorkerAtJob, Causes, JobCtxDone, BatchOrder, Told
<1>3. OutcomeJustified' /\ AbandonedJobSendsNothing' /\ QuiescentAfterClose'
  BY DEF OutcomeJustified, AbandonedJobSendsNothing, QuiescentAfterClose
<1> QED
  BY <1>1, <1>2, <1>3

LEMMA NextIInv == IInv /\ [Next]_vars => IInv'
<1> SUFFICES ASSUME IInv, [Next]_vars
             PROVE  IInv'
  OBVIOUS
<1>1. CASE \E j \in Jobs : Do(j) \/ CallerStep(j)
  BY <1>1, DoStep, SubmitBlockingStep, AwaitStep DEF CallerStep
<1>2. CASE DoBatch \/ BatchStep
  BY <1>2, DoBatchStep, SubmitStep, StartCollectorsStep, BatchReturnsStep DEF BatchStep
<1>3. CASE \E w \in Workers : WorkerStep(w)
  BY <1>3, TakeJobStep, ExitStep, SelectProxyStep, AcquireDomainStep, ExchangeStep,
     DeliverStep DEF WorkerStep, SendResult
<1>4. CASE \E c \in Closers : CancelPool(c) \/ CloserStep(c)
  BY <1>4, ClosersStep DEF CloserStep
<1>5. CASE \E x \in Contexts : CancelCall(x)
  BY <1>5, CancelCallStep
<1>6. CASE UNCHANGED vars
  BY <1>6, StutterStep
<1> QED
  BY <1>1, <1>2, <1>3, <1>4, <1>5, <1>6 DEF Next

LEMMA IInvJobRunsOnce == IInv => JobRunsOnce
BY DEF IInv, OnePlace, JobRunsOnce, Running

(* In every state a job is in one place and errors have their causes.  *)
THEOREM InductiveInvariant == Spec => []IInv
  BY InitIInv, NextIInv, PTL DEF Spec

(* No job runs twice, and none runs while its result is there already. *)
THEOREM JobsRunOnce == Spec => []JobRunsOnce
BY IInvJobRunsOnce, InductiveInvariant, PTL

(* A caller that is told of a cancelled context or a closed pool is told   *)
(* the truth.                                                              *)
THEOREM ErrorsAreTrue == Spec => []OutcomeJustified
<1>1. IInv => OutcomeJustified
  BY Zenon DEF IInv
<1> QED
  BY <1>1, InductiveInvariant, PTL

(* A job taken after its caller has gone is not sent to a proxy. *)
THEOREM AbandonedSendsNothing == Spec => []AbandonedJobSendsNothing
<1>1. IInv => AbandonedJobSendsNothing
  BY Zenon DEF IInv
<1> QED
  BY <1>1, InductiveInvariant, PTL

(* When a Close has returned all workers have gone. *)
THEOREM ClosedIsQuiescent == Spec => []QuiescentAfterClose
<1>1. IInv => QuiescentAfterClose
  BY Zenon DEF IInv
<1> QED
  BY <1>1, InductiveInvariant, PTL

----------------------------------------------------------------------------
(* The refinement of Calls.  What the callers see of a state, pointwise:   *)

Shown(j) == IF CallState(CtxOf(j)) = "returned" THEN outcome[j] ELSE "none"
HasClosed == \E c \in Closers : xpc[c] = "closed"

LEMMA APIJobs ==
  /\ API!Jobs = Jobs
  /\ \A j \in Jobs : \A c \in Contexts :
       j \in [d \in Contexts |-> IF d \in Doers THEN {d} ELSE InBatch][c] <=> c = CtxOf(j)
<1>1. \A j \in Jobs : CtxOf(j) \in Contexts
  BY ConstantTypes
<1>2. \A j \in Jobs : \A c \in Contexts :
        j \in (IF c \in Doers THEN {c} ELSE InBatch) <=> c = CtxOf(j)
  BY PoolAssumption DEF Jobs, InBatch, CtxOf, Contexts
<1>3. API!Jobs \subseteq Jobs
  BY DEF API!Jobs, Jobs
<1>4. Jobs \subseteq API!Jobs
  BY <1>1, <1>2 DEF API!Jobs
<1> QED
  BY <1>2, <1>3, <1>4

(* An execution is told by what the workers have in hand and have done. *)
LEMMA ExecutionFacts ==
  ASSUME OnePlace, NEW j \in Jobs
  PROVE  /\ runs[j] = 0 => ExecutionState(j) = "none"
         /\ (\E w \in Workers : wjob[w] = j) => ExecutionState(j) = "running"
         /\ (\A w \in Workers : wjob[w] # j) /\ runs[j] # 0 => ExecutionState(j) = "done"
<1>1. Running(j) # {} <=> \E w \in Workers : wjob[w] = j
  BY DEF Running
<1>2. (\E w \in Workers : wjob[w] = j) => runs[j] = 1
  BY ConstantTypes DEF OnePlace
<1> QED
  BY <1>1, <1>2 DEF ExecutionState

LEMMA ExecutionFrame ==
  UNCHANGED <<wjob, runs>> => \A j \in Jobs : ExecutionState(j)' = ExecutionState(j)
BY DEF ExecutionState, Running

LEMMA OpenMaps ==
  ASSUME NEW c \in Contexts, CallState(c) = "new", CallState(c)' = "open",
         \A d \in Contexts \ {c} : CallState(d)' = CallState(d),
         \A j \in Jobs : ExecutionState(j)' = ExecutionState(j) /\ Shown(j)' = Shown(j),
         HasClosed' = HasClosed
  PROVE  API!Next
<1>1. API!Open(c)
  BY APIJobs DEF API!Open, Shown, HasClosed
<1> QED
  BY <1>1 DEF API!Next

LEMMA ReturnMaps ==
  ASSUME NEW c \in Contexts, CallState(c) = "open", CallState(c)' = "returned",
         \A d \in Contexts \ {c} : CallState(d)' = CallState(d),
         \A j \in Jobs : ExecutionState(j)' = ExecutionState(j),
         \A j \in Jobs : CtxOf(j) # c => Shown(j)' = Shown(j),
         \A j \in Jobs : CtxOf(j) = c =>
           /\ outcome'[j] \in Outcomes
           /\ outcome'[j] \in Executed => ExecutionState(j) = "done"
           /\ outcome'[j] \in Refused => ExecutionState(j) = "none",
         HasClosed' = HasClosed
  PROVE  API!Next
<1>1. \A j \in Jobs : CtxOf(j) = c => Shown(j)' = outcome'[j]
  BY DEF Shown, CtxOf
<1>2. API!Return(c)
  BY <1>1, APIJobs DEF API!Return, Shown, HasClosed
<1> QED
  BY <1>2 DEF API!Next

LEMMA StutterMaps ==
  ASSUME \A c \in Contexts : CallState(c)' = CallState(c),
         \A j \in Jobs : ExecutionState(j)' = ExecutionState(j) /\ Shown(j)' = Shown(j),
         HasClosed' = HasClosed
  PROVE  UNCHANGED API!vars
BY APIJobs DEF API!vars, Shown, HasClosed

LEMMA InitMaps == Init => API!Init
BY APIJobs, ConstantTypes DEF Init, API!Init, CallState, ExecutionState, Running, Contexts

(* Each step of the pool is a step of Calls, or none.                      *)

LEMMA CallFrame ==
  /\ UNCHANGED <<cpc, bpc>> => \A c : CallState(c)' = CallState(c)
  /\ UNCHANGED <<cpc, bpc, outcome>> => \A j : Shown(j)' = Shown(j)
  /\ UNCHANGED xpc => HasClosed' = HasClosed
<1>1. UNCHANGED <<cpc, bpc>> => \A c : CallState(c)' = CallState(c)
  BY DEF CallState
<1>2. UNCHANGED <<cpc, bpc, outcome>> => \A j : Shown(j)' = Shown(j)
  BY <1>1 DEF Shown, CtxOf
<1> QED
  BY <1>1, <1>2 DEF HasClosed

LEMMA DoMaps ==
  ASSUME IInv, NEW j \in Jobs, Do(j)
  PROVE  API!Next
<1>1. /\ j \in Doers /\ cpc[j] = "new" /\ cpc' = [cpc EXCEPT ![j] = "submit"]
      /\ UNCHANGED <<outcome, bpc, xpc, wjob, runs>> /\ DOMAIN cpc = Jobs
  BY TypeFacts DEF IInv, Do, Becomes, worker, history
<1>2. /\ CallState(j) = "new" /\ CallState(j)' = "open"
      /\ \A d \in Contexts \ {j} : CallState(d)' = CallState(d)
  BY <1>1, ConstantTypes DEF CallState, Contexts
<1>3. \A k \in Jobs : Shown(k)' = Shown(k)
  BY <1>1, <1>2, ConstantTypes DEF Shown, CtxOf
<1>4. j \in Contexts
  BY <1>1 DEF Contexts
<1> QED
  BY <1>1, <1>2, <1>3, <1>4, OpenMaps, ExecutionFrame, CallFrame

(* The answers of a call, when it ends, agree with what was executed. *)
LEMMA AnswersAgree ==
  ASSUME OnePlace, NEW j \in Jobs
  PROVE  /\ outcome[j] \in Executed => ExecutionState(j) = "done"
         /\ outcome[j] \in Refused => ExecutionState(j) = "none"
<1>1. outcome[j] \in Executed => runs[j] = 1 /\ \A w \in Workers : wjob[w] # j
  BY DEF OnePlace
<1>2. outcome[j] \in Refused => runs[j] = 0
  BY DEF OnePlace
<1> QED
  BY <1>1, <1>2, ExecutionFacts

(* A call of Do that ends tells what IInv, in the next state, says of it.  *)
LEMMA DoerReturns ==
  ASSUME IInv, IInv', NEW j \in Doers, cpc[j] \in {"submit", "wait"}, NEW r, Ends(j, r),
         UNCHANGED <<bpc, xpc, wjob, runs>>
  PROVE  API!Next
<1>1. /\ cpc' = [cpc EXCEPT ![j] = "returned"] /\ outcome' = [outcome EXCEPT ![j] = r]
      /\ DOMAIN cpc = Jobs /\ DOMAIN outcome = Jobs
  BY TypeFacts DEF IInv, Ends
<1>2. /\ CallState(j) = "open" /\ CallState(j)' = "returned"
      /\ \A d \in Contexts \ {j} : CallState(d)' = CallState(d)
  BY <1>1, ConstantTypes DEF CallState, Contexts
<1>3. \A k \in Jobs : CtxOf(k) # j => Shown(k)' = Shown(k)
  BY <1>1, <1>2, ConstantTypes DEF Shown, CtxOf
<1>4. \A k \in Jobs : CtxOf(k) = j => k = j
  BY PoolAssumption DEF CtxOf
<1>5. \A k \in Jobs : ExecutionState(k)' = ExecutionState(k)
  BY ExecutionFrame
<1>6. OnePlace' /\ outcome'[j] \in Outcomes
  BY <1>1, ConstantTypes DEF IInv, TypeOK, Told
<1>7. /\ outcome'[j] \in Executed => ExecutionState(j) = "done"
      /\ outcome'[j] \in Refused => ExecutionState(j) = "none"
  <2>1. /\ outcome'[j] \in Executed => runs[j] = 1 /\ \A w \in Workers : wjob[w] # j
        /\ outcome'[j] \in Refused => runs[j] = 0
    BY <1>6, ConstantTypes DEF OnePlace
  <2>2. OnePlace /\ j \in Jobs
    BY ConstantTypes DEF IInv
  <2> QED
    BY <2>1, <2>2, ExecutionFacts
<1>8. j \in Contexts
  BY DEF Contexts
<1> QED
  BY <1>2, <1>3, <1>4, <1>5, <1>6, <1>7, <1>8, ReturnMaps, CallFrame

LEMMA SubmitBlockingMaps ==
  ASSUME IInv, IInv', NEW j \in Jobs, SubmitBlocking(j)
  PROVE  API!Next \/ UNCHANGED API!vars
<1>1. /\ j \in Doers /\ cpc[j] = "submit" /\ UNCHANGED <<bpc, xpc, wjob, runs>>
      /\ DOMAIN cpc = Jobs
  BY TypeFacts DEF IInv, SubmitBlocking, worker, history
<1>2. CASE Becomes(j, "wait")
  <2>1. cpc' = [cpc EXCEPT ![j] = "wait"] /\ UNCHANGED outcome
    BY <1>2 DEF Becomes
  <2>2. \A c \in Contexts : CallState(c)' = CallState(c)
    BY <1>1, <2>1, ConstantTypes DEF CallState, Contexts
  <2>3. \A k \in Jobs : Shown(k)' = Shown(k)
    BY <2>1, <2>2, ConstantTypes DEF Shown, CtxOf
  <2> QED
    BY <1>1, <2>2, <2>3, StutterMaps, ExecutionFrame, CallFrame
<1>3. CASE \E r : Ends(j, r)
  BY <1>1, <1>3, DoerReturns
<1> QED
  BY <1>2, <1>3, SubmitBlocking(j), Zenon DEF SubmitBlocking

(* A job of a batch is awaited by a collector: the call itself goes on. *)
LEMMA AwaitMaps ==
  ASSUME IInv, IInv', NEW j \in Jobs, Await(j)
  PROVE  API!Next \/ UNCHANGED API!vars
<1>1. /\ cpc[j] = "wait" /\ UNCHANGED <<bpc, xpc, wjob, runs>>
      /\ DOMAIN cpc = Jobs /\ DOMAIN outcome = Jobs
  BY TypeFacts DEF IInv, Await, worker, history
<1>2. PICK r : Ends(j, r)
  BY Await(j), Zenon DEF Await
<1>3. CASE j \in Doers
  BY <1>1, <1>2, <1>3, DoerReturns
<1>4. CASE j \notin Doers
  <2>1. cpc' = [cpc EXCEPT ![j] = "returned"] /\ outcome' = [outcome EXCEPT ![j] = r]
    BY <1>2 DEF Ends
  <2>2. bpc \notin {"returned", "panicked"} /\ CtxOf(j) = BatchCtx /\ j \in InBatch
    BY <1>1, <1>4, ConstantTypes DEF IInv, BatchOrder, CtxOf, Jobs
  <2>3. \A c \in Contexts : CallState(c)' = CallState(c)
    BY <1>1, <1>4, <2>1, ConstantTypes DEF CallState, Contexts
  <2>4. CallState(BatchCtx) # "returned"
    BY <2>2, PoolAssumption DEF CallState
  <2>5. \A k \in Jobs : Shown(k)' = Shown(k)
    BY <2>1, <2>2, <2>3, <2>4, <1>1, ConstantTypes DEF Shown, CtxOf
  <2> QED
    BY <1>1, <2>3, <2>5, StutterMaps, ExecutionFrame, CallFrame
<1> QED
  BY <1>3, <1>4

LEMMA BatchContext ==
  /\ BatchCtx \in Contexts /\ BatchCtx \notin Doers
  /\ CallState(BatchCtx) = IF bpc \in {"new", "returned"} THEN bpc
                          ELSE IF bpc = "panicked" THEN "returned" ELSE "open"
  /\ \A j \in Jobs : CtxOf(j) = BatchCtx <=> j \in InBatch
BY PoolAssumption DEF Contexts, CallState, CtxOf, Jobs, InBatch

(* The calls of Do are not changed by what the batch call does. *)
LEMMA DoersFrame ==
  ASSUME \A d \in Doers : cpc'[d] = cpc[d] /\ outcome'[d] = outcome[d]
  PROVE  /\ \A d \in Contexts \ {BatchCtx} : CallState(d)' = CallState(d)
         /\ \A j \in Jobs : CtxOf(j) # BatchCtx => Shown(j)' = Shown(j)
<1>1. \A d \in Contexts \ {BatchCtx} : d \in Doers /\ CallState(d)' = CallState(d)
  BY DEF Contexts, CallState
<1>2. \A j \in Jobs : CtxOf(j) # BatchCtx => j \in Doers /\ CtxOf(j) = j
  BY DEF CtxOf
<1>3. \A d \in Doers : CallState(d)' = CallState(d)
  BY DEF CallState
<1> QED
  BY <1>1, <1>2, <1>3 DEF Shown, CtxOf

LEMMA DoBatchMaps ==
  ASSUME IInv, DoBatch
  PROVE  API!Next
<1>1. /\ bpc = "new" /\ bpc' = "submit" /\ UNCHANGED <<outcome, xpc, wjob, runs>>
      /\ \A d \in Doers : cpc'[d] = cpc[d]
  BY ConstantTypes DEF DoBatch, worker, history
<1>2. CallState(BatchCtx) = "new" /\ CallState(BatchCtx)' = "open"
  BY <1>1, PoolAssumption DEF CallState
<1>3. \A j \in Jobs : Shown(j)' = Shown(j)
  <2>1. ASSUME NEW j \in Jobs, CtxOf(j) = BatchCtx
        PROVE  Shown(j)' = Shown(j)
    BY <1>2, <2>1 DEF Shown, CtxOf
  <2> QED
    BY <1>1, <2>1, DoersFrame
<1> QED
  BY <1>1, <1>2, <1>3, BatchContext, DoersFrame, OpenMaps, ExecutionFrame, CallFrame

(* When the batch call ends, all its jobs have an answer. *)
LEMMA BatchEnds ==
  ASSUME IInv, IInv', bpc \in {"submit", "collect"}, bpc' \in {"returned", "panicked"},
         UNCHANGED <<xpc, wjob, runs>>,
         \A d \in Doers : cpc'[d] = cpc[d] /\ outcome'[d] = outcome[d]
  PROVE  API!Next
<1>1. CallState(BatchCtx) = "open" /\ CallState(BatchCtx)' = "returned"
  BY PoolAssumption DEF CallState
<1>2. \A j \in InBatch : outcome'[j] \in Outcomes
  BY ConstantTypes DEF IInv, TypeOK, Told, BatchOrder
<1>3. ASSUME NEW j \in InBatch
      PROVE  /\ outcome'[j] \in Executed => ExecutionState(j) = "done"
             /\ outcome'[j] \in Refused => ExecutionState(j) = "none"
  <2>1. /\ outcome'[j] \in Executed => runs[j] = 1 /\ \A w \in Workers : wjob[w] # j
        /\ outcome'[j] \in Refused => runs[j] = 0
    BY ConstantTypes DEF IInv, OnePlace
  <2>2. OnePlace /\ j \in Jobs
    BY ConstantTypes DEF IInv
  <2> QED
    BY <2>1, <2>2, ExecutionFacts
<1> QED
  BY <1>1, <1>2, <1>3, BatchContext, DoersFrame, ReturnMaps, ExecutionFrame, CallFrame

(* Until then nothing of it is seen. *)
LEMMA BatchGoesOn ==
  ASSUME bpc \in {"submit", "collect"}, bpc' \in {"submit", "collect"},
         UNCHANGED <<xpc, wjob, runs>>,
         \A d \in Doers : cpc'[d] = cpc[d] /\ outcome'[d] = outcome[d]
  PROVE  UNCHANGED API!vars
<1>1. CallState(BatchCtx) = "open" /\ CallState(BatchCtx)' = "open"
  BY PoolAssumption DEF CallState
<1>2. ASSUME NEW j \in Jobs, CtxOf(j) = BatchCtx
      PROVE  Shown(j)' = Shown(j)
  BY <1>1, <1>2 DEF Shown, CtxOf
<1> QED
  BY <1>1, <1>2, DoersFrame, StutterMaps, ExecutionFrame, CallFrame

LEMMA BatchMaps ==
  ASSUME IInv, IInv', BatchStep
  PROVE  API!Next \/ UNCHANGED API!vars
<1>0. DOMAIN cpc = Jobs /\ DOMAIN outcome = Jobs /\ \A d \in Doers : d \notin InBatch
  BY TypeFacts, ConstantTypes DEF IInv
<1>1. CASE Submit
  <2>1. /\ bpc = "submit" /\ UNCHANGED <<xpc, wjob, runs>>
        /\ bpc' = "submit" \/ bpc' = "panicked"
    BY <1>1 DEF Submit, worker, history
  <2>2. bnext \in 1 .. Len(BatchJobs)
    BY <1>1, TypeFacts, ConstantTypes DEF IInv, Submit
  <2>3. BatchJobs[bnext] \in InBatch
    BY <2>2, BatchJobAt
  <2>4. \A d \in Doers : cpc'[d] = cpc[d] /\ outcome'[d] = outcome[d]
    BY <1>0, <1>1, <2>3, ConstantTypes DEF Submit, Becomes, Ends
  <2> QED
    BY <2>1, <2>4, BatchEnds, BatchGoesOn
<1>2. CASE StartCollectors
  <2>1. /\ bpc = "submit" /\ bpc' = "collect" /\ UNCHANGED <<xpc, wjob, runs>>
        /\ \A d \in Doers : cpc'[d] = cpc[d] /\ outcome'[d] = outcome[d]
    BY <1>0, <1>2, ConstantTypes DEF StartCollectors, worker, history
  <2> QED
    BY <2>1, BatchGoesOn
<1>3. CASE BatchReturns
  <2>1. /\ bpc = "collect" /\ bpc' = "returned"
        /\ UNCHANGED <<xpc, wjob, runs, cpc, outcome>>
    BY <1>3 DEF BatchReturns, worker, history
  <2> QED
    BY <2>1, BatchEnds
<1> QED
  BY <1>1, <1>2, <1>3 DEF BatchStep

LEMMA TakeJobMaps ==
  ASSUME IInv, IInv', NEW w \in Workers, TakeJob(w)
  PROVE  API!Next
<1>1. OnePlace /\ TypeOK /\ OnePlace'
  BY Zenon DEF IInv
<1>2. PICK j \in Jobs : j = Head(jobQueue) /\ j \in Range(jobQueue)
  BY <1>1, DequeueFacts DEF TakeJob, TypeOK, OnePlace
<1>3. /\ wpc[w] = "select" /\ wjob' = [wjob EXCEPT ![w] = j]
      /\ runs' = [runs EXCEPT ![j] = @ + 1]
      /\ UNCHANGED <<cpc, outcome, bpc, xpc>>
      /\ DOMAIN wjob = Workers /\ DOMAIN runs = Jobs
  BY <1>1, <1>2, TypeFacts DEF TakeJob, callers
<1>4. wjob[w] = NoJob /\ runs[j] = 0 /\ cpc[j] # "new" /\ outcome[j] \notin Refused
  BY <1>1, <1>2, <1>3 DEF IInv, WorkerAtJob, OnePlace
<1>5. ExecutionState(j) = "none" /\ ExecutionState(j)' = "running"
  <2>1. Running(j)' # {}
    BY <1>3 DEF Running
  <2> QED
    BY <1>1, <1>2, <1>4, <2>1, ExecutionFacts DEF ExecutionState
<1>6. \A k \in Jobs \ {j} : ExecutionState(k)' = ExecutionState(k)
  <2> SUFFICES ASSUME NEW k \in Jobs \ {j}
               PROVE  ExecutionState(k)' = ExecutionState(k)
    OBVIOUS
  <2>1. runs'[k] = runs[k]
    BY <1>2, <1>3
  <2>2. Running(k)' = Running(k)
    BY <1>3, <1>4, ConstantTypes DEF Running
  <2> QED
    BY <2>1, <2>2 DEF ExecutionState
<1>7. ~ HasClosed
  BY <1>3 DEF IInv, QuiescentAfterClose, HasClosed
<1>8. CallState(CtxOf(j)) # "new"
  <2>1. CASE j \in Doers
    BY <1>4, <2>1 DEF CallState, CtxOf
  <2>2. CASE j \notin Doers
    <3>1. j \in InBatch
      BY <1>2, <2>2 DEF Jobs
    <3>2. bpc # "new"
      BY <1>4, <3>1 DEF IInv, BatchOrder
    <3> QED
      BY <2>2, <3>2, PoolAssumption DEF CallState, CtxOf
  <2> QED
    BY <2>1, <2>2
<1>9. Shown(j) \notin Refused
  BY <1>4 DEF Shown, Refused
<1>10. API!Start(j)
  BY <1>2, <1>3, <1>5, <1>6, <1>7, <1>8, <1>9, APIJobs, ConstantTypes, CallFrame
  DEF API!Start, Shown, HasClosed
<1> QED
  BY <1>2, <1>10, APIJobs DEF API!Next

LEMMA DeliverMaps ==
  ASSUME IInv, NEW w \in Workers, NEW label, Deliver(w, label)
  PROVE  API!Next
<1>1. OnePlace /\ TypeOK /\ WorkerAtJob
  BY Zenon DEF IInv
<1>2. /\ wpc[w] = "send" /\ wjob' = [wjob EXCEPT ![w] = NoJob]
      /\ UNCHANGED <<cpc, outcome, bpc, xpc, runs>>
      /\ DOMAIN wjob = Workers
  BY <1>1, TypeFacts DEF Deliver, callers
<1>3. PICK j \in Jobs : j = wjob[w] /\ j # NoJob
  BY <1>1, <1>2, TypeFacts DEF WorkerAtJob
<1>4. runs[j] = 1 /\ \A v \in Workers : wjob[v] = j => v = w
  BY <1>1, <1>3 DEF OnePlace
<1>5. ExecutionState(j) = "running" /\ ExecutionState(j)' = "done"
  <2>1. Running(j)' = {}
    BY <1>2, <1>3, <1>4 DEF Running
  <2>2. runs'[j] = 1 /\ ExecutionState(j) = "running"
    BY <1>1, <1>2, <1>3, <1>4, ExecutionFacts
  <2>3. ExecutionState(j)' = "done"
    BY <1>2, <1>4, <2>1 DEF ExecutionState, Running
  <2> QED
    BY <2>2, <2>3
<1>6. \A k \in Jobs \ {j} : ExecutionState(k)' = ExecutionState(k)
  <2> SUFFICES ASSUME NEW k \in Jobs \ {j}
               PROVE  ExecutionState(k)' = ExecutionState(k)
    OBVIOUS
  <2>1. Running(k)' = Running(k)
    BY <1>2, <1>3, ConstantTypes DEF Running
  <2> QED
    BY <1>2, <2>1 DEF ExecutionState
<1>7. API!Finish(j)
  BY <1>2, <1>3, <1>5, <1>6, APIJobs, CallFrame DEF API!Finish, Shown, HasClosed
<1> QED
  BY <1>3, <1>7, APIJobs DEF API!Next

LEMMA WorkerMaps ==
  ASSUME IInv, IInv', NEW w \in Workers, WorkerStep(w)
  PROVE  API!Next \/ UNCHANGED API!vars
<1>1. CASE UNCHANGED <<cpc, outcome, bpc, xpc, wjob, runs>>
  BY <1>1, StutterMaps, CallFrame, ExecutionFrame
<1>2. CASE Exit(w) \/ SelectProxy(w) \/ AcquireDomain(w) \/ Exchange(w)
  <2>1. UNCHANGED <<cpc, outcome, bpc, xpc, wjob, runs>>
    BY <1>2, Zenon DEF Exit, SelectProxy, AcquireDomain, Exchange, callers, history
  <2> QED
    BY <1>1, <2>1
<1> QED
  BY <1>2, TakeJobMaps, DeliverMaps DEF WorkerStep, SendResult

LEMMA CloserMaps ==
  ASSUME IInv, NEW c \in Closers, CancelPool(c) \/ CloserStep(c)
  PROVE  API!Next \/ UNCHANGED API!vars
<1>1. UNCHANGED <<cpc, outcome, bpc, wjob, runs>> /\ DOMAIN xpc = Closers
  BY TypeFacts DEF IInv, CancelPool, CloserStep, CancelWork, CloseQueue, WaitWorkers,
                   worker, callers, history
<1>2. CASE \E label, next \in CloserStates \ {"closed"} : CloserAt(c, label, next)
  <2>1. HasClosed' = HasClosed
    BY <1>1, <1>2 DEF HasClosed, CloserAt
  <2> QED
    BY <1>1, <2>1, StutterMaps, CallFrame, ExecutionFrame
<1>3. CASE WaitWorkers(c)
  <2>1. HasClosed'
    BY <1>1, <1>3 DEF WaitWorkers, CloserAt, HasClosed
  <2>2. \A w \in Workers : wjob[w] = NoJob
    BY <1>3 DEF IInv, WorkerAtJob, WaitWorkers
  <2>3. \A j \in Jobs : ExecutionState(j) # "running"
    BY <2>2, ConstantTypes DEF ExecutionState, Running
  <2>4. API!Closed
    BY <1>1, <2>1, <2>3, APIJobs, CallFrame, ExecutionFrame
    DEF API!Closed, Shown, HasClosed
  <2> QED
    BY <2>4 DEF API!Next
<1> QED
  BY <1>2, <1>3 DEF CancelPool, CloserStep, CancelWork, CloseQueue, CloserStates

LEMMA NextMaps == IInv /\ IInv' /\ [Next]_vars => [API!Next]_(API!vars)
<1> SUFFICES ASSUME IInv, IInv', [Next]_vars
             PROVE  API!Next \/ UNCHANGED API!vars
  BY Zenon
<1>1. CASE \E j \in Jobs : Do(j) \/ CallerStep(j)
  BY <1>1, DoMaps, SubmitBlockingMaps, AwaitMaps DEF CallerStep
<1>2. CASE DoBatch \/ BatchStep
  BY <1>2, DoBatchMaps, BatchMaps
<1>3. CASE \E w \in Workers : WorkerStep(w)
  BY <1>3, WorkerMaps
<1>4. CASE \E c \in Closers : CancelPool(c) \/ CloserStep(c)
  BY <1>4, CloserMaps
<1>5. CASE \/ \E x \in Contexts : CancelCall(x)
           \/ UNCHANGED vars
  <2>1. UNCHANGED <<cpc, outcome, bpc, xpc, wjob, runs>>
    BY <1>5 DEF CancelCall, vars, worker, callers, history
  <2> QED
    BY <2>1, StutterMaps, CallFrame, ExecutionFrame
<1> QED
  BY <1>1, <1>2, <1>3, <1>4, <1>5 DEF Next

(* The pool keeps its promise to the callers. *)
THEOREM PoolImplementsCalls == Spec => ImplementsCalls
<1>1. Spec => [][IInv /\ IInv' /\ [Next]_vars]_vars
  BY InductiveInvariant, PTL DEF Spec
<1> QED
  BY InductiveInvariant, InitMaps, NextMaps, PTL DEF Spec, ImplementsCalls, API!Spec

----------------------------------------------------------------------------
(* The slots of the pipeline. *)

SlotTypes ==
  /\ wpc \in [Workers -> WorkerStates]
  /\ slots \in [Proxies -> 0 .. MaxConcurrent]
  /\ held \in [Workers -> Proxies \union {NoProxy}]
  /\ tokens \in [Proxies -> 0 .. DomainBurst]

(* What makes SlotsBalance inductive: a worker that has gone past Select   *)
(* with a proxy still has it, and Close has waited for all workers.        *)
SlotsIInv ==
  /\ SlotTypes
  /\ \A w \in Workers :
       /\ wpc[w] \in {"select", "proxy", "exited"} => held[w] = NoProxy
       /\ wpc[w] \in {"domain", "http", "release"} => held[w] \in Proxies
  /\ \A p \in Proxies : slots[p] = Cardinality({w \in Workers : held[w] = p})
  /\ DOMAIN xpc = Closers
  /\ QuiescentAfterClose

Holders(p) == {w \in Workers : held[w] = p}

LEMMA SlotConstants ==
  /\ MaxConcurrent \in Nat \ {0} /\ DomainBurst \in Nat \ {0}
  /\ NoProxy \notin Proxies
  /\ IsFiniteSet(Workers)
BY PipelineAssumption, PoolAssumption

LEMMA HoldersFinite == \A p : IsFiniteSet(Holders(p)) /\ Cardinality(Holders(p)) \in Nat
<1> SUFFICES ASSUME NEW p
             PROVE  IsFiniteSet(Holders(p)) /\ Cardinality(Holders(p)) \in Nat
  OBVIOUS
<1>1. Holders(p) \subseteq Workers
  BY DEF Holders
<1> QED
  BY <1>1, SlotConstants, FS_Subset, FS_CardinalityType

LEMMA InitSlots == PipelineInit => SlotsIInv
<1> SUFFICES ASSUME PipelineInit
             PROVE  SlotsIInv
  OBVIOUS
<1>1. SlotTypes
  BY SlotConstants DEF PipelineInit, SlotTypes, Init, WorkerStates
<1>2. \A p \in Proxies : {w \in Workers : held[w] = p} = {}
  BY SlotConstants DEF PipelineInit
<1>3. \A p \in Proxies : slots[p] = Cardinality({w \in Workers : held[w] = p})
  BY <1>2, FS_EmptySet DEF PipelineInit
<1>4. QuiescentAfterClose
  BY DEF PipelineInit, Init, QuiescentAfterClose
<1> QED
  BY <1>1, <1>3, <1>4 DEF SlotsIInv, PipelineInit, Init

(* A step of a worker that has no slot before or after it. *)
LEMMA TakeSlot ==
  ASSUME SlotsIInv, NEW w \in Workers, NEW p \in Proxies, held[w] = NoProxy,
         TryAcquireConcurrency(p), held' = [held EXCEPT ![w] = p]
  PROVE  /\ slots' \in [Proxies -> 0 .. MaxConcurrent]
         /\ held' \in [Workers -> Proxies \union {NoProxy}]
         /\ \A q \in Proxies : slots'[q] = Cardinality({v \in Workers : held'[v] = q})
<1>1. /\ slots \in [Proxies -> 0 .. MaxConcurrent]
      /\ held \in [Workers -> Proxies \union {NoProxy}]
      /\ slots[p] < MaxConcurrent /\ slots' = [slots EXCEPT ![p] = @ + 1]
  BY DEF SlotsIInv, SlotTypes, TryAcquireConcurrency
<1>2. \A q \in Proxies : slots[q] = Cardinality(Holders(q))
  BY Zenon DEF SlotsIInv, Holders
<1>3. {v \in Workers : held'[v] = p} = Holders(p) \union {w} /\ w \notin Holders(p)
  BY <1>1, SlotConstants DEF Holders
<1>4. Cardinality(Holders(p) \union {w}) = Cardinality(Holders(p)) + 1
  BY <1>3, HoldersFinite, FS_AddElement
<1>5. \A q \in Proxies \ {p} : {v \in Workers : held'[v] = q} = Holders(q)
  BY <1>1, SlotConstants DEF Holders
<1>6. \A q \in Proxies : slots'[q] = Cardinality({v \in Workers : held'[v] = q})
  <2>1. slots'[p] = Cardinality({v \in Workers : held'[v] = p})
    BY <1>1, <1>2, <1>3, <1>4
  <2>2. \A q \in Proxies \ {p} : slots'[q] = slots[q]
    BY <1>1
  <2> QED
    BY <1>2, <1>5, <2>1, <2>2
<1> QED
  BY <1>1, <1>6, SlotConstants

LEMMA GiveSlotBack ==
  ASSUME SlotsIInv, NEW w \in Workers, ReleaseConcurrency(w)
  PROVE  /\ slots' \in [Proxies -> 0 .. MaxConcurrent]
         /\ held' \in [Workers -> Proxies \union {NoProxy}]
         /\ \A q \in Proxies : slots'[q] = Cardinality({v \in Workers : held'[v] = q})
<1> DEFINE p == held[w]
<1>1. /\ slots \in [Proxies -> 0 .. MaxConcurrent]
      /\ held \in [Workers -> Proxies \union {NoProxy}]
      /\ p \in Proxies /\ p # NoProxy
      /\ slots' = [slots EXCEPT ![p] = @ - 1]
      /\ held' = [held EXCEPT ![w] = NoProxy]
  BY SlotConstants DEF SlotsIInv, SlotTypes, ReleaseConcurrency
<1>2. \A q \in Proxies : slots[q] = Cardinality(Holders(q))
  BY Zenon DEF SlotsIInv, Holders
<1>3. w \in Holders(p)
  BY DEF Holders
<1> HIDE DEF p
<1>4. {v \in Workers : held'[v] = p} = Holders(p) \ {w}
  BY <1>1 DEF Holders
<1>5. Cardinality(Holders(p) \ {w}) = Cardinality(Holders(p)) - 1
  BY <1>3, HoldersFinite, FS_RemoveElement
<1>6. \A q \in Proxies \ {p} : {v \in Workers : held'[v] = q} = Holders(q)
  BY <1>1, <1>3, SlotConstants DEF Holders
<1>7. \A q \in Proxies : slots'[q] = Cardinality({v \in Workers : held'[v] = q})
  <2>1. slots'[p] = Cardinality({v \in Workers : held'[v] = p})
    BY <1>1, <1>2, <1>4, <1>5
  <2>2. \A q \in Proxies \ {p} : slots'[q] = slots[q]
    BY <1>1
  <2> QED
    BY <1>2, <1>6, <2>1, <2>2
<1>8. slots[p] >= 1
  <2>1. Holders(p) # {}
    BY <1>3
  <2> QED
    BY <1>1, <1>2, <2>1, HoldersFinite, FS_EmptySet
<1> QED
  BY <1>1, <1>7, <1>8, SlotConstants

(* The steps that leave the semaphores alone. *)
LEMMA SlotsFrame ==
  ASSUME SlotsIInv, UNCHANGED <<slots, held>>,
         wpc' \in [Workers -> WorkerStates], tokens' \in [Proxies -> 0 .. DomainBurst],
         \A w \in Workers :
           /\ wpc'[w] \in {"select", "proxy", "exited"} => held[w] = NoProxy
           /\ wpc'[w] \in {"domain", "http", "release"} => held[w] \in Proxies,
         DOMAIN xpc' = Closers, QuiescentAfterClose'
  PROVE  SlotsIInv'
BY DEF SlotsIInv, SlotTypes, WorkerStates

LEMMA ClientsSlots == SlotsIInv /\ Clients => SlotsIInv'
<1> SUFFICES ASSUME SlotsIInv, Clients
             PROVE  SlotsIInv'
  OBVIOUS
<1>1. UNCHANGED proxies /\ UNCHANGED wpc
  BY DEF Clients, CallerStep, Do, SubmitBlocking, Await, DoBatch, BatchStep, Submit,
         StartCollectors, BatchReturns, CancelPool, CloserStep, CancelWork, CloseQueue,
         WaitWorkers, CancelCall, worker
<1>2. DOMAIN xpc = Closers /\ QuiescentAfterClose
  BY DEF SlotsIInv
<1>3. DOMAIN xpc' = Closers /\ QuiescentAfterClose'
  <2>1. CASE UNCHANGED xpc
    BY <1>1, <1>2, <2>1 DEF QuiescentAfterClose
  <2>2. CASE \E c \in Closers : WaitWorkers(c)
    BY <1>1, <1>2, <2>2 DEF WaitWorkers, CloserAt, QuiescentAfterClose
  <2>3. CASE \E c \in Closers, label, next \in CloserStates \ {"closed"} :
               CloserAt(c, label, next)
    BY <1>1, <1>2, <2>3 DEF CloserAt, QuiescentAfterClose
  <2> QED
    BY <2>1, <2>2, <2>3 DEF Clients, CallerStep, Do, SubmitBlocking, Await, DoBatch,
       BatchStep, Submit, StartCollectors, BatchReturns, CancelPool, CloserStep,
       CancelWork, CloseQueue, CancelCall, CloserStates
<1> QED
  BY <1>1, <1>3, SlotsFrame DEF SlotsIInv, SlotTypes, WorkerStates, proxies

LEMMA WorkerSlots ==
  ASSUME SlotsIInv, NEW w \in Workers, Loop(w) \/ Execute(w)
  PROVE  SlotsIInv'
<1>0. /\ wpc \in [Workers -> WorkerStates] /\ held \in [Workers -> Proxies \union {NoProxy}]
      /\ tokens \in [Proxies -> 0 .. DomainBurst]
      /\ DOMAIN xpc = Closers /\ QuiescentAfterClose
      /\ \A v \in Workers :
           /\ wpc[v] \in {"select", "proxy", "exited"} => held[v] = NoProxy
           /\ wpc[v] \in {"domain", "http", "release"} => held[v] \in Proxies
  BY DEF SlotsIInv, SlotTypes, WorkerStates
<1>1. UNCHANGED xpc /\ wpc[w] # "exited"
  BY DEF Loop, Execute, TakeJob, Exit, Select, Acquire, Respond, Exchange, Send, Deliver,
         ReleaseConcurrency, jobVars
<1>2. PICK label \in WorkerStates : wpc' = [wpc EXCEPT ![w] = label]
  BY DEF Loop, Execute, TakeJob, Exit, Select, Acquire, Respond, Exchange, Send, Deliver,
         ReleaseConcurrency, Continue, Fail, Succeed, Goto, WorkerStates
<1>3. wpc' \in [Workers -> WorkerStates]
  BY <1>0, <1>2
<1>4. QuiescentAfterClose' /\ DOMAIN xpc' = Closers
  BY <1>0, <1>1, <1>2 DEF QuiescentAfterClose
<1>5. CASE Loop(w)
  BY <1>0, <1>2, <1>3, <1>4, <1>5, SlotsFrame DEF Loop, TakeJob, Exit, Goto, proxies
<1>6. CASE Select(w)
  <2>1. CASE UNCHANGED <<slots, held>> /\ Goto(w, "send")
    BY <1>0, <1>3, <1>4, <1>6, <2>1, SlotsFrame DEF Select, Goto
  <2>2. CASE \E p \in Proxies : TryAcquireConcurrency(p) /\ held' = [held EXCEPT ![w] = p]
    <3>1. PICK p \in Proxies : TryAcquireConcurrency(p) /\ held' = [held EXCEPT ![w] = p]
      BY <2>2
    <3>2. held[w] = NoProxy /\ UNCHANGED tokens
      BY <1>0, <1>6 DEF Select
    <3>3. /\ slots' \in [Proxies -> 0 .. MaxConcurrent]
          /\ held' \in [Workers -> Proxies \union {NoProxy}]
          /\ \A q \in Proxies : slots'[q] = Cardinality({v \in Workers : held'[v] = q})
      BY <3>1, <3>2, TakeSlot
    <3>4. wpc'[w] \notin {"select", "proxy", "exited"}
      BY <1>0, <1>6 DEF Select, Continue, Fail, Goto
    <3>5. \A v \in Workers :
            /\ wpc'[v] \in {"select", "proxy", "exited"} => held'[v] = NoProxy
            /\ wpc'[v] \in {"domain", "http", "release"} => held'[v] \in Proxies
      BY <1>0, <1>2, <3>1, <3>4
    <3> QED
      BY <1>0, <1>3, <1>4, <3>2, <3>3, <3>5 DEF SlotsIInv, SlotTypes, WorkerStates
  <2> QED
    BY <1>6, <2>1, <2>2 DEF Select, Fail
<1>7. CASE Acquire(w)
  <2>1. tokens' \in [Proxies -> 0 .. DomainBurst]
    BY <1>0, <1>7, SlotConstants DEF Acquire
  <2>2. /\ UNCHANGED <<slots, held>> /\ wpc[w] = "domain"
        /\ wpc'[w] \in {"http", "send"}
    BY <1>0, <1>7 DEF Acquire, Continue, Fail, Goto
  <2> QED
    BY <1>0, <1>2, <1>3, <1>4, <2>1, <2>2, SlotsFrame
<1>8. CASE Respond(w)
  <2>1. UNCHANGED <<slots, held, tokens>> /\ wpc'[w] = "send"
    BY <1>0, <1>8 DEF Respond, Exchange, Succeed, Fail, Goto, proxies
  <2> QED
    BY <1>0, <1>2, <1>3, <1>4, <2>1, SlotsFrame
<1>9. CASE Send(w)
  <2>1. /\ UNCHANGED <<slots, held, tokens>>
        /\ wpc'[w] = IF held[w] = NoProxy THEN "select" ELSE "release"
    BY <1>0, <1>9 DEF Send, Deliver, Goto, proxies
  <2> QED
    BY <1>0, <1>2, <1>3, <1>4, <2>1, SlotsFrame
<1>10. CASE ReleaseConcurrency(w)
  <2>1. /\ wpc'[w] = "select" /\ held' = [held EXCEPT ![w] = NoProxy]
        /\ UNCHANGED tokens
    BY <1>0, <1>10 DEF ReleaseConcurrency, Goto
  <2>2. \A v \in Workers :
          /\ wpc'[v] \in {"select", "proxy", "exited"} => held'[v] = NoProxy
          /\ wpc'[v] \in {"domain", "http", "release"} => held'[v] \in Proxies
    BY <1>0, <1>2, <2>1
  <2> QED
    BY <1>0, <1>3, <1>4, <1>10, <2>1, <2>2, GiveSlotBack
    DEF SlotsIInv, SlotTypes, WorkerStates
<1> QED
  BY <1>5, <1>6, <1>7, <1>8, <1>9, <1>10 DEF Execute

LEMMA NextSlots == SlotsIInv /\ [PipelineNext]_allVars => SlotsIInv'
<1> SUFFICES ASSUME SlotsIInv, [PipelineNext]_allVars
             PROVE  SlotsIInv'
  OBVIOUS
<1>1. CASE \E p \in Proxies : Refill(p)
  <2>1. /\ tokens' \in [Proxies -> 0 .. DomainBurst]
        /\ UNCHANGED <<slots, held, wpc, xpc>>
    BY <1>1, SlotConstants DEF SlotsIInv, SlotTypes, Refill, vars, worker
  <2> QED
    BY <2>1, SlotsFrame DEF SlotsIInv, SlotTypes, WorkerStates, QuiescentAfterClose
<1>2. CASE UNCHANGED allVars
  BY <1>2, SlotsFrame
  DEF SlotsIInv, SlotTypes, WorkerStates, QuiescentAfterClose, allVars, proxies, vars, worker
<1> QED
  BY <1>1, <1>2, ClientsSlots, WorkerSlots DEF PipelineNext

LEMMA SlotsFollow == SlotsIInv => SlotsBalance
<1> SUFFICES ASSUME SlotsIInv
             PROVE  SlotsBalance
  OBVIOUS
<1>1. ASSUME NEW p \in Proxies
      PROVE  Cardinality({w \in Workers : held[w] = p /\ wpc[w] \in {"domain", "http"}})
               <= MaxConcurrent
  <2> DEFINE InFlight == {w \in Workers : held[w] = p /\ wpc[w] \in {"domain", "http"}}
  <2>1. InFlight \subseteq Holders(p)
    BY DEF Holders
  <2>2. IsFiniteSet(InFlight) /\ Cardinality(InFlight) <= Cardinality(Holders(p))
    BY <2>1, HoldersFinite, FS_Subset
  <2>3. Cardinality(Holders(p)) = slots[p] /\ slots[p] \in 0 .. MaxConcurrent
    BY DEF SlotsIInv, SlotTypes, Holders
  <2>4. Cardinality(InFlight) \in Nat
    BY <2>2, FS_CardinalityType
  <2> QED
    BY <2>2, <2>3, <2>4, SlotConstants
<1>2. ASSUME NEW c \in Closers, xpc[c] = "closed", NEW p \in Proxies
      PROVE  slots[p] = 0
  <2>1. {w \in Workers : held[w] = p} = {}
    BY <1>2, SlotConstants DEF SlotsIInv, QuiescentAfterClose
  <2> QED
    BY <2>1, FS_EmptySet DEF SlotsIInv
<1> QED
  BY <1>1, <1>2 DEF SlotsIInv, SlotsBalance

LEMMA AlwaysSlots == PipelineSpec => []SlotsIInv
BY InitSlots, NextSlots, PTL DEF PipelineSpec

(* Slots are neither leaked nor exceeded, and all are free after Close. *)
THEOREM SlotsAreBalanced == PipelineSpec => []SlotsBalance
BY AlwaysSlots, SlotsFollow, PTL

----------------------------------------------------------------------------
(* The invariant of the worker pool holds of the pipeline: a step of the   *)
(* pipeline is one of the pool, but for the release of a slot.             *)

LEMMA ReleaseStep ==
  ASSUME IInv, NEW w \in Workers, ReleaseConcurrency(w)
  PROVE  IInv'
<1>1. /\ wpc[w] = "release" /\ wpc' = [wpc EXCEPT ![w] = "select"]
      /\ UNCHANGED <<jobVars, wresult, successJobs, failedJobs>>
  BY DEF ReleaseConcurrency, Goto
<1>2. /\ TypeOK /\ OnePlace /\ WorkerAtJob /\ BatchOrder /\ Told /\ Causes
      /\ OutcomeJustified /\ AbandonedJobSendsNothing /\ QuiescentAfterClose
  BY Zenon DEF IInv
<1> USE DEF jobVars, queue, contexts, callers, history
<1>3. TypeOK'
  <2>1. wpc' \in [Workers -> WorkerStates]
    BY <1>1, <1>2 DEF TypeOK, WorkerStates
  <2> QED
    BY <1>1, <1>2, <2>1 DEF TypeOK
<1>4. OnePlace' /\ BatchOrder' /\ Told' /\ OutcomeJustified'
  BY <1>1, <1>2 DEF OnePlace, BatchOrder, Told, OutcomeJustified
<1>5. WorkerAtJob'
  BY <1>1, <1>2, TypeFacts DEF WorkerAtJob
<1>6. Causes' /\ AbandonedJobSendsNothing' /\ QuiescentAfterClose'
  BY <1>1, <1>2, TypeFacts
  DEF Causes, JobCtxDone, AbandonedJobSendsNothing, QuiescentAfterClose
<1> QED
  BY <1>3, <1>4, <1>5, <1>6, Zenon DEF IInv

(* Select, the wait for the domain and the exchange are what WorkerPool    *)
(* says of them, with proxies added.                                       *)
LEMMA WorkersRefine ==
  ASSUME NEW w \in Workers
  PROVE  /\ Select(w) => SelectProxy(w)
         /\ Acquire(w) => AcquireDomain(w)
         /\ Respond(w) => Exchange(w)
         /\ Send(w) => \E label \in {"select", "release"} : Deliver(w, label)
<1>1. Select(w) => SelectProxy(w)
  BY DEF Select, SelectProxy, jobVars
<1>2. Acquire(w) => AcquireDomain(w)
  BY DEF Acquire, AcquireDomain, jobVars
<1> QED
  BY <1>1, <1>2 DEF Respond, Send

LEMMA PipelineNextIInv == IInv /\ [PipelineNext]_allVars => IInv'
<1> SUFFICES ASSUME IInv, [PipelineNext]_allVars
             PROVE  IInv'
  OBVIOUS
<1>1. CASE Clients
  <2>1. Next
    BY <1>1, Zenon DEF Clients, Next
  <2> QED
    BY <2>1, NextIInv
<1>2. ASSUME NEW w \in Workers, Loop(w)
      PROVE  IInv'
  BY <1>2, TakeJobStep, ExitStep DEF Loop
<1>3. ASSUME NEW w \in Workers, Execute(w)
      PROVE  IInv'
  BY <1>3, WorkersRefine, SelectProxyStep, AcquireDomainStep, ExchangeStep, DeliverStep,
     ReleaseStep
  DEF Execute
<1>4. CASE (\E p \in Proxies : Refill(p)) \/ UNCHANGED allVars
  BY <1>4, StutterStep DEF Refill, allVars
<1> QED
  BY <1>1, <1>2, <1>3, <1>4 DEF PipelineNext

LEMMA PipelineKeepsIInv == PipelineSpec => []IInv
<1>1. PipelineInit => IInv
  BY InitIInv DEF PipelineInit
<1> QED
  BY <1>1, PipelineNextIInv, PTL DEF PipelineSpec

(* What the run checks of the pipeline holds for any number of workers,    *)
(* jobs, proxies and slots.                                                *)
THEOREM PipelineInductive == PipelineSpec => []PipelineIInv
<1>1. IInv /\ SlotsIInv => PipelineIInv
  <2> SUFFICES ASSUME IInv, SlotsIInv
               PROVE  PipelineIInv
    OBVIOUS
  <2>1. TypeOK
    BY Zenon DEF IInv
  <2>2. PipelineTypeOK /\ WorkersHold
    BY <2>1 DEF SlotsIInv, SlotTypes, PipelineTypeOK, WorkersHold
  <2> QED
    BY <2>2, SlotsFollow DEF PipelineIInv
<1> QED
  BY <1>1, AlwaysSlots, PipelineKeepsIInv, PTL

(* With proxies behind it, too, the pool runs a job once, tells its        *)
(* callers the truth, sends nothing for who has gone, and rests when Close *)
(* has returned.                                                           *)
THEOREM PipelineIsSafe ==
  PipelineSpec =>
    [](JobRunsOnce /\ OutcomeJustified /\ AbandonedJobSendsNothing /\ QuiescentAfterClose)
<1>1. IInv => OutcomeJustified /\ AbandonedJobSendsNothing /\ QuiescentAfterClose
  BY Zenon DEF IInv
<1> QED
  BY <1>1, IInvJobRunsOnce, PipelineKeepsIInv, PTL

LEMMA PipelineNextMaps ==
  IInv /\ IInv' /\ [PipelineNext]_allVars => [API!Next]_(API!vars)
<1> SUFFICES ASSUME IInv, IInv', [PipelineNext]_allVars
             PROVE  API!Next \/ UNCHANGED API!vars
  BY Zenon
<1>1. CASE Clients
  <2>1. Next
    BY <1>1, Zenon DEF Clients, Next
  <2> QED
    BY <2>1, NextMaps, Zenon
<1>2. ASSUME NEW w \in Workers, TakeJob(w) \/ Send(w)
      PROVE  API!Next
  BY <1>2, TakeJobMaps, WorkersRefine, DeliverMaps
<1>3. CASE UNCHANGED <<cpc, outcome, bpc, xpc, wjob, runs>>
  BY <1>3, StutterMaps, CallFrame, ExecutionFrame
<1>4. ASSUME NEW w \in Workers,
             Exit(w) \/ Select(w) \/ Acquire(w) \/ Respond(w) \/ ReleaseConcurrency(w)
      PROVE  UNCHANGED <<cpc, outcome, bpc, xpc, wjob, runs>>
  BY <1>4 DEF Exit, Select, Acquire, Respond, Exchange, ReleaseConcurrency, jobVars,
              callers, history
<1>5. CASE (\E p \in Proxies : Refill(p)) \/ UNCHANGED allVars
  BY <1>3, <1>5 DEF Refill, allVars, vars, worker, callers, history
<1> QED
  BY <1>1, <1>2, <1>3, <1>4, <1>5 DEF PipelineNext, Loop, Execute

(* The pipeline keeps the promise that callers rely on. *)
THEOREM PipelineImplementsCalls == PipelineSpec => ImplementsCalls
<1>1. PipelineInit => API!Init
  BY InitMaps DEF PipelineInit
<1> QED
  BY <1>1, PipelineKeepsIInv, PipelineNextMaps, PTL
  DEF PipelineSpec, ImplementsCalls, API!Spec

----------------------------------------------------------------------------
(* The pipeline as a worker pool. *)

Bar == [w \in Workers |-> IF wpc[w] = "release" THEN "select" ELSE wpc[w]]

(* A step of a worker is seen as one that goes to the same place. *)
LEMMA GotoMaps ==
  ASSUME wpc \in [Workers -> WorkerStates], NEW w \in Workers,
         NEW label \in WorkerStates, Goto(w, label)
  PROVE  Bar' = [Bar EXCEPT ![w] = IF label = "release" THEN "select" ELSE label]
BY DEF Bar, Goto

LEMMA PoolJobs == Pool!InBatch = InBatch /\ Pool!Jobs = Jobs
BY DEF InBatch, Jobs, Range, Pool!InBatch, Pool!Jobs, Pool!Range

LEMMA PoolInit == PipelineInit => Pool!Init
BY PoolJobs DEF PipelineInit, Init, Pool!Init

(* What the clients do does not touch the workers, and looks at them only  *)
(* to see whether they are gone.                                           *)
LEMMA PoolClients == Clients => Pool!Next
<1> SUFFICES ASSUME Clients
             PROVE  Pool!Next
  OBVIOUS
<1> USE DEF queue, contexts, history, callers, worker, Pool!queue, Pool!contexts,
            Pool!history, Pool!callers, Pool!worker, CtxOf, Pool!CtxOf
<1>1. ASSUME NEW j \in Jobs, Do(j)
      PROVE  Pool!Do(j)
  BY <1>1 DEF Do, Becomes, Late, Pool!Do, Pool!Becomes, Pool!Late
<1>2. ASSUME NEW j \in Jobs, SubmitBlocking(j)
      PROVE  Pool!SubmitBlocking(j)
  BY <1>2 DEF SubmitBlocking, Becomes, Ends, Enqueue, Room,
              Pool!SubmitBlocking, Pool!Becomes, Pool!Ends, Pool!Enqueue, Pool!Room
<1>3. ASSUME NEW j \in Jobs, Await(j)
      PROVE  Pool!Await(j)
  BY <1>3 DEF Await, Ends, Pool!Await, Pool!Ends
<1>4. DoBatch => Pool!DoBatch
  BY PoolJobs DEF DoBatch, Late, Pool!DoBatch, Pool!Late
<1>5. Submit => Pool!Submit
  BY PoolJobs DEF Submit, Becomes, Ends, Enqueue, Room,
         Pool!Submit, Pool!Becomes, Pool!Ends, Pool!Enqueue, Pool!Room
<1>6. StartCollectors \/ BatchReturns => Pool!StartCollectors \/ Pool!BatchReturns
  BY PoolJobs DEF StartCollectors, BatchReturns, Pool!StartCollectors, Pool!BatchReturns
<1>7. ASSUME NEW c \in Closers, CancelPool(c) \/ CancelWork(c) \/ CloseQueue(c)
      PROVE  Pool!CancelPool(c) \/ Pool!CancelWork(c) \/ Pool!CloseQueue(c)
  BY <1>7 DEF CancelPool, CancelWork, CloseQueue, CloserAt,
              Pool!CancelPool, Pool!CancelWork, Pool!CloseQueue, Pool!CloserAt
<1>8. ASSUME NEW c \in Closers, WaitWorkers(c)
      PROVE  Pool!WaitWorkers(c)
  BY <1>8 DEF WaitWorkers, CloserAt, Pool!WaitWorkers, Pool!CloserAt
<1>9. ASSUME NEW x \in Contexts, CancelCall(x)
      PROVE  x \in Pool!Contexts /\ Pool!CancelCall(x)
  BY <1>9 DEF Contexts, CancelCall, Pool!Contexts, Pool!CancelCall
<1> HIDE DEF queue, contexts, history, callers, worker, Pool!queue, Pool!contexts,
             Pool!history, Pool!callers, Pool!worker, CtxOf, Pool!CtxOf
<1> QED
  BY <1>1, <1>2, <1>3, <1>4, <1>5, <1>6, <1>7, <1>8, <1>9, PoolJobs
  DEF Clients, CallerStep, BatchStep, CloserStep,
      Pool!Next, Pool!CallerStep, Pool!BatchStep, Pool!CloserStep

LEMMA PoolWorkers ==
  ASSUME wpc \in [Workers -> WorkerStates], NEW w \in Workers, Loop(w) \/ Execute(w)
  PROVE  Pool!Next \/ UNCHANGED Pool!vars
<1> USE DEF queue, contexts, history, callers, worker, Pool!queue, Pool!contexts,
            Pool!history, Pool!callers, Pool!worker, CtxOf, Pool!CtxOf
<1>s. {"select", "proxy", "domain", "http", "send", "release", "exited"} \subseteq WorkerStates
  BY DEF WorkerStates
<1>1. CASE TakeJob(w)
  BY <1>1, <1>s, GotoMaps
     DEF TakeJob, Bar, Pool!TakeJob, Pool!Goto, Pool!WorkerStep, Pool!Next
<1>2. CASE Exit(w)
  BY <1>2, <1>s, GotoMaps DEF Exit, Bar, Pool!Exit, Pool!Goto, Pool!WorkerStep, Pool!Next
<1>3. CASE Select(w)
  BY <1>3, <1>s, GotoMaps
     DEF Select, Continue, Fail, jobVars, JobCtxDone, Bar, Pool!SelectProxy,
     Pool!Continue, Pool!Fail, Pool!JobCtxDone, Pool!Goto, Pool!WorkerStep, Pool!Next
<1>4. CASE Acquire(w)
  BY <1>4, <1>s, GotoMaps DEF Acquire, Continue, Fail, jobVars, JobCtxDone, Bar,
     Pool!AcquireDomain,
     Pool!Continue, Pool!Fail, Pool!JobCtxDone, Pool!Goto, Pool!WorkerStep, Pool!Next
<1>5. CASE Respond(w)
  BY <1>5, <1>s, GotoMaps
     DEF Respond, Exchange, Succeed, Fail, JobCtxDone, Bar, Pool!Exchange,
     Pool!Succeed, Pool!Fail, Pool!JobCtxDone, Pool!Goto, Pool!WorkerStep, Pool!Next
<1>6. CASE Send(w)
  BY <1>6, <1>s, GotoMaps DEF Send, Deliver, Bar, Pool!SendResult, Pool!Deliver, Pool!Goto,
     Pool!WorkerStep, Pool!Next
<1>7. CASE ReleaseConcurrency(w)
  <2>1. Bar' = Bar
    BY <1>7 DEF ReleaseConcurrency, Goto, Bar
  <2> QED
    BY <1>7, <2>1 DEF ReleaseConcurrency, jobVars, Bar, Pool!vars
<1> QED
  BY <1>1, <1>2, <1>3, <1>4, <1>5, <1>6, <1>7 DEF Loop, Execute

LEMMA PoolNext == SlotsIInv /\ [PipelineNext]_allVars => [Pool!Next]_(Pool!vars)
<1> SUFFICES ASSUME SlotsIInv, [PipelineNext]_allVars
             PROVE  Pool!Next \/ UNCHANGED Pool!vars
  BY Zenon
<1>1. wpc \in [Workers -> WorkerStates]
  BY DEF SlotsIInv, SlotTypes, WorkerStates
<1>2. UNCHANGED vars => UNCHANGED Pool!vars
  BY DEF vars, queue, contexts, history, callers, worker, Pool!vars, Pool!queue,
         Pool!contexts, Pool!history, Pool!callers, Pool!worker
<1> QED
  BY <1>1, <1>2, PoolClients, PoolWorkers DEF PipelineNext, Refill, allVars

(* The waits for slots and domains and the late release are hidden: to its *)
(* callers the pipeline is a worker pool.                                  *)
THEOREM PipelineImplementsPool == PipelineSpec => ImplementsPool
BY AlwaysSlots, PoolInit, PoolNext, PTL DEF PipelineSpec, ImplementsPool, Pool!Spec
=============================================================================
