---------------------------- MODULE ProxyClient ----------------------------
(***************************************************************************)
(* The counters of a proxy client (internal/connection/client.go): Do adds *)
(* to them, one atomic word at a time, while GetMetrics loads them one     *)
(* after the other.  The breaker that is told of each outcome is in        *)
(* CircuitBreaker; the times of the last success and failure and the last  *)
(* error are left out.                                                     *)
(***************************************************************************)
EXTENDS Integers, FiniteSets

CONSTANTS
  Workers,      \* goroutines that call Do
  Readers,      \* goroutines that call GetMetrics
  MaxRequests   \* bound of the model: requests made

ASSUME ClientAssumption == IsFiniteSet(Workers) /\ MaxRequests \in Nat

VARIABLES
  totalRequests, successRequests, failedRequests,
  pc,         \* pc[w]: the next step of worker w
  rpc,        \* rpc[r]: the next step of reader r
  report,     \* report[r]: the counters r has loaded so far
  finished    \* history: finished[r], requests counted when r's report began

counters == <<totalRequests, successRequests, failedRequests>>
vars     == <<counters, pc, rpc, report, finished>>

NoReport == [total |-> 0, success |-> 0, failed |-> 0]

TypeOK ==
  /\ totalRequests \in 0 .. MaxRequests
  /\ successRequests \in 0 .. MaxRequests
  /\ failedRequests \in 0 .. MaxRequests
  /\ pc \in [Workers -> {"idle", "http", "succeeded", "failed"}]
  /\ rpc \in [Readers -> {"total", "success", "failed", "reported"}]
  /\ report \in [Readers -> [total : Nat, success : Nat, failed : Nat]]
  /\ finished \in [Readers -> 0 .. MaxRequests]

Init ==
  /\ totalRequests = 0 /\ successRequests = 0 /\ failedRequests = 0
  /\ pc = [w \in Workers |-> "idle"]
  /\ rpc = [r \in Readers |-> "total"]
  /\ report = [r \in Readers |-> NoReport]
  /\ finished = [r \in Readers |-> 0]

Goto(w, label) == pc' = [pc EXCEPT ![w] = label]
reading == <<rpc, report, finished>>

----------------------------------------------------------------------------
(* Do *)

Do(w) ==
  /\ pc[w] = "idle"
  /\ totalRequests < MaxRequests
  /\ totalRequests' = totalRequests + 1
  /\ Goto(w, "http")
  /\ UNCHANGED <<successRequests, failedRequests, reading>>

(* An error, and a status of 400 or more, is a failure. *)
Exchange(w) ==
  /\ pc[w] = "http"
  /\ Goto(w, "succeeded") \/ Goto(w, "failed")
  /\ UNCHANGED <<counters, reading>>

CountSuccess(w) ==
  /\ pc[w] = "succeeded"
  /\ successRequests' = successRequests + 1
  /\ Goto(w, "idle")
  /\ UNCHANGED <<totalRequests, failedRequests, reading>>

(* Mutant: an HTTP error, which carries no error value, is not counted. *)
CountErrorsOnly(w) ==
  /\ pc[w] = "failed"
  /\ failedRequests' = failedRequests + 1 \/ UNCHANGED failedRequests
  /\ Goto(w, "idle")
  /\ UNCHANGED <<totalRequests, successRequests, reading>>

CountFailure(w) ==
  /\ pc[w] = "failed"
  /\ failedRequests' = failedRequests + 1
  /\ Goto(w, "idle")
  /\ UNCHANGED <<totalRequests, successRequests, reading>>

----------------------------------------------------------------------------
(* GetMetrics *)

LoadTotal(r) ==
  /\ rpc[r] \in {"total", "reported"}
  /\ report' = [report EXCEPT ![r] = [NoReport EXCEPT !.total = totalRequests]]
  /\ finished' = [finished EXCEPT ![r] = successRequests + failedRequests]
  /\ rpc' = [rpc EXCEPT ![r] = "success"]
  /\ UNCHANGED <<counters, pc>>

(* Mutant: the wrong counter is loaded. *)
LoadFailedTwice(r) ==
  /\ rpc[r] = "success"
  /\ report' = [report EXCEPT ![r].success = failedRequests]
  /\ rpc' = [rpc EXCEPT ![r] = "failed"]
  /\ UNCHANGED <<counters, pc, finished>>

LoadSuccess(r) ==
  /\ rpc[r] = "success"
  /\ report' = [report EXCEPT ![r].success = successRequests]
  /\ rpc' = [rpc EXCEPT ![r] = "failed"]
  /\ UNCHANGED <<counters, pc, finished>>

LoadFailed(r) ==
  /\ rpc[r] = "failed"
  /\ report' = [report EXCEPT ![r].failed = failedRequests]
  /\ rpc' = [rpc EXCEPT ![r] = "reported"]
  /\ UNCHANGED <<counters, pc, finished>>

Next ==
  \/ \E w \in Workers :
       Do(w) \/ Exchange(w) \/ CountSuccess(w) \/ CountFailure(w)
  \/ \E r \in Readers : LoadTotal(r) \/ LoadSuccess(r) \/ LoadFailed(r)

Spec == Init /\ [][Next]_vars

----------------------------------------------------------------------------
(* Every request is counted once more when it ends, whatever way it ends.  *)
RequestsBalance ==
  totalRequests = successRequests + failedRequests
    + Cardinality({w \in Workers : pc[w] \in {"http", "succeeded", "failed"}})

(* A report is no snapshot, but it can be placed in time: its total and    *)
(* its outcomes are no fewer than the outcomes that had been counted when  *)
(* it began and no more than the requests that have been made when it      *)
(* ends.  The total is loaded first, so that the outcomes may exceed it,   *)
(* by no more than the requests made since.                                *)
ReportIsBracketed ==
  \A r \in Readers : rpc[r] = "reported" =>
    /\ finished[r] <= report[r].total /\ report[r].total <= totalRequests
    /\ finished[r] <= report[r].success + report[r].failed
    /\ report[r].success + report[r].failed <= totalRequests
============================================================================
