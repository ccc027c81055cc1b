------------------------- MODULE ProxyClientProofs -------------------------
(***************************************************************************)
(* Proofs about the counters of a proxy client, for any number of workers  *)
(* and readers and any number of requests.                                 *)
(***************************************************************************)
EXTENDS ProxyClient, FiniteSetTheorems, TLAPS

InFlight == {w \in Workers : pc[w] \in {"http", "succeeded", "failed"}}

(* Where a report stands against the counters: a counter already loaded is *)
(* no longer ahead of its load, one still to be loaded cannot fall behind. *)
Placed ==
  \A r \in Readers :
    /\ finished[r] <= report[r].total /\ report[r].total <= totalRequests
    /\ rpc[r] = "success" => finished[r] <= successRequests + failedRequests
    /\ rpc[r] = "failed" =>
         /\ finished[r] <= report[r].success + failedRequests
         /\ report[r].success <= successRequests
    /\ rpc[r] = "reported" =>
         /\ finished[r] <= report[r].success + report[r].failed
         /\ report[r].success <= successRequests
         /\ report[r].failed <= failedRequests

IInv == TypeOK /\ RequestsBalance /\ Placed

LEMMA InFlightFinite == IsFiniteSet(InFlight) /\ Cardinality(InFlight) \in Nat
<1>1. InFlight \subseteq Workers
  BY DEF InFlight
<1> QED
  BY <1>1, ClientAssumption, FS_Subset, FS_CardinalityType

(* What has been counted as ended never exceeds what was begun. *)
LEMMA EndedWithinBegun ==
  ASSUME IInv
  PROVE  /\ successRequests \in Nat /\ failedRequests \in Nat
         /\ totalRequests = successRequests + failedRequests
                              + Cardinality(InFlight)
         /\ successRequests + failedRequests <= totalRequests
         /\ totalRequests <= MaxRequests
<1>1. totalRequests = successRequests + failedRequests + Cardinality(InFlight)
  BY DEF IInv, RequestsBalance, InFlight
<1>2. /\ successRequests \in Nat /\ failedRequests \in Nat
      /\ totalRequests \in Nat /\ totalRequests <= MaxRequests
  BY ClientAssumption DEF IInv, TypeOK
<1> QED
  BY <1>1, <1>2, InFlightFinite

LEMMA InitIInv == Init => IInv
<1> SUFFICES ASSUME Init
             PROVE  IInv
  OBVIOUS
<1>1. TypeOK
  BY ClientAssumption DEF Init, TypeOK, NoReport
<1>2. InFlight = {}
  BY DEF Init, InFlight
<1>3. RequestsBalance
  BY <1>2, FS_EmptySet DEF Init, RequestsBalance, InFlight
<1>4. Placed
  BY DEF Init, Placed, NoReport
<1> QED
  BY <1>1, <1>3, <1>4 DEF IInv

(* A request enters InFlight with totalRequests and leaves it with one of  *)
(* the two other counters.                                                 *)
LEMMA BeginStep ==
  ASSUME IInv, NEW w \in Workers, Do(w)
  PROVE  IInv'
<1>0. /\ w \notin InFlight /\ InFlight' = InFlight \union {w}
  BY DEF IInv, TypeOK, Do, Goto, InFlight
<1>1. Cardinality(InFlight') = Cardinality(InFlight) + 1
  BY <1>0, InFlightFinite, FS_AddElement
<1>2. TypeOK'
  BY ClientAssumption DEF IInv, TypeOK, Do, Goto, reading
<1>3. RequestsBalance'
  <2>1. totalRequests' = successRequests' + failedRequests' + Cardinality(InFlight')
    BY <1>1, EndedWithinBegun, InFlightFinite DEF Do
  <2> QED
    BY <2>1 DEF RequestsBalance, InFlight
<1>4. Placed'
  <2>1. \A r \in Readers : report[r].total \in Nat /\ totalRequests \in Nat
    BY ClientAssumption DEF IInv, TypeOK
  <2> QED
    BY <2>1 DEF IInv, Placed, Do, reading
<1> QED
  BY <1>2, <1>3, <1>4 DEF IInv

LEMMA ExchangeStep ==
  ASSUME IInv, NEW w \in Workers, Exchange(w)
  PROVE  IInv'
<1>1. InFlight' = InFlight
  BY DEF IInv, TypeOK, Exchange, Goto, InFlight
<1>2. TypeOK'
  BY DEF IInv, TypeOK, Exchange, Goto, counters, reading
<1>3. RequestsBalance'
  BY <1>1 DEF IInv, RequestsBalance, Exchange, counters, InFlight
<1>4. Placed'
  BY DEF IInv, Placed, Exchange, counters, reading
<1> QED
  BY <1>2, <1>3, <1>4 DEF IInv

LEMMA EndStep ==
  ASSUME IInv, NEW w \in Workers, CountSuccess(w) \/ CountFailure(w)
  PROVE  IInv'
<1>0. w \in InFlight /\ InFlight' = InFlight \ {w}
  BY DEF IInv, TypeOK, CountSuccess, CountFailure, Goto, InFlight
<1>1. Cardinality(InFlight') = Cardinality(InFlight) - 1
  BY <1>0, InFlightFinite, FS_RemoveElement
<1>2. /\ successRequests' \in Nat /\ failedRequests' \in Nat
      /\ successRequests <= successRequests' /\ failedRequests <= failedRequests'
      /\ successRequests' + failedRequests' = successRequests + failedRequests + 1
      /\ totalRequests' = totalRequests
  BY EndedWithinBegun DEF CountSuccess, CountFailure
<1>3. totalRequests' = successRequests' + failedRequests' + Cardinality(InFlight')
  BY <1>1, <1>2, EndedWithinBegun, InFlightFinite
<1>4. RequestsBalance'
  BY <1>3 DEF RequestsBalance, InFlight
<1>5. TypeOK'
  <2>1. Cardinality(InFlight') \in Nat
    BY <1>0, InFlightFinite, FS_RemoveElement, FS_CardinalityType
  <2>2. /\ successRequests' \in 0 .. MaxRequests
        /\ failedRequests' \in 0 .. MaxRequests
    BY <1>2, <1>3, <2>1, EndedWithinBegun, ClientAssumption
  <2> QED
    BY <1>2, <2>2 DEF IInv, TypeOK, CountSuccess, CountFailure, Goto, reading
<1>6. Placed'
  <2> SUFFICES ASSUME NEW r \in Readers
               PROVE  /\ finished[r] <= report[r].total /\ report[r].total <= totalRequests
                      /\ rpc[r] = "success" =>
                           finished[r] <= successRequests' + failedRequests'
                      /\ rpc[r] = "failed" =>
                           /\ finished[r] <= report[r].success + failedRequests'
                           /\ report[r].success <= successRequests'
                      /\ rpc[r] = "reported" =>
                           /\ finished[r] <= report[r].success + report[r].failed
                           /\ report[r].success <= successRequests'
                           /\ report[r].failed <= failedRequests'
    BY <1>2 DEF Placed, CountSuccess, CountFailure, reading
  <2>1. /\ finished[r] \in Nat /\ report[r].success \in Nat
        /\ report[r].failed \in Nat
    BY ClientAssumption DEF IInv, TypeOK
  <2> QED
    BY <1>2, <2>1, EndedWithinBegun DEF IInv, Placed
<1> QED
  BY <1>4, <1>5, <1>6 DEF IInv

----------------------------------------------------------------------------
(* A load changes nothing of the counters; what it copies is placed at the *)
(* counter's present value.                                                *)
LEMMA LoadStep ==
  ASSUME IInv, NEW r \in Readers, LoadTotal(r) \/ LoadSuccess(r) \/ LoadFailed(r)
  PROVE  IInv'
<1>0. UNCHANGED <<totalRequests, successRequests, failedRequests, pc>>
  BY DEF LoadTotal, LoadSuccess, LoadFailed, counters
<1>1. RequestsBalance'
  BY <1>0 DEF IInv, RequestsBalance
<1>2. successRequests + failedRequests \in 0 .. MaxRequests
  BY EndedWithinBegun, ClientAssumption, InFlightFinite
<1>3. /\ successRequests \in Nat /\ failedRequests \in Nat /\ totalRequests \in Nat
  BY ClientAssumption DEF IInv, TypeOK
<1>4. CASE LoadTotal(r)
  <2>1. TypeOK'
    BY <1>0, <1>2, <1>3, <1>4 DEF IInv, TypeOK, LoadTotal, NoReport
  <2>2. Placed'
    BY <1>0, <1>2, <1>3, <1>4, EndedWithinBegun DEF IInv, TypeOK, Placed, LoadTotal, NoReport
  <2> QED
    BY <1>1, <2>1, <2>2 DEF IInv
<1>5. CASE LoadSuccess(r)
  <2>1. TypeOK'
    BY <1>0, <1>3, <1>5 DEF IInv, TypeOK, LoadSuccess
  <2>2. Placed'
    BY <1>0, <1>3, <1>5 DEF IInv, TypeOK, Placed, LoadSuccess
  <2> QED
    BY <1>1, <2>1, <2>2 DEF IInv
<1>6. CASE LoadFailed(r)
  <2>1. TypeOK'
    BY <1>0, <1>3, <1>6 DEF IInv, TypeOK, LoadFailed
  <2>2. Placed'
    BY <1>0, <1>3, <1>6 DEF IInv, TypeOK, Placed, LoadFailed
  <2> QED
    BY <1>1, <2>1, <2>2 DEF IInv
<1> QED
  BY <1>4, <1>5, <1>6

LEMMA NextIInv == IInv /\ [Next]_vars => IInv'
<1> SUFFICES ASSUME IInv, [Next]_vars
             PROVE  IInv'
  OBVIOUS
<1>1. CASE UNCHANGED vars
  BY <1>1 DEF IInv, TypeOK, RequestsBalance, Placed, vars, counters
<1>2. ASSUME NEW w \in Workers,
             Do(w) \/ Exchange(w) \/ CountSuccess(w) \/ CountFailure(w)
      PROVE  IInv'
  BY <1>2, BeginStep, ExchangeStep, EndStep
<1>3. ASSUME NEW r \in Readers, LoadTotal(r) \/ LoadSuccess(r) \/ LoadFailed(r)
      PROVE  IInv'
  BY <1>3, LoadStep
<1> QED
  BY <1>1, <1>2, <1>3 DEF Next

LEMMA SpecIInv == Spec => []IInv
BY InitIInv, NextIInv, PTL DEF Spec

(* However the calls of Do interleave, every request is in exactly one     *)
(* place: in flight, or counted once as a success or as a failure.         *)
THEOREM EveryRequestIsCounted == Spec => []RequestsBalance
<1>1. IInv => RequestsBalance
  BY DEF IInv
<1> QED
  BY SpecIInv, <1>1, PTL

(* A report of GetMetrics, loaded word by word while requests end, lies    *)
(* between what had been counted when it began and what has been made.     *)
THEOREM ReportsAreBracketed == Spec => []ReportIsBracketed
<1>1. ASSUME IInv
      PROVE  ReportIsBracketed
  <2> SUFFICES ASSUME NEW r \in Readers, rpc[r] = "reported"
               PROVE  /\ finished[r] <= report[r].total /\ report[r].total <= totalRequests
                      /\ finished[r] <= report[r].success + report[r].failed
                      /\ report[r].success + report[r].failed <= totalRequests
    BY DEF ReportIsBracketed
  <2>1. /\ finished[r] <= report[r].total /\ report[r].total <= totalRequests
        /\ finished[r] <= report[r].success + report[r].failed
        /\ report[r].success <= successRequests
        /\ report[r].failed <= failedRequests
    BY <1>1 DEF IInv, Placed
  <2>2. report[r].success \in Nat /\ report[r].failed \in Nat
    BY <1>1 DEF IInv, TypeOK
  <2>3. /\ successRequests \in Nat /\ failedRequests \in Nat
        /\ successRequests + failedRequests <= totalRequests
    BY <1>1, EndedWithinBegun
  <2>4. totalRequests \in Nat
    BY <1>1, ClientAssumption DEF IInv, TypeOK
  <2> QED
    BY <2>1, <2>2, <2>3, <2>4
<1> QED
  BY SpecIInv, <1>1, PTL
============================================================================
