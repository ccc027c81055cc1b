------------------------------ MODULE Selector ------------------------------
(***************************************************************************)
(* RoundRobinSelector.Select (internal/selector/selector.go) with the      *)
(* concurrency semaphore of connection.ProxyClient, called by several      *)
(* workers at once.  There is no lock: the index is an atomic counter, the *)
(* semaphore a buffered channel, and the circuit breaker and the rate      *)
(* limiter of a proxy may change between any two checks.                   *)
(*                                                                         *)
(* The breaker is reduced to the answer of IsHealthy, which the            *)
(* environment changes at will, and the limiter to a count of tokens that  *)
(* TryAcquire takes from and the environment refills (TokenBucket has its  *)
(* inside).  Proxies are the indices of s.clients.                         *)
(***************************************************************************)
EXTENDS Integers, FiniteSets

CONSTANTS
  Workers,        \* goroutines that call Select
  NumProxies,     \* len(s.clients)
  MaxRetriesArg,  \* Config.MaxRetries, 0 for the default
  MaxConcurrent,  \* capacity of a concurrency semaphore, 0 for none
  MaxTokens,      \* capacity of a rate limiter
  MaxSelections   \* bound of the model: calls of Select

ASSUME SelectorAssumption ==
  /\ IsFiniteSet(Workers)
  /\ NumProxies \in Nat \ {0}
  /\ MaxRetriesArg \in Nat
  /\ MaxConcurrent \in Nat
  /\ MaxTokens \in Nat
  /\ MaxSelections \in Nat

Proxies == 0 .. NumProxies - 1

(* NewRoundRobinSelector; the mutant leaves out a proxy. *)
RetriesShort == IF MaxRetriesArg = 0 THEN NumProxies - 1 ELSE MaxRetriesArg  \* mutant

MaxRetries == IF MaxRetriesArg = 0 THEN NumProxies ELSE MaxRetriesArg

VARIABLES
  healthy,       \* healthy[p]: what IsHealthy() of p's breaker returns
  tokens,        \* tokens[p]: tokens in p's rate limiter
  slots,         \* slots[p]: len(concurrencySem) of p
  currentIndex, totalSelections, successSelections, failedSelections,
  pc,            \* pc[w]: the next step of worker w
  ctxDone,       \* ctxDone[w]: the context of w's call is cancelled
  startIdx, i,   \* locals of Select
  spent,         \* history: spent[w], tokens w's call has taken
  tried,         \* history: tried[w], proxies w's call has refused
  starts         \* history: starts[p], calls whose rotation began at p

env      == <<healthy, tokens>>
counters == <<currentIndex, totalSelections, successSelections, failedSelections>>
call     == <<startIdx, i, spent, tried>>
vars     == <<healthy, tokens, slots, counters, pc, ctxDone, call, starts>>

Labels == {"idle", "loop", "health", "slot", "token", "undo", "using", "busy", "cancelled"}

(* The proxy that worker w is looking at, or has been given. *)
Client(w) == (startIdx[w] + i[w]) % NumProxies

(* Workers that hold a slot of p. *)
Holders(p) == {w \in Workers : pc[w] \in {"token", "undo", "using"} /\ Client(w) = p}

TypeOK ==
  /\ healthy \in [Proxies -> BOOLEAN]
  /\ tokens \in [Proxies -> 0 .. MaxTokens]
  /\ slots \in [Proxies -> Nat]
  /\ currentIndex \in 0 .. MaxSelections
  /\ totalSelections \in Nat
  /\ successSelections \in Nat
  /\ failedSelections \in Nat
  /\ pc \in [Workers -> Labels]
  /\ ctxDone \in [Workers -> BOOLEAN]
  /\ startIdx \in [Workers -> Proxies]
  /\ i \in [Workers -> 0 .. MaxRetries]
  /\ spent \in [Workers -> Nat]
  /\ tried \in [Workers -> SUBSET Proxies]
  /\ starts \in [Proxies -> Nat]

Init ==
  /\ healthy = [p \in Proxies |-> TRUE]
  /\ tokens = [p \in Proxies |-> MaxTokens]
  /\ slots = [p \in Proxies |-> 0]
  /\ currentIndex = 0
  /\ totalSelections = 0
  /\ successSelections = 0
  /\ failedSelections = 0
  /\ pc = [w \in Workers |-> "idle"]
  /\ ctxDone = [w \in Workers |-> FALSE]
  /\ startIdx = [w \in Workers |-> 0]
  /\ i = [w \in Workers |-> 0]
  /\ spent = [w \in Workers |-> 0]
  /\ tried = [w \in Workers |-> {}]
  /\ starts = [p \in Proxies |-> 0]

Goto(w, label) == pc' = [pc EXCEPT ![w] = label]

----------------------------------------------------------------------------
(* The concurrency semaphore of ProxyClient *)

RoomForOneMore(p) == MaxConcurrent = 0 \/ slots[p] <= MaxConcurrent  \* mutant

HasSlot(p) == MaxConcurrent = 0 \/ slots[p] < MaxConcurrent

TryAcquireConcurrency(p) ==
  IF MaxConcurrent = 0 THEN UNCHANGED slots
  ELSE slots' = [slots EXCEPT ![p] = @ + 1]

(* The receive from the channel blocks while it is empty. *)
ReleaseConcurrency(p) ==
  IF MaxConcurrent = 0 THEN UNCHANGED slots
  ELSE slots[p] > 0 /\ slots' = [slots EXCEPT ![p] = @ - 1]

----------------------------------------------------------------------------
(* Select *)

(* Mutant: the index advances by the whole rotation. *)
StartAlike(w) ==
  /\ pc[w] = "idle"
  /\ currentIndex + NumProxies <= MaxSelections
  /\ totalSelections' = totalSelections + 1
  /\ currentIndex' = currentIndex + NumProxies
  /\ startIdx' = [startIdx EXCEPT ![w] = currentIndex' % NumProxies]
  /\ i' = [i EXCEPT ![w] = 0]
  /\ spent' = [spent EXCEPT ![w] = 0]
  /\ tried' = [tried EXCEPT ![w] = {}]
  /\ starts' = [starts EXCEPT ![currentIndex' % NumProxies] = @ + 1]
  /\ Goto(w, "loop")
  /\ UNCHANGED <<env, slots, successSelections, failedSelections, ctxDone>>

(* The job that comes with the call may have been cancelled in the queue.  *)
Start(w) ==
  /\ pc[w] = "idle"
  /\ currentIndex < MaxSelections
  /\ totalSelections' = totalSelections + 1
  /\ currentIndex' = currentIndex + 1
  /\ startIdx' = [startIdx EXCEPT ![w] = currentIndex' % NumProxies]
  /\ i' = [i EXCEPT ![w] = 0]
  /\ \E done \in BOOLEAN : ctxDone' = [ctxDone EXCEPT ![w] = done]
  /\ spent' = [spent EXCEPT ![w] = 0]
  /\ tried' = [tried EXCEPT ![w] = {}]
  /\ starts' = [starts EXCEPT ![currentIndex' % NumProxies] = @ + 1]
  /\ Goto(w, "loop")
  /\ UNCHANGED <<env, slots, successSelections, failedSelections>>

MoreToTry(w) == i[w] < MaxRetries
CtxErr(w)    == ctxDone[w]
CountFailed  == failedSelections' = failedSelections + 1

(* Head of the loop, with the check of the context. *)
CheckContext(w) ==
  /\ pc[w] = "loop"
  /\ \/ /\ MoreToTry(w) /\ ~ CtxErr(w)
        /\ Goto(w, "health")
        /\ UNCHANGED failedSelections
     \/ /\ MoreToTry(w) /\ CtxErr(w)
        /\ CountFailed
        /\ Goto(w, "cancelled")
     \/ /\ ~ MoreToTry(w)
        /\ CountFailed
        /\ Goto(w, "busy")
  /\ UNCHANGED <<env, slots, currentIndex, totalSelections, successSelections,
                 ctxDone, call, starts>>

(* Mutant: continue without the loop's increment. *)
SkipInPlace(w) == Goto(w, "loop") /\ UNCHANGED <<i, tried>>

(* continue: on to the next proxy of the rotation. *)
Skip(w) ==
  /\ i' = [i EXCEPT ![w] = @ + 1]
  /\ tried' = [tried EXCEPT ![w] = @ \union {Client(w)}]
  /\ Goto(w, "loop")

(* Mutant: a token is taken before the semaphore is tried, too. *)
TokenFirst(w) ==
  /\ pc[w] = "health"
  /\ healthy[Client(w)] /\ tokens[Client(w)] > 0
  /\ tokens' = [tokens EXCEPT ![Client(w)] = @ - 1]
  /\ spent' = [spent EXCEPT ![w] = @ + 1]
  /\ Goto(w, "slot")
  /\ UNCHANGED <<healthy, slots, counters, ctxDone, startIdx, i, tried, starts>>

CheckHealth(w) ==
  /\ pc[w] = "health"
  /\ \/ /\ healthy[Client(w)]
        /\ Goto(w, "slot")
        /\ UNCHANGED <<i, tried>>
     \/ /\ ~ healthy[Client(w)]
        /\ Skip(w)
  /\ UNCHANGED <<env, slots, counters, ctxDone, startIdx, spent, starts>>

TrySlot(w) ==
  /\ pc[w] = "slot"
  /\ \/ /\ HasSlot(Client(w))
        /\ TryAcquireConcurrency(Client(w))
        /\ Goto(w, "token")
        /\ UNCHANGED <<i, tried>>
     \/ /\ ~ HasSlot(Client(w))
        /\ Skip(w)
        /\ UNCHANGED slots
  /\ UNCHANGED <<env, counters, ctxDone, startIdx, spent, starts>>

TryToken(w) ==
  /\ pc[w] = "token"
  /\ \/ /\ tokens[Client(w)] > 0
        /\ tokens' = [tokens EXCEPT ![Client(w)] = @ - 1]
        /\ spent' = [spent EXCEPT ![w] = @ + 1]
        /\ successSelections' = successSelections + 1
        /\ Goto(w, "using")
     \/ /\ tokens[Client(w)] = 0
        /\ Goto(w, "undo")
        /\ UNCHANGED <<tokens, spent, successSelections>>
  /\ UNCHANGED <<healthy, slots, currentIndex, totalSelections, failedSelections,
                 ctxDone, startIdx, i, tried, starts>>

UndoSlot(w) ==
  /\ pc[w] = "undo"
  /\ ReleaseConcurrency(Client(w))
  /\ Skip(w)
  /\ UNCHANGED <<env, counters, ctxDone, startIdx, spent, starts>>

(* An error goes back to the caller. *)
ReturnError(w) ==
  /\ pc[w] \in {"busy", "cancelled"}
  /\ Goto(w, "idle")
  /\ UNCHANGED <<env, slots, counters, ctxDone, call, starts>>

(* Mutant: no deferred release. *)
KeepSlot(w) ==
  /\ pc[w] = "using"
  /\ Goto(w, "idle")
  /\ UNCHANGED <<env, slots, counters, ctxDone, call, starts>>

(* The caller is done with the proxy: the deferred ReleaseConcurrency.     *)
Finish(w) ==
  /\ pc[w] = "using"
  /\ ReleaseConcurrency(Client(w))
  /\ Goto(w, "idle")
  /\ UNCHANGED <<env, counters, ctxDone, call, starts>>

----------------------------------------------------------------------------
(* The environment *)

HealthChanges(p) ==
  /\ \E h \in BOOLEAN : healthy' = [healthy EXCEPT ![p] = h]
  /\ UNCHANGED <<tokens, slots, counters, pc, ctxDone, call, starts>>

Refill(p) ==
  /\ tokens[p] < MaxTokens
  /\ tokens' = [tokens EXCEPT ![p] = @ + 1]
  /\ UNCHANGED <<healthy, slots, counters, pc, ctxDone, call, starts>>

Cancel(w) ==
  /\ pc[w] # "idle" /\ ~ ctxDone[w]
  /\ ctxDone' = [ctxDone EXCEPT ![w] = TRUE]
  /\ UNCHANGED <<env, slots, counters, pc, call, starts>>

(* What a worker does once it is in a call. *)
Proceed(w) ==
  \/ CheckContext(w)
  \/ CheckHealth(w)
  \/ TrySlot(w)
  \/ TryToken(w)
  \/ UndoSlot(w)
  \/ ReturnError(w)
  \/ Finish(w)

Next ==
  \/ \E w \in Workers : Start(w) \/ Proceed(w) \/ Cancel(w)
  \/ \E p \in Proxies : HealthChanges(p) \/ Refill(p)

Spec == Init /\ [][Next]_vars

(* A worker keeps running, and a request ends: http.Client has a timeout.  *)
FairSpec == Spec /\ \A w \in Workers : WF_vars(Proceed(w))

----------------------------------------------------------------------------
(* The length of a semaphore is the number of workers that hold a slot of  *)
(* the proxy, through every refusal, undo and release: no slot leaks and   *)
(* none is released twice, so that the receive in ReleaseConcurrency never *)
(* blocks a worker.                                                        *)
SlotsAreHeld ==
  MaxConcurrent > 0 => \A p \in Proxies : slots[p] = Cardinality(Holders(p))

(* What makes SlotsAreHeld inductive: a proxy is looked at only within the *)
(* rotation, and a semaphore never holds more than its capacity.           *)
WithinRotation ==
  \A w \in Workers :
    pc[w] \in {"health", "slot", "token", "undo"} => i[w] < MaxRetries

SlotsWithinCapacity == MaxConcurrent > 0 => \A p \in Proxies : slots[p] <= MaxConcurrent

IInv == TypeOK /\ WithinRotation /\ SlotsWithinCapacity /\ SlotsAreHeld

(* MaxConcurrentPerProxy: never more requests in flight through a proxy.   *)
ConcurrencyCap ==
  MaxConcurrent > 0 =>
    \A p \in Proxies :
      Cardinality({w \in Workers : pc[w] = "using" /\ Client(w) = p}) <= MaxConcurrent

(* A call takes one token when it returns a proxy and none when it fails:  *)
(* a refusal by the semaphore never costs a token.                         *)
NoTokenWasted ==
  \A w \in Workers :
    /\ pc[w] \in {"busy", "cancelled"} => spent[w] = 0
    /\ pc[w] = "using" => spent[w] = 1

(* ErrAllProxiesBusy is returned only after every proxy has refused, from  *)
(* wherever in the rotation the call began.                                *)
FullRotation == \A w \in Workers : pc[w] = "busy" => tried[w] = Proxies

(* Concurrent calls do not start at the same place: the rotations begin    *)
(* equally often at every proxy, give or take one.                         *)
EvenRotation == \A p, q \in Proxies : starts[p] <= starts[q] + 1

(* Select returns, whatever other workers and the environment do: it does  *)
(* not wait for a proxy.                                                   *)
SelectReturns ==
  \A w \in Workers : pc[w] = "loop" ~> pc[w] \in {"using", "busy", "cancelled"}
============================================================================
