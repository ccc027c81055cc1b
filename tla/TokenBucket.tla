---------------------------- MODULE TokenBucket ----------------------------
(***************************************************************************)
(* The lock-free token bucket of internal/ratelimit/token_bucket.go.       *)
(*                                                                         *)
(* A bucket is shared by N goroutines with nothing but two atomic words:   *)
(* tokens and lastRefill.  Every atomic load, store or compare-and-swap of *)
(* the code is one action here, so that TLC explores each way in which two *)
(* calls of TryAcquire (the body of the loop in Acquire) and Available can *)
(* interleave.  Between its actions a goroutine keeps what it has read in  *)
(* the local variables now, last, fresh (newTokens) and cur (current).     *)
(*                                                                         *)
(* Times are integers counted in an arbitrary unit, NanosPerSec of which   *)
(* make a second.  maybeRefill reads time.Now().UnixNano(), which is the   *)
(* wall clock: it may also be set back.                                    *)
(***************************************************************************)
EXTENDS Sums

CONSTANTS
  N,            \* number of goroutines sharing the bucket
  CapacityArg,  \* the arguments of NewTokenBucket
  RefillRateArg,
  NanosPerSec,  \* time units in a second
  MaxInt64,     \* largest value of the int64 type
  StartTime,    \* the clock when the bucket is created
  MaxTime       \* bound of the model: the clock stays in 0 .. MaxTime

ASSUME BucketAssumption ==
  /\ N \in Nat
  /\ CapacityArg \in Int
  /\ RefillRateArg \in Int
  /\ NanosPerSec \in Nat \ {0}
  /\ MaxInt64 \in Nat
  /\ MaxTime \in Nat
  /\ StartTime \in 0 .. MaxTime

Threads == 1 .. N

(* NewTokenBucket replaces arguments that are not positive. *)
Capacity   == IF CapacityArg <= 0 THEN 10 ELSE CapacityArg
RefillRate == IF RefillRateArg <= 0 THEN Capacity ELSE RefillRateArg

(* An int64 product wraps around at MaxInt64. *)
Int64(x) ==
  LET range == 2 * (MaxInt64 + 1)
  IN  IF x <= MaxInt64 THEN x
      ELSE ((x + MaxInt64 + 1) % range) - (MaxInt64 + 1)

(* newTokens := (elapsed * tb.refillRate) / nanosPerSec.  The quotient is  *)
(* used only when it is positive, so that the rounding of a negative one,  *)
(* where Go and \div differ, does not matter.                              *)
NewTokens(elapsed) == Int64(elapsed * RefillRate) \div NanosPerSec

VARIABLES
  clock,       \* time.Now().UnixNano()
  tokens,      \* tb.tokens
  lastRefill,  \* tb.lastRefill
  pc,          \* pc[t]: the next atomic operation of goroutine t
  now, last, fresh, cur,  \* locals of a call in progress, 0 outside a call
  granted,     \* history: number of tokens handed out
  latest       \* history: the highest value the clock has shown

locals == <<now, last, fresh, cur>>
shared == <<tokens, lastRefill>>
vars   == <<clock, tokens, lastRefill, pc, now, last, fresh, cur, granted, latest>>

Labels == {"idle", "loadLast", "casLast", "loadAdd", "casAdd", "load", "cas"}

TypeOK ==
  /\ clock \in 0 .. MaxTime
  /\ latest \in 0 .. MaxTime
  /\ tokens \in 0 .. Capacity
  /\ lastRefill \in 0 .. MaxTime
  /\ pc \in [Threads -> Labels]
  /\ now \in [Threads -> 0 .. MaxTime]
  /\ last \in [Threads -> 0 .. MaxTime]
  /\ fresh \in [Threads -> Nat]
  /\ cur \in [Threads -> 0 .. Capacity]
  /\ granted \in Nat

Init ==
  /\ clock = StartTime
  /\ latest = StartTime
  /\ tokens = Capacity
  /\ lastRefill = StartTime
  /\ pc = [t \in Threads |-> "idle"]
  /\ now = [t \in Threads |-> 0]
  /\ last = [t \in Threads |-> 0]
  /\ fresh = [t \in Threads |-> 0]
  /\ cur = [t \in Threads |-> 0]
  /\ granted = 0

Goto(t, label) == pc' = [pc EXCEPT ![t] = label]

(* A call returns: its locals go out of scope. *)
Return(t) ==
  /\ Goto(t, "idle")
  /\ now' = [now EXCEPT ![t] = 0]
  /\ last' = [last EXCEPT ![t] = 0]
  /\ fresh' = [fresh EXCEPT ![t] = 0]
  /\ cur' = [cur EXCEPT ![t] = 0]

----------------------------------------------------------------------------
(* maybeRefill *)

ReadClock(t) ==
  /\ pc[t] = "idle"
  /\ now' = [now EXCEPT ![t] = clock]
  /\ Goto(t, "loadLast")
  /\ UNCHANGED <<clock, shared, last, fresh, cur, granted, latest>>

(* Mutant: a refill of no token moves lastRefill on all the same. *)
RefillOfNothing(t) ==
  /\ pc[t] = "loadLast"
  /\ last' = [last EXCEPT ![t] = lastRefill]
  /\ fresh' = [fresh EXCEPT ![t] = NewTokens(now[t] - lastRefill)]
  /\ Goto(t, IF now[t] > lastRefill THEN "casLast" ELSE "load")
  /\ UNCHANGED <<clock, shared, now, cur, granted, latest>>

LoadLastRefill(t) ==
  /\ pc[t] = "loadLast"
  /\ LET elapsed == now[t] - lastRefill
     IN  \/ /\ elapsed <= 0 \/ NewTokens(elapsed) <= 0
            /\ Goto(t, "load")
            /\ UNCHANGED <<last, fresh>>
         \/ /\ elapsed > 0 /\ NewTokens(elapsed) > 0
            /\ last' = [last EXCEPT ![t] = lastRefill]
            /\ fresh' = [fresh EXCEPT ![t] = NewTokens(elapsed)]
            /\ Goto(t, "casLast")
  /\ UNCHANGED <<clock, shared, now, cur, granted, latest>>

(* Mutant: a store in place of the compare-and-swap. *)
StoreLastRefill(t) ==
  /\ pc[t] = "casLast"
  /\ lastRefill' = now[t]
  /\ Goto(t, "loadAdd")
  /\ UNCHANGED <<clock, tokens, locals, granted, latest>>

CasLastRefill(t) ==
  /\ pc[t] = "casLast"
  /\ \/ /\ lastRefill = last[t]
        /\ lastRefill' = now[t]
        /\ Goto(t, "loadAdd")
     \/ /\ lastRefill # last[t]      \* another goroutine handles the refill
        /\ UNCHANGED lastRefill
        /\ Goto(t, "load")
  /\ UNCHANGED <<clock, tokens, locals, granted, latest>>

LoadForAdd(t) ==
  /\ pc[t] = "loadAdd"
  /\ cur' = [cur EXCEPT ![t] = tokens]
  /\ Goto(t, "casAdd")
  /\ UNCHANGED <<clock, shared, now, last, fresh, granted, latest>>

(* Mutant: the bucket overflows. *)
Uncapped(count) == count

Capped(count) == IF count > Capacity THEN Capacity ELSE count

CasAdd(t) ==
  /\ pc[t] = "casAdd"
  /\ \/ /\ tokens = cur[t]
        /\ tokens' = Capped(cur[t] + fresh[t])
        /\ Goto(t, "load")
     \/ /\ tokens # cur[t]
        /\ UNCHANGED tokens
        /\ Goto(t, "loadAdd")
  /\ UNCHANGED <<clock, lastRefill, locals, granted, latest>>

----------------------------------------------------------------------------
(* The rest of TryAcquire, and of Available *)

LoadTokens(t) ==
  /\ pc[t] = "load"
  /\ \/ /\ tokens <= 0               \* return false
        /\ Return(t)
     \/ /\ tokens > 0
        /\ cur' = [cur EXCEPT ![t] = tokens]
        /\ Goto(t, "cas")
        /\ UNCHANGED <<now, last, fresh>>
  /\ UNCHANGED <<clock, shared, granted, latest>>

(* Mutant: a store in place of the compare-and-swap. *)
StoreTokens(t) ==
  /\ pc[t] = "cas"
  /\ tokens' = cur[t] - 1
  /\ granted' = granted + 1
  /\ Return(t)
  /\ UNCHANGED <<clock, lastRefill, latest>>

(* Mutant: the retry goes on with the old count. *)
RetryStale(t) ==
  /\ pc[t] = "cas"
  /\ \/ /\ tokens = cur[t]
        /\ tokens' = cur[t] - 1
        /\ granted' = granted + 1
        /\ Return(t)
     \/ /\ tokens # cur[t]
        /\ UNCHANGED <<tokens, granted, pc, locals>>
  /\ UNCHANGED <<clock, lastRefill, latest>>

CasTokens(t) ==
  /\ pc[t] = "cas"
  /\ \/ /\ tokens = cur[t]           \* return true
        /\ tokens' = cur[t] - 1
        /\ granted' = granted + 1
        /\ Return(t)
     \/ /\ tokens # cur[t]
        /\ Goto(t, "load")
        /\ UNCHANGED <<tokens, granted, locals>>
  /\ UNCHANGED <<clock, lastRefill, latest>>

(* Available loads the count after the refill and returns it. *)
ReturnAvailable(t) ==
  /\ pc[t] = "load"
  /\ Return(t)
  /\ UNCHANGED <<clock, shared, granted, latest>>

----------------------------------------------------------------------------
(* Time passes, and the wall clock may be stepped back. *)
Tick ==
  /\ clock < MaxTime
  /\ clock' = clock + 1
  /\ latest' = IF clock' > latest THEN clock' ELSE latest
  /\ UNCHANGED <<shared, pc, locals, granted>>

ClockStepsBack ==
  /\ clock' \in {c \in 0 .. MaxTime : c < clock}
  /\ UNCHANGED <<shared, pc, locals, granted, latest>>

Step(t) ==
  \/ ReadClock(t)
  \/ LoadLastRefill(t)
  \/ CasLastRefill(t)
  \/ LoadForAdd(t)
  \/ CasAdd(t)
  \/ LoadTokens(t)
  \/ CasTokens(t)
  \/ ReturnAvailable(t)

Next ==
  \/ \E t \in Threads : Step(t)
  \/ Tick
  \/ ClockStepsBack

Spec == Init /\ [][Next]_vars

(* A goroutine inside a call keeps running; nothing obliges it to call. *)
InCall(t) == pc[t] # "idle" /\ Step(t)
FairSpec == Spec /\ \A t \in Threads : WF_vars(InCall(t))

----------------------------------------------------------------------------
(* The tokens handed out never exceed a full bucket plus what the refill   *)
(* rate yields over the time that has passed, however refills, takes and   *)
(* failed compare-and-swaps interleave, and although the clock may go back *)
(* or the product in maybeRefill overflow: the limit a proxy owner relies  *)
(* on.                                                                     *)
RateBound ==
  granted * NanosPerSec
    <= Capacity * NanosPerSec + RefillRate * (latest - StartTime)

(* Whenever maybeRefill moves lastRefill on, it credits more than half of  *)
(* what the elapsed time is worth: the fraction of a token that the        *)
(* division drops is bounded, so that polling an empty bucket often does   *)
(* not starve it of refills.                                               *)
RefillCreditsHalf ==
  [][ \A t \in Threads :
        (pc[t] = "casLast" /\ lastRefill' # lastRefill /\ pc'[t] # pc[t])
          => 2 * fresh[t] * NanosPerSec > RefillRate * (lastRefill' - lastRefill)
    ]_vars

(* The instant up to which refill has been credited never goes back, even  *)
(* when the wall clock does: no interval is credited twice.                *)
LastRefillMonotone == [][lastRefill' >= lastRefill]_vars

(* Lock freedom: a goroutine whose call does not return is overtaken again *)
(* and again by others that change the count.  A retry loop that went on   *)
(* with a stale value would spin for ever instead.                         *)
LockFree ==
  \A t \in Threads :
    []<>(pc[t] = "idle") \/ []<><<tokens' # tokens>>_vars

----------------------------------------------------------------------------
(* Why RateBound holds.  A refill is in two steps: the goroutine that wins *)
(* the compare-and-swap of lastRefill owns the tokens of the interval it   *)
(* has closed until it has added them to the count.                        *)
Pending == [t \in Threads |-> IF pc[t] \in {"loadAdd", "casAdd"} THEN fresh[t] ELSE 0]

TimesOrdered ==
  /\ clock <= latest
  /\ StartTime <= lastRefill
  /\ lastRefill <= latest
  /\ \A t \in Threads : now[t] <= latest

(* A goroutine about to close an interval credits no more than its worth.  *)
FreshIsEarned ==
  \A t \in Threads :
    pc[t] = "casLast" =>
      /\ last[t] < now[t]
      /\ fresh[t] * NanosPerSec <= RefillRate * (now[t] - last[t])

(* A token is taken only from a count that was seen to be positive. *)
TakesSeenToken == \A t \in Threads : pc[t] = "cas" => cur[t] > 0

(* Tokens handed out, in the bucket and on their way into it are covered   *)
(* by the first fill and the intervals closed so far.                      *)
Accounting ==
  (granted + tokens + SumUpTo(Pending, N)) * NanosPerSec
    <= Capacity * NanosPerSec + RefillRate * (lastRefill - StartTime)

(* The inductive invariant behind RateBound: no closed interval is paid    *)
(* out twice, whoever wins, loses or repeats a compare-and-swap.           *)
IInv == TypeOK /\ TimesOrdered /\ FreshIsEarned /\ TakesSeenToken /\ Accounting
============================================================================
