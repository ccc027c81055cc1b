--------------------------- MODULE CircuitBreaker ---------------------------
(***************************************************************************)
(* The circuit breaker of a proxy, internal/health/circuit_breaker.go.     *)
(*                                                                         *)
(* Goroutines record successes and failures and ask IsHealthy at once.     *)
(* The breaker has no lock of its own: its state and the time of the last  *)
(* change are atomic words, its two windows lock themselves one call at a  *)
(* time.  Each such access is a step, and so is each reading of the clock  *)
(* whose value is used later.  The windows are reduced to their counts     *)
(* (SlidingWindow has their inside).  The thresholds are the fractions     *)
(* FailNum/Den and DegNum/Den, and a rate is compared as a fraction, too.  *)
(* The clock goes forward only; the code takes wall time here, so that a   *)
(* clock that is set back while a proxy is dead makes it wait longer.      *)
(***************************************************************************)
EXTENDS Integers, FiniteSets

CONSTANTS
  Recorders,        \* goroutines that call RecordSuccess and RecordFailure
  Checkers,         \* goroutines that call IsHealthy
  FailNum, DegNum, Den,
  MinRequests,
  RecoveryTimeout,
  MaxRequests,      \* bound of the model: requests in the window
  MaxTime,          \* bound of the model: the clock
  Expires           \* bound of the model: whether events are old enough to expire

ASSUME BreakerAssumption ==
  /\ IsFiniteSet(Recorders) /\ Recorders \intersect Checkers = {}
  /\ DegNum \in Nat \ {0} /\ FailNum \in Nat /\ Den \in Nat \ {0}
  /\ DegNum < FailNum /\ FailNum <= Den      \* Config.Validate
  /\ MinRequests \in Int /\ RecoveryTimeout \in Int   \* Validate looks at neither
  /\ MaxRequests \in Nat /\ MaxTime \in Nat /\ Expires \in BOOLEAN

States == {"healthy", "degraded", "dead"}

VARIABLES
  clock,
  state, lastStateChange,
  now,        \* now[t]: the reading of the clock that recorder t is about to store
  requests, failures,       \* the counts of the two windows
  pc,
  purpose,    \* purpose[t]: the check that a recorder's rate is computed for
  counted,    \* counted[t]: the requests counted by GetErrorRate
  target,     \* target[t]: the state t is about to enter
  admitted,   \* admitted[t]: the last answer of IsHealthy to checker t
  since,      \* since[t]: the lastChange of checker t
  seen,       \* history: the change that checker t has found the breaker dead after
  entered,    \* history: the time of the last change of state, or, when changes
              \* overlapped, of the first of them
  disturbed   \* history: since the windows were last empty with no call in progress
              \* an event has left them, or a call was in progress when they were reset

windows == <<requests, failures>>
locals  == <<purpose, counted, target>>
stamps  == <<lastStateChange, now>>
checks  == <<admitted, since, seen>>
history == <<entered, disturbed>>
vars    == <<clock, state, stamps, windows, pc, locals, checks, history>>

RecorderLabels ==
  {"idle", "failure", "enough", "state", "total", "failed", "recent", "swap", "stamp",
   "store", "resetRequests", "resetFailures"}

CheckerLabels == {"idle", "load", "since"}

TypeOK ==
  /\ clock \in 0 .. MaxTime
  /\ state \in States
  /\ lastStateChange \in 0 .. MaxTime
  /\ requests \in 0 .. MaxRequests /\ failures \in 0 .. MaxRequests
  /\ now \in [Recorders -> 0 .. MaxTime]
  /\ pc \in [Recorders \union Checkers -> RecorderLabels \union CheckerLabels]
  /\ \A t \in Recorders : pc[t] \in RecorderLabels
  /\ \A t \in Checkers : pc[t] \in CheckerLabels
  /\ purpose \in [Recorders -> {"none", "trip", "degrade", "recover"}]
  /\ counted \in [Recorders -> 0 .. MaxRequests]
  /\ target \in [Recorders -> States]
  /\ admitted \in [Checkers -> BOOLEAN]
  /\ since \in [Checkers -> 0 .. MaxTime] /\ seen \in [Checkers -> 0 .. MaxTime]
  /\ entered \in 0 .. MaxTime
  /\ disturbed \in BOOLEAN

Init ==
  /\ clock = 0
  /\ state = "healthy" /\ lastStateChange = 0
  /\ now = [t \in Recorders |-> 0]
  /\ requests = 0 /\ failures = 0
  /\ pc = [t \in Recorders \union Checkers |-> "idle"]
  /\ purpose = [t \in Recorders |-> "none"]
  /\ counted = [t \in Recorders |-> 0]
  /\ target = [t \in Recorders |-> "healthy"]
  /\ admitted = [t \in Checkers |-> TRUE]
  /\ since = [t \in Checkers |-> 0] /\ seen = [t \in Checkers |-> 0]
  /\ entered = 0
  /\ disturbed = FALSE

Goto(t, label) == pc' = [pc EXCEPT ![t] = label]

(* The call is over. *)
Return(t) ==
  /\ Goto(t, "idle")
  /\ purpose' = [purpose EXCEPT ![t] = "none"]
  /\ counted' = [counted EXCEPT ![t] = 0]
  /\ target' = [target EXCEPT ![t] = "healthy"]

(* shouldTrip begins with the count, the other two with the state. *)
Check(t, what) ==
  /\ purpose' = [purpose EXCEPT ![t] = what]
  /\ counted' = [counted EXCEPT ![t] = 0]
  /\ Goto(t, IF what = "trip" THEN "enough" ELSE "state")
  /\ UNCHANGED target

Enter(t, new) ==
  /\ target' = [target EXCEPT ![t] = new]
  /\ Goto(t, "swap")
  /\ UNCHANGED <<purpose, counted>>

----------------------------------------------------------------------------
(* The error rate f / r; 0 when r is 0. *)
AtLeast(f, r, num) == IF r = 0 THEN num = 0 ELSE f * Den >= num * r
Above(f, r, num)   == r # 0 /\ f * Den > num * r

(* What follows from the error rate f / r in the check that asked for it.  *)
Conclude(t, f, r) ==
  \/ /\ purpose[t] = "trip"
     /\ IF AtLeast(f, r, FailNum) THEN Enter(t, "dead") ELSE Check(t, "degrade")
  \/ /\ purpose[t] = "degrade"
     /\ IF AtLeast(f, r, DegNum) /\ ~ AtLeast(f, r, FailNum) THEN Enter(t, "degraded")
        ELSE Return(t)
  \/ /\ purpose[t] = "recover"
     /\ IF Above(f, r, DegNum) THEN Return(t)
        ELSE Goto(t, "recent") /\ UNCHANGED locals

----------------------------------------------------------------------------
(* RecordSuccess and RecordFailure *)

RecordSuccess(t) ==
  /\ pc[t] = "idle"
  /\ requests < MaxRequests
  /\ requests' = requests + 1
  /\ Check(t, "recover")
  /\ UNCHANGED <<clock, state, stamps, failures, checks, history>>

RecordFailure(t) ==
  /\ pc[t] = "idle"
  /\ requests < MaxRequests
  /\ requests' = requests + 1
  /\ Goto(t, "failure")
  /\ UNCHANGED <<clock, state, stamps, failures, locals, checks, history>>

CountFailure(t) ==
  /\ pc[t] = "failure"
  /\ failures < MaxRequests
  /\ failures' = failures + 1
  /\ Check(t, "trip")
  /\ UNCHANGED <<clock, state, stamps, requests, checks, history>>

(* shouldDegrade acts on a healthy breaker only, shouldRecover on another. *)
LoadState(t) ==
  /\ pc[t] = "state"
  /\ \/ /\ purpose[t] = "degrade" /\ state = "healthy"
        /\ Goto(t, "enough") /\ UNCHANGED locals
     \/ /\ purpose[t] = "recover" /\ state # "healthy"
        /\ Goto(t, "total") /\ UNCHANGED locals
     \/ /\ (purpose[t] = "degrade") # (state = "healthy")
        /\ Return(t)
  /\ UNCHANGED <<clock, state, stamps, windows, checks, history>>

(* Mutant: one request more is needed. *)
MoreThanEnough(t) ==
  /\ pc[t] = "enough"
  /\ \/ requests > MinRequests /\ Goto(t, "total") /\ UNCHANGED locals
     \/ requests <= MinRequests /\ Return(t)
  /\ UNCHANGED <<clock, state, stamps, windows, checks, history>>

(* totalRequests < cb.minRequests: too few to trip, or to degrade. *)
EnoughRequests(t) ==
  /\ pc[t] = "enough"
  /\ \/ /\ requests >= MinRequests
        /\ Goto(t, "total") /\ UNCHANGED locals
     \/ /\ requests < MinRequests /\ purpose[t] = "trip"
        /\ Check(t, "degrade")
     \/ /\ requests < MinRequests /\ purpose[t] = "degrade"
        /\ Return(t)
  /\ UNCHANGED <<clock, state, stamps, windows, checks, history>>

(* GetErrorRate *)
CountRequests(t) ==
  /\ pc[t] = "total"
  /\ \/ requests = 0 /\ Conclude(t, 0, 0)
     \/ /\ requests > 0
        /\ counted' = [counted EXCEPT ![t] = requests]
        /\ Goto(t, "failed")
        /\ UNCHANGED <<purpose, target>>
  /\ UNCHANGED <<clock, state, stamps, windows, checks, history>>

CountFailures(t) ==
  /\ pc[t] = "failed"
  /\ Conclude(t, failures, counted[t])
  /\ UNCHANGED <<clock, state, stamps, windows, checks, history>>

(* The last test of shouldRecover. *)
RecentRequests(t) ==
  /\ pc[t] = "recent"
  /\ IF requests >= MinRequests \div 2 THEN Enter(t, "healthy") ELSE Return(t)
  /\ UNCHANGED <<clock, state, stamps, windows, checks, history>>

----------------------------------------------------------------------------
(* transitionTo *)

(* Between the swap of a state and the store of its time. *)
Pending(t) == pc[t] \in {"stamp", "store"}

Swap(t) ==
  /\ pc[t] = "swap"
  /\ state' = target[t]
  /\ \/ state # target[t] /\ Goto(t, "stamp") /\ UNCHANGED locals
     \/ state = target[t] /\ Return(t)
  /\ entered' = IF state # target[t] /\ \A u \in Recorders : ~ Pending(u)
                THEN clock ELSE entered
  /\ UNCHANGED <<clock, stamps, windows, checks, disturbed>>

(* time.Now comes before the Store that it is an argument of. *)
ReadTime(t) ==
  /\ pc[t] = "stamp"
  /\ now' = [now EXCEPT ![t] = clock]
  /\ Goto(t, "store")
  /\ UNCHANGED <<clock, state, lastStateChange, windows, locals, checks, history>>

(* Mutant: only recovery is stamped. *)
StampRecovery(t) ==
  /\ pc[t] = "store"
  /\ lastStateChange' = IF target[t] = "healthy" THEN now[t] ELSE lastStateChange
  /\ now' = [now EXCEPT ![t] = 0]
  /\ IF target[t] = "healthy" THEN Goto(t, "resetRequests") /\ UNCHANGED locals
     ELSE Return(t)
  /\ UNCHANGED <<clock, state, windows, checks, history>>

Stamp(t) ==
  /\ pc[t] = "store"
  /\ lastStateChange' = now[t]
  /\ now' = [now EXCEPT ![t] = 0]
  /\ IF target[t] = "healthy" THEN Goto(t, "resetRequests") /\ UNCHANGED locals
     ELSE Return(t)
  /\ UNCHANGED <<clock, state, windows, checks, history>>

ResetRequests(t) ==
  /\ pc[t] = "resetRequests"
  /\ requests' = 0
  /\ Goto(t, "resetFailures")
  /\ UNCHANGED <<clock, state, stamps, failures, locals, checks, history>>

ResetFailures(t) ==
  /\ pc[t] = "resetFailures"
  /\ failures' = 0
  /\ Return(t)
  /\ disturbed' = \E u \in Recorders \ {t} : pc[u] # "idle"
  /\ UNCHANGED <<clock, state, stamps, requests, checks, entered>>

----------------------------------------------------------------------------
(* IsHealthy *)

Stamping == \E t \in Recorders : Pending(t)

IsHealthy(t) ==
  /\ pc[t] = "idle"
  /\ \/ /\ state # "dead"
        /\ admitted' = [admitted EXCEPT ![t] = TRUE]
        /\ UNCHANGED <<pc, seen>>
     \/ /\ state = "dead"
        /\ Goto(t, "load")
        /\ seen' = [seen EXCEPT ![t] = IF Stamping THEN 0 ELSE entered]
        /\ UNCHANGED admitted
  /\ UNCHANGED <<clock, state, stamps, windows, locals, since, history>>

LoadLastChange(t) ==
  /\ pc[t] = "load"
  /\ since' = [since EXCEPT ![t] = lastStateChange]
  /\ Goto(t, "since")
  /\ UNCHANGED <<clock, state, stamps, windows, locals, admitted, seen, history>>

(* The answer of a check is time.Since(lastChange) > recoveryTimeout. *)
Answer(t, yes) ==
  /\ admitted' = [admitted EXCEPT ![t] = yes]
  /\ since' = [since EXCEPT ![t] = 0]
  /\ seen' = [seen EXCEPT ![t] = 0]
  /\ Goto(t, "idle")
  /\ UNCHANGED <<clock, state, stamps, windows, locals, history>>

(* Mutant: the retry comes one unit of time early. *)
AttemptEarly(t) == pc[t] = "since" /\ Answer(t, clock - since[t] >= RecoveryTimeout)

CanAttemptRecovery(t) == pc[t] = "since" /\ Answer(t, clock - since[t] > RecoveryTimeout)

----------------------------------------------------------------------------
Tick ==
  /\ clock < MaxTime
  /\ clock' = clock + 1
  /\ UNCHANGED <<state, stamps, windows, pc, locals, checks, history>>

(* The windows let go of their events apart: the bucket of a failure may   *)
(* be a later one than that of its request.                                *)
ExpireRequest ==
  /\ Expires /\ requests > 0
  /\ requests' = requests - 1
  /\ disturbed' = TRUE
  /\ UNCHANGED <<clock, state, stamps, failures, pc, locals, checks, entered>>

ExpireFailure ==
  /\ Expires /\ failures > 0
  /\ failures' = failures - 1
  /\ disturbed' = TRUE
  /\ UNCHANGED <<clock, state, stamps, requests, pc, locals, checks, entered>>

Record(t) ==
  \/ CountFailure(t)
  \/ LoadState(t)
  \/ EnoughRequests(t)
  \/ CountRequests(t)
  \/ CountFailures(t)
  \/ RecentRequests(t)
  \/ Swap(t)
  \/ ReadTime(t)
  \/ Stamp(t)
  \/ ResetRequests(t)
  \/ ResetFailures(t)

Next ==
  \/ \E t \in Recorders : RecordSuccess(t) \/ RecordFailure(t) \/ Record(t)
  \/ \E t \in Checkers : IsHealthy(t) \/ LoadLastChange(t) \/ CanAttemptRecovery(t)
  \/ Tick
  \/ ExpireRequest \/ ExpireFailure

Spec == Init /\ [][Next]_vars

----------------------------------------------------------------------------
(* A step that admits a request to a proxy seen dead. *)
Retries(t) == pc[t] = "since" /\ pc'[t] = "idle" /\ admitted'[t]

(* The state and the time of its last change are two words, written one    *)
(* after the other by any number of goroutines, and the time is read even  *)
(* before it is written.  Changes that overlap may leave behind the time   *)
(* of any of them; but once nobody is in between, it is not older than the *)
(* first of these, and so not older than a change that had no other next   *)
(* to it.                                                                  *)
ChangeIsStamped == ~ Stamping => lastStateChange >= entered

(* A checker that has found the proxy dead, and its death written down,    *)
(* admits a request only when RecoveryTimeout has passed since that death  *)
(* (since the first of the changes that overlapped with it), whoever else  *)
(* changes the state and the time before it has looked at the clock.       *)
DeadWaits ==
  [][\A t \in Checkers : Retries(t) => clock - seen[t] > RecoveryTimeout]_vars

(* Enough failures trip the breaker although other goroutines record,      *)
(* degrade and recover at the same time: when all calls have returned and  *)
(* the windows show enough failures, none of which was in progress when    *)
(* they were reset, and a rate above the threshold, the proxy is not       *)
(* healthy.                                                                *)
NoMissedTrip ==
  (\A t \in Recorders : pc[t] = "idle") /\ ~ disturbed
    /\ failures >= MinRequests /\ AtLeast(failures, requests, FailNum)
  => state # "healthy"

(* What makes these inductive.  All times have been, and who is about to   *)
(* store one has read it after the first of the changes that overlap: no   *)
(* other change begins a new lot as long as it stands there.               *)
TimesInOrder ==
  /\ entered <= clock /\ lastStateChange <= clock
  /\ \A t \in Recorders : now[t] <= clock /\ (pc[t] = "store" => now[t] >= entered)
  /\ ChangeIsStamped

(* What a checker has seen does not become older than what it compares     *)
(* with the clock.                                                         *)
SeenIsStamped ==
  \A t \in Checkers :
    /\ seen[t] <= entered
    /\ pc[t] = "load" => lastStateChange >= seen[t]
    /\ pc[t] = "since" => since[t] >= seen[t]

(* A rate is not computed of no requests, and it is trip or degrade that   *)
(* asks for enough of them.                                                *)
LocalsFit ==
  \A t \in Recorders :
    /\ pc[t] = "failed" => counted[t] > 0
    /\ pc[t] = "enough" => purpose[t] \in {"trip", "degrade"}

(* A failure is counted after its request: a recorder stands between the   *)
(* two.  One that resets takes the requests away first.                    *)
RequestsCover ==
  \/ \E t \in Recorders : pc[t] = "resetFailures"
  \/ failures + Cardinality({t \in Recorders : pc[t] = "failure"}) <= requests

(* t is about to make the breaker dead, with a rate that it has read, or   *)
(* will read, no lower than the one that the windows show now ...          *)
Tripping(t) ==
  \/ purpose[t] = "trip" /\ pc[t] \in {"enough", "total"}
  \/ purpose[t] = "trip" /\ pc[t] = "failed" /\ counted[t] <= requests
  \/ target[t] = "dead" /\ pc[t] = "swap"

(* ... or to empty the windows after it has made the breaker healthy. *)
Resetting(t) ==
  \/ target[t] = "healthy" /\ Pending(t)
  \/ pc[t] \in {"resetRequests", "resetFailures"}

(* Who sees enough failures in a healthy breaker can point to the recorder *)
(* that will change one or the other.                                      *)
SomeoneActs ==
  state = "healthy" /\ failures >= MinRequests /\ AtLeast(failures, requests, FailNum)
    => \E t \in Recorders : Tripping(t) \/ Resetting(t)

IInv ==
  /\ TypeOK /\ TimesInOrder /\ SeenIsStamped /\ LocalsFit
  /\ ~ disturbed => RequestsCover /\ SomeoneActs

----------------------------------------------------------------------------
(* What the comments and the documentation say. *)

(* shouldDegrade: only transition from healthy to degraded. *)
DegradedFromHealthy == [][state' = "degraded" => state # "dead"]_vars
============================================================================
