------------------------ MODULE CircuitBreakerProofs ------------------------
(***************************************************************************)
(* Proofs about the circuit breaker, for any number of goroutines, any     *)
(* thresholds and any timeout: enough failures trip it, the time of a      *)
(* change is written down, and a dead proxy waits for it.                  *)
(***************************************************************************)
EXTENDS CircuitBreaker, FiniteSetTheorems, TLAPS

LEMMA ConstantTypes ==
  /\ IsFiniteSet(Recorders) /\ Recorders \intersect Checkers = {}
  /\ DegNum \in Nat /\ FailNum \in Nat \ {0} /\ Den \in Nat \ {0}
  /\ MinRequests \in Int /\ RecoveryTimeout \in Int
  /\ MaxRequests \in Nat /\ MaxTime \in Nat
BY BreakerAssumption

(* Goroutine t alone moves, to label, with values of its own. *)
Moves(t, label, p, c, x) ==
  /\ pc' = [pc EXCEPT ![t] = label]
  /\ purpose' = [purpose EXCEPT ![t] = p]
  /\ counted' = [counted EXCEPT ![t] = c]
  /\ target' = [target EXCEPT ![t] = x]

Purposes == {"none", "trip", "degrade", "recover"}

MovesOnly(t) ==
  \E label \in RecorderLabels, p \in Purposes, c \in 0 .. MaxRequests, x \in States :
    Moves(t, label, p, c, x)

LEMMA LocalTypes ==
  ASSUME TypeOK, NEW t \in Recorders
  PROVE  /\ pc[t] \in RecorderLabels /\ pc = [pc EXCEPT ![t] = pc[t]]
         /\ purpose[t] \in Purposes /\ purpose = [purpose EXCEPT ![t] = purpose[t]]
         /\ counted[t] \in 0 .. MaxRequests /\ counted = [counted EXCEPT ![t] = counted[t]]
         /\ target[t] \in States /\ target = [target EXCEPT ![t] = target[t]]
BY DEF TypeOK, Purposes

LEMMA GotoMoves ==
  ASSUME TypeOK, NEW t \in Recorders, NEW label \in RecorderLabels,
         Goto(t, label), UNCHANGED locals
  PROVE  Moves(t, label, purpose[t], counted[t], target[t])
BY LocalTypes DEF Goto, locals, Moves

LEMMA ConcludeMoves ==
  ASSUME TypeOK, NEW t \in Recorders, NEW f, NEW r, Conclude(t, f, r)
  PROVE  MovesOnly(t)
<1>0. 0 \in 0 .. MaxRequests
  BY ConstantTypes
<1>1. CASE \E x \in States : Enter(t, x)
  <2>1. PICK x \in States : Enter(t, x)
    BY <1>1
  <2>2. Moves(t, "swap", purpose[t], counted[t], x)
    BY <2>1, LocalTypes DEF Enter, Goto, Moves
  <2> QED
    BY <2>2, LocalTypes DEF MovesOnly, RecorderLabels
<1>2. CASE Check(t, "degrade")
  <2>1. Moves(t, "state", "degrade", 0, target[t])
    BY <1>2, LocalTypes DEF Check, Goto, Moves
  <2> QED
    BY <1>0, <2>1, LocalTypes DEF MovesOnly, RecorderLabels, Purposes
<1>3. CASE Return(t)
  <2>1. Moves(t, "idle", "none", 0, "healthy")
    BY <1>3 DEF Return, Goto, Moves
  <2> QED
    BY <1>0, <2>1 DEF MovesOnly, RecorderLabels, Purposes, States
<1>4. CASE Goto(t, "recent") /\ UNCHANGED locals
  BY <1>4, GotoMoves, LocalTypes DEF MovesOnly, RecorderLabels
<1> QED
  BY <1>1, <1>2, <1>3, <1>4 DEF Conclude, States

(* A step of a recorder moves no one else. *)
LEMMA RecorderMoves ==
  ASSUME TypeOK, NEW t \in Recorders, RecordSuccess(t) \/ RecordFailure(t) \/ Record(t)
  PROVE  MovesOnly(t) /\ UNCHANGED checks
<1>0. 0 \in 0 .. MaxRequests
  BY ConstantTypes
<1>a. UNCHANGED checks
  BY DEF Record, RecordSuccess, RecordFailure, CountFailure, LoadState, EnoughRequests,
         CountRequests, CountFailures, RecentRequests, Swap, ReadTime, Stamp,
         ResetRequests, ResetFailures
<1> SUFFICES MovesOnly(t)
  BY <1>a
<1>1. CASE \E label \in RecorderLabels : Goto(t, label) /\ UNCHANGED locals
  BY <1>1, GotoMoves, LocalTypes DEF MovesOnly
<1>2. CASE Return(t)
  <2>1. Moves(t, "idle", "none", 0, "healthy")
    BY <1>2 DEF Return, Goto, Moves
  <2> QED
    BY <1>0, <2>1 DEF MovesOnly, RecorderLabels, Purposes, States
<1>3. CASE \E what \in {"trip", "degrade", "recover"} : Check(t, what)
  <2>1. PICK what \in {"trip", "degrade", "recover"} : Check(t, what)
    BY <1>3
  <2>2. Moves(t, IF what = "trip" THEN "enough" ELSE "state", what, 0, target[t])
    BY <2>1, LocalTypes DEF Check, Goto, Moves
  <2>3. (IF what = "trip" THEN "enough" ELSE "state") \in RecorderLabels /\ what \in Purposes
    BY DEF RecorderLabels, Purposes
  <2> QED
    BY <1>0, <2>2, <2>3, LocalTypes DEF MovesOnly
<1>4. CASE \E f, r : Conclude(t, f, r)
  BY <1>4, ConcludeMoves
<1>5. CASE Enter(t, "healthy")
  <2>1. Moves(t, "swap", purpose[t], counted[t], "healthy")
    BY <1>5, LocalTypes DEF Enter, Goto, Moves
  <2> QED
    BY <2>1, LocalTypes DEF MovesOnly, RecorderLabels, States
<1>6. CASE CountRequests(t) /\ requests > 0
  <2>1. Moves(t, "failed", purpose[t], requests, target[t])
    BY <1>6, LocalTypes DEF CountRequests, Goto, Moves, TypeOK
  <2> QED
    BY <2>1, LocalTypes DEF MovesOnly, RecorderLabels, TypeOK
<1>7. CASE CountRequests(t) /\ ~ (requests > 0)
  BY <1>4, <1>7 DEF CountRequests
<1>8. CASE \/ RecordSuccess(t) \/ RecordFailure(t) \/ CountFailure(t) \/ LoadState(t)
           \/ EnoughRequests(t)
  BY <1>1, <1>2, <1>3, <1>8
  DEF RecordSuccess, RecordFailure, CountFailure, LoadState, EnoughRequests, RecorderLabels
<1>9. CASE CountFailures(t) \/ RecentRequests(t)
  BY <1>2, <1>4, <1>5, <1>9 DEF CountFailures, RecentRequests
<1>10. CASE Swap(t) \/ ReadTime(t) \/ Stamp(t) \/ ResetRequests(t) \/ ResetFailures(t)
  BY <1>1, <1>2, <1>10
  DEF Swap, ReadTime, Stamp, ResetRequests, ResetFailures, RecorderLabels
<1> QED
  BY <1>6, <1>7, <1>8, <1>9, <1>10 DEF Record

(* The shared words that a recorder's step may change. *)
LEMMA SharedTypes ==
  ASSUME TypeOK, NEW t \in Recorders, RecordSuccess(t) \/ RecordFailure(t) \/ Record(t)
  PROVE  /\ UNCHANGED clock
         /\ state' \in States /\ lastStateChange' \in 0 .. MaxTime
         /\ now' \in [Recorders -> 0 .. MaxTime]
         /\ requests' \in 0 .. MaxRequests /\ failures' \in 0 .. MaxRequests
         /\ entered' \in 0 .. MaxTime /\ disturbed' \in BOOLEAN
<1>1. CASE RecordSuccess(t) \/ RecordFailure(t) \/ CountFailure(t)
  BY <1>1, ConstantTypes DEF TypeOK, RecordSuccess, RecordFailure, CountFailure, stamps, history
<1>2. CASE \/ LoadState(t) \/ EnoughRequests(t) \/ CountRequests(t) \/ CountFailures(t)
           \/ RecentRequests(t)
  BY <1>2 DEF TypeOK, LoadState, EnoughRequests, CountRequests, CountFailures,
              RecentRequests, stamps, history, windows
<1>3. CASE Swap(t)
  BY <1>3 DEF TypeOK, Swap, stamps, windows
<1>4. CASE ReadTime(t)
  BY <1>4 DEF TypeOK, ReadTime, windows, history
<1>7. CASE Stamp(t)
  <2>1. lastStateChange' \in 0 .. MaxTime /\ now' \in [Recorders -> 0 .. MaxTime]
    BY <1>7, ConstantTypes DEF TypeOK, Stamp
  <2> QED
    BY <1>7, <2>1 DEF TypeOK, Stamp, windows, history
<1>5. CASE ResetRequests(t)
  BY <1>5, ConstantTypes DEF TypeOK, ResetRequests, stamps, history
<1>6. CASE ResetFailures(t)
  <2>1. disturbed' \in BOOLEAN
    BY <1>6, Zenon DEF ResetFailures
  <2> QED
    BY <1>6, <2>1, ConstantTypes DEF TypeOK, ResetFailures, stamps
<1> QED
  BY <1>1, <1>2, <1>3, <1>4, <1>5, <1>6, <1>7 DEF Record

LEMMA RecorderTypes ==
  ASSUME TypeOK, NEW t \in Recorders, RecordSuccess(t) \/ RecordFailure(t) \/ Record(t)
  PROVE  TypeOK'
<1>1. PICK label \in RecorderLabels, p \in Purposes, c \in 0 .. MaxRequests, x \in States :
        Moves(t, label, p, c, x)
  BY RecorderMoves DEF MovesOnly
<1>2. /\ pc' \in [Recorders \union Checkers -> RecorderLabels \union CheckerLabels]
      /\ \A u \in Recorders : pc'[u] \in RecorderLabels
      /\ \A u \in Checkers : pc'[u] \in CheckerLabels
  BY <1>1, ConstantTypes DEF TypeOK, Moves, RecorderLabels
<1>3. /\ purpose' \in [Recorders -> Purposes]
      /\ counted' \in [Recorders -> 0 .. MaxRequests] /\ target' \in [Recorders -> States]
  BY <1>1 DEF TypeOK, Moves, Purposes
<1>4. /\ admitted' \in [Checkers -> BOOLEAN] /\ clock' \in 0 .. MaxTime
      /\ since' \in [Checkers -> 0 .. MaxTime] /\ seen' \in [Checkers -> 0 .. MaxTime]
  BY RecorderMoves, SharedTypes DEF TypeOK, checks
<1> QED
  BY <1>2, <1>3, <1>4, SharedTypes DEF TypeOK, Purposes

LEMMA CheckerTypes ==
  ASSUME TypeOK, NEW t \in Checkers,
         IsHealthy(t) \/ LoadLastChange(t) \/ CanAttemptRecovery(t)
  PROVE  TypeOK'
<1>1. UNCHANGED <<clock, state, stamps, windows, locals, history>>
  BY DEF IsHealthy, LoadLastChange, CanAttemptRecovery, Answer
<1>2. \/ UNCHANGED pc
      \/ \E label \in CheckerLabels : pc' = [pc EXCEPT ![t] = label]
  BY DEF IsHealthy, LoadLastChange, CanAttemptRecovery, Answer, Goto, CheckerLabels
<1>3. /\ pc' \in [Recorders \union Checkers -> RecorderLabels \union CheckerLabels]
      /\ \A u \in Recorders : pc'[u] \in RecorderLabels
      /\ \A u \in Checkers : pc'[u] \in CheckerLabels
  BY <1>2, ConstantTypes DEF TypeOK
<1>4. 0 \in 0 .. MaxTime
  BY ConstantTypes
<1>5. CASE IsHealthy(t)
  BY <1>1, <1>3, <1>4, <1>5 DEF TypeOK, IsHealthy, stamps, windows, locals, history
<1>6. CASE LoadLastChange(t)
  BY <1>1, <1>3, <1>6 DEF TypeOK, LoadLastChange, stamps, windows, locals, history
<1>7. CASE CanAttemptRecovery(t)
  <2>1. (clock - since[t] > RecoveryTimeout) \in BOOLEAN
    BY ConstantTypes DEF TypeOK
  <2>2. admitted' \in [Checkers -> BOOLEAN]
    BY <1>7, <2>1 DEF TypeOK, CanAttemptRecovery, Answer
  <2>3. since' \in [Checkers -> 0 .. MaxTime] /\ seen' \in [Checkers -> 0 .. MaxTime]
    BY <1>4, <1>7 DEF TypeOK, CanAttemptRecovery, Answer
  <2> QED
    BY <1>1, <1>3, <2>2, <2>3 DEF TypeOK, stamps, windows, locals, history
<1> QED
  BY <1>5, <1>6, <1>7

LEMMA NextTypes == TypeOK /\ [Next]_vars => TypeOK'
<1> SUFFICES ASSUME TypeOK, [Next]_vars
             PROVE  TypeOK'
  OBVIOUS
<1>1. CASE Tick
  BY <1>1, ConstantTypes DEF TypeOK, Tick, stamps, windows, locals, checks, history
<1>3. CASE ExpireRequest
  BY <1>3, ConstantTypes DEF TypeOK, ExpireRequest, stamps, locals, checks
<1>4. CASE ExpireFailure
  BY <1>4, ConstantTypes DEF TypeOK, ExpireFailure, stamps, locals, checks
<1>2. CASE UNCHANGED vars
  BY <1>2 DEF TypeOK, vars, stamps, windows, locals, checks, history
<1> QED
  BY <1>1, <1>2, <1>3, <1>4, RecorderTypes, CheckerTypes DEF Next

LEMMA InitTypes == Init => TypeOK
<1> SUFFICES ASSUME Init
             PROVE  TypeOK
  OBVIOUS
<1>1. 0 \in 0 .. MaxTime /\ 0 \in 0 .. MaxRequests
  BY ConstantTypes
<1>2. /\ pc \in [Recorders \union Checkers -> RecorderLabels \union CheckerLabels]
      /\ \A t \in Recorders : pc[t] \in RecorderLabels
      /\ \A t \in Checkers : pc[t] \in CheckerLabels
  BY DEF Init, RecorderLabels, CheckerLabels
<1> QED
  BY <1>1, <1>2 DEF Init, TypeOK, States

----------------------------------------------------------------------------
(* The times of the changes. *)

(* Steps that change no time but the clock, nor who is about to write one. *)
LEMMA TimesFrame ==
  ASSUME TypeOK, TimesInOrder, UNCHANGED <<stamps, entered>>,
         clock' = clock \/ clock' = clock + 1,
         \A u \in Recorders :
           (pc[u] = "store") = (pc'[u] = "store") /\ (pc[u] = "stamp") = (pc'[u] = "stamp")
  PROVE  TimesInOrder'
<1>1. entered <= clock' /\ lastStateChange <= clock' /\ \A u \in Recorders : now[u] <= clock'
  BY ConstantTypes DEF TypeOK, TimesInOrder
<1>2. UNCHANGED <<lastStateChange, now, entered, Stamping>>
  BY DEF stamps, Stamping, Pending
<1> QED
  BY <1>1, <1>2 DEF TimesInOrder, ChangeIsStamped

(* A change begins a new lot only if nobody is about to store a time. *)
LEMMA SwapTimes ==
  ASSUME TypeOK, TimesInOrder, NEW t \in Recorders, Swap(t)
  PROVE  TimesInOrder'
<1>1. /\ UNCHANGED <<clock, lastStateChange, now>> /\ pc[t] = "swap"
      /\ \A u \in Recorders \ {t} : pc'[u] = pc[u]
      /\ pc'[t] = (IF state # target[t] THEN "stamp" ELSE "idle")
      /\ entered' = IF state # target[t] /\ \A u \in Recorders : ~ Pending(u)
                    THEN clock ELSE entered
  BY DEF Swap, Goto, Return, stamps, TypeOK
<1>2. CASE state # target[t]
  <2>1. entered' <= clock /\ Stamping'
    BY <1>1, <1>2 DEF TimesInOrder, Stamping, Pending, TypeOK
  <2>2. ASSUME NEW u \in Recorders, pc'[u] = "store"
        PROVE  now[u] >= entered'
    BY <1>1, <1>2, <2>2 DEF TimesInOrder, Pending
  <2> QED
    BY <1>1, <2>1, <2>2 DEF TimesInOrder, ChangeIsStamped
<1>3. CASE state = target[t]
  BY <1>1, <1>3, TimesFrame DEF stamps
<1> QED
  BY <1>2, <1>3

LEMMA ReadTimeTimes ==
  ASSUME TypeOK, TimesInOrder, NEW t \in Recorders, ReadTime(t)
  PROVE  TimesInOrder'
<1>1. /\ UNCHANGED <<clock, lastStateChange, entered>> /\ pc'[t] = "store"
      /\ \A u \in Recorders \ {t} : pc'[u] = pc[u] /\ now'[u] = now[u]
      /\ now'[t] = clock
  BY DEF ReadTime, Goto, history, TypeOK
<1>2. Stamping'
  BY <1>1 DEF Stamping, Pending
<1>3. ASSUME NEW u \in Recorders
      PROVE  now'[u] <= clock /\ (pc'[u] = "store" => now'[u] >= entered)
  BY <1>1 DEF TimesInOrder, TypeOK
<1> QED
  BY <1>1, <1>2, <1>3 DEF TimesInOrder, ChangeIsStamped

LEMMA StampTimes ==
  ASSUME TypeOK, TimesInOrder, NEW t \in Recorders, Stamp(t)
  PROVE  TimesInOrder'
<1>1. /\ UNCHANGED <<clock, entered>> /\ lastStateChange' = now[t]
      /\ pc[t] = "store" /\ pc'[t] # "store" /\ now'[t] = 0
      /\ \A u \in Recorders \ {t} : pc'[u] = pc[u] /\ now'[u] = now[u]
  BY DEF Stamp, Goto, Return, history, TypeOK
<1>2. now[t] >= entered /\ now[t] <= clock
  BY <1>1 DEF TimesInOrder
<1>3. ASSUME NEW u \in Recorders
      PROVE  now'[u] <= clock /\ (pc'[u] = "store" => now'[u] >= entered)
  BY <1>1 DEF TimesInOrder, TypeOK
<1> QED
  BY <1>1, <1>2, <1>3 DEF TimesInOrder, ChangeIsStamped

LEMMA RecorderTimes ==
  ASSUME TypeOK, TimesInOrder, NEW t \in Recorders,
         RecordSuccess(t) \/ RecordFailure(t) \/ Record(t)
  PROVE  TimesInOrder'
<1>1. CASE Swap(t) \/ ReadTime(t) \/ Stamp(t)
  BY <1>1, SwapTimes, ReadTimeTimes, StampTimes
<1>2. CASE ~ (Swap(t) \/ ReadTime(t) \/ Stamp(t))
  <2>1. PICK label \in RecorderLabels, p \in Purposes, c \in 0 .. MaxRequests,
             x \in States : Moves(t, label, p, c, x)
    BY RecorderMoves DEF MovesOnly
  <2>2. UNCHANGED <<clock, stamps, entered>> /\ pc[t] \notin {"stamp", "store"}
    BY <1>2 DEF Record, RecordSuccess, RecordFailure, CountFailure, LoadState,
       EnoughRequests, CountRequests, CountFailures, RecentRequests, ResetRequests,
       ResetFailures, history
  <2>3. pc'[t] \notin {"stamp", "store"}
    BY <1>2 DEF Record, RecordSuccess, RecordFailure, CountFailure, LoadState,
       EnoughRequests, CountRequests, CountFailures, RecentRequests, ResetRequests,
       ResetFailures, Conclude, Check, Enter, Return, Goto, TypeOK
  <2>4. \A u \in Recorders \ {t} : pc'[u] = pc[u]
    BY <2>1 DEF Moves
  <2> QED
    BY <2>2, <2>3, <2>4, TimesFrame
<1> QED
  BY <1>1, <1>2

LEMMA NextTimes == TypeOK /\ TimesInOrder /\ [Next]_vars => TimesInOrder'
<1> SUFFICES ASSUME TypeOK, TimesInOrder, [Next]_vars
             PROVE  TimesInOrder'
  OBVIOUS
<1>1. ASSUME NEW t \in Checkers, IsHealthy(t) \/ LoadLastChange(t) \/ CanAttemptRecovery(t)
      PROVE  TimesInOrder'
  <2>1. \A u \in Recorders : pc'[u] = pc[u]
    BY <1>1, ConstantTypes
    DEF IsHealthy, LoadLastChange, CanAttemptRecovery, Answer, Goto, TypeOK
  <2>2. UNCHANGED <<clock, stamps, entered>>
    BY <1>1 DEF IsHealthy, LoadLastChange, CanAttemptRecovery, Answer, history
  <2> QED
    BY <2>1, <2>2, TimesFrame
<1>2. CASE Tick \/ ExpireRequest \/ ExpireFailure \/ UNCHANGED vars
  BY <1>2, TimesFrame DEF Tick, ExpireRequest, ExpireFailure, vars, history
<1> QED
  BY <1>1, <1>2, RecorderTimes DEF Next

(* The times of the changes do not go back, and what is stored is no older *)
(* than the first change of its lot.                                       *)
LEMMA StampsAdvance ==
  ASSUME TypeOK, TimesInOrder, NEW t \in Recorders,
         RecordSuccess(t) \/ RecordFailure(t) \/ Record(t)
  PROVE  /\ entered' >= entered
         /\ UNCHANGED lastStateChange \/ lastStateChange' >= entered
<1>1. CASE Swap(t)
  BY <1>1 DEF Swap, stamps, TimesInOrder, TypeOK
<1>2. CASE Stamp(t)
  BY <1>2 DEF Stamp, history, TimesInOrder, TypeOK
<1>3. CASE ~ (Swap(t) \/ Stamp(t))
  <2>1. UNCHANGED <<lastStateChange, entered>>
    BY <1>3 DEF Record, RecordSuccess, RecordFailure, CountFailure, LoadState,
       EnoughRequests, CountRequests, CountFailures, RecentRequests, ReadTime,
       ResetRequests, ResetFailures, stamps, history
  <2> QED
    BY <2>1 DEF TypeOK
<1> QED
  BY <1>1, <1>2, <1>3

LEMMA RecorderSeen ==
  ASSUME TypeOK, TimesInOrder, SeenIsStamped, NEW t \in Recorders,
         RecordSuccess(t) \/ RecordFailure(t) \/ Record(t)
  PROVE  SeenIsStamped'
<1>1. PICK label \in RecorderLabels, p \in Purposes, c \in 0 .. MaxRequests, x \in States :
        Moves(t, label, p, c, x)
  BY RecorderMoves DEF MovesOnly
<1>2. UNCHANGED <<since, seen>> /\ \A u \in Checkers : pc'[u] = pc[u]
  BY <1>1, RecorderMoves, ConstantTypes DEF checks, Moves
<1>3. ASSUME NEW u \in Checkers
      PROVE  /\ seen[u] <= entered'
             /\ pc[u] = "load" => lastStateChange' >= seen[u]
             /\ pc[u] = "since" => since[u] >= seen[u]
  <2>1. /\ seen[u] \in Nat /\ entered \in Nat /\ lastStateChange \in Nat
        /\ entered' \in Nat /\ lastStateChange' \in Nat
    BY SharedTypes, ConstantTypes DEF TypeOK
  <2> QED
    BY <2>1, StampsAdvance DEF SeenIsStamped
<1> QED
  BY <1>2, <1>3 DEF SeenIsStamped

LEMMA CheckerSeen ==
  ASSUME TypeOK, TimesInOrder, SeenIsStamped, NEW t \in Checkers,
         IsHealthy(t) \/ LoadLastChange(t) \/ CanAttemptRecovery(t)
  PROVE  SeenIsStamped'
<1>1. UNCHANGED <<lastStateChange, entered>>
  BY DEF IsHealthy, LoadLastChange, CanAttemptRecovery, Answer, stamps, history
<1>2. \A u \in Checkers \ {t} : pc'[u] = pc[u] /\ since'[u] = since[u] /\ seen'[u] = seen[u]
  BY DEF IsHealthy, LoadLastChange, CanAttemptRecovery, Answer, Goto, TypeOK
<1>3. /\ seen'[t] <= entered
      /\ pc'[t] = "load" => lastStateChange >= seen'[t]
      /\ pc'[t] = "since" => since'[t] >= seen'[t]
  <2>1. /\ entered \in Nat /\ lastStateChange \in Nat /\ pc[t] \in CheckerLabels
        /\ seen[t] <= entered /\ (pc[t] = "load" => lastStateChange >= seen[t])
    BY ConstantTypes DEF TypeOK, SeenIsStamped
  <2>2. CASE IsHealthy(t) /\ state # "dead"
    BY <2>1, <2>2 DEF IsHealthy
  <2>3. CASE IsHealthy(t) /\ state = "dead"
    <3>1. pc'[t] = "load" /\ seen'[t] = IF Stamping THEN 0 ELSE entered
      BY <2>3 DEF IsHealthy, Goto, TypeOK
    <3> QED
      BY <2>1, <3>1 DEF TimesInOrder, ChangeIsStamped
  <2>4. CASE LoadLastChange(t)
    <3>1. pc'[t] = "since" /\ since'[t] = lastStateChange /\ UNCHANGED seen /\ pc[t] = "load"
      BY <2>4 DEF LoadLastChange, Goto, TypeOK
    <3> QED
      BY <2>1, <3>1
  <2>5. CASE CanAttemptRecovery(t)
    <3>1. pc'[t] = "idle" /\ seen'[t] = 0
      BY <2>5 DEF CanAttemptRecovery, Answer, Goto, TypeOK
    <3> QED
      BY <2>1, <3>1
  <2> QED
    BY <2>2, <2>3, <2>4, <2>5
<1> QED
  BY <1>1, <1>2, <1>3 DEF SeenIsStamped

LEMMA NextSeen == TypeOK /\ TimesInOrder /\ SeenIsStamped /\ [Next]_vars => SeenIsStamped'
<1> SUFFICES ASSUME TypeOK, TimesInOrder, SeenIsStamped, [Next]_vars
             PROVE  SeenIsStamped'
  OBVIOUS
<1>1. CASE Tick \/ ExpireRequest \/ ExpireFailure \/ UNCHANGED vars
  BY <1>1 DEF Tick, ExpireRequest, ExpireFailure, vars, history, checks, stamps, SeenIsStamped
<1> QED
  BY <1>1, RecorderSeen, CheckerSeen DEF Next

----------------------------------------------------------------------------
(* A rate that has been read and the rate that the windows show. *)

(* A rate does not grow when requests come in. *)
LEMMA RateFalls ==
  ASSUME NEW f \in Nat, NEW r \in Nat, NEW q \in Nat, 0 < q, q <= r, AtLeast(f, r, FailNum)
  PROVE  AtLeast(f, q, FailNum)
<1>1. PICK d \in Nat : r = q + d
  <2>1. r - q \in Nat /\ r = q + (r - q)
    OBVIOUS
  <2> QED
    BY <2>1
<1>2. f * Den >= FailNum * (q + d)
  BY <1>1, ConstantTypes DEF AtLeast
<1>3. FailNum * (q + d) = FailNum * q + FailNum * d /\ FailNum * d \in Nat
  BY ConstantTypes
<1>4. f * Den \in Nat /\ FailNum * q \in Nat
  BY ConstantTypes
<1> QED
  BY <1>2, <1>3, <1>4, ConstantTypes DEF AtLeast

LEMMA NoFailuresNoRate ==
  ASSUME NEW r \in Nat, AtLeast(0, r, FailNum)
  PROVE  FALSE
<1>1. r # 0 => FailNum * r > 0
  BY ConstantTypes
<1>2. 0 * Den = 0
  BY ConstantTypes
<1> QED
  BY <1>1, <1>2, ConstantTypes DEF AtLeast

LEMMA NoRequestsNoRate ==
  ASSUME NEW f, AtLeast(f, 0, FailNum)
  PROVE  FALSE
BY ConstantTypes DEF AtLeast

Failing == {t \in Recorders : pc[t] = "failure"}

LEMMA FailingFinite == IsFiniteSet(Failing) /\ Cardinality(Failing) \in Nat
<1>1. Failing \subseteq Recorders
  BY DEF Failing
<1> QED
  BY <1>1, ConstantTypes, FS_Subset, FS_CardinalityType

(* The recorders between a request and its failure, as one of them moves. *)
LEMMA FailingMoves ==
  ASSUME TypeOK, NEW t \in Recorders, NEW label, NEW p, NEW c, NEW x,
         Moves(t, label, p, c, x)
  PROVE  /\ pc[t] # "failure" /\ label = "failure" =>
              Cardinality(Failing') = Cardinality(Failing) + 1
         /\ pc[t] = "failure" /\ label # "failure" =>
              Cardinality(Failing') = Cardinality(Failing) - 1
         /\ pc[t] # "failure" /\ label # "failure" => Failing' = Failing
<1>0. \A u \in Recorders : pc'[u] = IF u = t THEN label ELSE pc[u]
  BY DEF Moves, TypeOK
<1>1. CASE pc[t] # "failure" /\ label = "failure"
  <2>1. Failing' = Failing \union {t} /\ t \notin Failing
    BY <1>0, <1>1 DEF Failing
  <2> QED
    BY <1>1, <2>1, FailingFinite, FS_AddElement
<1>2. CASE pc[t] = "failure" /\ label # "failure"
  <2>1. Failing' = Failing \ {t} /\ t \in Failing
    BY <1>0, <1>2 DEF Failing
  <2> QED
    BY <1>2, <2>1, FailingFinite, FS_RemoveElement
<1>3. CASE pc[t] # "failure" /\ label # "failure"
  BY <1>0, <1>3 DEF Failing
<1> QED
  BY <1>1, <1>2, <1>3

----------------------------------------------------------------------------
(* Why no trip is missed. *)

LEMMA LocalsStep ==
  ASSUME TypeOK, LocalsFit, NEW t \in Recorders,
         RecordSuccess(t) \/ RecordFailure(t) \/ Record(t)
  PROVE  LocalsFit'
<1>1. PICK label \in RecorderLabels, p \in Purposes, c \in 0 .. MaxRequests, x \in States :
        Moves(t, label, p, c, x)
  BY RecorderMoves DEF MovesOnly
<1>2. \A u \in Recorders \ {t} :
        pc'[u] = pc[u] /\ counted'[u] = counted[u] /\ purpose'[u] = purpose[u]
  BY <1>1 DEF Moves
<1>3. ASSUME pc'[t] = "failed"
      PROVE  counted'[t] > 0
  <2>1. CountRequests(t) /\ requests > 0 /\ counted' = [counted EXCEPT ![t] = requests]
    BY <1>3 DEF Record, RecordSuccess, RecordFailure, CountFailure, LoadState,
       EnoughRequests, CountRequests, CountFailures, RecentRequests, Swap, ReadTime,
       Stamp, ResetRequests, ResetFailures, Conclude, Check, Enter, Return, Goto, TypeOK
  <2> QED
    BY <2>1 DEF TypeOK
<1>4. ASSUME pc'[t] = "enough"
      PROVE  purpose'[t] \in {"trip", "degrade"}
  <2>1. \/ CountFailure(t) /\ Check(t, "trip")
        \/ purpose[t] = "degrade" /\ UNCHANGED purpose
    BY <1>4 DEF Record, RecordSuccess, RecordFailure, CountFailure, LoadState,
       EnoughRequests, CountRequests, CountFailures, RecentRequests, Swap, ReadTime,
       Stamp, ResetRequests, ResetFailures, Conclude, Check, Enter, Return, Goto, TypeOK, locals
  <2> QED
    BY <2>1 DEF TypeOK, Check
<1> QED
  BY <1>2, <1>3, <1>4 DEF LocalsFit

(* The one who acts goes on to act while another moves. *)
LEMMA OthersKeepActing ==
  ASSUME TypeOK, NEW t \in Recorders, NEW label, NEW p, NEW c, NEW x,
         Moves(t, label, p, c, x), NEW u \in Recorders \ {t},
         requests' = requests \/ requests' = requests + 1
  PROVE  /\ Tripping(u) => Tripping(u)'
         /\ Resetting(u) => Resetting(u)'
<1>1. /\ pc'[u] = pc[u] /\ purpose'[u] = purpose[u]
      /\ counted'[u] = counted[u] /\ target'[u] = target[u]
  BY DEF Moves
<1>2. counted[u] <= requests => counted[u] <= requests'
  BY ConstantTypes DEF TypeOK
<1> QED
  BY <1>1, <1>2 DEF Tripping, Resetting, Pending

(* A step that leaves the counts alone. *)
LEMMA QuietStep ==
  ASSUME IInv, ~ disturbed, NEW t \in Recorders, NEW label, NEW p, NEW c, NEW x,
         Moves(t, label, p, c, x), UNCHANGED windows,
         pc[t] # "failure", label # "failure", pc[t] # "resetFailures",
         state' = "healthy" => state = "healthy" \/ Resetting(t)',
         SomeoneActs' \/ (Tripping(t) \/ Resetting(t) => Tripping(t)' \/ Resetting(t)')
  PROVE  RequestsCover' /\ SomeoneActs'
<1>1. RequestsCover /\ SomeoneActs /\ TypeOK
  BY DEF IInv
<1>2. RequestsCover'
  <2>1. Failing' = Failing
    BY <1>1, FailingMoves
  <2>2. CASE \E u \in Recorders : pc[u] = "resetFailures"
    BY <2>2 DEF Moves, RequestsCover
  <2>3. CASE failures + Cardinality(Failing) <= requests
    BY <2>1, <2>3 DEF Failing, RequestsCover, windows
  <2> QED
    BY <1>1, <2>2, <2>3 DEF RequestsCover, Failing
<1>3. ASSUME ~ SomeoneActs'
      PROVE  FALSE
  <2>1. /\ state' = "healthy" /\ failures >= MinRequests /\ AtLeast(failures, requests, FailNum)
        /\ ~ \E u \in Recorders : Tripping(u)' \/ Resetting(u)'
    BY <1>3 DEF SomeoneActs, windows, AtLeast
  <2>2. PICK u \in Recorders : Tripping(u) \/ Resetting(u)
    BY <1>1, <2>1 DEF SomeoneActs
  <2> QED
    BY <1>1, <1>3, <2>1, <2>2, OthersKeepActing DEF windows
<1> QED
  BY <1>2, <1>3

LEMMA RecordStep ==
  ASSUME IInv, ~ disturbed, NEW t \in Recorders, RecordSuccess(t) \/ RecordFailure(t)
  PROVE  RequestsCover' /\ SomeoneActs'
<1>1. RequestsCover /\ SomeoneActs /\ TypeOK
  BY DEF IInv
<1>2. PICK label \in RecorderLabels, p \in Purposes, c \in 0 .. MaxRequests, x \in States :
        Moves(t, label, p, c, x)
  BY <1>1, RecorderMoves DEF MovesOnly
<1>3. /\ pc[t] = "idle" /\ requests' = requests + 1 /\ UNCHANGED <<state, failures>>
      /\ requests \in Nat /\ failures \in Nat
  BY <1>1, ConstantTypes DEF RecordSuccess, RecordFailure, TypeOK
<1>4. RequestsCover'
  <2>1. CASE \E u \in Recorders : pc[u] = "resetFailures"
    BY <1>2, <1>3, <2>1 DEF Moves, RequestsCover
  <2>2. CASE failures + Cardinality(Failing) <= requests
    <3>1. Failing' = Failing \/ Cardinality(Failing') = Cardinality(Failing) + 1
      BY <1>1, <1>2, <1>3, FailingMoves
    <3>2. failures + Cardinality(Failing)' <= requests + 1
      BY <1>3, <2>2, <3>1, FailingFinite
    <3> QED
      BY <1>3, <3>2 DEF Failing, RequestsCover
  <2> QED
    BY <1>1, <2>1, <2>2 DEF RequestsCover, Failing
<1>5. ASSUME state = "healthy", failures >= MinRequests,
             AtLeast(failures, requests + 1, FailNum)
      PROVE  \E u \in Recorders : Tripping(u) \/ Resetting(u)
  <2>1. CASE requests > 0
    <3>1. AtLeast(failures, requests, FailNum)
      BY <1>3, <1>5, <2>1, RateFalls
    <3> QED
      BY <1>1, <1>5, <3>1 DEF SomeoneActs
  <2>2. CASE requests = 0
    <3>1. failures # 0
      BY <1>3, <1>5, NoFailuresNoRate
    <3>2. ~ (failures + Cardinality(Failing) <= requests)
      BY <1>3, <2>2, <3>1, FailingFinite
    <3> QED
      BY <1>1, <3>2 DEF RequestsCover, Failing, Resetting, Pending
  <2> QED
    BY <1>3, <2>1, <2>2
<1>6. ~ Tripping(t) /\ ~ Resetting(t)
  BY <1>3 DEF Tripping, Resetting, Pending
<1>7. ASSUME ~ SomeoneActs'
      PROVE  FALSE
  <2>1. /\ state = "healthy" /\ failures >= MinRequests
        /\ AtLeast(failures, requests + 1, FailNum)
        /\ ~ \E u \in Recorders : Tripping(u)' \/ Resetting(u)'
    BY <1>3, <1>7 DEF SomeoneActs, AtLeast
  <2>2. PICK u \in Recorders : Tripping(u) \/ Resetting(u)
    BY <1>5, <2>1
  <2> QED
    BY <1>1, <1>2, <1>3, <1>6, <2>1, <2>2, OthersKeepActing
<1> QED
  BY <1>4, <1>7

LEMMA CountFailureStep ==
  ASSUME IInv, ~ disturbed, NEW t \in Recorders, CountFailure(t)
  PROVE  RequestsCover' /\ SomeoneActs'
<1>1. RequestsCover /\ SomeoneActs /\ TypeOK
  BY DEF IInv
<1>2. /\ pc[t] = "failure" /\ failures' = failures + 1 /\ UNCHANGED requests
      /\ Moves(t, "enough", "trip", 0, target[t])
      /\ requests \in Nat /\ failures \in Nat
  BY <1>1, LocalTypes, ConstantTypes DEF CountFailure, Check, Goto, Moves, TypeOK
<1>3. RequestsCover'
  <2>1. CASE \E u \in Recorders : pc[u] = "resetFailures"
    BY <1>2, <2>1 DEF Moves, RequestsCover
  <2>2. CASE failures + Cardinality(Failing) <= requests
    <3>1. Cardinality(Failing') = Cardinality(Failing) - 1
      BY <1>1, <1>2, FailingMoves
    <3>2. failures + 1 + Cardinality(Failing)' <= requests
      BY <1>2, <2>2, <3>1, FailingFinite
    <3> QED
      BY <1>2, <3>2 DEF Failing, RequestsCover
  <2> QED
    BY <1>1, <2>1, <2>2 DEF RequestsCover, Failing
<1>4. Tripping(t)'
  BY <1>1, <1>2 DEF Moves, Tripping, TypeOK
<1> QED
  BY <1>3, <1>4 DEF SomeoneActs

LEMMA LoadStateStep ==
  ASSUME IInv, ~ disturbed, NEW t \in Recorders, LoadState(t)
  PROVE  RequestsCover' /\ SomeoneActs'
<1>1. TypeOK /\ pc[t] = "state" /\ UNCHANGED <<state, windows>>
  BY DEF IInv, LoadState
<1>2. PICK label \in RecorderLabels, p \in Purposes, c \in 0 .. MaxRequests, x \in States :
        Moves(t, label, p, c, x)
  BY <1>1, RecorderMoves DEF Record, MovesOnly
<1>3. label # "failure"
  BY <1>1, <1>2 DEF LoadState, Moves, Goto, Return, TypeOK
<1>4. ~ Tripping(t) /\ ~ Resetting(t)
  BY <1>1 DEF Tripping, Resetting, Pending
<1> QED
  BY <1>1, <1>2, <1>3, <1>4, QuietStep

LEMMA EnoughRequestsStep ==
  ASSUME IInv, ~ disturbed, NEW t \in Recorders, EnoughRequests(t)
  PROVE  RequestsCover' /\ SomeoneActs'
<1>1. /\ RequestsCover /\ SomeoneActs /\ TypeOK
      /\ pc[t] = "enough" /\ UNCHANGED <<state, windows>>
      /\ requests \in Nat /\ failures \in Nat
  BY ConstantTypes DEF IInv, EnoughRequests, TypeOK
<1>2. PICK label \in RecorderLabels, p \in Purposes, c \in 0 .. MaxRequests, x \in States :
        Moves(t, label, p, c, x)
  BY <1>1, RecorderMoves DEF Record, MovesOnly
<1>3. label # "failure"
  BY <1>1, <1>2 DEF EnoughRequests, Moves, Goto, Check, Return, TypeOK
<1>4. ~ Resetting(t)
  BY <1>1 DEF Resetting, Pending
<1>5. CASE requests >= MinRequests
  <2>1. Tripping(t) => Tripping(t)'
    BY <1>1, <1>5, ConstantTypes DEF EnoughRequests, Tripping, Goto, locals, TypeOK
  <2> QED
    BY <1>1, <1>2, <1>3, <1>4, <2>1, QuietStep
<1>6. CASE requests < MinRequests
  <2>1. SomeoneActs'
    <3>1. SUFFICES ASSUME failures >= MinRequests
                   PROVE  \E u \in Recorders : Resetting(u)'
      BY <1>1 DEF SomeoneActs, windows
    <3>2. ~ (failures + Cardinality(Failing) <= requests)
      BY <1>1, <1>6, <3>1, FailingFinite, ConstantTypes
    <3>3. PICK u \in Recorders : pc[u] = "resetFailures"
      BY <1>1, <3>2 DEF RequestsCover, Failing
    <3> QED
      BY <1>1, <1>2, <3>3 DEF Moves, Resetting, Pending
  <2> QED
    BY <1>1, <1>2, <1>3, <2>1, QuietStep
<1> QED
  BY <1>1, <1>5, <1>6, ConstantTypes

LEMMA CountRequestsStep ==
  ASSUME IInv, ~ disturbed, NEW t \in Recorders, CountRequests(t)
  PROVE  RequestsCover' /\ SomeoneActs'
<1>1. /\ TypeOK /\ pc[t] = "total" /\ UNCHANGED <<state, windows>>
      /\ requests \in Nat /\ failures \in Nat
  BY ConstantTypes DEF IInv, CountRequests, TypeOK
<1>2. PICK label \in RecorderLabels, p \in Purposes, c \in 0 .. MaxRequests, x \in States :
        Moves(t, label, p, c, x)
  BY <1>1, RecorderMoves DEF Record, MovesOnly
<1>3. label # "failure"
  BY <1>1, <1>2 DEF CountRequests, Conclude, Moves, Goto, Check, Enter, Return, TypeOK
<1>4. ~ Resetting(t)
  BY <1>1 DEF Resetting, Pending
<1>5. CASE requests = 0
  <2>1. SomeoneActs'
    BY <1>1, <1>5, NoRequestsNoRate DEF SomeoneActs, windows
  <2> QED
    BY <1>1, <1>2, <1>3, <2>1, QuietStep
<1>6. CASE requests > 0
  <2>1. Tripping(t) => Tripping(t)'
    BY <1>1, <1>6 DEF CountRequests, Tripping, Goto, windows, TypeOK
  <2> QED
    BY <1>1, <1>2, <1>3, <1>4, <2>1, QuietStep
<1> QED
  BY <1>1, <1>5, <1>6

LEMMA CountFailuresStep ==
  ASSUME IInv, ~ disturbed, NEW t \in Recorders, CountFailures(t)
  PROVE  RequestsCover' /\ SomeoneActs'
<1>1. /\ TypeOK /\ pc[t] = "failed" /\ UNCHANGED <<state, windows>>
      /\ requests \in Nat /\ failures \in Nat
      /\ counted[t] \in Nat /\ counted[t] > 0
  BY ConstantTypes DEF IInv, CountFailures, TypeOK, LocalsFit
<1>2. PICK label \in RecorderLabels, p \in Purposes, c \in 0 .. MaxRequests, x \in States :
        Moves(t, label, p, c, x)
  BY <1>1, RecorderMoves DEF Record, MovesOnly
<1>3. label # "failure"
  BY <1>1, <1>2 DEF CountFailures, Conclude, Moves, Goto, Check, Enter, Return, TypeOK
<1>4. ~ Resetting(t)
  BY <1>1 DEF Resetting, Pending
<1>5. ASSUME Tripping(t), AtLeast(failures, requests, FailNum)
      PROVE  Tripping(t)'
  <2>1. purpose[t] = "trip" /\ counted[t] <= requests
    BY <1>1, <1>5 DEF Tripping
  <2>2. AtLeast(failures, counted[t], FailNum)
    BY <1>1, <1>5, <2>1, RateFalls
  <2>3. Enter(t, "dead")
    BY <2>1, <2>2 DEF CountFailures, Conclude
  <2> QED
    BY <1>1, <2>3 DEF Enter, Goto, Tripping, TypeOK
<1>6. AtLeast(failures, requests, FailNum) \/ SomeoneActs'
  BY <1>1 DEF SomeoneActs, AtLeast, windows
<1> QED
  BY <1>1, <1>2, <1>3, <1>4, <1>5, <1>6, QuietStep

LEMMA RecentRequestsStep ==
  ASSUME IInv, ~ disturbed, NEW t \in Recorders, RecentRequests(t)
  PROVE  RequestsCover' /\ SomeoneActs'
<1>1. TypeOK /\ pc[t] = "recent" /\ UNCHANGED <<state, windows>>
  BY DEF IInv, RecentRequests
<1>2. PICK label \in RecorderLabels, p \in Purposes, c \in 0 .. MaxRequests, x \in States :
        Moves(t, label, p, c, x)
  BY <1>1, RecorderMoves DEF Record, MovesOnly
<1>3. label # "failure"
  BY <1>1, <1>2 DEF RecentRequests, Moves, Goto, Enter, Return, TypeOK
<1>4. ~ Tripping(t) /\ ~ Resetting(t)
  BY <1>1 DEF Tripping, Resetting, Pending
<1> QED
  BY <1>1, <1>2, <1>3, <1>4, QuietStep

LEMMA SwapStep ==
  ASSUME IInv, ~ disturbed, NEW t \in Recorders, Swap(t)
  PROVE  RequestsCover' /\ SomeoneActs'
<1>1. TypeOK /\ pc[t] = "swap" /\ state' = target[t] /\ UNCHANGED windows
  BY DEF IInv, Swap
<1>2. PICK label \in RecorderLabels, p \in Purposes, c \in 0 .. MaxRequests, x \in States :
        Moves(t, label, p, c, x)
  BY <1>1, RecorderMoves DEF Record, MovesOnly
<1>3. label # "failure"
  BY <1>1, <1>2 DEF Swap, Moves, Goto, Return, TypeOK
<1>4. CASE target[t] = "healthy"
  <2>1. ~ Tripping(t) /\ ~ Resetting(t)
    BY <1>1, <1>4 DEF Tripping, Resetting, Pending
  <2>2. state = "healthy" \/ Resetting(t)'
    BY <1>1, <1>4 DEF Swap, Goto, Resetting, Pending, locals, TypeOK
  <2> QED
    BY <1>1, <1>2, <1>3, <2>1, <2>2, QuietStep
<1>5. CASE target[t] # "healthy"
  <2>1. SomeoneActs'
    BY <1>1, <1>5 DEF SomeoneActs
  <2> QED
    BY <1>1, <1>2, <1>3, <1>5, <2>1, QuietStep
<1> QED
  BY <1>4, <1>5

LEMMA StampStep ==
  ASSUME IInv, ~ disturbed, NEW t \in Recorders, ReadTime(t) \/ Stamp(t)
  PROVE  RequestsCover' /\ SomeoneActs'
<1>1. TypeOK /\ Pending(t) /\ UNCHANGED <<state, windows>>
  BY DEF IInv, ReadTime, Stamp, Pending
<1>2. PICK label \in RecorderLabels, p \in Purposes, c \in 0 .. MaxRequests, x \in States :
        Moves(t, label, p, c, x)
  BY <1>1, RecorderMoves DEF Record, MovesOnly
<1>3. label # "failure"
  BY <1>1, <1>2 DEF ReadTime, Stamp, Moves, Goto, Return, TypeOK
<1>4. ~ Tripping(t)
  BY <1>1 DEF Tripping, Pending
<1>5. Resetting(t) => Resetting(t)'
  <2>1. CASE ReadTime(t)
    BY <1>1, <2>1 DEF ReadTime, Goto, Resetting, Pending, locals, TypeOK
  <2>2. CASE Stamp(t)
    BY <1>1, <2>2 DEF Stamp, Goto, Resetting, Pending, locals, TypeOK
  <2> QED
    BY <2>1, <2>2
<1> QED
  BY <1>1, <1>2, <1>3, <1>4, <1>5, QuietStep DEF Pending

LEMMA ResetRequestsStep ==
  ASSUME IInv, NEW t \in Recorders, ResetRequests(t)
  PROVE  RequestsCover' /\ SomeoneActs'
<1>1. pc'[t] = "resetFailures"
  BY DEF IInv, TypeOK, ResetRequests, Goto
<1> QED
  BY <1>1 DEF RequestsCover, SomeoneActs, Resetting, Pending

(* The windows are left undisturbed only if nobody else was in a call: the *)
(* reset takes away no failure that has not had its say.                   *)
LEMMA ResetFailuresStep ==
  ASSUME IInv, NEW t \in Recorders, ResetFailures(t), ~ disturbed'
  PROVE  RequestsCover' /\ SomeoneActs'
<1>1. /\ failures' = 0 /\ UNCHANGED requests /\ requests \in Nat
      /\ \A u \in Recorders : pc'[u] = "idle"
  BY ConstantTypes DEF IInv, TypeOK, ResetFailures, Return, Goto
<1>2. {u \in Recorders : pc'[u] = "failure"} = {}
  BY <1>1
<1>3. RequestsCover'
  BY <1>1, <1>2, FS_EmptySet DEF RequestsCover
<1>4. SomeoneActs'
  BY <1>1, NoFailuresNoRate DEF SomeoneActs, AtLeast
<1> QED
  BY <1>3, <1>4

LEMMA NextIInv == IInv /\ [Next]_vars => IInv'
<1> SUFFICES ASSUME IInv, [Next]_vars
             PROVE  IInv'
  OBVIOUS
<1>1. TypeOK' /\ TimesInOrder' /\ SeenIsStamped'
  BY NextTypes, NextTimes, NextSeen DEF IInv
<1>2. ASSUME NEW t \in Recorders, RecordSuccess(t) \/ RecordFailure(t) \/ Record(t)
      PROVE  IInv'
  <2>1. LocalsFit'
    BY <1>2, LocalsStep DEF IInv
  <2>2. ASSUME ~ disturbed'
        PROVE  RequestsCover' /\ SomeoneActs'
    <3>1. ResetFailures(t) \/ ~ disturbed
      BY <1>2, <2>2 DEF Record, RecordSuccess, RecordFailure, CountFailure, LoadState,
         EnoughRequests, CountRequests, CountFailures, RecentRequests, Swap, ReadTime,
         Stamp, ResetRequests, history
    <3> QED
      BY <1>2, <2>2, <3>1, RecordStep, CountFailureStep, LoadStateStep, EnoughRequestsStep,
         CountRequestsStep, CountFailuresStep, RecentRequestsStep, SwapStep, StampStep,
         ResetRequestsStep, ResetFailuresStep
      DEF Record
  <2> QED
    BY <1>1, <2>1, <2>2 DEF IInv
<1>3. CASE ExpireRequest \/ ExpireFailure
  <2>1. disturbed' /\ UNCHANGED <<pc, locals>>
    BY <1>3 DEF ExpireRequest, ExpireFailure
  <2> QED
    BY <1>1, <2>1 DEF IInv, LocalsFit, locals
<1>4. CASE \/ Tick \/ UNCHANGED vars
           \/ \E t \in Checkers : IsHealthy(t) \/ LoadLastChange(t) \/ CanAttemptRecovery(t)
  <2>1. UNCHANGED <<state, windows, locals, disturbed>>
    BY <1>4 DEF Tick, IsHealthy, LoadLastChange, CanAttemptRecovery, Answer, vars, history
  <2>2. \A u \in Recorders : pc'[u] = pc[u]
    BY <1>4, ConstantTypes
    DEF Tick, IsHealthy, LoadLastChange, CanAttemptRecovery, Answer, vars, IInv, TypeOK, Goto
  <2>3. {u \in Recorders : pc'[u] = "failure"} = {u \in Recorders : pc[u] = "failure"}
    BY <2>2
  <2>4. LocalsFit' /\ (RequestsCover => RequestsCover')
    BY <2>1, <2>2, <2>3 DEF IInv, LocalsFit, locals, windows, RequestsCover
  <2>5. \A u \in Recorders :
          (Tripping(u) => Tripping(u)') /\ (Resetting(u) => Resetting(u)')
    BY <2>1, <2>2 DEF Tripping, Resetting, Pending, locals, windows
  <2>6. SomeoneActs => SomeoneActs'
    BY <2>1, <2>5 DEF SomeoneActs, AtLeast, windows
  <2> QED
    BY <1>1, <2>1, <2>4, <2>6 DEF IInv
<1> QED
  BY <1>2, <1>3, <1>4 DEF Next

LEMMA InitIInv == Init => IInv
<1> SUFFICES ASSUME Init
             PROVE  IInv
  OBVIOUS
<1>1. TimesInOrder /\ SeenIsStamped /\ LocalsFit
  BY DEF Init, TimesInOrder, ChangeIsStamped, SeenIsStamped, LocalsFit
<1>2. {u \in Recorders : pc[u] = "failure"} = {}
  BY DEF Init
<1>3. RequestsCover
  BY <1>2, FS_EmptySet DEF Init, RequestsCover
<1>4. SomeoneActs
  BY NoFailuresNoRate DEF Init, SomeoneActs
<1> QED
  BY <1>1, <1>3, <1>4, InitTypes DEF IInv

(* The invariant that the runs check holds for all values of the constants. *)
THEOREM InductiveInvariant == Spec => []IInv
BY InitIInv, NextIInv, PTL DEF Spec

(* Enough failures trip the breaker although other goroutines record,      *)
(* degrade and recover at the same time: the last one that counts a        *)
(* failure reads no lower rate than the one that is left.                  *)
THEOREM NoTripIsMissed == Spec => []NoMissedTrip
<1>1. IInv => NoMissedTrip
  BY DEF IInv, SomeoneActs, Tripping, Resetting, Pending, NoMissedTrip
<1> QED
  BY <1>1, InductiveInvariant, PTL

(* Once nobody is between the two writes the time covers the change, or    *)
(* the first of those that overlapped: who is about to store a time has    *)
(* read it after that one.                                                 *)
THEOREM ChangesAreStamped == Spec => []ChangeIsStamped
<1>1. IInv => ChangeIsStamped
  BY DEF IInv, TimesInOrder
<1> QED
  BY <1>1, InductiveInvariant, PTL

----------------------------------------------------------------------------
(* Only the checker's own comparison admits a request to a dead proxy. *)
LEMMA OnlyCheckerRetries ==
  ASSUME TypeOK, Next, NEW t \in Checkers, Retries(t)
  PROVE  CanAttemptRecovery(t)
<1>1. pc[t] = "since" /\ pc'[t] = "idle" /\ t \notin Recorders
  BY ConstantTypes DEF Retries
<1>2. ASSUME NEW u \in Recorders, RecordSuccess(u) \/ RecordFailure(u) \/ Record(u)
      PROVE  FALSE
  BY <1>1, <1>2, RecorderMoves DEF MovesOnly, Moves, TypeOK
<1>3. ASSUME NEW u \in Checkers,
             IsHealthy(u) \/ LoadLastChange(u) \/ (CanAttemptRecovery(u) /\ u # t)
      PROVE  FALSE
  BY <1>1, <1>3 DEF IsHealthy, LoadLastChange, CanAttemptRecovery, Answer, Goto, TypeOK
<1>4. ~ (Tick \/ ExpireRequest \/ ExpireFailure)
  BY <1>1 DEF Tick, ExpireRequest, ExpireFailure
<1> QED
  BY <1>2, <1>3, <1>4 DEF Next

LEMMA RetryStep ==
  IInv /\ [Next]_vars =>
    [\A t \in Checkers : Retries(t) => clock - seen[t] > RecoveryTimeout]_vars
<1> SUFFICES ASSUME IInv, Next, NEW t \in Checkers, Retries(t)
             PROVE  clock - seen[t] > RecoveryTimeout
  BY Zenon
<1>1. clock - since[t] > RecoveryTimeout
  BY OnlyCheckerRetries DEF CanAttemptRecovery, Answer, Retries, IInv, TypeOK
<1>2. since[t] >= seen[t]
  BY DEF IInv, SeenIsStamped, Retries
<1>3. clock \in Int /\ since[t] \in Int /\ seen[t] \in Int
  BY ConstantTypes DEF IInv, TypeOK
<1> QED
  BY <1>1, <1>2, <1>3, ConstantTypes

(* A proxy found dead is not retried before the timeout has passed since   *)
(* the change it was found dead after.                                     *)
THEOREM DeadProxiesWait == Spec => DeadWaits
BY InductiveInvariant, RetryStep, PTL DEF Spec, DeadWaits
=============================================================================
