--------------------------- MODULE SlidingWindow ---------------------------
(***************************************************************************)
(* The sliding window counter of internal/ratelimit/sliding_window.go.     *)
(*                                                                         *)
(* Events are counted in buckets by the time at which they occur; a count  *)
(* adds up the buckets that begin within the window.  The map of buckets   *)
(* is guarded by a lock, but the clock is read before the lock is taken    *)
(* (in Count twice), so that a goroutine may work on it with an old time.  *)
(* The clock goes forward only.  The code uses wall time: if it is set     *)
(* back, events recorded before lie in the future and do not count, and a  *)
(* reading taken before may delete buckets that belong to the window.      *)
(***************************************************************************)
EXTENDS Integers, FiniteSets

CONSTANTS
  Threads,
  WindowSize, BucketSize,   \* in units of the clock
  MaxEvents,                \* bound of the model: events recorded
  StartTime, MaxTime        \* bound of the model: the clock's range

ASSUME WindowAssumption ==
  /\ WindowSize \in Nat \ {0}
  /\ BucketSize \in Nat \ {0}
  /\ MaxEvents \in Nat
  /\ StartTime \in Nat /\ MaxTime \in Nat
  /\ WindowSize <= StartTime /\ StartTime <= MaxTime

Times == 0 .. MaxTime

(* getBucketKey *)
Key(time) == time \div BucketSize
Keys      == 0 .. Key(MaxTime)

VARIABLES
  clock,
  buckets,    \* buckets[k]: the count of bucket k, 0 when it is not in the map
  pc, now, since,   \* per goroutine: next step and its readings of the clock
  total,      \* total[t]: the result of t's last Count
  events      \* history: events[x], events recorded with time x and not reset

vars == <<clock, buckets, pc, now, since, total, events>>

TypeOK ==
  /\ clock \in StartTime .. MaxTime
  /\ buckets \in [Keys -> Nat]
  /\ pc \in [Threads -> {"idle", "increment", "now", "sum"}]
  /\ now \in [Threads -> Times]
  /\ since \in [Threads -> Times]
  /\ total \in [Threads -> Nat]
  /\ events \in [Times -> Nat]

Init ==
  /\ clock = StartTime
  /\ buckets = [k \in Keys |-> 0]
  /\ pc = [t \in Threads |-> "idle"]
  /\ now = [t \in Threads |-> 0]
  /\ since = [t \in Threads |-> 0]
  /\ total = [t \in Threads |-> 0]
  /\ events = [x \in Times |-> 0]

(* The sum of f over S: the number of units when x is given f[x] of them. *)
Units(f, S) == UNION {{x} \X (1 .. f[x]) : x \in S}
Sum(f, S)   == Cardinality(Units(f, S))

Goto(t, label) == pc' = [pc EXCEPT ![t] = label]

----------------------------------------------------------------------------
(* Increment *)

ReadTime(t) ==
  /\ pc[t] = "idle"
  /\ now' = [now EXCEPT ![t] = clock]
  /\ Goto(t, "increment")
  /\ UNCHANGED <<clock, buckets, since, total, events>>

NoCleanup(map, time) == map   \* mutant

(* cleanup deletes the buckets before the one of the cutoff. *)
Cleanup(map, time) ==
  [k \in Keys |-> IF k < Key(time - WindowSize) THEN 0 ELSE map[k]]

Increment(t) ==
  /\ pc[t] = "increment"
  /\ Sum(events, Times) < MaxEvents
  /\ buckets' = Cleanup([buckets EXCEPT ![Key(now[t])] = @ + 1], now[t])
  /\ events' = [events EXCEPT ![now[t]] = @ + 1]
  /\ Goto(t, "idle")
  /\ now' = [now EXCEPT ![t] = 0]
  /\ UNCHANGED <<clock, since, total>>

----------------------------------------------------------------------------
(* Count and CountSince *)

Count(t) ==
  /\ pc[t] = "idle"
  /\ since' = [since EXCEPT ![t] = clock - WindowSize]
  /\ Goto(t, "now")
  /\ UNCHANGED <<clock, buckets, now, total, events>>

CountSince(t) ==
  /\ pc[t] = "now"
  /\ now' = [now EXCEPT ![t] = clock]
  /\ Goto(t, "sum")
  /\ UNCHANGED <<clock, buckets, since, total, events>>

(* Mutants: the bucket that begins with since counts, the current one not. *)
CountedEarly(t)    == {k \in Keys : since[t] <= k * BucketSize /\ k * BucketSize < now[t]}
CountedComplete(t) == {k \in Keys : since[t] < k * BucketSize /\ (k + 1) * BucketSize <= now[t]}

(* The buckets that begin after since and before now. *)
Counted(t) == {k \in Keys : since[t] < k * BucketSize /\ k * BucketSize < now[t]}

SumBuckets(t) ==
  /\ pc[t] = "sum"
  /\ total' = [total EXCEPT ![t] = Sum(buckets, Counted(t))]
  /\ Goto(t, "idle")
  /\ now' = [now EXCEPT ![t] = 0]
  /\ since' = [since EXCEPT ![t] = 0]
  /\ UNCHANGED <<clock, buckets, events>>

Reset ==
  /\ buckets' = [k \in Keys |-> 0]
  /\ events' = [x \in Times |-> 0]
  /\ UNCHANGED <<clock, pc, now, since, total>>

Tick ==
  /\ clock < MaxTime
  /\ clock' = clock + 1
  /\ UNCHANGED <<buckets, pc, now, since, total, events>>

Next ==
  \/ \E t \in Threads :
       ReadTime(t) \/ Increment(t) \/ Count(t) \/ CountSince(t) \/ SumBuckets(t)
  \/ Reset
  \/ Tick

Spec == Init /\ [][Next]_vars

----------------------------------------------------------------------------
Returns(t) == pc[t] = "sum" /\ pc'[t] = "idle"

(* Nothing that happened before the window is counted, however late the    *)
(* counting goroutine gets the lock.                                       *)
CountsOnlyWindow ==
  [][ \A t \in Threads :
        Returns(t) => total'[t] <= Sum(events, {x \in Times : since[t] < x /\ x <= clock})
    ]_vars

(* Every event of the window is counted, but for those of its first        *)
(* bucket, and none is deleted by another goroutine while it may count:    *)
(* the window that is counted is at most a bucket short.                   *)
CountsWholeWindow ==
  [][ \A t \in Threads :
        Returns(t) =>
          total'[t] >= Sum(events, {x \in Times :
                                      clock - WindowSize + BucketSize <= x /\ x < now[t]})
    ]_vars

(* The map does not grow: after an increment with a fresh time all that is *)
(* kept began within a window and a bucket.                                *)
BucketsAreRecent ==
  [][ \A t \in Threads :
        pc[t] = "increment" /\ pc'[t] = "idle" =>
          \A k \in Keys : buckets'[k] > 0 => k * BucketSize > now[t] - WindowSize - BucketSize
    ]_vars
============================================================================
