------------------------ MODULE SlidingWindowProofs ------------------------
(***************************************************************************)
(* Proofs about the sliding window, for any number of goroutines and any   *)
(* sizes of the window and its buckets: what Count returns is no more than *)
(* the events of the window, no less than those but for a bucket, and the  *)
(* map is kept to a window and a bucket.                                   *)
(***************************************************************************)
EXTENDS SlidingWindow, FiniteSetTheorems, TLAPS

LEMMA ConstantTypes ==
  /\ WindowSize \in Nat \ {0} /\ BucketSize \in Nat \ {0}
  /\ StartTime \in Nat /\ MaxTime \in Nat
  /\ WindowSize <= StartTime /\ StartTime <= MaxTime
  /\ 0 \in Times
BY WindowAssumption DEF Times

----------------------------------------------------------------------------
(* Sums *)

LEMMA InUnits ==
  ASSUME NEW f, NEW S, NEW u
  PROVE  u \in Units(f, S) <=> \E x \in S : \E i \in 1 .. f[x] : u = <<x, i>>
BY DEF Units

LEMMA UnitsFinite ==
  ASSUME NEW D, NEW f \in [D -> Nat], NEW S \in SUBSET D, IsFiniteSet(S)
  PROVE  IsFiniteSet(Units(f, S)) /\ Sum(f, S) \in Nat
<1> DEFINE Column == [x \in S |-> {x} \X (1 .. f[x])]
           Columns == {{x} \X (1 .. f[x]) : x \in S}
<1>1. Column \in Surjection(S, Columns)
  BY DEF Surjection
<1>2. IsFiniteSet(Columns)
  BY <1>1, FS_Surjection
<1>3. \A x \in S : IsFiniteSet({x} \X (1 .. f[x]))
  <2> SUFFICES ASSUME NEW x \in S
               PROVE  IsFiniteSet({x} \X (1 .. f[x]))
    OBVIOUS
  <2>1. f[x] \in Int
    OBVIOUS
  <2>2. IsFiniteSet(1 .. f[x])
    BY <2>1, FS_Interval
  <2>3. IsFiniteSet({x})
    BY FS_Singleton
  <2> QED
    BY <2>2, <2>3, FS_Product
<1>4. \A C \in Columns : IsFiniteSet(C)
  BY <1>3
<1>5. IsFiniteSet(UNION Columns)
  BY <1>2, <1>4, FS_UNION
<1> QED
  BY <1>5, FS_CardinalityType DEF Units, Sum

(* One more in place n is one more in the sums over n, and in no other. *)
LEMMA SumAdds ==
  ASSUME NEW D, NEW f \in [D -> Nat], NEW n \in D, NEW S \in SUBSET D, IsFiniteSet(S),
         NEW g \in [D -> Nat],
         g[n] = f[n] + 1, \A x \in D \ {n} : g[x] = f[x]
  PROVE  Sum(g, S) = Sum(f, S) + (IF n \in S THEN 1 ELSE 0)
<1> DEFINE new == <<n, f[n] + 1>>
<1>1. IsFiniteSet(Units(f, S)) /\ Sum(f, S) \in Nat
  BY UnitsFinite
<1>2. CASE n \in S
  <2>1. new \notin Units(f, S)
    BY InUnits
  <2>2. \A u : u \in Units(g, S) <=> u \in Units(f, S) \union {new}
    <3> SUFFICES ASSUME NEW u
                 PROVE  u \in Units(g, S) <=> u \in Units(f, S) \/ u = new
      OBVIOUS
    <3>1. \A x \in S : g[x] = IF x = n THEN f[n] + 1 ELSE f[x]
      OBVIOUS
    <3>2. 1 .. (f[n] + 1) = (1 .. f[n]) \union {f[n] + 1}
      BY f[n] \in Nat
    <3>3. u \in Units(g, S) <=> \E x \in S : \E i \in 1 .. g[x] : u = <<x, i>>
      BY ONLY InUnits
    <3>4. u \in Units(f, S) <=> \E x \in S : \E i \in 1 .. f[x] : u = <<x, i>>
      BY ONLY InUnits
    <3>5. u \in Units(g, S) => u \in Units(f, S) \/ u = new
      BY <3>1, <3>2, <3>3, <3>4
    <3>6. u \in Units(f, S) => u \in Units(g, S)
      BY <3>1, <3>2, <3>3, <3>4
    <3>7. u = new => u \in Units(g, S)
      BY <1>2, <3>1, <3>2, <3>3
    <3> QED
      BY <3>5, <3>6, <3>7
  <2>3. Units(g, S) = Units(f, S) \union {new}
    BY <2>2
  <2> QED
    BY <1>1, <1>2, <2>1, <2>3, FS_AddElement DEF Sum
<1>3. CASE n \notin S
  <2>1. \A x \in S : g[x] = f[x]
    BY <1>3
  <2>2. Units(g, S) = Units(f, S)
    BY <2>1 DEF Units
  <2> QED
    BY <1>1, <1>3, <2>2 DEF Sum
<1> QED
  BY <1>2, <1>3

(* A sum grows with its terms and with the places it is taken over. *)
LEMMA SumGrows ==
  ASSUME NEW D, NEW E, NEW f \in [D -> Nat], NEW g \in [E -> Nat],
         NEW S \in SUBSET D, NEW T \in SUBSET E, IsFiniteSet(T),
         \A x \in S : f[x] = 0 \/ (x \in T /\ f[x] <= g[x])
  PROVE  Sum(f, S) <= Sum(g, T)
<1>1. Units(f, S) \subseteq Units(g, T)
  <2> SUFFICES ASSUME NEW x \in S, NEW i \in 1 .. f[x]
               PROVE  <<x, i>> \in Units(g, T)
    BY InUnits
  <2>1. x \in T /\ i \in 1 .. g[x]
    OBVIOUS
  <2> QED
    BY <2>1, InUnits
<1>2. IsFiniteSet(Units(g, T))
  BY UnitsFinite
<1> QED
  BY <1>1, <1>2, FS_Subset DEF Sum

LEMMA ZeroSum ==
  ASSUME NEW f, NEW S, \A x \in S : f[x] = 0
  PROVE  Sum(f, S) = 0
<1>1. Units(f, S) = {}
  BY InUnits
<1> QED
  BY <1>1, FS_EmptySet DEF Sum

----------------------------------------------------------------------------
(* Buckets *)

LEMMA Multiples ==
  ASSUME NEW a \in Int, NEW b \in Int, NEW m \in Nat \ {0}, a * m < b * m
  PROVE  a < b
<1> SUFFICES ASSUME b <= a
             PROVE  FALSE
  OBVIOUS
<1>1. PICK d \in Nat : a = b + d
  <2>1. a - b \in Nat /\ a = b + (a - b)
    OBVIOUS
  <2> QED
    BY <2>1
<1>2. (b + d) * m = b * m + d * m /\ d * m \in Nat
  OBVIOUS
<1> QED
  BY <1>1, <1>2

LEMMA ProductsGrow ==
  ASSUME NEW a \in Nat, NEW b \in Nat, NEW m \in Nat \ {0}, a <= b
  PROVE  a * m \in Nat /\ b * m \in Nat /\ a * m <= b * m
<1>1. a * m \in Nat /\ b * m \in Nat
  OBVIOUS
<1>2. ~ (b * m < a * m)
  <2> SUFFICES ASSUME b * m < a * m
               PROVE  FALSE
    OBVIOUS
  <2> QED
    BY Multiples
<1> QED
  BY <1>1, <1>2

LEMMA KeyFacts ==
  ASSUME NEW x \in Nat
  PROVE  /\ Key(x) \in Nat
         /\ Key(x) * BucketSize <= x
         /\ x < Key(x) * BucketSize + BucketSize
BY ConstantTypes DEF Key

LEMMA KeyMonotone ==
  ASSUME NEW x \in Nat, NEW y \in Nat, x <= y
  PROVE  Key(x) <= Key(y)
<1>1. Key(x) \in Nat /\ Key(y) \in Nat /\ Key(x) * BucketSize \in Nat
  BY KeyFacts, ConstantTypes
<1>2. Key(x) * BucketSize < Key(y) * BucketSize + BucketSize
  BY <1>1, KeyFacts, ConstantTypes
<1>3. (Key(y) + 1) * BucketSize = Key(y) * BucketSize + BucketSize
  BY <1>1, ConstantTypes
<1>4. Key(x) < Key(y) + 1
  BY <1>1, <1>2, <1>3, Multiples, ConstantTypes
<1> QED
  BY <1>1, <1>4

LEMMA KeysOfTimes == \A x \in Times : Key(x) \in Keys
BY KeyFacts, KeyMonotone, ConstantTypes DEF Times, Keys

LEMMA AllFinite ==
  /\ \A S \in SUBSET Times : IsFiniteSet(S)
  /\ \A K \in SUBSET Keys : IsFiniteSet(K)
<1>1. IsFiniteSet(Times) /\ IsFiniteSet(Keys)
  BY FS_Interval, ConstantTypes, KeyFacts DEF Times, Keys
<1> QED
  BY <1>1, FS_Subset

----------------------------------------------------------------------------
(* What makes the properties inductive.  No choice of buckets holds more   *)
(* than the events that fall into it, and none of those that cleanup must  *)
(* leave alone, now and later, holds less.                                 *)

Falling(K) == {x \in Times : Key(x) \in K}

NothingOld == \A K \in SUBSET Keys : Sum(buckets, K) <= Sum(events, Falling(K))

KeptAt(K, time) == \A k \in K : k >= Key(time - WindowSize)
Kept(K) == KeptAt(K, clock)
NothingLost ==
  \A K \in SUBSET Keys : Kept(K) => Sum(events, Falling(K)) <= Sum(buckets, K)

(* Readings of the clock are times that have been, and so are those of the *)
(* events.                                                                 *)
Readings ==
  /\ \A t \in Threads :
       /\ now[t] <= clock /\ since[t] <= clock - WindowSize
       /\ pc[t] = "increment" => now[t] >= StartTime
  /\ \A x \in Times : x > clock => events[x] = 0

IInv == TypeOK /\ NothingOld /\ NothingLost /\ Readings

LEMMA TypeFacts ==
  ASSUME TypeOK
  PROVE  /\ clock \in Nat /\ clock \in Times /\ clock >= StartTime
         /\ WindowSize <= clock
        /\ clock - WindowSize \in Nat /\ clock - WindowSize \in Times
         /\ \A t \in Threads : now[t] \in Nat /\ since[t] \in Nat
         /\ buckets \in [Keys -> Nat] /\ events \in [Times -> Nat]
BY ConstantTypes DEF TypeOK, Times

LEMMA FallingFinite ==
  ASSUME NEW K \in SUBSET Keys
  PROVE  IsFiniteSet(K) /\ Falling(K) \in SUBSET Times /\ IsFiniteSet(Falling(K))
BY AllFinite DEF Falling

LEMMA KeptEarlier ==
  ASSUME NEW K \in SUBSET Keys, NEW time \in Nat, WindowSize <= time, KeptAt(K, time + 1)
  PROVE  KeptAt(K, time)
<1> DEFINE a == Key(time - WindowSize)
           b == Key((time + 1) - WindowSize)
<1>1. a \in Nat /\ b \in Nat /\ a <= b
  BY ConstantTypes, KeyFacts, KeyMonotone
<1>2. \A k \in K : k \in Nat /\ k >= b
  BY DEF KeptAt, Keys
<1>3. KeptAt(K, time) <=> \A k \in K : k >= a
  BY DEF KeptAt
<1> HIDE DEF a, b
<1> QED
  BY <1>1, <1>2, <1>3

LEMMA InitIInv == Init => IInv
<1> SUFFICES ASSUME Init
             PROVE  IInv
  OBVIOUS
<1>1. TypeOK
  BY ConstantTypes DEF Init, TypeOK
<1>2. \A K \in SUBSET Keys : Sum(buckets, K) = 0 /\ Sum(events, Falling(K)) = 0
  BY ZeroSum DEF Init, Falling
<1>3. Readings
  BY ConstantTypes DEF Init, Readings
<1> QED
  BY <1>1, <1>2, <1>3 DEF IInv, NothingOld, NothingLost

LEMMA TypeStep == TypeOK /\ [Next]_vars => TypeOK'
<1> SUFFICES ASSUME TypeOK, [Next]_vars
             PROVE  TypeOK'
  OBVIOUS
<1>1. ASSUME NEW t \in Threads, ReadTime(t) \/ Count(t) \/ CountSince(t)
      PROVE  TypeOK'
  <2>1. pc' \in [Threads -> {"idle", "increment", "now", "sum"}]
    BY <1>1 DEF TypeOK, ReadTime, Count, CountSince, Goto
  <2>2. now' \in [Threads -> Times] /\ since' \in [Threads -> Times]
    BY <1>1, TypeFacts DEF TypeOK, ReadTime, Count, CountSince
  <2> QED
    BY <1>1, <2>1, <2>2 DEF TypeOK, ReadTime, Count, CountSince
<1>2. ASSUME NEW t \in Threads, Increment(t)
      PROVE  TypeOK'
  <2>0. Key(now[t]) \in Keys /\ now[t] \in Times
    BY KeysOfTimes DEF TypeOK
  <2>1. [buckets EXCEPT ![Key(now[t])] = @ + 1] \in [Keys -> Nat]
    BY <2>0, TypeFacts
  <2>2. buckets' \in [Keys -> Nat]
    BY <1>2, <2>1 DEF Increment, Cleanup
  <2>3. events' \in [Times -> Nat]
    BY <1>2, <2>0, TypeFacts DEF Increment
  <2>4. /\ pc' \in [Threads -> {"idle", "increment", "now", "sum"}]
        /\ now' \in [Threads -> Times]
    BY <1>2, ConstantTypes DEF TypeOK, Increment, Goto
  <2> QED
    BY <1>2, <2>2, <2>3, <2>4 DEF TypeOK, Increment
<1>3. ASSUME NEW t \in Threads, SumBuckets(t)
      PROVE  TypeOK'
  <2>1. Counted(t) \in SUBSET Keys
    BY DEF Counted
  <2>2. Sum(buckets, Counted(t)) \in Nat
    BY <2>1, AllFinite, UnitsFinite, TypeFacts
  <2>3. total' \in [Threads -> Nat]
    BY <1>3, <2>2 DEF TypeOK, SumBuckets
  <2>4. /\ pc' \in [Threads -> {"idle", "increment", "now", "sum"}]
        /\ now' \in [Threads -> Times] /\ since' \in [Threads -> Times]
    BY <1>3, ConstantTypes DEF TypeOK, SumBuckets, Goto
  <2> QED
    BY <1>3, <2>3, <2>4 DEF TypeOK, SumBuckets
<1>4. CASE Reset \/ Tick \/ UNCHANGED vars
  BY <1>4, ConstantTypes DEF TypeOK, Reset, Tick, vars
<1> QED
  BY <1>1, <1>2, <1>3, <1>4 DEF Next

LEMMA ReadingsStep == TypeOK /\ Readings /\ [Next]_vars => Readings'
<1> SUFFICES ASSUME TypeOK, Readings, [Next]_vars
             PROVE  Readings'
  OBVIOUS
<1>0. clock \in Nat /\ clock >= StartTime /\ WindowSize \in Nat /\ clock - WindowSize >= 0
  BY TypeFacts, ConstantTypes
<1>1. ASSUME NEW t \in Threads,
             ReadTime(t) \/ Count(t) \/ CountSince(t) \/ SumBuckets(t)
      PROVE  Readings'
  <2>1. UNCHANGED <<clock, events>>
    BY <1>1 DEF ReadTime, Count, CountSince, SumBuckets
  <2>2. \A u \in Threads \ {t} : now'[u] = now[u] /\ since'[u] = since[u] /\ pc'[u] = pc[u]
    BY <1>1 DEF ReadTime, Count, CountSince, SumBuckets, Goto, TypeOK
  <2>3. /\ now'[t] \in {0, now[t], clock} /\ since'[t] \in {0, since[t], clock - WindowSize}
        /\ pc'[t] = "increment" => now'[t] = clock
    BY <1>1 DEF ReadTime, Count, CountSince, SumBuckets, Goto, TypeOK
  <2> QED
    BY <1>0, <2>1, <2>2, <2>3 DEF Readings
<1>2. ASSUME NEW t \in Threads, Increment(t)
      PROVE  Readings'
  <2>1. UNCHANGED <<clock, since>> /\ now' = [now EXCEPT ![t] = 0]
        /\ pc' = [pc EXCEPT ![t] = "idle"]
        /\ events' = [events EXCEPT ![now[t]] = @ + 1]
    BY <1>2 DEF Increment, Goto
  <2>2. \A x \in Times : x > clock => events'[x] = 0
    BY <1>0, <2>1, TypeFacts DEF Readings, Times
  <2> QED
    BY <1>0, <2>1, <2>2 DEF Readings, TypeOK
<1>3. CASE Reset \/ UNCHANGED vars
  BY <1>3 DEF Readings, Reset, vars
<1>4. CASE Tick
  BY <1>0, <1>4, TypeFacts, ConstantTypes DEF Readings, Tick, Times
<1> QED
  BY <1>1, <1>2, <1>3, <1>4 DEF Next

(* An increment lifts a sum of buckets and that of the events that fall    *)
(* into them alike; cleanup can only lower the former, and does not when   *)
(* the buckets are to be kept.                                             *)
LEMMA IncrementSums ==
  ASSUME TypeOK, Readings, NEW t \in Threads, Increment(t), NEW K \in SUBSET Keys
  PROVE  \E d \in {0, 1} :
           /\ Sum(events', Falling(K)) = Sum(events, Falling(K)) + d
           /\ Sum(buckets', K) <= Sum(buckets, K) + d
           /\ Kept(K) => Sum(buckets', K) >= Sum(buckets, K) + d
<1> DEFINE n == now[t]
           lifted == [buckets EXCEPT ![Key(n)] = @ + 1]
           d == IF Key(n) \in K THEN 1 ELSE 0
<1>1. /\ n \in Times /\ n \in Nat /\ n <= clock /\ n >= StartTime
      /\ Key(n) \in Keys
      /\ buckets \in [Keys -> Nat] /\ events \in [Times -> Nat]
      /\ clock \in Nat
  BY TypeFacts, KeysOfTimes DEF TypeOK, Readings, Increment
<1>2. buckets' = Cleanup(lifted, n) /\ events' = [events EXCEPT ![n] = @ + 1]
  BY DEF Increment
<1>3. IsFiniteSet(K) /\ Falling(K) \in SUBSET Times /\ IsFiniteSet(Falling(K))
  BY FallingFinite
<1> HIDE DEF n
<1>4. n \in Falling(K) <=> Key(n) \in K
  BY <1>1 DEF Falling
<1>m. lifted = [buckets EXCEPT ![Key(n)] = @ + 1]
  OBVIOUS
<1> HIDE DEF lifted
<1>7. lifted \in [Keys -> Nat] /\ buckets' \in [Keys -> Nat]
  BY <1>1, <1>2, <1>m DEF Cleanup
<1>8. /\ lifted[Key(n)] = buckets[Key(n)] + 1
      /\ \A k \in Keys \ {Key(n)} : lifted[k] = buckets[k]
  BY <1>1, <1>m
<1>e. /\ events' \in [Times -> Nat]
      /\ events'[n] = events[n] + 1 /\ \A x \in Times \ {n} : events'[x] = events[x]
  BY <1>1, <1>2
<1>5. Sum(events', Falling(K)) = Sum(events, Falling(K)) + d
  <2>1. \A f \in [Times -> Nat], g \in [Times -> Nat], S \in SUBSET Times :
          /\ IsFiniteSet(S)
          /\ g[n] = f[n] + 1 /\ \A x \in Times \ {n} : g[x] = f[x]
          => Sum(g, S) = Sum(f, S) + (IF n \in S THEN 1 ELSE 0)
    <3> SUFFICES ASSUME NEW f \in [Times -> Nat], NEW g \in [Times -> Nat],
                        NEW S \in SUBSET Times, IsFiniteSet(S),
                        g[n] = f[n] + 1, \A x \in Times \ {n} : g[x] = f[x]
                 PROVE  Sum(g, S) = Sum(f, S) + (IF n \in S THEN 1 ELSE 0)
      OBVIOUS
    <3>1. n \in Times
      BY <1>1
    <3> QED
      BY ONLY <3>1, f \in [Times -> Nat], g \in [Times -> Nat], S \in SUBSET Times,
              IsFiniteSet(S), g[n] = f[n] + 1, \A x \in Times \ {n} : g[x] = f[x], SumAdds
  <2> QED
    BY <1>1, <1>3, <1>4, <1>e, <2>1
<1>6. Sum(lifted, K) = Sum(buckets, K) + d
  BY <1>1, <1>3, <1>7, <1>8, SumAdds
<1>9. \A k \in K : buckets'[k] <= lifted[k]
  BY <1>2, <1>7 DEF Cleanup
<1>10. Sum(buckets', K) <= Sum(lifted, K)
  BY <1>3, <1>7, <1>9, SumGrows
<1>11. ASSUME Kept(K)
       PROVE  Sum(lifted, K) <= Sum(buckets', K)
  <2>1. Key(n - WindowSize) <= Key(clock - WindowSize)
    BY <1>1, ConstantTypes, KeyMonotone
  <2>2. \A k \in Keys : k \in Int
    BY DEF Keys
  <2>5. n - WindowSize \in Nat /\ clock - WindowSize \in Nat
    BY <1>1, ConstantTypes
  <2>6. Key(n - WindowSize) \in Nat /\ Key(clock - WindowSize) \in Nat
    BY <2>5, KeyFacts
  <2>3. \A k \in K : ~ (k < Key(n - WindowSize))
    BY <1>11, <2>1, <2>2, <2>6 DEF Kept, KeptAt
  <2>4. \A k \in K : lifted[k] <= buckets'[k]
    BY <1>2, <1>7, <2>3 DEF Cleanup
  <2> QED
    BY <1>3, <1>7, <2>4, SumGrows
<1>12. /\ Sum(buckets', K) \in Nat /\ Sum(lifted, K) \in Nat /\ Sum(buckets, K) \in Nat
  BY <1>1, <1>3, <1>7, UnitsFinite
<1>13. d \in {0, 1}
  OBVIOUS
<1> QED
  BY <1>5, <1>6, <1>10, <1>11, <1>12, <1>13

LEMMA SumsAreNat ==
  ASSUME TypeOK, NEW K \in SUBSET Keys
  PROVE  Sum(buckets, K) \in Nat /\ Sum(events, Falling(K)) \in Nat
<1>1. IsFiniteSet(K) /\ Falling(K) \in SUBSET Times /\ IsFiniteSet(Falling(K))
  BY FallingFinite
<1>2. buckets \in [Keys -> Nat] /\ events \in [Times -> Nat]
  BY DEF TypeOK
<1>3. Sum(buckets, K) \in Nat
  BY <1>1, <1>2, UnitsFinite
<1>4. \A S \in SUBSET Times : IsFiniteSet(S) => Sum(events, S) \in Nat
  BY <1>2, UnitsFinite
<1> QED
  BY <1>1, <1>3, <1>4

LEMMA NextIInv == IInv /\ [Next]_vars => IInv'
<1> SUFFICES ASSUME IInv, [Next]_vars
             PROVE  NothingOld' /\ NothingLost'
  BY TypeStep, ReadingsStep DEF IInv
<1>0. TypeOK /\ NothingOld /\ NothingLost /\ Readings
  BY DEF IInv
<1>1. ASSUME NEW t \in Threads, Increment(t)
      PROVE  NothingOld' /\ NothingLost'
  <2> SUFFICES ASSUME NEW K \in SUBSET Keys
               PROVE  /\ Sum(buckets', K) <= Sum(events', Falling(K))
                      /\ Kept(K)' => Sum(events', Falling(K)) <= Sum(buckets', K)
    BY DEF NothingOld, NothingLost, Falling
  <2>1. PICK d \in {0, 1} :
           /\ Sum(events', Falling(K)) = Sum(events, Falling(K)) + d
           /\ Sum(buckets', K) <= Sum(buckets, K) + d
           /\ Kept(K) => Sum(buckets', K) >= Sum(buckets, K) + d
    BY <1>0, <1>1, IncrementSums
  <2>2. Kept(K)' => Kept(K)
    BY <1>1 DEF Kept, KeptAt, Increment
  <2>3. /\ Sum(buckets, K) <= Sum(events, Falling(K))
        /\ Kept(K) => Sum(events, Falling(K)) <= Sum(buckets, K)
    BY <1>0 DEF NothingOld, NothingLost
  <2>4. TypeOK'
    BY <1>0, TypeStep
  <2>5. Sum(buckets', K) \in Nat
    BY <2>4, FallingFinite, UnitsFinite DEF TypeOK
  <2> QED
    BY <1>0, <2>1, <2>2, <2>3, <2>5, SumsAreNat
<1>2. CASE Reset
  <2>1. \A K \in SUBSET Keys : Sum(buckets, K)' = 0 /\ Sum(events, Falling(K))' = 0
    BY <1>2, ZeroSum DEF Reset, Falling
  <2> QED
    BY <2>1 DEF NothingOld, NothingLost
<1>3. CASE UNCHANGED <<clock, buckets, events>>
  BY <1>0, <1>3 DEF NothingOld, NothingLost, Kept, KeptAt, Falling
<1>4. CASE Tick
  <2>1. UNCHANGED <<buckets, events>> /\ clock' = clock + 1
    BY <1>4 DEF Tick
  <2>4. ASSUME NEW K \in SUBSET Keys, Kept(K)'
        PROVE  Kept(K)
    <3>1. KeptAt(K, clock + 1)
      BY <2>1, <2>4 DEF Kept, KeptAt
    <3> QED
      BY <1>0, <3>1, TypeFacts, KeptEarlier DEF Kept
  <2> QED
    BY <1>0, <2>1, <2>4 DEF NothingOld, NothingLost, Falling
<1> QED
  BY <1>1, <1>2, <1>3, <1>4
  DEF Next, ReadTime, Count, CountSince, SumBuckets, vars

----------------------------------------------------------------------------
(* What Count returns *)

LEMMA ReturnsCount ==
  ASSUME TypeOK, Next, NEW t \in Threads, Returns(t)
  PROVE  /\ total'[t] = Sum(buckets, Counted(t))
         /\ Counted(t) \in SUBSET Keys
<1>1. SumBuckets(t)
  BY DEF Returns, TypeOK, Next, ReadTime, Increment, Count, CountSince, SumBuckets,
         Reset, Tick, Goto
<1> QED
  BY <1>1 DEF SumBuckets, TypeOK, Counted

(* A later time is in a later bucket, so that the buckets that begin after *)
(* since hold only later events.                                           *)
LEMMA OnlyWindow ==
  IInv => \A t \in Threads :
            Sum(buckets, Counted(t)) <= Sum(events, {x \in Times : since[t] < x /\ x <= clock})
<1> SUFFICES ASSUME IInv, NEW t \in Threads
             PROVE  Sum(buckets, Counted(t))
                      <= Sum(events, {x \in Times : since[t] < x /\ x <= clock})
  OBVIOUS
<1> DEFINE K == Counted(t)
           T == {x \in Times : since[t] < x /\ x <= clock}
<1>1. TypeOK /\ K \in SUBSET Keys
  BY DEF IInv, Counted
<1>2. Sum(buckets, K) <= Sum(events, Falling(K))
  BY <1>1 DEF IInv, NothingOld
<1>3. \A x \in Falling(K) : x \in Times /\ (events[x] = 0 \/ x \in T)
  <2> SUFFICES ASSUME NEW x \in Times, Key(x) \in K, x <= clock
               PROVE  since[t] < x
    BY <1>1, TypeFacts DEF IInv, Readings, Falling, Times
  <2>1. since[t] < Key(x) * BucketSize
    BY DEF Counted
  <2>2. x \in Nat /\ since[t] \in Nat
    BY <1>1 DEF TypeOK, Times
  <2>3. Key(x) * BucketSize \in Nat
    BY <2>2, KeyFacts, ConstantTypes
  <2> QED
    BY <2>1, <2>2, <2>3, KeyFacts
<1>4. T \in SUBSET Times /\ IsFiniteSet(T) /\ Falling(K) \in SUBSET Times
  BY <1>1, AllFinite, FallingFinite
<1>5. events \in [Times -> Nat] /\ \A x \in Times : events[x] <= events[x]
  BY <1>1, TypeFacts
<1>6. Sum(events, Falling(K)) <= Sum(events, T)
  BY <1>3, <1>4, <1>5, SumGrows
<1>7. Sum(buckets, K) \in Nat /\ Sum(events, Falling(K)) \in Nat
  BY <1>1, SumsAreNat
<1>8. Sum(events, T) \in Nat
  BY <1>4, <1>5, UnitsFinite
<1> QED
  BY <1>2, <1>6, <1>7, <1>8

(* The buckets of the times that must be counted begin within the window   *)
(* as it was when since was read, and none has been old enough to go.      *)
LEMMA WholeWindow ==
  IInv => \A t \in Threads :
            Sum(buckets, Counted(t))
              >= Sum(events, {x \in Times :
                                clock - WindowSize + BucketSize <= x /\ x < now[t]})
<1> SUFFICES ASSUME IInv, NEW t \in Threads
             PROVE  Sum(buckets, Counted(t)) >=
                      Sum(events, {x \in Times :
                                     clock - WindowSize + BucketSize <= x /\ x < now[t]})
  OBVIOUS
<1> DEFINE T == {x \in Times : clock - WindowSize + BucketSize <= x /\ x < now[t]}
           K == {Key(x) : x \in T}
<1>1. TypeOK /\ K \in SUBSET Keys /\ T \in SUBSET Times
  BY KeysOfTimes DEF IInv
<1>2. /\ clock \in Nat /\ clock - WindowSize \in Nat /\ now[t] \in Nat /\ since[t] \in Nat
      /\ since[t] <= clock - WindowSize
      /\ buckets \in [Keys -> Nat] /\ events \in [Times -> Nat]
  BY <1>1, TypeFacts DEF IInv, Readings
<1>3. ASSUME NEW x \in T
      PROVE  Key(x) \in Counted(t) /\ Key(x) >= Key(clock - WindowSize)
  <2>1. x \in Nat /\ Key(x) \in Nat /\ Key(x) * BucketSize \in Nat
    BY KeyFacts, ConstantTypes DEF Times
  <2>2. clock - WindowSize + BucketSize <= x /\ x < now[t]
    OBVIOUS
  <2>3. since[t] < Key(x) * BucketSize /\ Key(x) * BucketSize < now[t]
    BY <1>2, <2>1, <2>2, KeyFacts, ConstantTypes
  <2>4. clock - WindowSize <= x
    BY <1>2, <2>1, <2>2, ConstantTypes
  <2>5. Key(clock - WindowSize) \in Nat /\ Key(clock - WindowSize) <= Key(x)
    BY <1>2, <2>1, <2>4, KeyFacts, KeyMonotone
  <2> QED
    BY <1>1, <2>1, <2>3, <2>5 DEF Counted
<1>4. Kept(K)
  BY <1>3 DEF Kept, KeptAt
<1>5. Sum(events, Falling(K)) <= Sum(buckets, K)
  BY <1>1, <1>4 DEF IInv, NothingLost
<1>6. T \subseteq Falling(K) /\ K \subseteq Counted(t) /\ Counted(t) \in SUBSET Keys
  BY <1>3 DEF Falling, Counted
<1>7. IsFiniteSet(T) /\ IsFiniteSet(Counted(t)) /\ IsFiniteSet(Falling(K))
  BY <1>1, <1>6, AllFinite, FallingFinite
<1>8. /\ \A x \in Times : events[x] <= events[x]
      /\ \A k \in Keys : buckets[k] <= buckets[k]
  BY <1>2
<1>9. Falling(K) \in SUBSET Times
  BY DEF Falling
<1>10. Sum(events, T) <= Sum(events, Falling(K))
  BY <1>1, <1>2, <1>6, <1>7, <1>8, <1>9, SumGrows
<1>11. Sum(buckets, K) <= Sum(buckets, Counted(t))
  BY <1>1, <1>2, <1>6, <1>7, <1>8, SumGrows
<1>12. /\ Sum(events, T) \in Nat
       /\ Sum(buckets, Counted(t)) \in Nat
  BY <1>1, <1>2, <1>6, <1>7, UnitsFinite
<1>13. Sum(buckets, K) \in Nat /\ Sum(events, Falling(K)) \in Nat
  BY <1>1, SumsAreNat
<1> QED
  BY <1>5, <1>10, <1>11, <1>12, <1>13

LEMMA RecentStep ==
  ASSUME IInv, Next, NEW t \in Threads, pc[t] = "increment", pc'[t] = "idle"
  PROVE  \A k \in Keys :
           buckets'[k] > 0 => k * BucketSize > now[t] - WindowSize - BucketSize
<1>1. Increment(t)
  BY DEF IInv, TypeOK, Next, ReadTime, Increment, Count, CountSince, SumBuckets,
         Reset, Tick, Goto
<1>2. now[t] \in Nat /\ now[t] - WindowSize \in Nat
  BY ConstantTypes, TypeFacts DEF IInv, Readings
<1>3. /\ Key(now[t] - WindowSize) \in Nat
      /\ now[t] - WindowSize < Key(now[t] - WindowSize) * BucketSize + BucketSize
  BY <1>2, KeyFacts
<1> SUFFICES ASSUME NEW k \in Keys, buckets'[k] > 0
             PROVE  k * BucketSize > now[t] - WindowSize - BucketSize
  OBVIOUS
<1>4. ~ (k < Key(now[t] - WindowSize))
  BY <1>1 DEF Increment, Cleanup
<1>5. k \in Nat
  BY DEF Keys
<1>6. Key(now[t] - WindowSize) <= k
  BY <1>3, <1>4, <1>5
<1>7. /\ k * BucketSize \in Nat /\ Key(now[t] - WindowSize) * BucketSize \in Nat
      /\ k * BucketSize >= Key(now[t] - WindowSize) * BucketSize
  <2>1. \A a, b \in Nat : a <= b =>
          a * BucketSize \in Nat /\ b * BucketSize \in Nat /\ a * BucketSize <= b * BucketSize
    BY ConstantTypes, ProductsGrow
  <2> QED
    BY <1>3, <1>5, <1>6, <2>1
<1> DEFINE p == k * BucketSize
           q == Key(now[t] - WindowSize) * BucketSize
           c == now[t]
<1>8. p \in Nat /\ q \in Nat /\ p >= q /\ c \in Nat /\ c - WindowSize < q + BucketSize
  BY <1>2, <1>3, <1>7
<1> HIDE DEF p, q, c
<1>9. p > c - WindowSize - BucketSize
  BY <1>8, ConstantTypes
<1> QED
  BY <1>9 DEF p, c

(* The invariant: a choice of buckets holds no more than the events that   *)
(* fall into them, and no less while cleanup has no claim on them; no      *)
(* goroutine works with a time that has not been yet.                      *)
THEOREM InductiveInvariant == Spec => []IInv
BY InitIInv, NextIInv, PTL DEF Spec

(* A count has no event in it from before the window (CountSince), however *)
(* many goroutines increment, clean up and reset meanwhile.                *)
THEOREM WindowIsUpperBound == Spec => CountsOnlyWindow
<1>1. IInv /\ Next => \A t \in Threads :
        Returns(t) => total'[t] <= Sum(events, {x \in Times : since[t] < x /\ x <= clock})
  BY ReturnsCount, OnlyWindow DEF IInv
<1>2. UNCHANGED vars => \A t \in Threads : ~ Returns(t)
  BY DEF vars, Returns
<1> QED
  BY <1>1, <1>2, InductiveInvariant, PTL DEF Spec, CountsOnlyWindow

(* A count misses none of the events of the window but for a bucket, even  *)
(* when other goroutines delete buckets between its two readings of the    *)
(* clock and its sum.                                                      *)
THEOREM WindowIsLowerBound == Spec => CountsWholeWindow
<1>1. IInv /\ Next => \A t \in Threads :
        Returns(t) =>
          total'[t] >= Sum(events, {x \in Times :
                                      clock - WindowSize + BucketSize <= x /\ x < now[t]})
  BY ReturnsCount, WholeWindow DEF IInv
<1>2. UNCHANGED vars => \A t \in Threads : ~ Returns(t)
  BY DEF vars, Returns
<1> QED
  BY <1>1, <1>2, InductiveInvariant, PTL DEF Spec, CountsWholeWindow

(* After an Increment the map has no bucket that began more than a window  *)
(* and a bucket before the time of the event (cleanup).                    *)
THEOREM MapStaysSmall == Spec => BucketsAreRecent
<1>1. IInv /\ Next => \A t \in Threads :
        pc[t] = "increment" /\ pc'[t] = "idle" =>
          \A k \in Keys : buckets'[k] > 0 => k * BucketSize > now[t] - WindowSize - BucketSize
  BY RecentStep
<1>2. UNCHANGED vars => \A t \in Threads : ~ (pc[t] = "increment" /\ pc'[t] = "idle")
  BY DEF vars
<1> QED
  BY <1>1, <1>2, InductiveInvariant, PTL DEF Spec, BucketsAreRecent
============================================================================
