------------------------- MODULE TokenBucketProofs -------------------------
(***************************************************************************)
(* Proofs about the token bucket, for any number of goroutines and any     *)
(* arguments of NewTokenBucket.  IInv is inductive; RateBound and the type *)
(* invariant follow from it.  WindowIInv extends it to a window of time    *)
(* that begins after a pause; WindowBound follows.                         *)
(*                                                                         *)
(* The first part is about sums of finite sequences of naturals: changing  *)
(* one term changes the sum by as much, and no term exceeds the sum.       *)
(* These facts are inductive.  The induction goes through the              *)
(* least-element principle for sets of naturals (LeastNatural below)       *)
(* instead of an induction rule with a predicate parameter.                *)
(***************************************************************************)
EXTENDS BucketWindow, FiniteSetTheorems, TLAPS

(* s[k] is the sum of the first k terms of f, for every k up to n. *)
PrefixSums(s, f, n) ==
  /\ s \in [0 .. n -> Nat]
  /\ s[0] = 0
  /\ \A i \in 1 .. n : s[i] = s[i - 1] + f[i]

----------------------------------------------------------------------------
(* A set of naturals that is not empty has a least element.  The intervals *)
(* below its elements are finite sets, which strict inclusion well-orders. *)
LEMMA LeastNatural ==
  ASSUME NEW T, T \subseteq Nat, T # {}
  PROVE  \E m \in T : \A k \in T : m <= k
<1> DEFINE Below == {0 .. m : m \in T}
           R == StrictSubsetOrdering(Nat)
           F == FiniteSubsetsOf(Nat)
<1>1. IsWellFoundedOn(R, F)
  BY FS_StrictSubsetOrderingWellFounded
<1>2. Below \subseteq F
  <2>1. \A m \in T : IsFiniteSet(0 .. m) /\ 0 .. m \subseteq Nat
    BY FS_Interval
  <2> QED
    BY <2>1 DEF FiniteSubsetsOf
<1>3. Below # {}
  OBVIOUS
<1> HIDE DEF F, R, Below
<1>4. PICK I \in Below : \A J \in Below : <<J, I>> \notin R
  BY <1>1, <1>2, <1>3, WFMin
<1>5. PICK m \in T : I = 0 .. m
  BY <1>4 DEF Below
<1>6. ASSUME NEW k \in T, k < m
      PROVE  FALSE
  <2>1. 0 .. k \in Below
    BY <1>6 DEF Below
  <2>2. /\ 0 .. k \subseteq Nat
        /\ 0 .. m \subseteq Nat
        /\ 0 .. k \subseteq 0 .. m
        /\ m \in 0 .. m
        /\ m \notin 0 .. k
    BY <1>6
  <2>3. <<0 .. k, 0 .. m>> \in R
    BY <2>2 DEF R, StrictSubsetOrdering
  <2> QED
    BY <1>4, <1>5, <2>1, <2>3
<1> QED
  BY <1>6

(* Every sequence has prefix sums. *)
LEMMA PrefixSumsExist ==
  ASSUME NEW n \in Nat, NEW f \in [1 .. n -> Nat], NEW m \in 0 .. n
  PROVE  \E s : PrefixSums(s, f, m)
<1> DEFINE Bad == {k \in 0 .. n : ~ \E s : PrefixSums(s, f, k)}
<1> SUFFICES ASSUME Bad # {}
             PROVE  FALSE
  OBVIOUS
<1>1. PICK k \in Bad : \A j \in Bad : k <= j
  <2>1. Bad \subseteq Nat
    OBVIOUS
  <2> QED
    BY <2>1, LeastNatural
<1>2. CASE k = 0
  <2>1. PrefixSums([i \in 0 .. 0 |-> 0], f, 0)
    BY DEF PrefixSums
  <2> QED
    BY <1>1, <1>2, <2>1
<1>3. CASE k # 0
  <2>1. k \in 1 .. n /\ k - 1 \in 0 .. n /\ k - 1 \notin Bad
    BY <1>1, <1>3
  <2>2. PICK s : PrefixSums(s, f, k - 1)
    BY <2>1
  <2> DEFINE r == [i \in 0 .. k |-> IF i = k THEN s[k - 1] + f[k] ELSE s[i]]
  <2>3. /\ s \in [0 .. (k - 1) -> Nat]
        /\ s[0] = 0
        /\ \A i \in 1 .. (k - 1) : s[i] = s[i - 1] + f[i]
    BY <2>2 DEF PrefixSums
  <2>4. r \in [0 .. k -> Nat]
    <3>1. s[k - 1] + f[k] \in Nat
      BY <2>1, <2>3
    <3>2. \A i \in 0 .. k : i # k => s[i] \in Nat
      BY <2>1, <2>3
    <3> QED
      BY <3>1, <3>2
  <2>5. r[0] = 0
    BY <2>1, <2>3
  <2>6. ASSUME NEW i \in 1 .. k
        PROVE  r[i] = r[i - 1] + f[i]
    <3>1. i - 1 \in 0 .. k /\ i - 1 # k /\ r[i - 1] = s[i - 1]
      BY <2>1
    <3>2. CASE i = k
      BY <3>1, <3>2
    <3>3. CASE i # k
      <4>1. i \in 1 .. (k - 1) /\ r[i] = s[i]
        BY <2>1, <3>3
      <4> QED
        BY <2>3, <3>1, <4>1
    <3> QED
      BY <3>2, <3>3
  <2>7. PrefixSums(r, f, k)
    BY <2>4, <2>5, <2>6 DEF PrefixSums
  <2> QED
    BY <1>1, <2>7
<1> QED
  BY <1>2, <1>3

(* SumUpTo is the last prefix sum. *)
LEMMA SumIsPrefixSum ==
  ASSUME NEW n \in Nat, NEW f \in [1 .. n -> Nat]
  PROVE  \E s : PrefixSums(s, f, n) /\ SumUpTo(f, n) = s[n]
<1> DEFINE Rec(s) ==
      s = [i \in 0 .. n |-> IF i = 0 THEN 0 ELSE s[i - 1] + f[i]]
<1>1. PICK r : PrefixSums(r, f, n)
  BY PrefixSumsExist
<1>2. Rec(r)
  BY <1>1 DEF PrefixSums
<1> DEFINE c == CHOOSE s : Rec(s)
<1>3. Rec(c)
  BY <1>2
<1>4. SumUpTo(f, n) = c[n]
  BY DEF SumUpTo
<1> HIDE DEF c
<1>5. \A i \in 0 .. n : c[i] = r[i]
  <2> DEFINE Bad == {i \in 0 .. n : c[i] # r[i]}
  <2> SUFFICES ASSUME Bad # {}
               PROVE  FALSE
    OBVIOUS
  <2>1. PICK k \in Bad : \A j \in Bad : k <= j
    <3>1. Bad \subseteq Nat
      OBVIOUS
    <3> QED
      BY <3>1, LeastNatural
  <2>2. c[0] = 0 /\ r[0] = 0
    BY <1>2, <1>3
  <2>3. k \in 1 .. n /\ c[k - 1] = r[k - 1]
    BY <2>1, <2>2
  <2>4. c[k] = c[k - 1] + f[k] /\ r[k] = r[k - 1] + f[k]
    BY <1>2, <1>3, <2>3
  <2> QED
    BY <2>1, <2>3, <2>4
<1> QED
  BY <1>1, <1>4, <1>5

(* The sum of naturals is a natural. *)
LEMMA SumType ==
  ASSUME NEW n \in Nat, NEW f \in [1 .. n -> Nat]
  PROVE  SumUpTo(f, n) \in Nat
BY SumIsPrefixSum DEF PrefixSums

(* A sum of zeros is zero. *)
LEMMA SumOfZeros ==
  ASSUME NEW n \in Nat, NEW f \in [1 .. n -> Nat],
         \A i \in 1 .. n : f[i] = 0
  PROVE  SumUpTo(f, n) = 0
<1>1. PICK s : PrefixSums(s, f, n) /\ SumUpTo(f, n) = s[n]
  BY SumIsPrefixSum
<1> DEFINE Bad == {i \in 0 .. n : s[i] # 0}
<1> SUFFICES ASSUME Bad # {}
             PROVE  FALSE
  BY <1>1
<1>2. PICK k \in Bad : \A j \in Bad : k <= j
  <2>1. Bad \subseteq Nat
    OBVIOUS
  <2> QED
    BY <2>1, LeastNatural
<1>3. k \in 1 .. n /\ s[k - 1] = 0
  BY <1>1, <1>2 DEF PrefixSums
<1> QED
  BY <1>1, <1>2, <1>3 DEF PrefixSums

(* Changing one term changes the sum by as much. *)
LEMMA SumUpdate ==
  ASSUME NEW n \in Nat, NEW f \in [1 .. n -> Nat], NEW g \in [1 .. n -> Nat],
         NEW t \in 1 .. n,
         \A i \in 1 .. n : i # t => g[i] = f[i]
  PROVE  SumUpTo(g, n) = SumUpTo(f, n) - f[t] + g[t]
<1>1. PICK s : PrefixSums(s, f, n) /\ SumUpTo(f, n) = s[n]
  BY SumIsPrefixSum
<1>2. PICK r : PrefixSums(r, g, n) /\ SumUpTo(g, n) = r[n]
  BY SumIsPrefixSum
<1> DEFINE Shift(i) == IF i >= t THEN g[t] - f[t] ELSE 0
           Bad == {i \in 0 .. n : r[i] # s[i] + Shift(i)}
<1>3. /\ s \in [0 .. n -> Nat] /\ r \in [0 .. n -> Nat]
      /\ s[0] = 0 /\ r[0] = 0
      /\ \A i \in 1 .. n : s[i] = s[i - 1] + f[i] /\ r[i] = r[i - 1] + g[i]
  BY <1>1, <1>2 DEF PrefixSums
<1>4. Bad = {}
  <2> SUFFICES ASSUME Bad # {}
               PROVE  FALSE
    OBVIOUS
  <2>1. PICK k \in Bad : \A j \in Bad : k <= j
    <3>1. Bad \subseteq Nat
      OBVIOUS
    <3> QED
      BY <3>1, LeastNatural
  <2>2. /\ k \in 0 .. n
        /\ r[k] # s[k] + Shift(k)
        /\ \A j \in 0 .. n : j < k => r[j] = s[j] + Shift(j)
    BY <2>1
  <2>3. k \in 1 .. n /\ k - 1 \in 0 .. n /\ k - 1 < k
    BY <1>3, <2>2
  <2>4. r[k - 1] = s[k - 1] + Shift(k - 1)
    BY <2>2, <2>3
  <2>5. s[k] = s[k - 1] + f[k] /\ r[k] = r[k - 1] + g[k]
    BY <1>3, <2>3
  <2>6. /\ s[k - 1] \in Nat /\ r[k - 1] \in Nat
        /\ f[k] \in Nat /\ g[k] \in Nat /\ f[t] \in Nat /\ g[t] \in Nat
    BY <1>3, <2>3
  <2>7. CASE k = t
    BY <2>2, <2>4, <2>5, <2>6, <2>7
  <2>8. CASE k # t
    <3>1. g[k] = f[k] /\ Shift(k) = Shift(k - 1)
      BY <2>3, <2>8
    <3> HIDE DEF Shift
    <3>2. Shift(k - 1) \in Int
      BY <2>6 DEF Shift
    <3> QED
      BY <2>2, <2>4, <2>5, <2>6, <3>1, <3>2
  <2> QED
    BY <2>7, <2>8
<1>5. r[n] = s[n] + Shift(n) /\ Shift(n) = g[t] - f[t]
  BY <1>4
<1>6. s[n] \in Nat /\ f[t] \in Nat /\ g[t] \in Nat
  BY <1>3
<1> HIDE DEF Shift
<1> QED
  BY <1>1, <1>2, <1>5, <1>6

(* No term exceeds the sum. *)
LEMMA TermAtMostSum ==
  ASSUME NEW n \in Nat, NEW f \in [1 .. n -> Nat], NEW t \in 1 .. n
  PROVE  f[t] <= SumUpTo(f, n)
<1> DEFINE g == [f EXCEPT ![t] = 0]
<1>1. g \in [1 .. n -> Nat] /\ g[t] = 0 /\ \A i \in 1 .. n : i # t => g[i] = f[i]
  OBVIOUS
<1> HIDE DEF g
<1>2. SumUpTo(g, n) = SumUpTo(f, n) - f[t] + g[t]
  BY <1>1, SumUpdate
<1>3. SumUpTo(g, n) \in Nat /\ SumUpTo(f, n) \in Nat
  BY <1>1, SumType
<1> QED
  BY <1>1, <1>2, <1>3

----------------------------------------------------------------------------
(* The bucket *)

LEMMA ConstantTypes ==
  /\ N \in Nat
  /\ Capacity \in Nat \ {0}
  /\ RefillRate \in Nat \ {0}
  /\ NanosPerSec \in Nat \ {0}
  /\ MaxInt64 \in Nat
  /\ MaxTime \in Nat
  /\ StartTime \in 0 .. MaxTime
BY BucketAssumption DEF Capacity, RefillRate

(* Wrapping around never makes a natural larger. *)
LEMMA Int64AtMost ==
  ASSUME NEW x \in Nat
  PROVE  Int64(x) \in Int /\ Int64(x) <= x
<1>1. CASE x <= MaxInt64
  BY <1>1 DEF Int64
<1>2. CASE ~ (x <= MaxInt64)
  <2> DEFINE range == 2 * (MaxInt64 + 1)
             y == x + MaxInt64 + 1
  <2>1. range \in Nat /\ range > 0 /\ y \in Nat
    BY ConstantTypes
  <2>2. Int64(x) = (y % range) - (MaxInt64 + 1)
    BY <1>2 DEF Int64
  <2> HIDE DEF range, y
  <2>3. y % range \in Nat /\ y % range <= y
    BY <2>1
  <2> QED
    BY <2>2, <2>3, ConstantTypes DEF y
<1> QED
  BY <1>1, <1>2

(* The tokens computed for an interval are worth no more than it. *)
LEMMA NewTokensEarned ==
  ASSUME NEW elapsed \in Nat
  PROVE  /\ NewTokens(elapsed) \in Int
         /\ NewTokens(elapsed) * NanosPerSec <= RefillRate * elapsed
<1> DEFINE product == elapsed * RefillRate
           p == Int64(product)
<1>1. product \in Nat /\ product = RefillRate * elapsed
  BY ConstantTypes
<1> HIDE DEF product
<1>2. p \in Int /\ p <= product
  BY <1>1, Int64AtMost
<1>3. NewTokens(elapsed) = p \div NanosPerSec
  BY DEF NewTokens, product
<1> HIDE DEF p
<1> DEFINE q == p \div NanosPerSec
<1>4. q \in Int /\ q * NanosPerSec \in Int /\ q * NanosPerSec <= p
  BY <1>2, ConstantTypes
<1>5. NewTokens(elapsed) = q
  BY <1>3
<1> HIDE DEF q
<1>6. q * NanosPerSec <= product
  BY <1>1, <1>2, <1>4
<1> QED
  BY <1>1, <1>4, <1>5, <1>6

LEMMA TimesMonotone ==
  ASSUME NEW a \in Nat, NEW b \in Nat, NEW c \in Nat, a <= b
  PROVE  a * c <= b * c
OBVIOUS

LEMMA TimesMonotoneInt ==
  ASSUME NEW a \in Int, NEW b \in Int, NEW c \in Nat, a <= b
  PROVE  a * c <= b * c /\ c * a <= c * b
<1>1. b - a \in Nat
  OBVIOUS
<1>2. (b - a) * c \in Nat
  BY <1>1
<1> QED
  BY <1>2

(* Closing the interval from l to m pays for the f tokens it is worth. *)
LEMMA CloseInterval ==
  ASSUME NEW total \in Nat, NEW f \in Nat, NEW n \in Nat, NEW c \in Nat,
         NEW r \in Nat, NEW l \in Int, NEW m \in Int, NEW z \in Int,
         total * n <= c * n + r * (l - z),
         f * n <= r * (m - l)
  PROVE  (total + f) * n <= c * n + r * (m - z)
<1>1. (total + f) * n = total * n + f * n
  OBVIOUS
<1>2. r * (m - z) = r * (l - z) + r * (m - l)
  OBVIOUS
<1>3. /\ total * n \in Int /\ f * n \in Int /\ c * n \in Int
      /\ r * (l - z) \in Int /\ r * (m - l) \in Int
  OBVIOUS
<1> QED
  BY <1>1, <1>2, <1>3

LEMMA CappedAtMost ==
  ASSUME NEW count \in Nat
  PROVE  Capped(count) \in 0 .. Capacity /\ Capped(count) <= count
BY ConstantTypes DEF Capped

LEMMA PendingType ==
  ASSUME TypeOK
  PROVE  Pending \in [1 .. N -> Nat] /\ SumUpTo(Pending, N) \in Nat
<1>1. Pending \in [1 .. N -> Nat]
  BY DEF TypeOK, Pending, Threads
<1> QED
  BY <1>1, SumType, ConstantTypes

----------------------------------------------------------------------------
LEMMA InitIInv == Init => IInv
<1> SUFFICES ASSUME Init
             PROVE  IInv
  OBVIOUS
<1>1. TypeOK
  BY ConstantTypes DEF Init, TypeOK, Labels
<1>2. TimesOrdered
  BY ConstantTypes DEF Init, TimesOrdered
<1>3. FreshIsEarned
  BY DEF Init, FreshIsEarned
<1>4. SumUpTo(Pending, N) = 0
  <2>1. \A i \in 1 .. N : Pending[i] = 0
    BY DEF Init, Pending, Threads
  <2> QED
    BY <1>1, <2>1, PendingType, SumOfZeros, ConstantTypes
<1>5. Accounting
  BY <1>4, ConstantTypes DEF Init, Accounting
<1>6. TakesSeenToken
  BY DEF Init, TakesSeenToken
<1> QED
  BY <1>1, <1>2, <1>3, <1>5, <1>6 DEF IInv

----------------------------------------------------------------------------
(* A step of goroutine t changes the sum of the pending refills by the     *)
(* change of its own share.                                                *)
LEMMA PendingStep ==
  ASSUME TypeOK, TypeOK', NEW t \in Threads,
         \A u \in Threads : u # t => pc'[u] = pc[u] /\ fresh'[u] = fresh[u]
  PROVE  SumUpTo(Pending, N)' = SumUpTo(Pending, N) - Pending[t] + Pending'[t]
<1>1. Pending \in [1 .. N -> Nat] /\ Pending' \in [1 .. N -> Nat]
  BY DEF TypeOK, Pending, Threads
<1>2. t \in 1 .. N /\ \A u \in 1 .. N : u # t => Pending'[u] = Pending[u]
  BY DEF Pending, Threads
<1>3. SumUpTo(Pending', N) = SumUpTo(Pending, N) - Pending[t] + Pending'[t]
  BY <1>1, <1>2, SumUpdate, ConstantTypes
<1> QED
  BY <1>3

(* The account stays balanced as long as nothing is added to what it       *)
(* covers.                                                                 *)
LEMMA AccountKept ==
  ASSUME TypeOK, TypeOK', Accounting, lastRefill' = lastRefill,
         granted' + tokens' + SumUpTo(Pending, N)'
           <= granted + tokens + SumUpTo(Pending, N)
  PROVE  Accounting'
<1> DEFINE total == granted + tokens + SumUpTo(Pending, N)
           limit == Capacity * NanosPerSec + RefillRate * (lastRefill - StartTime)
<1>1. total \in Nat /\ total' \in Nat
  <2>1. SumUpTo(Pending, N) \in Nat
    BY PendingType
  <2>2. SumUpTo(Pending', N) \in Nat
    <3>1. Pending' \in [1 .. N -> Nat]
      BY DEF TypeOK, Pending, Threads
    <3> QED
      BY <3>1, SumType, ConstantTypes
  <2> QED
    BY <2>1, <2>2, ConstantTypes DEF TypeOK
<1>2. total' <= total
  OBVIOUS
<1>3. total * NanosPerSec <= limit
  BY DEF Accounting
<1>4. limit \in Int /\ limit' = limit
  BY ConstantTypes DEF TypeOK
<1> HIDE DEF total, limit
<1>5. total' * NanosPerSec <= total * NanosPerSec
  BY <1>1, <1>2, ConstantTypes, TimesMonotone
<1>6. total' * NanosPerSec \in Int /\ total * NanosPerSec \in Int
  BY <1>1, ConstantTypes
<1>7. total' * NanosPerSec <= limit
  BY <1>3, <1>4, <1>5, <1>6
<1> QED
  BY <1>4, <1>7 DEF Accounting, total, limit

----------------------------------------------------------------------------
(* Each step preserves the type invariant. *)
LEMMA TypeStep == TypeOK /\ TakesSeenToken /\ [Next]_vars => TypeOK'
<1> SUFFICES ASSUME TypeOK, TakesSeenToken, [Next]_vars
             PROVE  TypeOK'
  OBVIOUS
<1> USE ConstantTypes
<1>1. ASSUME NEW t \in Threads, ReadClock(t)
      PROVE  TypeOK'
  BY <1>1 DEF TypeOK, ReadClock, Goto, Labels, shared
<1>2. ASSUME NEW t \in Threads, LoadLastRefill(t)
      PROVE  TypeOK'
  <2>1. ASSUME now[t] - lastRefill > 0
        PROVE  NewTokens(now[t] - lastRefill) \in Int
    BY <2>1, NewTokensEarned DEF TypeOK
  <2>2. \/ /\ pc' = [pc EXCEPT ![t] = "load"]
           /\ UNCHANGED <<last, fresh>>
        \/ /\ pc' = [pc EXCEPT ![t] = "casLast"]
           /\ last' = [last EXCEPT ![t] = lastRefill]
           /\ \E x \in Nat : fresh' = [fresh EXCEPT ![t] = x]
    BY <1>2, <2>1 DEF LoadLastRefill, Goto
  <2>3. UNCHANGED <<clock, tokens, lastRefill, now, cur, granted, latest>>
    BY <1>2 DEF LoadLastRefill, shared
  <2> QED
    BY <2>2, <2>3 DEF TypeOK, Labels
<1>3. ASSUME NEW t \in Threads, CasLastRefill(t)
      PROVE  TypeOK'
  BY <1>3 DEF TypeOK, CasLastRefill, Goto, Labels, locals
<1>4. ASSUME NEW t \in Threads, LoadForAdd(t)
      PROVE  TypeOK'
  BY <1>4 DEF TypeOK, LoadForAdd, Goto, Labels, shared
<1>5. ASSUME NEW t \in Threads, CasAdd(t)
      PROVE  TypeOK'
  <2>1. Capped(cur[t] + fresh[t]) \in 0 .. Capacity
    BY CappedAtMost DEF TypeOK
  <2> QED
    BY <1>5, <2>1 DEF TypeOK, CasAdd, Goto, Labels, locals
<1>6. ASSUME NEW t \in Threads, LoadTokens(t)
      PROVE  TypeOK'
  BY <1>6 DEF TypeOK, LoadTokens, Return, Goto, Labels, shared
<1>7. ASSUME NEW t \in Threads, CasTokens(t)
      PROVE  TypeOK'
  <2>1. CASE tokens = cur[t]
    <3>1. tokens' \in 0 .. Capacity
      BY <1>7, <2>1 DEF TypeOK, CasTokens, TakesSeenToken
    <3> QED
      BY <1>7, <2>1, <3>1 DEF TypeOK, CasTokens, Return, Goto, Labels
  <2>2. CASE tokens # cur[t]
    BY <1>7, <2>2 DEF TypeOK, CasTokens, Goto, Labels, locals
  <2> QED
    BY <2>1, <2>2
<1>8. ASSUME NEW t \in Threads, ReturnAvailable(t)
      PROVE  TypeOK'
  BY <1>8 DEF TypeOK, ReturnAvailable, Return, Goto, Labels, shared
<1>9. CASE Tick
  BY <1>9 DEF TypeOK, Tick, shared, locals
<1>10. CASE ClockStepsBack
  BY <1>10 DEF TypeOK, ClockStepsBack, shared, locals
<1>11. CASE UNCHANGED vars
  BY <1>11 DEF TypeOK, vars
<1> QED
  BY <1>1, <1>2, <1>3, <1>4, <1>5, <1>6, <1>7, <1>8, <1>9, <1>10, <1>11
     DEF Next, Step

(* Each step preserves what is known of the clock readings. *)
LEMMA TimesStep ==
  TypeOK /\ TimesOrdered /\ FreshIsEarned /\ [Next]_vars => TimesOrdered'
<1> SUFFICES ASSUME TypeOK, TimesOrdered, FreshIsEarned, [Next]_vars
             PROVE  TimesOrdered'
  OBVIOUS
<1> USE ConstantTypes DEF TypeOK, TimesOrdered
<1>1. ASSUME NEW t \in Threads, ReadClock(t)
      PROVE  TimesOrdered'
  BY <1>1 DEF ReadClock, shared
<1>2. ASSUME NEW t \in Threads, LoadLastRefill(t) \/ LoadForAdd(t) \/ CasAdd(t)
      PROVE  TimesOrdered'
  BY <1>2 DEF LoadLastRefill, LoadForAdd, CasAdd, shared, locals
<1>3. ASSUME NEW t \in Threads, CasLastRefill(t)
      PROVE  TimesOrdered'
  <2>1. UNCHANGED <<clock, latest, now>> /\ lastRefill' \in {lastRefill, now[t]}
    BY <1>3 DEF CasLastRefill, locals
  <2>2. lastRefill' = now[t] => StartTime <= now[t]
    BY <1>3 DEF CasLastRefill, FreshIsEarned
  <2> QED
    BY <2>1, <2>2
<1>4. ASSUME NEW t \in Threads, LoadTokens(t) \/ CasTokens(t) \/ ReturnAvailable(t)
      PROVE  TimesOrdered'
  <2>1. /\ UNCHANGED <<clock, latest, lastRefill>>
        /\ now' = now \/ now' = [now EXCEPT ![t] = 0]
    BY <1>4 DEF LoadTokens, CasTokens, ReturnAvailable, Return, shared, locals
  <2> QED
    BY <2>1
<1>5. CASE Tick
  BY <1>5 DEF Tick, shared, locals
<1>6. CASE ClockStepsBack
  BY <1>6 DEF ClockStepsBack, shared, locals
<1>7. CASE UNCHANGED vars
  BY <1>7 DEF vars
<1> QED
  BY <1>1, <1>2, <1>3, <1>4, <1>5, <1>6, <1>7 DEF Next, Step

(* A goroutine enters casLast only from LoadLastRefill, with what the      *)
(* interval it has seen is worth.                                          *)
LEMMA FreshStep == TypeOK /\ FreshIsEarned /\ [Next]_vars => FreshIsEarned'
<1> SUFFICES ASSUME TypeOK, FreshIsEarned, [Next]_vars,
                    NEW u \in Threads, pc'[u] = "casLast"
             PROVE  /\ last'[u] < now'[u]
                    /\ fresh'[u] * NanosPerSec <= RefillRate * (now'[u] - last'[u])
  BY DEF FreshIsEarned
<1>1. CASE \E t \in Threads : LoadLastRefill(t) /\ pc'[t] = "casLast" /\ t = u
  <2> DEFINE elapsed == now[u] - lastRefill
  <2>1. /\ elapsed \in Nat /\ elapsed > 0
        /\ last'[u] = lastRefill
        /\ fresh'[u] = NewTokens(elapsed)
        /\ now'[u] = now[u]
    BY <1>1 DEF LoadLastRefill, Goto, TypeOK
  <2>2. lastRefill \in Int /\ now[u] \in Int
    BY ConstantTypes DEF TypeOK
  <2>3. NewTokens(elapsed) * NanosPerSec <= RefillRate * elapsed
    BY <2>1, NewTokensEarned
  <2> QED
    BY <2>1, <2>2, <2>3
<1>2. CASE ~ \E t \in Threads : LoadLastRefill(t) /\ pc'[t] = "casLast" /\ t = u
  <2>1. /\ pc[u] = "casLast"
        /\ last'[u] = last[u] /\ now'[u] = now[u] /\ fresh'[u] = fresh[u]
    <3>1. ASSUME NEW t \in Threads, Step(t)
          PROVE  <2>1!1 /\ <2>1!2
      BY <1>2, <3>1 DEF TypeOK, Step, ReadClock, LoadLastRefill, CasLastRefill,
         LoadForAdd, CasAdd, LoadTokens, CasTokens, ReturnAvailable, Return,
         Goto, locals
    <3>2. CASE Tick \/ ClockStepsBack \/ UNCHANGED vars
      BY <3>2 DEF Tick, ClockStepsBack, vars, locals
    <3> QED
      BY <3>1, <3>2 DEF Next
  <2> QED
    BY <2>1 DEF FreshIsEarned
<1> QED
  BY <1>1, <1>2

LEMMA SeenStep == TypeOK /\ TakesSeenToken /\ [Next]_vars => TakesSeenToken'
<1> SUFFICES ASSUME TypeOK, TakesSeenToken, [Next]_vars
             PROVE  TakesSeenToken'
  OBVIOUS
<1> USE DEF TypeOK, TakesSeenToken
<1>1. ASSUME NEW t \in Threads, Step(t)
      PROVE  TakesSeenToken'
  BY <1>1, ConstantTypes DEF Step, ReadClock, LoadLastRefill, CasLastRefill,
     LoadForAdd, CasAdd, LoadTokens, CasTokens, ReturnAvailable, Return, Goto,
     locals
<1>2. CASE Tick \/ ClockStepsBack \/ UNCHANGED vars
  BY <1>2 DEF Tick, ClockStepsBack, vars, locals
<1> QED
  BY <1>1, <1>2 DEF Next

(* Each step keeps the account balanced. *)
LEMMA AccountingStep == IInv /\ TypeOK' /\ [Next]_vars => Accounting'
<1> SUFFICES ASSUME IInv, TypeOK', [Next]_vars
             PROVE  Accounting'
  OBVIOUS
<1> DEFINE S == SumUpTo(Pending, N)
<1>1. TypeOK /\ FreshIsEarned /\ TakesSeenToken /\ Accounting
  BY DEF IInv
<1>2. S \in Nat /\ tokens \in Nat /\ granted \in Nat /\ lastRefill \in Nat
  BY <1>1, PendingType, ConstantTypes DEF TypeOK
<1>3. ASSUME NEW t \in Threads,
             \A u \in Threads : u # t => pc'[u] = pc[u] /\ fresh'[u] = fresh[u]
      PROVE  S' = S - Pending[t] + Pending'[t]
  BY <1>1, <1>3, PendingStep
(* Steps that neither move the account nor begin or end a refill. *)
<1>4. ASSUME NEW t \in Threads,
             \/ ReadClock(t) \/ LoadLastRefill(t) \/ LoadForAdd(t)
             \/ LoadTokens(t) \/ ReturnAvailable(t)
      PROVE  Accounting'
  <2>1. UNCHANGED <<tokens, granted, lastRefill>>
    BY <1>4 DEF ReadClock, LoadLastRefill, LoadForAdd, LoadTokens,
       ReturnAvailable, shared
  <2>2. /\ \A u \in Threads : u # t => pc'[u] = pc[u] /\ fresh'[u] = fresh[u]
        /\ Pending'[t] = Pending[t]
    BY <1>1, <1>4 DEF TypeOK, Pending, ReadClock, LoadLastRefill, LoadForAdd,
       LoadTokens, ReturnAvailable, Return, Goto, shared
  <2>3. S' = S
    <3>1. Pending[t] \in Int
      BY <1>1 DEF TypeOK, Pending
    <3> QED
      BY <1>2, <1>3, <2>2, <3>1
  <2> QED
    BY <1>1, <1>2, <2>1, <2>3, AccountKept
<1>5. ASSUME NEW t \in Threads, CasLastRefill(t)
      PROVE  Accounting'
  <2>1. /\ UNCHANGED <<tokens, granted>>
        /\ \A u \in Threads : u # t => pc'[u] = pc[u] /\ fresh'[u] = fresh[u]
        /\ Pending[t] = 0
    BY <1>1, <1>5 DEF TypeOK, Pending, CasLastRefill, Goto, locals
  <2>2. CASE lastRefill = last[t]
    <3>1. lastRefill' = now[t] /\ Pending'[t] = fresh[t]
      BY <1>1, <1>5, <2>2 DEF TypeOK, Pending, CasLastRefill, Goto, locals
    <3>2. /\ fresh[t] \in Nat /\ now[t] \in Int
          /\ fresh[t] * NanosPerSec <= RefillRate * (now[t] - lastRefill)
      BY <1>1, <1>5, <2>2, ConstantTypes DEF CasLastRefill, FreshIsEarned, TypeOK
    <3>3. S' = S + fresh[t]
      BY <1>2, <1>3, <2>1, <3>1, <3>2
    <3> DEFINE total == granted + tokens + S
    <3>4. total \in Nat /\ total' = total + fresh[t]
      BY <1>2, <2>1, <3>2, <3>3
    <3>5. total * NanosPerSec
            <= Capacity * NanosPerSec + RefillRate * (lastRefill - StartTime)
      BY <1>1 DEF Accounting
    <3> HIDE DEF total
    <3>6. (total + fresh[t]) * NanosPerSec
            <= Capacity * NanosPerSec + RefillRate * (now[t] - StartTime)
      BY <1>2, <3>2, <3>4, <3>5, ConstantTypes, CloseInterval
    <3> QED
      BY <3>1, <3>4, <3>6 DEF Accounting, total
  <2>3. CASE lastRefill # last[t]
    <3>1. lastRefill' = lastRefill /\ Pending'[t] = 0
      BY <1>1, <1>5, <2>3 DEF TypeOK, Pending, CasLastRefill, Goto
    <3> QED
      BY <1>1, <1>2, <1>3, <2>1, <3>1, AccountKept
  <2> QED
    BY <2>2, <2>3
<1>6. ASSUME NEW t \in Threads, CasAdd(t)
      PROVE  Accounting'
  <2>1. /\ UNCHANGED <<granted, lastRefill>>
        /\ \A u \in Threads : u # t => pc'[u] = pc[u] /\ fresh'[u] = fresh[u]
        /\ Pending[t] = fresh[t]
        /\ fresh[t] \in Nat
    BY <1>1, <1>6 DEF TypeOK, Pending, CasAdd, Goto, locals
  <2>2. CASE tokens = cur[t]
    <3>1. tokens' = Capped(tokens + fresh[t]) /\ Pending'[t] = 0
      BY <1>1, <1>6, <2>2 DEF TypeOK, Pending, CasAdd, Goto
    <3>2. tokens' \in Nat /\ tokens' <= tokens + fresh[t]
      BY <1>2, <2>1, <3>1, CappedAtMost, ConstantTypes
    <3>3. S' = S - fresh[t]
      BY <1>2, <1>3, <2>1, <3>1
    <3> QED
      BY <1>1, <1>2, <2>1, <3>2, <3>3, AccountKept
  <2>3. CASE tokens # cur[t]
    <3>1. tokens' = tokens /\ Pending'[t] = fresh[t]
      BY <1>1, <1>6, <2>3 DEF TypeOK, Pending, CasAdd, Goto, locals
    <3>2. S' = S
      BY <1>2, <1>3, <2>1, <3>1
    <3> QED
      BY <1>1, <1>2, <2>1, <3>1, <3>2, AccountKept
  <2> QED
    BY <2>2, <2>3
<1>7. ASSUME NEW t \in Threads, CasTokens(t)
      PROVE  Accounting'
  <2>1. /\ lastRefill' = lastRefill
        /\ \A u \in Threads : u # t => pc'[u] = pc[u] /\ fresh'[u] = fresh[u]
        /\ Pending[t] = 0 /\ Pending'[t] = 0
    BY <1>1, <1>7 DEF TypeOK, Pending, CasTokens, Return, Goto, locals
  <2>2. S' = S
    BY <1>2, <1>3, <2>1
  <2>3. \/ granted' = granted /\ tokens' = tokens
        \/ granted' = granted + 1 /\ tokens' = tokens - 1
    BY <1>7 DEF CasTokens
  <2>4. granted' + tokens' + S' = granted + tokens + S
    <3>1. CASE granted' = granted /\ tokens' = tokens
      BY <2>2, <3>1
    <3>2. CASE granted' = granted + 1 /\ tokens' = tokens - 1
      <4>1. (granted + 1) + (tokens - 1) + S = granted + tokens + S
        BY <1>2
      <4> QED
        BY <2>2, <3>2, <4>1
    <3> QED
      BY <2>3, <3>1, <3>2
  <2>5. granted + tokens + S \in Nat
    BY <1>2
  <2> QED
    BY <1>1, <2>1, <2>4, <2>5, AccountKept
<1>8. CASE Tick \/ ClockStepsBack \/ UNCHANGED vars
  <2>1. UNCHANGED <<tokens, granted, lastRefill, pc, fresh>>
    BY <1>8 DEF Tick, ClockStepsBack, vars, shared, locals
  <2>2. Pending' = Pending
    BY <2>1 DEF Pending
  <2>3. SumUpTo(Pending', N) = SumUpTo(Pending, N)
    BY <2>2
  <2> QED
    BY <1>1, <1>2, <2>1, <2>3, AccountKept
<1> QED
  BY <1>4, <1>5, <1>6, <1>7, <1>8 DEF Next, Step

----------------------------------------------------------------------------
LEMMA StepIInv == IInv /\ [Next]_vars => IInv'
BY TypeStep, TimesStep, FreshStep, SeenStep, AccountingStep DEF IInv

(* The interval accounting holds in every reachable state of the bucket.   *)
THEOREM InductiveInvariant == Spec => []IInv
BY InitIInv, StepIInv, PTL DEF Spec

(* The words shared by the goroutines and their locals keep their ranges:  *)
(* the count stays between 0 and the capacity.                             *)
THEOREM TypeCorrect == Spec => []TypeOK
<1>1. IInv => TypeOK
  BY DEF IInv
<1> QED
  BY <1>1, InductiveInvariant, PTL

(* For any number of goroutines, any arguments and any behaviour of the    *)
(* clock, TryAcquire hands out at most a full bucket plus the refill rate  *)
(* times the time passed.                                                  *)
THEOREM RateLimited == Spec => []RateBound
<1>1. ASSUME IInv
      PROVE  RateBound
  <2> DEFINE S == SumUpTo(Pending, N)
             total == granted + tokens + S
  <2>1. TypeOK /\ TimesOrdered /\ Accounting
    BY <1>1 DEF IInv
  <2>2. /\ granted \in Nat /\ total \in Nat /\ granted <= total
        /\ lastRefill \in Int /\ latest \in Int /\ lastRefill <= latest
    BY <2>1, PendingType, ConstantTypes DEF TypeOK, TimesOrdered
  <2>3. total * NanosPerSec
          <= Capacity * NanosPerSec + RefillRate * (lastRefill - StartTime)
    BY <2>1 DEF Accounting
  <2> HIDE DEF S, total
  <2>4. granted * NanosPerSec <= total * NanosPerSec
    BY <2>2, TimesMonotone, ConstantTypes
  <2>5. RefillRate * (lastRefill - StartTime) <= RefillRate * (latest - StartTime)
    BY <2>2, ConstantTypes
  <2>6. /\ granted * NanosPerSec \in Int /\ total * NanosPerSec \in Int
        /\ Capacity * NanosPerSec \in Int
        /\ RefillRate * (lastRefill - StartTime) \in Int
        /\ RefillRate * (latest - StartTime) \in Int
    BY <2>2, ConstantTypes
  <2> QED
    BY <2>3, <2>4, <2>5, <2>6 DEF RateBound
<1> QED
  BY <1>1, InductiveInvariant, PTL

(* The instant up to which refills are credited never goes back, although  *)
(* the wall clock may.                                                     *)
THEOREM LastRefillAdvances == Spec => LastRefillMonotone
<1>1. ASSUME IInv, [Next]_vars
      PROVE  lastRefill' >= lastRefill
  <2>1. lastRefill \in Int
    BY <1>1, ConstantTypes DEF IInv, TypeOK
  <2>2. CASE lastRefill' = lastRefill
    BY <2>1, <2>2
  <2>3. CASE lastRefill' # lastRefill
    <3>1. PICK t \in Threads : CasLastRefill(t) /\ lastRefill = last[t] /\ lastRefill' = now[t]
      BY <1>1, <2>3 DEF Next, Step, ReadClock, LoadLastRefill, CasLastRefill,
         LoadForAdd, CasAdd, LoadTokens, CasTokens, ReturnAvailable, Tick,
         ClockStepsBack, vars, shared
    <3>2. last[t] < now[t] /\ now[t] \in Int
      BY <1>1, <3>1, ConstantTypes DEF IInv, TypeOK, FreshIsEarned, CasLastRefill
    <3> QED
      BY <2>1, <3>1, <3>2
  <2> QED
    BY <2>2, <2>3
<1>2. IInv /\ [Next]_vars => [lastRefill' >= lastRefill]_vars
  BY <1>1
<1> QED
  BY <1>2, InductiveInvariant, PTL DEF Spec, LastRefillMonotone

----------------------------------------------------------------------------
(* A goroutine about to close an interval credits more than half of it.    *)
HalfCredited ==
  \A t \in Threads :
    pc[t] = "casLast" => 2 * fresh[t] * NanosPerSec > RefillRate * (now[t] - last[t])

(* A quotient that is not zero is more than half of the exact one. *)
LEMMA QuotientHalf ==
  ASSUME NEW p \in Nat, NEW n \in Nat \ {0}, p \div n > 0
  PROVE  p \div n \in Nat /\ 2 * (p \div n) * n > p
<1> DEFINE q == p \div n
<1>1. q \in Nat /\ q >= 1
  OBVIOUS
<1>2. p = n * q + (p % n) /\ p % n \in 0 .. n - 1
  OBVIOUS
<1> DEFINE r == p % n
<1>3. r \in Int /\ r < n /\ p = n * q + r
  BY <1>2
<1> HIDE DEF q, r
<1>4. n * q >= n
  <2>1. n * (q - 1) \in Nat
    BY <1>1
  <2> QED
    BY <1>1, <2>1
<1>5. n * q \in Int /\ 2 * q * n = n * q + n * q
  BY <1>1
<1>6. 2 * q * n > p
  BY <1>3, <1>4, <1>5
<1> QED
  BY <1>1, <1>6 DEF q

(* The product of maybeRefill does not overflow as long as the bucket      *)
(* lives.                                                                  *)
LEMMA NewTokensHalf ==
  ASSUME RefillRate * (MaxTime - StartTime) <= MaxInt64,
         NEW elapsed \in 0 .. MaxTime - StartTime, NewTokens(elapsed) > 0
  PROVE  2 * NewTokens(elapsed) * NanosPerSec > RefillRate * elapsed
<1> DEFINE p == elapsed * RefillRate
<1>1. p \in Nat /\ p = RefillRate * elapsed
  BY ConstantTypes
<1>2. RefillRate * elapsed <= RefillRate * (MaxTime - StartTime)
  BY TimesMonotoneInt, ConstantTypes
<1>3. NewTokens(elapsed) = p \div NanosPerSec
  <2>1. p <= MaxInt64
    <3>1. RefillRate * (MaxTime - StartTime) \in Int /\ MaxInt64 \in Int
      BY ConstantTypes
    <3> HIDE DEF p
    <3> QED
      BY <1>1, <1>2, <3>1
  <2> QED
    BY <2>1 DEF NewTokens, Int64
<1> HIDE DEF p
<1> QED
  BY <1>1, <1>3, QuotientHalf, ConstantTypes

LEMMA HalfStep ==
  ASSUME RefillRate * (MaxTime - StartTime) <= MaxInt64,
         IInv, HalfCredited, [Next]_vars
  PROVE  HalfCredited'
<1> SUFFICES ASSUME NEW u \in Threads, pc'[u] = "casLast"
             PROVE  2 * fresh'[u] * NanosPerSec > RefillRate * (now'[u] - last'[u])
  BY DEF HalfCredited
<1>a. TypeOK /\ TimesOrdered
  BY DEF IInv
<1>1. CASE LoadLastRefill(u)
  <2> DEFINE elapsed == now[u] - lastRefill
  <2>1. /\ elapsed \in Int /\ elapsed > 0 /\ NewTokens(elapsed) > 0
        /\ last'[u] = lastRefill
        /\ fresh'[u] = NewTokens(elapsed)
        /\ now'[u] = now[u]
    BY <1>a, <1>1 DEF LoadLastRefill, Goto, TypeOK
  <2>2. elapsed \in 0 .. MaxTime - StartTime
    BY <1>a, <2>1, ConstantTypes DEF TypeOK, TimesOrdered
  <2>3. 2 * NewTokens(elapsed) * NanosPerSec > RefillRate * elapsed
    BY <2>1, <2>2, NewTokensHalf
  <2> QED
    BY <2>1, <2>3
<1>2. CASE ~ LoadLastRefill(u)
  <2>1. /\ pc[u] = "casLast"
        /\ last'[u] = last[u] /\ now'[u] = now[u] /\ fresh'[u] = fresh[u]
    <3>1. ASSUME NEW t \in Threads, Step(t)
          PROVE  <2>1!1 /\ <2>1!2
      BY <1>a, <1>2, <3>1 DEF TypeOK, Step, ReadClock, LoadLastRefill, CasLastRefill,
         LoadForAdd, CasAdd, LoadTokens, CasTokens, ReturnAvailable, Return,
         Goto, locals
    <3>2. CASE Tick \/ ClockStepsBack \/ UNCHANGED vars
      BY <3>2 DEF Tick, ClockStepsBack, vars, locals
    <3> QED
      BY <3>1, <3>2 DEF Next
  <2> QED
    BY <2>1 DEF HalfCredited
<1> QED
  BY <1>1, <1>2

(* Polling does not starve a bucket: a refill credits more than half of    *)
(* the interval it closes, whoever computed it and whoever else raced for  *)
(* it, as long as the refill rate times the bucket's age stays an int64.   *)
THEOREM RefillsAreFair ==
  ASSUME RefillRate * (MaxTime - StartTime) <= MaxInt64
  PROVE  Spec => RefillCreditsHalf
<1>1. Init => HalfCredited
  BY DEF Init, HalfCredited
<1>2. IInv /\ HalfCredited /\ [Next]_vars => HalfCredited'
  BY HalfStep
<1>3. ASSUME IInv, HalfCredited, [Next]_vars, NEW t \in Threads,
             pc[t] = "casLast", lastRefill' # lastRefill, pc'[t] # pc[t]
      PROVE  2 * fresh[t] * NanosPerSec > RefillRate * (lastRefill' - lastRefill)
  <2>1. PICK u \in Threads : CasLastRefill(u) /\ lastRefill = last[u] /\ lastRefill' = now[u]
    BY <1>3 DEF Next, Step, ReadClock, LoadLastRefill, CasLastRefill,
       LoadForAdd, CasAdd, LoadTokens, CasTokens, ReturnAvailable, Tick,
       ClockStepsBack, vars, shared
  <2>2. u = t
    BY <1>3, <2>1 DEF CasLastRefill, Goto, IInv, TypeOK
  <2> QED
    BY <1>3, <2>1, <2>2 DEF HalfCredited
<1>4. IInv /\ HalfCredited /\ [Next]_vars
        => [\A t \in Threads :
              (pc[t] = "casLast" /\ lastRefill' # lastRefill /\ pc'[t] # pc[t])
                => 2 * fresh[t] * NanosPerSec > RefillRate * (lastRefill' - lastRefill)]_vars
  BY <1>3
<1> QED
  BY <1>1, <1>2, <1>4, InductiveInvariant, PTL DEF Spec, RefillCreditsHalf

----------------------------------------------------------------------------
(* The window *)

LEMMA WorthType ==
  ASSUME TypeOK
  PROVE  /\ Worth \in [1 .. N -> Nat]
         /\ \A t \in Threads : Worth[t] \in 0 .. Capacity /\ Worth[t] <= Pending[t]
         /\ SumUpTo(Worth, N) \in Nat
<1>1. \A t \in Threads : Pending[t] \in Nat
  BY PendingType DEF Threads
<1>2. \A t \in Threads : Worth[t] \in 0 .. Capacity /\ Worth[t] <= Pending[t]
  BY <1>1, CappedAtMost DEF Worth
<1>3. Worth \in [1 .. N -> Nat]
  BY <1>2, ConstantTypes DEF Worth, Threads
<1> QED
  BY <1>2, <1>3, SumType, ConstantTypes

(* A step of goroutine t changes the worth of the refills on their way by  *)
(* the change of its own.                                                  *)
LEMMA WorthStep ==
  ASSUME TypeOK, TypeOK', NEW t \in Threads,
         \A u \in Threads : u # t => pc'[u] = pc[u] /\ fresh'[u] = fresh[u]
  PROVE  SumUpTo(Worth, N)' = SumUpTo(Worth, N) - Worth[t] + Worth'[t]
<1>1. Worth \in [1 .. N -> Nat]
  BY WorthType
<1>2. Worth' \in [1 .. N -> Nat]
  <2>1. \A u \in Threads : Pending'[u] \in Nat
    BY DEF TypeOK, Pending
  <2> QED
    BY <2>1, CappedAtMost, ConstantTypes DEF Worth, Threads
<1>3. t \in 1 .. N /\ \A u \in 1 .. N : u # t => Worth'[u] = Worth[u]
  BY DEF Worth, Pending, Threads
<1>4. SumUpTo(Worth', N) = SumUpTo(Worth, N) - Worth[t] + Worth'[t]
  BY <1>1, <1>2, <1>3, SumUpdate, ConstantTypes
<1> QED
  BY <1>4

(* One full bucket is within the bound of the window. *)
LEMMA FirstBucket ==
  ASSUME NEW x \in Int, NEW c \in Nat, NEW n \in Nat, NEW r \in Nat, NEW d \in Nat,
         x <= 2 * c
  PROVE  x * n <= 2 * c * n + r * d
<1>1. r * d \in Nat
  OBVIOUS
<1>2. x * n <= (2 * c) * n
  <2>1. (2 * c - x) * n \in Nat
    OBVIOUS
  <2> QED
    BY <2>1
<1> QED
  BY <1>1, <1>2

LEMMA WindowTypes ==
  ASSUME WindowIInv
  PROVE  /\ TypeOK
         /\ tokens \in 0 .. Capacity /\ granted \in Nat
         /\ lastRefill \in Int /\ lowest \in Int
         /\ SumUpTo(Worth, N) \in Nat /\ InWindow \in Nat
<1>1. TypeOK /\ before \in 0 .. granted /\ lowest \in 0 .. MaxTime
  BY DEF WindowIInv, IInv
<1>2. /\ tokens \in 0 .. Capacity /\ granted \in Nat
      /\ lastRefill \in Int /\ lowest \in Int
  BY <1>1, ConstantTypes DEF TypeOK
<1>3. SumUpTo(Worth, N) \in Nat
  BY <1>1, WorthType
<1> QED
  BY <1>1, <1>2, <1>3, ConstantTypes DEF InWindow

(* The account holds for less than the window covers, and an earlier time. *)
LEMMA WindowWeakened ==
  ASSUME WindowIInv, open,
         NEW low \in Int, low <= lowest,
         NEW total \in Int, total <= InWindow
  PROVE  \/ lastRefill < low /\ total <= Capacity
         \/ /\ lastRefill >= low
            /\ total * NanosPerSec
                 <= 2 * Capacity * NanosPerSec + RefillRate * (lastRefill - low)
<1>1. /\ InWindow \in Nat /\ lastRefill \in Int /\ lowest \in Int
      /\ Capacity \in Nat /\ RefillRate \in Nat /\ NanosPerSec \in Nat
  BY WindowTypes, ConstantTypes
<1>2. CASE lastRefill < lowest /\ InWindow <= Capacity
  <2>1. CASE lastRefill < low
    <3>1. total <= Capacity
      BY <1>1, <1>2
    <3> QED
      BY <2>1, <3>1
  <2>2. CASE lastRefill >= low
    <3>1. total <= 2 * Capacity /\ lastRefill - low \in Nat
      BY <1>1, <1>2, <2>2
    <3>2. total * NanosPerSec
            <= 2 * Capacity * NanosPerSec + RefillRate * (lastRefill - low)
      BY <1>1, <3>1, FirstBucket
    <3> QED
      BY <2>2, <3>2
  <2> QED
    BY <1>1, <2>1, <2>2
<1>3. CASE /\ lastRefill >= lowest
           /\ InWindow * NanosPerSec
                <= 2 * Capacity * NanosPerSec + RefillRate * (lastRefill - lowest)
  <2>1. lastRefill >= low /\ total * NanosPerSec <= InWindow * NanosPerSec
    BY <1>1, <1>3, TimesMonotoneInt
  <2>2. RefillRate * (lastRefill - lowest) <= RefillRate * (lastRefill - low)
    <3>1. lastRefill - lowest <= lastRefill - low
      BY <1>1
    <3> QED
      BY <1>1, <3>1, TimesMonotoneInt
  <2>3. /\ total * NanosPerSec \in Int /\ InWindow * NanosPerSec \in Int
        /\ 2 * Capacity * NanosPerSec \in Int
        /\ RefillRate * (lastRefill - lowest) \in Int
        /\ RefillRate * (lastRefill - low) \in Int
    BY <1>1
  <2>4. total * NanosPerSec
          <= 2 * Capacity * NanosPerSec + RefillRate * (lastRefill - low)
    BY <1>3, <2>1, <2>2, <2>3
  <2> QED
    BY <2>1, <2>4
<1> QED
  BY <1>2, <1>3 DEF WindowIInv, WindowAccounting

(* A step that adds nothing to what the window covers. *)
LEMMA WindowKept ==
  ASSUME WindowIInv, open, lowest' \in Int, lowest' <= lowest,
         lastRefill' = lastRefill, InWindow' \in Int, InWindow' <= InWindow
  PROVE  WindowAccounting'
BY WindowWeakened DEF WindowAccounting

(* The step that closes an interval, and owns a refill from then on. *)
LEMMA WindowClosesInterval ==
  ASSUME WindowIInv, open,
         lowest' \in Int, lowest' <= lowest,
         NEW t \in Threads, pc[t] = "casLast", lastRefill = last[t],
         lastRefill' = now[t], InWindow' = InWindow + Capped(fresh[t])
  PROVE  WindowAccounting'
<1> DEFINE f == Capped(fresh[t])
<1>1. /\ InWindow \in Nat /\ lastRefill \in Int /\ lowest \in Int
      /\ Capacity \in Nat /\ RefillRate \in Nat /\ NanosPerSec \in Nat
  BY WindowTypes, ConstantTypes
<1>2. /\ fresh[t] \in Nat /\ f \in Nat /\ f <= Capacity /\ f <= fresh[t]
      /\ now[t] \in Int
  BY CappedAtMost, ConstantTypes DEF WindowIInv, IInv, TypeOK
<1>3. /\ lastRefill < now[t] /\ lowest <= now[t]
      /\ fresh[t] * NanosPerSec <= RefillRate * (now[t] - lastRefill)
  BY DEF WindowIInv, IInv, FreshIsEarned, CallsSinceOpening
<1>4. f * NanosPerSec <= RefillRate * (now[t] - lastRefill)
  <2>1. f * NanosPerSec <= fresh[t] * NanosPerSec
    BY <1>1, <1>2, TimesMonotone
  <2>2. /\ f * NanosPerSec \in Int /\ fresh[t] * NanosPerSec \in Int
        /\ RefillRate * (now[t] - lastRefill) \in Int
    BY <1>1, <1>2
  <2> QED
    BY <1>3, <2>1, <2>2
<1> HIDE DEF f
<1>5. now[t] - lowest' \in Nat /\ lowest' <= now[t]
  BY <1>1, <1>2, <1>3
<1>6. (InWindow + f) * NanosPerSec
        <= 2 * Capacity * NanosPerSec + RefillRate * (now[t] - lowest')
  <2>1. CASE lastRefill < lowest /\ InWindow <= Capacity
    <3>1. InWindow + f \in Int /\ InWindow + f <= 2 * Capacity
      BY <1>1, <1>2, <2>1
    <3> QED
      BY <1>1, <1>5, <3>1, FirstBucket
  <2>2. CASE /\ lastRefill >= lowest
             /\ InWindow * NanosPerSec
                  <= 2 * Capacity * NanosPerSec + RefillRate * (lastRefill - lowest)
    <3>1. 2 * Capacity \in Nat
      BY <1>1
    <3>2. (InWindow + f) * NanosPerSec
            <= 2 * Capacity * NanosPerSec + RefillRate * (now[t] - lowest)
      BY <1>1, <1>2, <1>4, <2>2, <3>1, CloseInterval
    <3>3. RefillRate * (now[t] - lowest) <= RefillRate * (now[t] - lowest')
      <4>1. now[t] - lowest <= now[t] - lowest'
        BY <1>1, <1>2
      <4> QED
        BY <1>1, <1>2, <4>1, TimesMonotoneInt
    <3>4. /\ (InWindow + f) * NanosPerSec \in Int
          /\ 2 * Capacity * NanosPerSec \in Int
          /\ RefillRate * (now[t] - lowest) \in Int
          /\ RefillRate * (now[t] - lowest') \in Int
      BY <1>1, <1>2
    <3> QED
      BY <3>2, <3>3, <3>4
  <2> QED
    BY <2>1, <2>2 DEF WindowIInv, WindowAccounting
<1> QED
  BY <1>5, <1>6 DEF WindowAccounting, f

----------------------------------------------------------------------------
LEMMA InitWindow == WatchInit => WindowIInv
<1> SUFFICES ASSUME WatchInit
             PROVE  WindowIInv
  OBVIOUS
<1>1. IInv
  BY InitIInv DEF WatchInit
<1>2. open = FALSE /\ before \in 0 .. granted /\ lowest \in 0 .. MaxTime
  BY ConstantTypes DEF WatchInit, Init
<1> QED
  BY <1>1, <1>2 DEF WindowIInv, CallsSinceOpening, WindowAccounting

(* When the window opens no refill is on its way, and the bucket holds at  *)
(* most its capacity.                                                      *)
LEMMA OpeningStep == WindowIInv /\ OpenWindow => WindowIInv'
<1> SUFFICES ASSUME WindowIInv, OpenWindow
             PROVE  WindowIInv'
  OBVIOUS
<1>1. /\ IInv /\ TypeOK /\ UNCHANGED vars
      /\ open' = TRUE /\ before' = granted /\ lowest' = clock
      /\ \A t \in Threads : pc[t] = "idle"
  BY DEF WindowIInv, IInv, OpenWindow
<1>2. IInv'
  BY <1>1, StepIInv
<1>3. open' \in BOOLEAN /\ before' \in 0 .. granted' /\ lowest' \in 0 .. MaxTime
  BY <1>1 DEF TypeOK, vars
<1>4. CallsSinceOpening'
  BY <1>1, ConstantTypes DEF CallsSinceOpening, vars, TypeOK
<1>5. WindowAccounting'
  <2>1. SumUpTo(Worth, N) = 0
    <3>1. \A t \in 1 .. N : Worth[t] = 0
      BY <1>1, ConstantTypes DEF Worth, Pending, Capped, Threads
    <3> QED
      BY <1>1, <3>1, WorthType, SumOfZeros, ConstantTypes
  <2>2. SumUpTo(Worth, N)' = 0
    <3>1. Worth' = Worth
      BY <1>1 DEF Worth, Pending, vars
    <3>2. SumUpTo(Worth', N) = SumUpTo(Worth, N)
      BY <3>1
    <3> QED
      BY <2>1, <3>2
  <2>3. InWindow' = tokens /\ tokens \in 0 .. Capacity
    BY <1>1, <2>2, ConstantTypes DEF InWindow, TypeOK, vars
  <2>4. /\ lastRefill' = lastRefill /\ lowest' = clock
        /\ lastRefill \in Int /\ clock \in Int
    BY <1>1, ConstantTypes DEF TypeOK, vars
  <2>5. CASE lastRefill < clock
    BY <2>3, <2>4, <2>5 DEF WindowAccounting
  <2>6. CASE lastRefill >= clock
    <3>1. tokens \in Int /\ tokens <= 2 * Capacity /\ lastRefill - clock \in Nat
      BY <2>3, <2>4, <2>6, ConstantTypes
    <3>2. tokens * NanosPerSec
            <= 2 * Capacity * NanosPerSec + RefillRate * (lastRefill - clock)
      BY <3>1, FirstBucket, ConstantTypes
    <3> QED
      BY <2>3, <2>4, <2>6, <3>2 DEF WindowAccounting
  <2> QED
    BY <2>4, <2>5, <2>6
<1> QED
  BY <1>2, <1>3, <1>4, <1>5 DEF WindowIInv

(* A call that begins in the window reads a clock that has shown no less   *)
(* than lowest; nothing raises lowest.                                     *)
LEMMA CallsStep ==
  ASSUME WindowIInv, [Next]_vars, open' = open, lowest' \in Int,
         open => lowest' <= lowest /\ lowest' <= clock'
  PROVE  CallsSinceOpening'
<1>1. /\ TypeOK /\ CallsSinceOpening /\ lowest \in Int
  BY ConstantTypes DEF WindowIInv, IInv
<1> SUFFICES ASSUME open, NEW u \in Threads, pc'[u] # "idle"
             PROVE  lowest' <= now'[u]
  BY DEF CallsSinceOpening
<1>2. now[u] \in Int
  BY <1>1, ConstantTypes DEF TypeOK
<1>3. CASE ReadClock(u)
  <2>1. now'[u] = clock /\ clock' = clock
    BY <1>1, <1>3 DEF ReadClock, TypeOK
  <2> QED
    BY <2>1
<1>4. CASE ~ ReadClock(u)
  <2>1. pc[u] # "idle" /\ now'[u] = now[u]
    <3>1. ASSUME NEW t \in Threads, Step(t)
          PROVE  pc[u] # "idle" /\ now'[u] = now[u]
      BY <1>1, <1>4, <3>1 DEF TypeOK, Step, ReadClock, LoadLastRefill, CasLastRefill,
         LoadForAdd, CasAdd, LoadTokens, CasTokens, ReturnAvailable, Return,
         Goto, locals
    <3>2. CASE Tick \/ ClockStepsBack \/ UNCHANGED vars
      BY <3>2 DEF Tick, ClockStepsBack, vars, locals
    <3> QED
      BY <3>1, <3>2 DEF Next
  <2> QED
    BY <1>1, <1>2, <2>1 DEF CallsSinceOpening
<1> QED
  BY <1>3, <1>4

(* What has been handed out is not taken back. *)
LEMMA GrantedGrows ==
  ASSUME TypeOK, [Next]_vars
  PROVE  granted' \in Nat /\ granted <= granted'
BY DEF TypeOK, Next, Step, ReadClock, LoadLastRefill, CasLastRefill, LoadForAdd,
   CasAdd, LoadTokens, CasTokens, ReturnAvailable, Tick, ClockStepsBack, vars

(* Each step of the bucket keeps the account of the window. *)
LEMMA WindowAccountingStep ==
  ASSUME WindowIInv, TypeOK', [Next]_vars, open, before' = before,
         lowest' \in Int, lowest' <= lowest
  PROVE  WindowAccounting'
<1> DEFINE S == SumUpTo(Worth, N)
<1>1. /\ TypeOK /\ FreshIsEarned /\ TakesSeenToken /\ before \in Int
  BY ConstantTypes DEF WindowIInv, IInv, TypeOK
<1>2. /\ S \in Nat /\ tokens \in Nat /\ granted \in Nat /\ lastRefill \in Int
      /\ InWindow = (granted - before) + tokens + S
      /\ InWindow' = (granted' - before) + tokens' + S'
      /\ Capacity \in Nat
  BY <1>1, WindowTypes, ConstantTypes DEF InWindow
<1>3. ASSUME NEW t \in Threads,
             \A u \in Threads : u # t => pc'[u] = pc[u] /\ fresh'[u] = fresh[u]
      PROVE  S' = S - Worth[t] + Worth'[t]
  BY <1>1, <1>3, WorthStep
<1>4. ASSUME lastRefill' = lastRefill, InWindow' \in Int, InWindow' <= InWindow
      PROVE  WindowAccounting'
  BY <1>4, WindowKept
<1>5. \A t \in Threads : Worth[t] \in Int
  BY <1>1, WorthType
<1> HIDE DEF S
(* Steps that neither move the account nor begin or end a refill. *)
<1>6. ASSUME NEW t \in Threads,
             \/ ReadClock(t) \/ LoadLastRefill(t) \/ LoadForAdd(t)
             \/ LoadTokens(t) \/ ReturnAvailable(t)
      PROVE  WindowAccounting'
  <2>1. UNCHANGED <<tokens, granted, lastRefill>>
    BY <1>6 DEF ReadClock, LoadLastRefill, LoadForAdd, LoadTokens,
       ReturnAvailable, shared
  <2>2. /\ \A u \in Threads : u # t => pc'[u] = pc[u] /\ fresh'[u] = fresh[u]
        /\ Pending'[t] = Pending[t]
    BY <1>1, <1>6 DEF TypeOK, Pending, ReadClock, LoadLastRefill, LoadForAdd,
       LoadTokens, ReturnAvailable, Return, Goto, shared
  <2>3. S' = S
    <3>1. Worth'[t] = Worth[t]
      BY <2>2 DEF Worth
    <3> QED
      BY <1>2, <1>3, <1>5, <2>2, <3>1
  <2> QED
    BY <1>1, <1>2, <1>4, <2>1, <2>3
<1>7. ASSUME NEW t \in Threads, CasLastRefill(t)
      PROVE  WindowAccounting'
  <2>1. /\ UNCHANGED <<tokens, granted>> /\ pc[t] = "casLast"
        /\ \A u \in Threads : u # t => pc'[u] = pc[u] /\ fresh'[u] = fresh[u]
        /\ Pending[t] = 0
    BY <1>1, <1>7 DEF TypeOK, Pending, CasLastRefill, Goto, locals
  <2>2. Worth[t] = 0
    BY <2>1, ConstantTypes DEF Worth, Capped
  <2>3. CASE lastRefill = last[t]
    <3>1. lastRefill' = now[t] /\ Pending'[t] = fresh[t]
      BY <1>1, <1>7, <2>3 DEF TypeOK, Pending, CasLastRefill, Goto, locals
    <3>2. Worth'[t] = Capped(fresh[t]) /\ Capped(fresh[t]) \in Nat
      BY <1>1, <3>1, CappedAtMost, ConstantTypes DEF Worth, TypeOK
    <3>3. InWindow' = InWindow + Capped(fresh[t])
      BY <1>1, <1>2, <1>3, <2>1, <2>2, <3>2
    <3> QED
      BY <2>1, <2>3, <3>1, <3>3, WindowClosesInterval
  <2>4. CASE lastRefill # last[t]
    <3>1. lastRefill' = lastRefill /\ Pending'[t] = 0
      BY <1>1, <1>7, <2>4 DEF TypeOK, Pending, CasLastRefill, Goto
    <3>2. Worth'[t] = 0
      BY <3>1, ConstantTypes DEF Worth, Capped
    <3> QED
      BY <1>1, <1>2, <1>3, <1>4, <2>1, <2>2, <3>1, <3>2
  <2> QED
    BY <2>3, <2>4
<1>8. ASSUME NEW t \in Threads, CasAdd(t)
      PROVE  WindowAccounting'
  <2>1. /\ UNCHANGED <<granted, lastRefill>>
        /\ \A u \in Threads : u # t => pc'[u] = pc[u] /\ fresh'[u] = fresh[u]
        /\ Pending[t] = fresh[t] /\ fresh[t] \in Nat
    BY <1>1, <1>8 DEF TypeOK, Pending, CasAdd, Goto, locals
  <2>2. Worth[t] = Capped(fresh[t])
    BY <2>1 DEF Worth
  <2>3. CASE tokens = cur[t]
    <3>1. tokens' = Capped(tokens + fresh[t]) /\ Pending'[t] = 0
      BY <1>1, <1>8, <2>3 DEF TypeOK, Pending, CasAdd, Goto
    <3>2. tokens' \in Nat /\ tokens' <= tokens + Capped(fresh[t])
      BY <1>1, <1>2, <2>1, <3>1, ConstantTypes DEF Capped, TypeOK
    <3>3. Worth'[t] = 0
      BY <3>1, ConstantTypes DEF Worth, Capped
    <3>4. S' = S - Capped(fresh[t]) /\ Capped(fresh[t]) \in Int
      BY <1>2, <1>3, <1>5, <2>1, <2>2, <3>3
    <3> QED
      BY <1>1, <1>2, <1>4, <2>1, <3>2, <3>4
  <2>4. CASE tokens # cur[t]
    <3>1. tokens' = tokens /\ Pending'[t] = fresh[t]
      BY <1>1, <1>8, <2>4 DEF TypeOK, Pending, CasAdd, Goto, locals
    <3>2. Worth'[t] = Worth[t]
      BY <2>2, <3>1 DEF Worth
    <3> QED
      BY <1>1, <1>2, <1>3, <1>4, <1>5, <2>1, <3>1, <3>2
  <2> QED
    BY <2>3, <2>4
<1>9. ASSUME NEW t \in Threads, CasTokens(t)
      PROVE  WindowAccounting'
  <2>1. /\ lastRefill' = lastRefill
        /\ \A u \in Threads : u # t => pc'[u] = pc[u] /\ fresh'[u] = fresh[u]
        /\ Pending[t] = 0 /\ Pending'[t] = 0
    BY <1>1, <1>9 DEF TypeOK, Pending, CasTokens, Return, Goto, locals
  <2>2. Worth[t] = 0 /\ Worth'[t] = 0
    BY <2>1, ConstantTypes DEF Worth, Capped
  <2>3. S' = S
    BY <1>2, <1>3, <2>1, <2>2
  <2>4. \/ granted' = granted /\ tokens' = tokens
        \/ granted' = granted + 1 /\ tokens' = tokens - 1
    BY <1>9 DEF CasTokens
  <2>5. CASE granted' = granted /\ tokens' = tokens
    BY <1>1, <1>2, <1>4, <2>1, <2>3, <2>5
  <2>6. CASE granted' = granted + 1 /\ tokens' = tokens - 1
    <3>1. InWindow' = InWindow /\ InWindow \in Int
      BY <1>1, <1>2, <2>3, <2>6
    <3> QED
      BY <1>4, <2>1, <3>1
  <2> QED
    BY <2>4, <2>5, <2>6
<1>10. CASE Tick \/ ClockStepsBack \/ UNCHANGED vars
  <2>1. UNCHANGED <<tokens, granted, lastRefill, pc, fresh>>
    BY <1>10 DEF Tick, ClockStepsBack, vars, shared, locals
  <2>2. Worth' = Worth
    BY <2>1 DEF Worth, Pending
  <2>3. SumUpTo(Worth', N) = SumUpTo(Worth, N)
    BY <2>2
  <2> QED
    BY <1>1, <1>2, <1>4, <2>1, <2>3 DEF S
<1> QED
  BY <1>6, <1>7, <1>8, <1>9, <1>10 DEF Next, Step

LEMMA StepWindow == WindowIInv /\ [WatchNext]_watchVars => WindowIInv'
<1> SUFFICES ASSUME WindowIInv, [WatchNext]_watchVars
             PROVE  WindowIInv'
  OBVIOUS
<1>1. CASE OpenWindow
  BY <1>1, OpeningStep
<1>2. CASE ~ OpenWindow
  <2>1. IInv /\ TypeOK /\ before \in 0 .. granted /\ lowest \in 0 .. MaxTime
    BY DEF WindowIInv, IInv
  <2>2. [Next]_vars /\ open' = open /\ before' = before
    BY <1>2 DEF WatchNext, watchVars, window
  <2>3. IInv' /\ TypeOK'
    BY <2>1, <2>2, StepIInv DEF IInv
  <2>4. clock' \in 0 .. MaxTime
    BY <2>3 DEF TypeOK
  <2>5. lowest' \in 0 .. MaxTime /\ (open => lowest' <= lowest)
    BY <1>2, <2>1, <2>4, ConstantTypes DEF WatchNext, watchVars, window
  <2>6. open' \in BOOLEAN /\ before' \in 0 .. granted'
    <3>1. granted' \in Nat /\ granted <= granted'
      BY <2>1, <2>2, GrantedGrows
    <3> QED
      BY <2>1, <2>2, <3>1 DEF WindowIInv, IInv, TypeOK
  <2>7. CallsSinceOpening'
    <3>1. open => lowest' <= clock'
      <4>1. open => lowest <= clock
        BY DEF WindowIInv, CallsSinceOpening
      <4>2. lowest \in Int /\ clock \in Int
        BY <2>1, ConstantTypes DEF TypeOK
      <4>3. CASE UNCHANGED watchVars
        BY <4>1, <4>2, <4>3 DEF watchVars, window, vars
      <4>4. CASE lowest' = IF open /\ clock' < lowest THEN clock' ELSE lowest
        BY <2>4, <4>2, <4>4, ConstantTypes
      <4> QED
        BY <1>2, <4>3, <4>4 DEF WatchNext
    <3> QED
      BY <2>2, <2>5, <3>1, CallsStep, ConstantTypes
  <2>8. WindowAccounting'
    <3>1. CASE open
      BY <2>2, <2>3, <2>5, <3>1, WindowAccountingStep, ConstantTypes
    <3>2. CASE ~ open
      BY <2>2, <3>2 DEF WindowAccounting
    <3> QED
      BY <3>1, <3>2
  <2> QED
    BY <2>3, <2>5, <2>6, <2>7, <2>8 DEF WindowIInv
<1> QED
  BY <1>1, <1>2

(* However long the pause before the window, the accounting of what it     *)
(* hands out holds in every state.                                         *)
THEOREM WindowInductive == WatchSpec => []WindowIInv
BY InitWindow, StepWindow, PTL DEF WatchSpec

(* Over any time that begins with no call in progress, TryAcquire hands    *)
(* out at most two full buckets and what the refill rate yields: an idle   *)
(* bucket does not save up more than one refill, and that one is capped.   *)
THEOREM WindowLimited == WatchSpec => []WindowBound
<1>1. ASSUME WindowIInv, open
      PROVE  (granted - before) * NanosPerSec
               <= 2 * Capacity * NanosPerSec + RefillRate * (latest - lowest)
  <2> DEFINE paid == granted - before
  <2>1. /\ IInv /\ TypeOK /\ before \in 0 .. granted /\ lowest \in 0 .. MaxTime
        /\ TimesOrdered /\ CallsSinceOpening /\ WindowAccounting
    BY <1>1 DEF WindowIInv, IInv
  <2>2. /\ paid \in Nat /\ InWindow \in Nat /\ paid <= InWindow
        /\ lastRefill \in Int /\ latest \in Int /\ lowest \in Int
        /\ lastRefill <= latest
    BY <1>1, <2>1, WindowTypes, ConstantTypes DEF InWindow, TypeOK, TimesOrdered
  <2> HIDE DEF paid
  <2>3. /\ paid * NanosPerSec \in Int /\ InWindow * NanosPerSec \in Int
        /\ 2 * Capacity * NanosPerSec \in Int
        /\ RefillRate * (lastRefill - lowest) \in Int
        /\ RefillRate * (latest - lowest) \in Int
    BY <2>2, ConstantTypes
  <2>4. paid * NanosPerSec <= 2 * Capacity * NanosPerSec + RefillRate * (latest - lowest)
    <3>1. CASE lastRefill < lowest /\ InWindow <= Capacity
      <4>1. paid <= 2 * Capacity /\ Capacity \in Nat
        BY <2>2, <3>1, ConstantTypes
      <4>2. latest - lowest \in Nat
        BY <1>1, <2>1, <2>2, ConstantTypes DEF CallsSinceOpening, TimesOrdered, TypeOK
      <4> QED
        BY <2>2, <4>1, <4>2, FirstBucket, ConstantTypes
    <3>2. CASE InWindow * NanosPerSec
                 <= 2 * Capacity * NanosPerSec + RefillRate * (lastRefill - lowest)
      <4>1. paid * NanosPerSec <= InWindow * NanosPerSec
        BY <2>2, TimesMonotoneInt, ConstantTypes
      <4>2. RefillRate * (lastRefill - lowest) <= RefillRate * (latest - lowest)
        <5>1. lastRefill - lowest <= latest - lowest
          BY <2>2
        <5> QED
          BY <2>2, <5>1, TimesMonotoneInt, ConstantTypes
      <4> QED
        BY <2>3, <3>2, <4>1, <4>2
    <3> QED
      BY <1>1, <2>1, <3>1, <3>2 DEF WindowAccounting
  <2> QED
    BY <2>4 DEF paid
<1>2. WindowIInv => WindowBound
  BY <1>1 DEF WindowBound
<1> QED
  BY <1>2, WindowInductive, PTL
============================================================================
