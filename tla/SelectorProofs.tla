--------------------------- MODULE SelectorProofs ---------------------------
(***************************************************************************)
(* Proofs about the selector, for any number of workers and proxies and    *)
(* any capacity of the semaphores: the slots taken are the slots held, so  *)
(* the requests in flight through a proxy stay within its limit; a refusal *)
(* costs no token, and a busy answer follows a whole rotation.             *)
(***************************************************************************)
EXTENDS Selector, FiniteSetTheorems, TLAPS

LEMMA ConstantTypes ==
  /\ NumProxies \in Nat \ {0}
  /\ MaxRetries \in Nat \ {0}
  /\ MaxConcurrent \in Nat
  /\ MaxTokens \in Nat
  /\ MaxSelections \in Nat
BY SelectorAssumption DEF MaxRetries

LEMMA ClientType ==
  ASSUME TypeOK, NEW w \in Workers
  PROVE  Client(w) \in Proxies
<1>1. startIdx[w] \in Nat /\ i[w] \in Nat
  BY ConstantTypes DEF TypeOK, Proxies
<1>2. \A x \in Nat : x % NumProxies \in 0 .. NumProxies - 1
  BY ConstantTypes
<1> QED
  BY <1>1, <1>2 DEF Client, Proxies

LEMMA HoldersFinite == \A p : IsFiniteSet(Holders(p)) /\ Cardinality(Holders(p)) \in Nat
<1> SUFFICES ASSUME NEW p
             PROVE  IsFiniteSet(Holders(p)) /\ Cardinality(Holders(p)) \in Nat
  OBVIOUS
<1>1. Holders(p) \subseteq Workers
  BY DEF Holders
<1> QED
  BY <1>1, SelectorAssumption, FS_Subset, FS_CardinalityType

----------------------------------------------------------------------------
LEMMA InitIInv == Init => IInv
<1> SUFFICES ASSUME Init
             PROVE  IInv
  OBVIOUS
<1>1. TypeOK
  BY ConstantTypes DEF Init, TypeOK, Labels, Proxies
<1>2. WithinRotation
  BY DEF Init, WithinRotation
<1>3. SlotsWithinCapacity
  BY ConstantTypes DEF Init, SlotsWithinCapacity
<1>4. \A p \in Proxies : Holders(p) = {}
  BY DEF Init, Holders
<1>5. SlotsAreHeld
  BY <1>4, FS_EmptySet DEF Init, SlotsAreHeld
<1> QED
  BY <1>1, <1>2, <1>3, <1>5 DEF IInv

(* Each step preserves the types. *)
LEMMA TypeStep == IInv /\ [Next]_vars => TypeOK'
<1> SUFFICES ASSUME IInv, [Next]_vars
             PROVE  TypeOK'
  OBVIOUS
<1>a. TypeOK /\ WithinRotation
  BY DEF IInv
<1> USE ConstantTypes, <1>a DEF TypeOK, Labels
<1>1. ASSUME NEW w \in Workers, Start(w)
      PROVE  TypeOK'
  <2>1. (currentIndex + 1) % NumProxies \in Proxies
    BY DEF Proxies
  <2>2. currentIndex' \in 0 .. MaxSelections /\ currentIndex' % NumProxies \in Proxies
    BY <1>1, <2>1 DEF Start
  <2>3. i' \in [Workers -> 0 .. MaxRetries]
    BY <1>1 DEF Start
  <2>4. startIdx' \in [Workers -> Proxies] /\ starts' \in [Proxies -> Nat]
    BY <1>1, <2>2 DEF Start
  <2> QED
    BY <1>1, <2>2, <2>3, <2>4 DEF Start, Goto, env
<1>2. ASSUME NEW w \in Workers, CheckContext(w)
      PROVE  TypeOK'
  BY <1>2 DEF CheckContext, MoreToTry, CtxErr, CountFailed, Goto, env, call
<1>3. ASSUME NEW w \in Workers, Skip(w), i[w] < MaxRetries
      PROVE  /\ i' \in [Workers -> 0 .. MaxRetries]
             /\ tried' \in [Workers -> SUBSET Proxies]
             /\ pc' \in [Workers -> Labels]
  <2>1. Client(w) \in Proxies
    BY ClientType
  <2> QED
    BY <1>3, <2>1 DEF Skip, Goto
<1>4. ASSUME NEW w \in Workers, CheckHealth(w)
      PROVE  TypeOK'
  BY <1>3, <1>4 DEF CheckHealth, Goto, WithinRotation, env, counters
<1>5. ASSUME NEW p \in Proxies,
             TryAcquireConcurrency(p) \/ ReleaseConcurrency(p)
      PROVE  slots' \in [Proxies -> Nat]
  BY <1>5 DEF TryAcquireConcurrency, ReleaseConcurrency
<1>6. ASSUME NEW w \in Workers, TrySlot(w)
      PROVE  TypeOK'
  <2>1. slots' \in [Proxies -> Nat]
    BY <1>5, <1>6, ClientType DEF TrySlot
  <2> QED
    BY <1>3, <1>6, <2>1 DEF TrySlot, Goto, WithinRotation, env, counters
<1>7. ASSUME NEW w \in Workers, TryToken(w)
      PROVE  TypeOK'
  <2>1. Client(w) \in Proxies
    BY ClientType
  <2> QED
    BY <1>7, <2>1 DEF TryToken, Goto
<1>8. ASSUME NEW w \in Workers, UndoSlot(w)
      PROVE  TypeOK'
  <2>1. slots' \in [Proxies -> Nat]
    BY <1>5, <1>8, ClientType DEF UndoSlot
  <2> QED
    BY <1>3, <1>8, <2>1 DEF UndoSlot, WithinRotation, env, counters
<1>9. ASSUME NEW w \in Workers, ReturnError(w) \/ Cancel(w)
      PROVE  TypeOK'
  BY <1>9 DEF ReturnError, Cancel, Goto, env, counters, call
<1>10. ASSUME NEW w \in Workers, Finish(w)
       PROVE  TypeOK'
  <2>1. slots' \in [Proxies -> Nat]
    BY <1>5, <1>10, ClientType DEF Finish
  <2> QED
    BY <1>10, <2>1 DEF Finish, Goto, env, counters, call
<1>11. ASSUME NEW p \in Proxies, HealthChanges(p) \/ Refill(p)
       PROVE  TypeOK'
  BY <1>11 DEF HealthChanges, Refill, counters, call
<1>12. CASE UNCHANGED vars
  BY <1>12 DEF vars, counters, call
<1> HIDE DEF TypeOK, Labels
<1> QED
  BY <1>1, <1>2, <1>4, <1>6, <1>7, <1>8, <1>9, <1>10, <1>11, <1>12
     DEF Next, Proceed

(* The rotation only moves on below its end. *)
LEMMA RotationStep == IInv /\ [Next]_vars => WithinRotation'
<1> SUFFICES ASSUME IInv, [Next]_vars
             PROVE  WithinRotation'
  OBVIOUS
<1>a. TypeOK /\ WithinRotation
  BY DEF IInv
<1> USE ConstantTypes, <1>a DEF TypeOK, WithinRotation
<1>1. ASSUME NEW w \in Workers, Start(w) \/ CheckContext(w)
      PROVE  WithinRotation'
  BY <1>1 DEF Start, CheckContext, MoreToTry, CtxErr, CountFailed, Goto, call
<1>2. ASSUME NEW w \in Workers, CheckHealth(w) \/ TrySlot(w) \/ UndoSlot(w)
      PROVE  WithinRotation'
  BY <1>2 DEF CheckHealth, TrySlot, UndoSlot, Skip, Goto
<1>3. ASSUME NEW w \in Workers,
             TryToken(w) \/ ReturnError(w) \/ Finish(w) \/ Cancel(w)
      PROVE  WithinRotation'
  BY <1>3 DEF TryToken, ReturnError, Finish, Cancel, Goto, call
<1>4. CASE UNCHANGED vars \/ \E p \in Proxies : HealthChanges(p) \/ Refill(p)
  BY <1>4 DEF vars, HealthChanges, Refill, call
<1> HIDE DEF TypeOK, WithinRotation
<1> QED
  BY <1>1, <1>2, <1>3, <1>4 DEF Next, Proceed

(* A semaphore is sent to only while it has room. *)
LEMMA CapacityStep == IInv /\ [Next]_vars => SlotsWithinCapacity'
<1> SUFFICES ASSUME IInv, [Next]_vars, MaxConcurrent > 0,
                    NEW p \in Proxies
             PROVE  slots'[p] <= MaxConcurrent
  BY DEF SlotsWithinCapacity
<1>1. TypeOK /\ slots[p] \in Nat /\ slots[p] <= MaxConcurrent
  BY DEF IInv, TypeOK, SlotsWithinCapacity
<1>2. ASSUME NEW w \in Workers, TrySlot(w)
      PROVE  slots'[p] <= MaxConcurrent
  <2>1. Client(w) \in Proxies
    BY <1>1, ClientType
  <2> QED
    BY <1>1, <1>2, <2>1, ConstantTypes
       DEF TrySlot, TryAcquireConcurrency, HasSlot, TypeOK
<1>3. ASSUME NEW w \in Workers, UndoSlot(w) \/ Finish(w)
      PROVE  slots'[p] <= MaxConcurrent
  <2>1. Client(w) \in Proxies
    BY <1>1, ClientType
  <2> QED
    BY <1>1, <1>3, <2>1, ConstantTypes
       DEF UndoSlot, Finish, ReleaseConcurrency, TypeOK
<1>4. CASE UNCHANGED slots
  BY <1>1, <1>4
<1> QED
  BY <1>2, <1>3, <1>4
     DEF Next, Proceed, Start, CheckContext, MoreToTry, CtxErr, CountFailed,
         CheckHealth, TryToken, ReturnError, Cancel, HealthChanges, Refill, vars

----------------------------------------------------------------------------
(* A step that neither takes nor gives back a slot leaves the holders.     *)
LEMMA HoldersKept ==
  ASSUME SlotsAreHeld, slots' = slots,
         \A w \in Workers, p \in Proxies :
           (w \in Holders(p)) <=> (w \in Holders(p)')
  PROVE  SlotsAreHeld'
<1>1. \A p \in Proxies : Holders(p)' = Holders(p)
  BY DEF Holders
<1> QED
  BY <1>1 DEF SlotsAreHeld

(* A worker that is no holder of c takes a slot of c. *)
LEMMA SlotTaken ==
  ASSUME TypeOK, SlotsAreHeld, MaxConcurrent > 0,
         NEW w \in Workers, NEW c \in Proxies,
         w \notin Holders(c), slots' = [slots EXCEPT ![c] = @ + 1],
         \A p \in Proxies :
           Holders(p)' = IF p = c THEN Holders(c) \union {w} ELSE Holders(p)
  PROVE  SlotsAreHeld'
<1>1. Cardinality(Holders(c) \union {w}) = Cardinality(Holders(c)) + 1
  BY HoldersFinite, FS_AddElement
<1>2. ASSUME NEW p \in Proxies
      PROVE  slots'[p] = Cardinality(Holders(p)')
  <2>1. CASE p = c
    BY <1>1, <2>1 DEF SlotsAreHeld, TypeOK
  <2>2. CASE p # c
    BY <2>2 DEF SlotsAreHeld, TypeOK
  <2> QED
    BY <2>1, <2>2
<1> QED
  BY <1>2 DEF SlotsAreHeld

(* A holder of c gives its slot back. *)
LEMMA SlotGivenBack ==
  ASSUME TypeOK, SlotsAreHeld, MaxConcurrent > 0,
         NEW w \in Workers, NEW c \in Proxies,
         w \in Holders(c), slots' = [slots EXCEPT ![c] = @ - 1],
         \A p \in Proxies :
           Holders(p)' = IF p = c THEN Holders(c) \ {w} ELSE Holders(p)
  PROVE  SlotsAreHeld'
<1>1. Cardinality(Holders(c) \ {w}) = Cardinality(Holders(c)) - 1
  BY HoldersFinite, FS_RemoveElement
<1>2. ASSUME NEW p \in Proxies
      PROVE  slots'[p] = Cardinality(Holders(p)')
  <2>1. CASE p = c
    BY <1>1, <2>1 DEF SlotsAreHeld, TypeOK
  <2>2. CASE p # c
    BY <2>2 DEF SlotsAreHeld, TypeOK
  <2> QED
    BY <2>1, <2>2
<1> QED
  BY <1>2 DEF SlotsAreHeld

(* Each step keeps the slots taken equal to the slots held. *)
LEMMA SlotsStep == IInv /\ [Next]_vars => SlotsAreHeld'
<1> SUFFICES ASSUME IInv, [Next]_vars, MaxConcurrent > 0
             PROVE  SlotsAreHeld'
  BY DEF SlotsAreHeld
<1>1. TypeOK /\ SlotsAreHeld
  BY DEF IInv
<1>2. ASSUME NEW w \in Workers,
             \/ Start(w) \/ CheckContext(w) \/ CheckHealth(w)
             \/ ReturnError(w) \/ Cancel(w)
      PROVE  SlotsAreHeld'
  <2>1. slots' = slots
    BY <1>2
       DEF Start, CheckContext, MoreToTry, CtxErr, CountFailed, CheckHealth,
           ReturnError, Cancel
  <2>2. \A v \in Workers, p \in Proxies : (v \in Holders(p)) <=> (v \in Holders(p)')
    BY <1>1, <1>2
       DEF Holders, Client, TypeOK, Start, CheckContext, MoreToTry, CtxErr,
           CountFailed, CheckHealth,
       ReturnError, Cancel, Skip, Goto, call
  <2> QED
    BY <1>1, <2>1, <2>2, HoldersKept
<1>3. ASSUME NEW w \in Workers, TrySlot(w)
      PROVE  SlotsAreHeld'
  <2>1. Client(w) \in Proxies
    BY <1>1, ClientType
  <2>2. CASE HasSlot(Client(w)) /\ Goto(w, "token") /\ UNCHANGED i
    <3> DEFINE c == Client(w)
    <3>1. slots' = [slots EXCEPT ![c] = @ + 1] /\ w \notin Holders(c)
      BY <1>3, <2>2, ConstantTypes
         DEF TrySlot, TryAcquireConcurrency, Holders, Goto, Skip, TypeOK
    <3>2. ASSUME NEW p \in Proxies
          PROVE  Holders(p)' = IF p = c THEN Holders(c) \union {w} ELSE Holders(p)
      BY <1>1, <1>3, <2>2 DEF TrySlot, Holders, Client, Goto, TypeOK
    <3> QED
      BY <1>1, <2>1, <3>1, <3>2, SlotTaken
  <2>3. CASE slots' = slots /\ Skip(w)
    <3>1. \A v \in Workers, p \in Proxies : (v \in Holders(p)) <=> (v \in Holders(p)')
      BY <1>1, <1>3, <2>3 DEF TrySlot, Holders, Client, Skip, Goto, TypeOK
    <3> QED
      BY <1>1, <2>3, <3>1, HoldersKept
  <2> QED
    BY <1>3, <2>2, <2>3 DEF TrySlot
<1>4. ASSUME NEW w \in Workers, TryToken(w)
      PROVE  SlotsAreHeld'
  <2>1. slots' = slots
    BY <1>4 DEF TryToken
  <2>2. \A v \in Workers, p \in Proxies : (v \in Holders(p)) <=> (v \in Holders(p)')
    BY <1>1, <1>4 DEF TryToken, Holders, Client, Goto, TypeOK
  <2> QED
    BY <1>1, <2>1, <2>2, HoldersKept
<1>5. ASSUME NEW w \in Workers, UndoSlot(w) \/ Finish(w)
      PROVE  SlotsAreHeld'
  <2> DEFINE c == Client(w)
  <2>1. /\ c \in Proxies /\ w \in Holders(c)
        /\ slots' = [slots EXCEPT ![c] = @ - 1]
    BY <1>1, <1>5, ClientType, ConstantTypes
       DEF UndoSlot, Finish, ReleaseConcurrency, Holders
  <2>2. /\ pc'[w] \in {"loop", "idle"}
        /\ \A v \in Workers : v # w => pc'[v] = pc[v] /\ Client(v)' = Client(v)
    BY <1>1, <1>5 DEF UndoSlot, Finish, Skip, Goto, Client, TypeOK, call
  <2>3. ASSUME NEW p \in Proxies
        PROVE  Holders(p)' = IF p = c THEN Holders(c) \ {w} ELSE Holders(p)
    BY <2>2 DEF Holders
  <2> QED
    BY <1>1, <2>1, <2>3, SlotGivenBack
<1>6. CASE UNCHANGED vars \/ \E p \in Proxies : HealthChanges(p) \/ Refill(p)
  <2>1. UNCHANGED <<slots, pc, startIdx, i>>
    BY <1>6 DEF vars, HealthChanges, Refill, call
  <2>2. \A v \in Workers, p \in Proxies : (v \in Holders(p)) <=> (v \in Holders(p)')
    BY <2>1 DEF Holders, Client
  <2> QED
    BY <1>1, <2>1, <2>2, HoldersKept
<1> QED
  BY <1>2, <1>3, <1>4, <1>5, <1>6 DEF Next, Proceed

----------------------------------------------------------------------------
LEMMA StepIInv == IInv /\ [Next]_vars => IInv'
BY TypeStep, RotationStep, CapacityStep, SlotsStep DEF IInv

(* The invariant the results about slots rest on: types, indices within    *)
(* the rotation, and slots that are taken and held.                        *)
THEOREM InductiveInvariant == Spec => []IInv
BY InitIInv, StepIInv, PTL DEF Spec

(* Every slot of a semaphore is held by exactly one worker, for any number *)
(* of workers, proxies and slots: none leaks on an undo or a failed check. *)
THEOREM NoSlotLeak == Spec => []SlotsAreHeld
<1>1. IInv => SlotsAreHeld
  BY DEF IInv
<1> QED
  BY <1>1, InductiveInvariant, PTL

(* No more requests are in flight through a proxy than                     *)
(* MaxConcurrentPerProxy allows.                                           *)
THEOREM InFlightWithinCap == Spec => []ConcurrencyCap
<1>1. ASSUME IInv, MaxConcurrent > 0, NEW p \in Proxies
      PROVE  Cardinality({w \in Workers : pc[w] = "using" /\ Client(w) = p}) <= MaxConcurrent
  <2> DEFINE InUse == {w \in Workers : pc[w] = "using" /\ Client(w) = p}
  <2>1. InUse \subseteq Holders(p)
    BY DEF Holders
  <2>2. Cardinality(InUse) <= Cardinality(Holders(p)) /\ Cardinality(InUse) \in Nat
    BY <2>1, HoldersFinite, FS_Subset, FS_CardinalityType
  <2>3. Cardinality(Holders(p)) <= MaxConcurrent
    BY <1>1 DEF IInv, SlotsAreHeld, SlotsWithinCapacity
  <2>4. Cardinality(Holders(p)) \in Nat
    BY HoldersFinite
  <2> HIDE DEF InUse
  <2>5. Cardinality(InUse) <= MaxConcurrent
    BY <2>2, <2>3, <2>4, ConstantTypes
  <2> QED
    BY <2>5 DEF InUse
<1>2. IInv => ConcurrencyCap
  BY <1>1 DEF ConcurrencyCap
<1> QED
  BY <1>2, InductiveInvariant, PTL

----------------------------------------------------------------------------
(* What a call has spent and tried, at each place it can be at.            *)
Spending ==
  \A w \in Workers :
    /\ pc[w] \in Labels \ {"idle", "using"} => spent[w] = 0
    /\ pc[w] = "using" => spent[w] = 1

Trying ==
  \A w \in Workers :
    /\ \A k \in 0 .. i[w] - 1 : (startIdx[w] + k) % NumProxies \in tried[w]
    /\ pc[w] = "busy" => i[w] = MaxRetries

(* A token is taken on the way to "using" only, and the count starts anew  *)
(* with each call.                                                         *)
LEMMA SpendingStep == TypeOK /\ Spending /\ [Next]_vars => Spending'
<1> SUFFICES ASSUME TypeOK, Spending, [Next]_vars
             PROVE  Spending'
  OBVIOUS
<1> USE ConstantTypes DEF TypeOK, Spending, Labels
<1>1. ASSUME NEW w \in Workers, Start(w) \/ CheckContext(w)
      PROVE  Spending'
  BY <1>1 DEF Start, CheckContext, MoreToTry, CtxErr, CountFailed, Goto, call
<1>2. ASSUME NEW w \in Workers, CheckHealth(w) \/ TrySlot(w) \/ UndoSlot(w)
      PROVE  Spending'
  BY <1>2 DEF CheckHealth, TrySlot, UndoSlot, Skip, Goto
<1>3. ASSUME NEW w \in Workers,
             TryToken(w) \/ ReturnError(w) \/ Finish(w) \/ Cancel(w)
      PROVE  Spending'
  BY <1>3 DEF TryToken, ReturnError, Finish, Cancel, Goto, call
<1>4. CASE UNCHANGED vars \/ \E p \in Proxies : HealthChanges(p) \/ Refill(p)
  BY <1>4 DEF vars, HealthChanges, Refill, call
<1> HIDE DEF TypeOK, Spending, Labels
<1> QED
  BY <1>1, <1>2, <1>3, <1>4 DEF Next, Proceed

(* Each proxy that is passed over is the next of the rotation.             *)
LEMMA TryingStep == IInv /\ Trying /\ [Next]_vars => Trying'
<1> SUFFICES ASSUME IInv, Trying, [Next]_vars
             PROVE  Trying'
  OBVIOUS
<1>1. TypeOK
  BY DEF IInv
<1>2. ASSUME NEW w \in Workers, Start(w)
      PROVE  Trying'
  BY <1>1, <1>2, ConstantTypes DEF Start, Trying, TypeOK, Goto
<1>3. ASSUME NEW w \in Workers, CheckContext(w)
      PROVE  Trying'
  BY <1>1, <1>3, ConstantTypes
     DEF CheckContext, MoreToTry, CountFailed, Goto, call, Trying, TypeOK
<1>4. ASSUME NEW w \in Workers, Skip(w), UNCHANGED startIdx
      PROVE  Trying'
  <2>1. \A v \in Workers : v # w =>
          i'[v] = i[v] /\ tried'[v] = tried[v] /\ pc'[v] = pc[v]
    BY <1>1, <1>4 DEF Skip, Goto, TypeOK
  <2>2. /\ i[w] \in Nat /\ i'[w] = i[w] + 1 /\ pc'[w] = "loop"
        /\ tried'[w] = tried[w] \union {(startIdx[w] + i[w]) % NumProxies}
    BY <1>1, <1>4, ConstantTypes DEF Skip, Goto, TypeOK, Client
  <2>3. ASSUME NEW k \in 0 .. i'[w] - 1
        PROVE  (startIdx'[w] + k) % NumProxies \in tried'[w]
    <3>1. k \in 0 .. i[w] - 1 \/ k = i[w]
      BY <2>2
    <3> QED
      BY <1>4, <2>2, <3>1 DEF Trying
  <2> QED
    BY <1>4, <2>1, <2>2, <2>3 DEF Trying
<1>5. ASSUME NEW w \in Workers, Goto(w, "slot") \/ Goto(w, "token") \/
               Goto(w, "using") \/ Goto(w, "undo") \/ Goto(w, "idle"),
             UNCHANGED <<startIdx, i, tried>>
      PROVE  Trying'
  BY <1>1, <1>5 DEF Goto, Trying, TypeOK
<1>6. CASE UNCHANGED <<pc, startIdx, i, tried>>
  BY <1>6 DEF Trying
<1>7. ASSUME NEW w \in Workers, CheckHealth(w) \/ TrySlot(w) \/ TryToken(w)
               \/ UndoSlot(w) \/ ReturnError(w) \/ Finish(w)
      PROVE  Trying'
  <2>1. CASE CheckHealth(w) \/ TrySlot(w)
    BY <1>4, <1>5, <2>1 DEF CheckHealth, TrySlot
  <2>2. CASE TryToken(w) \/ UndoSlot(w)
    BY <1>4, <1>5, <2>2 DEF TryToken, UndoSlot
  <2>3. CASE ReturnError(w) \/ Finish(w)
    BY <1>5, <2>3 DEF ReturnError, Finish, call
  <2> QED
    BY <1>7, <2>1, <2>2, <2>3
<1>8. CASE UNCHANGED vars \/ (\E w \in Workers : Cancel(w))
             \/ \E p \in Proxies : HealthChanges(p) \/ Refill(p)
  BY <1>6, <1>8 DEF vars, Cancel, HealthChanges, Refill, call
<1> QED
  BY <1>2, <1>3, <1>7, <1>8 DEF Next, Proceed

(* A call that returns a proxy has taken one token, one that fails none:   *)
(* the semaphore is asked before the limiter, and its refusal is free.     *)
THEOREM FailuresAreFree == Spec => []NoTokenWasted
<1>1. Init => Spending
  BY DEF Init, Spending
<1>2. Spending => NoTokenWasted
  BY DEF Spending, NoTokenWasted, Labels
<1>3. IInv => TypeOK
  BY DEF IInv
<1> QED
  BY <1>1, <1>2, <1>3, InductiveInvariant, SpendingStep, PTL DEF Spec

(* The offsets of a whole rotation reach every proxy, from any start.      *)
LEMMA RotationCovers ==
  ASSUME NEW s \in Proxies, NEW p \in Proxies
  PROVE  \E k \in 0 .. NumProxies - 1 : (s + k) % NumProxies = p
<1>1. p % NumProxies = p /\ (p + NumProxies) % NumProxies = p
  BY ConstantTypes, SMTT(60) DEF Proxies
<1>2. CASE p >= s
  <2>1. p - s \in 0 .. NumProxies - 1 /\ s + (p - s) = p
    BY <1>2, ConstantTypes DEF Proxies
  <2> QED
    BY <1>1, <2>1
<1>3. CASE p < s
  <2>1. /\ p - s + NumProxies \in 0 .. NumProxies - 1
        /\ s + (p - s + NumProxies) = p + NumProxies
    BY <1>3, ConstantTypes DEF Proxies
  <2> QED
    BY <1>1, <2>1
<1> QED
  BY <1>2, <1>3, ConstantTypes DEF Proxies

(* ErrAllProxiesBusy means that every proxy of the pool has refused this   *)
(* very call, whatever the other calls did to the index meanwhile: with    *)
(* MaxRetries left at zero, or no smaller than the number of proxies.      *)
THEOREM BusyMeansAllRefused ==
  ASSUME MaxRetriesArg \notin 1 .. NumProxies - 1
  PROVE  Spec => []FullRotation
<1>1. Init => Trying
  BY DEF Init, Trying
<1>2. ASSUME IInv, Trying
      PROVE  FullRotation
  <2> SUFFICES ASSUME NEW w \in Workers, pc[w] = "busy"
               PROVE  tried[w] = Proxies
    BY DEF FullRotation
  <2>1. startIdx[w] \in Proxies /\ tried[w] \subseteq Proxies
    BY <1>2 DEF IInv, TypeOK
  <2>2. \A k \in 0 .. NumProxies - 1 : (startIdx[w] + k) % NumProxies \in tried[w]
    <3>1. i[w] \in Nat /\ NumProxies <= i[w]
      BY <1>2, ConstantTypes, SelectorAssumption DEF Trying, MaxRetries
    <3>2. \A k \in 0 .. i[w] - 1 : (startIdx[w] + k) % NumProxies \in tried[w]
      BY <1>2 DEF Trying
    <3>3. 0 .. NumProxies - 1 \subseteq 0 .. i[w] - 1
      BY <3>1, ConstantTypes
    <3> QED
      BY <3>2, <3>3
  <2>3. ASSUME NEW p \in Proxies
        PROVE  p \in tried[w]
    BY <2>1, <2>2, RotationCovers
  <2> QED
    BY <2>1, <2>3
<1> QED
  BY <1>1, <1>2, InductiveInvariant, TryingStep, PTL DEF Spec

----------------------------------------------------------------------------
(* Whole rounds of starts, and a part of the next one.                     *)
RoundsOfStarts ==
  \E r \in Nat, e \in Proxies :
    /\ currentIndex = r * NumProxies + e
    /\ \A p \in Proxies : starts[p] = r + (IF p \in 1 .. e THEN 1 ELSE 0)

(* A remainder is what is left of whole multiples.                         *)
LEMMA RemainderUnique ==
  ASSUME NEW r \in Nat, NEW e \in Proxies
  PROVE  (r * NumProxies + e) % NumProxies = e
<1> DEFINE x == r * NumProxies + e
           d == x \div NumProxies
           m == x % NumProxies
<1>1. x \in Nat /\ e \in 0 .. NumProxies - 1 /\ NumProxies \in Nat \ {0}
  BY ConstantTypes DEF Proxies
<1> HIDE DEF x
<1>2. d \in Int /\ m \in 0 .. NumProxies - 1 /\ x = d * NumProxies + m
  BY <1>1
<1> HIDE DEF d, m
<1>3. (d - r) * NumProxies = e - m
  BY <1>1, <1>2 DEF x
<1>4. ~ (d - r >= 1)
  <2> SUFFICES ASSUME d - r >= 1
               PROVE  FALSE
    OBVIOUS
  <2>1. (d - r - 1) * NumProxies \in Nat
    BY <1>1, <1>2
  <2> QED
    BY <1>1, <1>2, <1>3, <2>1
<1>5. ~ (r - d >= 1)
  <2> SUFFICES ASSUME r - d >= 1
               PROVE  FALSE
    OBVIOUS
  <2>1. (r - d - 1) * NumProxies \in Nat
    BY <1>1, <1>2
  <2> QED
    BY <1>1, <1>2, <1>3, <2>1
<1>6. d = r
  BY <1>2, <1>4, <1>5
<1> QED
  BY <1>1, <1>2, <1>3, <1>6 DEF m, x

(* The next start is at the next proxy, or begins a new round.             *)
LEMMA RoundsStep == TypeOK /\ RoundsOfStarts /\ [Next]_vars => RoundsOfStarts'
<1> SUFFICES ASSUME TypeOK, RoundsOfStarts, [Next]_vars
             PROVE  RoundsOfStarts'
  OBVIOUS
<1>1. ASSUME NEW w \in Workers, Start(w)
      PROVE  RoundsOfStarts'
  <2>1. PICK r \in Nat, e \in Proxies :
          /\ currentIndex = r * NumProxies + e
          /\ \A p \in Proxies : starts[p] = r + (IF p \in 1 .. e THEN 1 ELSE 0)
    BY DEF RoundsOfStarts
  <2> DEFINE s == currentIndex' % NumProxies
  <2>2. /\ currentIndex' = r * NumProxies + e + 1
        /\ starts' = [starts EXCEPT ![s] = @ + 1]
    BY <1>1, <2>1 DEF Start
  <2>3. r * NumProxies \in Nat /\ e \in 0 .. NumProxies - 1 /\ NumProxies \in Nat \ {0}
    BY ConstantTypes DEF Proxies
  <2>4. starts \in [Proxies -> Nat]
    BY DEF TypeOK
  <2>5. CASE e + 1 < NumProxies
    <3>1. e + 1 \in Proxies /\ currentIndex' = r * NumProxies + (e + 1)
      BY <2>2, <2>3, <2>5 DEF Proxies
    <3>2. s = e + 1
      BY <3>1, RemainderUnique
    <3>3. \A p \in Proxies : starts'[p] = r + (IF p \in 1 .. e + 1 THEN 1 ELSE 0)
      BY <2>1, <2>2, <2>3, <2>4, <3>1, <3>2 DEF Proxies
    <3> QED
      BY <3>1, <3>3 DEF RoundsOfStarts
  <2>6. CASE e + 1 = NumProxies
    <3>1. /\ 0 \in Proxies /\ r + 1 \in Nat
          /\ currentIndex' = (r + 1) * NumProxies + 0
      BY <2>2, <2>3, <2>6 DEF Proxies
    <3>2. s = 0
      BY <3>1, RemainderUnique
    <3>3. \A p \in Proxies : starts'[p] = (r + 1) + (IF p \in 1 .. 0 THEN 1 ELSE 0)
      BY <2>1, <2>2, <2>3, <2>4, <2>6, <3>2 DEF Proxies
    <3> QED
      BY <3>1, <3>3 DEF RoundsOfStarts
  <2> QED
    BY <2>3, <2>5, <2>6
<1>2. CASE UNCHANGED <<currentIndex, starts>>
  BY <1>2 DEF RoundsOfStarts
<1>3. ASSUME NEW w \in Workers, Proceed(w) \/ Cancel(w)
      PROVE  UNCHANGED <<currentIndex, starts>>
  BY <1>3
     DEF Proceed, CheckContext, CheckHealth, TrySlot, TryToken, UndoSlot, ReturnError,
         Finish, Cancel, counters
<1>4. CASE UNCHANGED vars \/ \E p \in Proxies : HealthChanges(p) \/ Refill(p)
  BY <1>2, <1>4 DEF vars, HealthChanges, Refill, counters
<1> QED
  BY <1>1, <1>2, <1>3, <1>4 DEF Next

(* However the calls overlap, each proxy is as often the first of a        *)
(* rotation as any other, give or take one.                                *)
THEOREM RotationsAreEven == Spec => []EvenRotation
<1>1. Init => RoundsOfStarts
  <2> SUFFICES ASSUME Init
               PROVE  RoundsOfStarts
    OBVIOUS
  <2>1. /\ 0 \in Nat /\ 0 \in Proxies /\ currentIndex = 0 * NumProxies + 0
        /\ \A p \in Proxies : starts[p] = 0 + (IF p \in 1 .. 0 THEN 1 ELSE 0)
    BY ConstantTypes DEF Init, Proxies
  <2> QED
    BY <2>1 DEF RoundsOfStarts
<1>2. RoundsOfStarts => EvenRotation
  BY DEF RoundsOfStarts, EvenRotation
<1>3. IInv => TypeOK
  BY DEF IInv
<1> QED
  BY <1>1, <1>2, <1>3, InductiveInvariant, RoundsStep, PTL DEF Spec
============================================================================
