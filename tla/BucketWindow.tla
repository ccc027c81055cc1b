---------------------------- MODULE BucketWindow ----------------------------
(***************************************************************************)
(* The token bucket over a window of time that begins at any moment at     *)
(* which no call is in progress, for instance after a pause.  RateBound of *)
(* TokenBucket counts from the creation of the bucket: a bucket that has   *)
(* been idle could pay out all that time at once and still respect it.     *)
(***************************************************************************)
EXTENDS TokenBucket

VARIABLES
  open,     \* history: whether the window has begun
  before,   \* history: the tokens that had been handed out by then
  lowest    \* history: the lowest time the clock has shown since

window    == <<open, before, lowest>>
watchVars == <<vars, window>>

WatchInit == Init /\ open = FALSE /\ before = 0 /\ lowest = StartTime

OpenWindow ==
  /\ ~ open /\ open' = TRUE
  /\ \A t \in Threads : pc[t] = "idle"
  /\ before' = granted
  /\ lowest' = clock
  /\ UNCHANGED vars

WatchNext ==
  \/ /\ Next
     /\ lowest' = IF open /\ clock' < lowest THEN clock' ELSE lowest
     /\ UNCHANGED <<open, before>>
  \/ OpenWindow

WatchSpec == WatchInit /\ [][WatchNext]_watchVars
          /\ \A t \in Threads : WF_vars(InCall(t))

(* A bucket that has been idle pays out at most twice its capacity before  *)
(* the refill rate sets the pace: the tokens it holds, and, because the    *)
(* tokens of the pause are added only after lastRefill has moved on, once  *)
(* more as many, when others empty it in between.                          *)
WindowBound ==
  open =>
    (granted - before) * NanosPerSec
      <= 2 * Capacity * NanosPerSec + RefillRate * (latest - lowest)

----------------------------------------------------------------------------
(* Why WindowBound holds.  The count is capped when a refill is added, so  *)
(* that a refill on its way into the bucket is worth a full one at most,   *)
(* however long the interval that it closes.                               *)
Worth == [t \in Threads |-> Capped(Pending[t])]

(* Calls begin in the window, since none was in progress when it opened.   *)
CallsSinceOpening ==
  open =>
    /\ lowest <= clock
    /\ \A t \in Threads : pc[t] # "idle" => lowest <= now[t]

(* What has been handed out in the window, is in the bucket or on its way. *)
InWindow == (granted - before) + tokens + SumUpTo(Worth, N)

(* Until an interval that ends in the window is closed, only what was in   *)
(* the bucket is paid out.  The first such interval, of any length, is     *)
(* worth one more full bucket; those after it begin in the window.         *)
WindowAccounting ==
  open =>
    \/ lastRefill < lowest /\ InWindow <= Capacity
    \/ /\ lastRefill >= lowest
       /\ InWindow * NanosPerSec
            <= 2 * Capacity * NanosPerSec + RefillRate * (lastRefill - lowest)

(* The inductive invariant behind WindowBound. *)
WindowIInv ==
  /\ IInv
  /\ open \in BOOLEAN /\ before \in 0 .. granted /\ lowest \in 0 .. MaxTime
  /\ CallsSinceOpening
  /\ WindowAccounting
============================================================================
