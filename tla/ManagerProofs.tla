---------------------------- MODULE ManagerProofs ----------------------------
(***************************************************************************)
(* Proofs about the connection manager, for any number of clients, of      *)
(* their connections and of calls of Close: nothing is left after Close.   *)
(***************************************************************************)
EXTENDS Manager, TLAPS

(* Requests have ended before Close begins and none begins afterwards; a   *)
(* call of Close that has come to the clients has waited for the loop.     *)
ClosingInOrder ==
  /\ Closing => \A c \in Clients : active[c] = 0
  /\ (\E x \in Closers : xpc[x] \in {"clients", "closed"}) => lpc = "exited"

Bounded == \A c \in Clients : idle[c] + active[c] <= MaxConns

IInv == TypeOK /\ Bounded /\ ClosingInOrder /\ ClosedIsClean

LEMMA InitIInv == Init => IInv
<1> SUFFICES ASSUME Init
             PROVE  IInv
  OBVIOUS
<1>1. TypeOK
  <2>1. {ticking, tick, ctxDone, cleanupDone} \subseteq BOOLEAN
    BY ManagerAssumption DEF Init
  <2>2. idle \in [Clients -> 0 .. MaxConns] /\ active \in [Clients -> 0 .. MaxConns]
    BY ManagerAssumption DEF Init
  <2> QED
    BY <2>1, <2>2 DEF Init, TypeOK
<1>2. Bounded
  BY ManagerAssumption DEF Init, Bounded
<1>3. ClosingInOrder /\ ClosedIsClean
  BY DEF Init, ClosingInOrder, ClosedIsClean, Closing
<1> QED
  BY <1>1, <1>2, <1>3 DEF IInv

LEMMA ConnTypes ==
  ASSUME IInv
  PROVE  /\ MaxConns \in Nat /\ DOMAIN idle = Clients /\ DOMAIN active = Clients
         /\ \A c \in Clients : /\ idle[c] \in Nat /\ active[c] \in Nat
                               /\ idle[c] + active[c] <= MaxConns
         /\ recent \subseteq Clients /\ todo \subseteq Clients
BY ManagerAssumption DEF IInv, TypeOK, Bounded

(* Connections are opened, used, kept and forgotten. *)
LEMMA ConnsStep ==
  ASSUME IInv, NEW c \in Clients, Request(c) \/ Response(c) \/ Age(c)
  PROVE  IInv'
<1>0. TypeOK /\ Bounded /\ ClosingInOrder /\ ClosedIsClean
  BY DEF IInv
<1>1. UNCHANGED <<ticking, tick, ctxDone, cleanupDone, lpc, todo, xpc>>
  BY DEF Request, Response, Age
<1>2. CASE UNCHANGED <<idle, active>> /\ recent' \subseteq Clients
  BY <1>0, <1>1, <1>2 DEF IInv, TypeOK, Bounded, ClosingInOrder, ClosedIsClean, Closing
<1>3. CASE ~ Closing
  <2>1. /\ idle \in [Clients -> 0 .. MaxConns] /\ active \in [Clients -> 0 .. MaxConns]
        /\ idle = [idle EXCEPT ![c] = idle[c]] /\ active = [active EXCEPT ![c] = active[c]]
    BY <1>0 DEF TypeOK
  <2>2. /\ idle' = [idle EXCEPT ![c] = idle'[c]] /\ active' = [active EXCEPT ![c] = active'[c]]
        /\ idle'[c] \in Nat /\ active'[c] \in Nat /\ idle'[c] + active'[c] <= MaxConns
    <3>1. CASE Request(c) /\ Reusable(c)
      BY <2>1, <3>1, ConnTypes DEF Request, Reusable
    <3>2. CASE Request(c) /\ ~ Reusable(c)
      BY <2>1, <3>2, ConnTypes DEF Request
    <3>3. CASE Response(c)
      BY <2>1, <3>3, ConnTypes DEF Response
    <3>4. CASE Age(c)
      BY <1>2, <2>1, <3>4, ConnTypes DEF Age
    <3> QED
      BY <3>1, <3>2, <3>3, <3>4
  <2>3. recent' \subseteq Clients
    BY ConnTypes DEF Request, Response, Age
  <2>4. /\ idle' \in [Clients -> 0 .. MaxConns]
        /\ active' \in [Clients -> 0 .. MaxConns]
        /\ Bounded'
    BY <2>1, <2>2, ConnTypes DEF Bounded
  <2> QED
    BY <1>0, <1>1, <1>3, <2>3, <2>4
    DEF IInv, TypeOK, ClosingInOrder, ClosedIsClean, Closing
<1>4. CASE Closing
  <2>1. Age(c)
    BY <1>0, <1>4 DEF ClosingInOrder, Request, Response
  <2> QED
    BY <1>2, <2>1, ConnTypes DEF Age
<1> QED
  BY <1>3, <1>4

(* The ticker, the loop, and what Close does before it waits. *)
LEMMA LoopSteps ==
  ASSUME IInv, Tick \/ Select \/ CleanupEnds
  PROVE  IInv'
<1> USE DEF IInv, conns
<1>1. {ticking', tick', ctxDone', cleanupDone'} \subseteq BOOLEAN
  BY DEF Tick, Select, CleanupEnds, TypeOK
<1>2. lpc = "exited" => lpc' = "exited"
  BY DEF Tick, Select, CleanupEnds
<1>3. /\ UNCHANGED <<idle, active, recent, xpc>>
      /\ lpc' \in {"select", "cleanup", "exited"} /\ todo' \subseteq Clients
  BY DEF Tick, Select, CleanupEnds, TypeOK
<1> QED
  BY <1>1, <1>2, <1>3 DEF TypeOK, Bounded, ClosingInOrder, ClosedIsClean, Closing

LEMMA CleanupStep ==
  ASSUME IInv, CleanupClient
  PROVE  IInv'
<1>0. TypeOK /\ Bounded /\ ClosingInOrder /\ ClosedIsClean
  BY DEF IInv
<1>1. /\ UNCHANGED <<active, recent, ticking, tick, ctxDone, cleanupDone, lpc, xpc>>
      /\ lpc = "cleanup" /\ todo' \subseteq Clients
      /\ \E c \in Clients : idle' = idle \/ idle' = [idle EXCEPT ![c] = 0]
  BY <1>0 DEF CleanupClient, TypeOK
<1>2. idle' \in [Clients -> 0 .. MaxConns] /\ Bounded'
  BY <1>0, <1>1, ConnTypes DEF TypeOK, Bounded
<1>3. ~ \E x \in Closers : xpc[x] = "closed"
  BY <1>0, <1>1 DEF ClosingInOrder
<1> QED
  BY <1>0, <1>1, <1>2, <1>3 DEF IInv, TypeOK, ClosingInOrder, ClosedIsClean, Closing

LEMMA CloseSteps ==
  ASSUME IInv, NEW x \in Closers, Cancel(x) \/ CloseStep(x)
  PROVE  IInv'
<1>0. TypeOK /\ Bounded /\ ClosingInOrder /\ ClosedIsClean
  BY DEF IInv
<1> DEFINE Labels == {"new", "stop", "closeDone", "wait", "clients", "closed", "panicked"}
<1>1. /\ UNCHANGED <<active, recent, tick, lpc, todo>>
      /\ {ticking', tick', ctxDone', cleanupDone'} \subseteq BOOLEAN
  BY <1>0
     DEF TypeOK, Cancel, CloseStep, StopTicker, CloseDone, WaitLoop,
         CloseClients, conns
<1>2. PICK next \in Labels : xpc' = [xpc EXCEPT ![x] = next]
  BY DEF Cancel, CloseStep, StopTicker, CloseDone, WaitLoop, CloseClients, CloserAt
<1>3. xpc' \in [Closers -> Labels] /\ \A y \in Closers \ {x} : xpc'[y] = xpc[y]
  BY <1>0, <1>2 DEF TypeOK
<1>4. CASE CloseClients(x)
  <2>1. /\ xpc[x] = "clients" /\ idle' = [c \in Clients |-> 0]
    BY <1>4 DEF CloseClients, CloserAt
  <2>2. lpc = "exited" /\ \A c \in Clients : active[c] = 0
    BY <1>0, <2>1 DEF ClosingInOrder, Closing
  <2>3. idle' \in [Clients -> 0 .. MaxConns] /\ Bounded'
    BY <1>1, <2>1, ConnTypes DEF Bounded
  <2> QED
    BY <1>0, <1>1, <1>3, <2>1, <2>2, <2>3 DEF IInv, TypeOK, ClosingInOrder, ClosedIsClean
<1>5. CASE Cancel(x) \/ StopTicker(x) \/ CloseDone(x) \/ WaitLoop(x)
  <2>1. idle' = idle /\ xpc'[x] # "closed" /\ xpc[x] # "closed"
    BY <1>0, <1>3, <1>5
    DEF TypeOK, Cancel, StopTicker, CloseDone, WaitLoop, CloserAt, conns
  <2>2. xpc'[x] = "clients" => lpc = "exited"
    BY <1>0, <1>3, <1>5 DEF TypeOK, Cancel, StopTicker, CloseDone, WaitLoop, CloserAt
  <2>3. \A c \in Clients : active[c] = 0
    <3>1. CASE Cancel(x)
      BY <3>1 DEF Cancel
    <3>2. CASE xpc[x] # "new"
      BY <1>0, <3>2 DEF ClosingInOrder, Closing
    <3> QED
      BY <1>5, <3>1, <3>2 DEF StopTicker, CloseDone, WaitLoop, CloserAt
  <2>4. TypeOK' /\ Bounded'
    BY <1>0, <1>1, <1>3, <2>1 DEF TypeOK, Bounded
  <2>5. ClosingInOrder' /\ ClosedIsClean'
    BY <1>0, <1>1, <1>3, <2>1, <2>2, <2>3 DEF ClosingInOrder, ClosedIsClean
  <2> QED
    BY <2>4, <2>5 DEF IInv
<1> QED
  BY <1>4, <1>5 DEF CloseStep

LEMMA NextIInv == IInv /\ [Next]_vars => IInv'
<1> SUFFICES ASSUME IInv, [Next]_vars
             PROVE  IInv'
  OBVIOUS
<1>1. CASE UNCHANGED vars
  BY <1>1
  DEF IInv, TypeOK, Bounded, ClosingInOrder, ClosedIsClean, Closing, vars, conns
<1> QED
  BY <1>1, ConnsStep, LoopSteps, CleanupStep, CloseSteps DEF Next, LoopStep

(* When Close has returned the loop has ended and no connection is open.   *)
THEOREM ClosedLeavesNothing == Spec => []ClosedIsClean
<1>1. Spec => []IInv
  BY InitIInv, NextIInv, PTL DEF Spec
<1>2. IInv => ClosedIsClean
  BY DEF IInv
<1> QED
  BY <1>1, <1>2, PTL
=============================================================================
