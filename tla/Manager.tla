------------------------------ MODULE Manager ------------------------------
(***************************************************************************)
(* The connection manager (internal/connection/manager.go): a goroutine    *)
(* closes the connections of proxies that have not answered lately, on     *)
(* each tick of a ticker, until Close ends it.                             *)
(*                                                                         *)
(* The connections are those of net/http's transport, which keeps one open *)
(* after a request and reuses it.  Calls of Close may race; as in Close of *)
(* the pool, which stops the workers first, no request is in progress or   *)
(* begins then.                                                            *)
(***************************************************************************)
EXTENDS Integers, FiniteSets

CONSTANTS
  Clients,
  Closers,          \* goroutines that call Close
  CleanupEnabled,   \* IdleCleanupInterval > 0
  MaxConns          \* bound of the model: connections of a client

ASSUME ManagerAssumption ==
  /\ IsFiniteSet(Clients) /\ IsFiniteSet(Closers)
  /\ CleanupEnabled \in BOOLEAN
  /\ MaxConns \in Nat

VARIABLES
  idle, active,     \* idle[c], active[c]: the connections of client c
  recent,           \* clients whose lastSuccess is within IdleCleanupTimeout
  ticking,          \* the ticker runs
  tick,             \* its channel, which has room for one tick, is full
  ctxDone, cleanupDone,   \* the context is cancelled; the channel is closed
  lpc, todo,        \* the cleanup loop: its state, and the clients to look at
  xpc               \* xpc[x]: the state of a call of Close

conns == <<idle, active, recent>>
vars  == <<conns, ticking, tick, ctxDone, cleanupDone, lpc, todo, xpc>>

TypeOK ==
  /\ idle \in [Clients -> 0 .. MaxConns]
  /\ active \in [Clients -> 0 .. MaxConns]
  /\ recent \subseteq Clients
  /\ {ticking, tick, ctxDone, cleanupDone} \subseteq BOOLEAN
  /\ lpc \in {"select", "cleanup", "exited"}
  /\ todo \subseteq Clients
  /\ xpc \in [Closers -> {"new", "stop", "closeDone", "wait", "clients", "closed", "panicked"}]

Init ==
  /\ idle = [c \in Clients |-> 0]
  /\ active = [c \in Clients |-> 0]
  /\ recent = Clients           \* NewProxyClient sets lastSuccess
  /\ ticking = CleanupEnabled
  /\ tick = FALSE
  /\ ctxDone = FALSE /\ cleanupDone = FALSE
  /\ lpc = IF CleanupEnabled THEN "select" ELSE "exited"
  /\ todo = {}
  /\ xpc = [x \in Closers |-> "new"]

----------------------------------------------------------------------------
(* Requests of the workers, and time *)

Closing == \E x \in Closers : xpc[x] # "new"

Reusable(c) == idle[c] > 0

Request(c) ==
  /\ ~ Closing
  /\ idle[c] + active[c] < MaxConns \/ Reusable(c)
  /\ idle' = IF Reusable(c) THEN [idle EXCEPT ![c] = @ - 1] ELSE idle
  /\ active' = [active EXCEPT ![c] = @ + 1]
  /\ UNCHANGED <<recent, ticking, tick, ctxDone, cleanupDone, lpc, todo, xpc>>

(* The connection is kept; lastSuccess is stored when the request is one.  *)
Response(c) ==
  /\ active[c] > 0
  /\ active' = [active EXCEPT ![c] = @ - 1]
  /\ idle' = [idle EXCEPT ![c] = @ + 1]
  /\ recent' \in {recent, recent \union {c}}
  /\ UNCHANGED <<ticking, tick, ctxDone, cleanupDone, lpc, todo, xpc>>

Age(c) ==
  /\ c \in recent
  /\ recent' = recent \ {c}
  /\ UNCHANGED <<idle, active, ticking, tick, ctxDone, cleanupDone, lpc, todo, xpc>>

Tick ==
  /\ ticking
  /\ tick' = TRUE
  /\ UNCHANGED <<conns, ticking, ctxDone, cleanupDone, lpc, todo, xpc>>

----------------------------------------------------------------------------
(* cleanupLoop *)

(* Mutant: the loop looks at nothing but its ticker. *)
OnlyTicks == FALSE
Stopped   == cleanupDone \/ ctxDone

Select ==
  /\ lpc = "select"
  /\ \/ tick /\ tick' = FALSE /\ todo' = Clients /\ lpc' = "cleanup"
     \/ Stopped /\ lpc' = "exited" /\ UNCHANGED <<tick, todo>>
  /\ UNCHANGED <<conns, ticking, ctxDone, cleanupDone, xpc>>

(* CloseIdleConnections closes no connection with a request in progress.   *)
CleanupClient ==
  /\ lpc = "cleanup"
  /\ \E c \in todo :
       /\ idle' = IF c \in recent THEN idle ELSE [idle EXCEPT ![c] = 0]
       /\ todo' = todo \ {c}
  /\ UNCHANGED <<active, recent, ticking, tick, ctxDone, cleanupDone, lpc, xpc>>

CleanupEnds ==
  /\ lpc = "cleanup" /\ todo = {}
  /\ lpc' = "select"
  /\ UNCHANGED <<conns, ticking, tick, ctxDone, cleanupDone, todo, xpc>>

----------------------------------------------------------------------------
(* Close *)

CloserAt(x, label, next) == xpc[x] = label /\ xpc' = [xpc EXCEPT ![x] = next]

Cancel(x) ==
  /\ \A c \in Clients : active[c] = 0
  /\ CloserAt(x, "new", IF CleanupEnabled THEN "stop" ELSE "wait")
  /\ ctxDone' = TRUE
  /\ UNCHANGED <<conns, ticking, tick, cleanupDone, lpc, todo>>

StopTicker(x) ==
  /\ CloserAt(x, "stop", "closeDone")
  /\ ticking' = FALSE
  /\ UNCHANGED <<conns, tick, ctxDone, cleanupDone, lpc, todo>>

(* To close the channel again panics. *)
CloseDone(x) ==
  /\ CloserAt(x, "closeDone", IF cleanupDone THEN "panicked" ELSE "wait")
  /\ cleanupDone' = TRUE
  /\ UNCHANGED <<conns, ticking, tick, ctxDone, lpc, todo>>

(* Mutant: Close does not wait for the loop. *)
CleanupAtOnce(x) ==
  /\ CloserAt(x, "wait", "clients")
  /\ UNCHANGED <<conns, ticking, tick, ctxDone, cleanupDone, lpc, todo>>

WaitLoop(x) ==
  /\ lpc = "exited"
  /\ CloserAt(x, "wait", "clients")
  /\ UNCHANGED <<conns, ticking, tick, ctxDone, cleanupDone, lpc, todo>>

CloseClients(x) ==
  /\ CloserAt(x, "clients", "closed")
  /\ idle' = [c \in Clients |-> 0]
  /\ UNCHANGED <<active, recent, ticking, tick, ctxDone, cleanupDone, lpc, todo>>

LoopStep      == Select \/ CleanupClient \/ CleanupEnds
CloseStep(x)  == StopTicker(x) \/ CloseDone(x) \/ WaitLoop(x) \/ CloseClients(x)

Next ==
  \/ \E c \in Clients : Request(c) \/ Response(c) \/ Age(c)
  \/ Tick
  \/ LoopStep
  \/ \E x \in Closers : Cancel(x) \/ CloseStep(x)

Spec == Init /\ [][Next]_vars

(* Goroutines run. *)
FairSpec == Spec /\ WF_vars(LoopStep) /\ \A x \in Closers : WF_vars(CloseStep(x))

----------------------------------------------------------------------------
(* When Close has returned, the cleanup goroutine is gone and no open      *)
(* connection is left behind, fresh ones included.                         *)
ClosedIsClean ==
  (\E x \in Closers : xpc[x] = "closed")
    => lpc = "exited" /\ \A c \in Clients : idle[c] = 0 /\ active[c] = 0

(* Close returns although a tick may be waiting and a cleanup be going on, *)
(* and the call that does not return panics.                               *)
CloseReturns ==
  \A x \in Closers : xpc[x] \in {"stop", "wait"} ~> xpc[x] \in {"closed", "panicked"}
============================================================================
