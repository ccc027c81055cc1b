----------------------------- MODULE Lifecycle -----------------------------
(***************************************************************************)
(* The life of a pool: New and Close of rapidproxy/pool.go, with the       *)
(* configuration (config.go) and the constructors that New calls.          *)
(*                                                                         *)
(* New runs in the goroutine of its caller.  It writes plain fields of the *)
(* clients, which nothing protects but the order of its steps: the cleanup *)
(* goroutine runs already while New goes on, workers run before it returns.*)
(* A field that has not been set is a client outside a function's domain.  *)
(* Durations are in seconds, thresholds in percent.                        *)
(***************************************************************************)
EXTENDS Integers, Sequences, FiniteSets, Functions

CONSTANTS
  Configs,     \* the configurations New is called with
  Malformed    \* proxy URLs that url.Parse refuses

DefaultConfig ==
  [ProxyURLs |-> <<>>, NumWorkers |-> 1000, QueueSize |-> 10000,
   MaxIdleConns |-> 1000, MaxIdleConnsPerHost |-> 10, IdleConnTimeout |-> 90,
   DialTimeout |-> 5, TLSHandshakeTimeout |-> 5, KeepAlive |-> 30,
   ResponseHeaderTimeout |-> 10, RequestTimeout |-> 30, RateLimitPerProxy |-> 10,
   MaxConcurrentPerProxy |-> 0, DomainRateLimits |-> [d \in {} |-> 0],
   FailureThreshold |-> 50, DegradedThreshold |-> 20, MinRequestsForTrip |-> 10,
   RecoveryTimeout |-> 60, IdleCleanupInterval |-> 120, IdleCleanupTimeout |-> 90]

(* The struct Config: a list of URLs, a map to numbers, and numbers. *)
IsConfig(c) ==
  /\ DOMAIN c = DOMAIN DefaultConfig
  /\ c.ProxyURLs \in Seq(Range(c.ProxyURLs))
  /\ c.DomainRateLimits \in [DOMAIN c.DomainRateLimits -> Int]
  /\ \A f \in DOMAIN c \ {"ProxyURLs", "DomainRateLimits"} : c[f] \in Int

ASSUME LifecycleAssumption == \A c \in Configs : IsConfig(c)

Defaulted ==
  DOMAIN DefaultConfig \ {"ProxyURLs", "MaxConcurrentPerProxy", "DomainRateLimits"}

IsRate(percent) == 0 < percent /\ percent <= 100

(* Mutant: zero is let through, to be replaced by the default later. *)
ValidateLater(c) ==
  /\ c.ProxyURLs # <<>>
  /\ c.NumWorkers >= 0 /\ c.QueueSize >= 0 /\ c.RateLimitPerProxy >= 0
  /\ c.MaxConcurrentPerProxy >= 0
  /\ c.FailureThreshold \in 0 .. 100 /\ c.DegradedThreshold \in 0 .. 100
  /\ c.FailureThreshold > c.DegradedThreshold

Validate(c) ==
  /\ c.ProxyURLs # <<>>
  /\ c.NumWorkers > 0 /\ c.QueueSize > 0 /\ c.RateLimitPerProxy > 0
  /\ IsRate(c.FailureThreshold) /\ IsRate(c.DegradedThreshold)
  /\ c.MaxConcurrentPerProxy >= 0
  /\ c.DegradedThreshold < c.FailureThreshold

ApplyDefaults(c) ==
  [f \in DOMAIN c |-> IF f \in Defaulted /\ c[f] = 0 THEN DefaultConfig[f] ELSE c[f]]

VARIABLES
  config,       \* the caller's Config, to which New has a pointer
  pc,           \* the next step of the goroutine that calls New, then Close
  clients,      \* of the manager: a sequence of [url, transport]
  clientsMap,   \* its index by URL
  wired,        \* wired[part][i]: the object a field of client i points to
  maxRetries,   \* of the selector
  workers,      \* workers[w]: the client worker w uses, or Idle, or Exited
  workDone,     \* their context is cancelled, their queue closed
  cleanup,      \* the cleanup goroutine
  managerDone   \* the manager's context is cancelled

wiring  == <<config, clients, clientsMap, wired, maxRetries>>
running == <<workers, workDone, cleanup, managerDone>>
vars    == <<wiring, pc, running>>

Parts  == {"rateLimiter", "circuitBreaker", "concurrencySem", "domainLimiter"}
None   == [i \in {} |-> 0]
Each   == DOMAIN clients
Idle   == 0
Exited == -1

TypeOK ==
  /\ DOMAIN config = DOMAIN DefaultConfig
  /\ pc \in {"validate", "defaults", "initClients", "startCleanup", "limiters", "breakers",
             "semaphores", "domains", "selector", "start", "open", "wait",
             "closeManager", "waitCleanup", "closed", "failed"}
  /\ DOMAIN clientsMap = {clients[i].url : i \in Each} /\ Range(clientsMap) \subseteq Each
  /\ DOMAIN wired = Parts /\ \A part \in Parts : DOMAIN wired[part] \subseteq Each
  /\ maxRetries \in {0, Len(clients)}
  /\ workers \in Seq(Each \union {Idle, Exited})
  /\ workers = <<>> \/ Len(workers) <= config.NumWorkers
  /\ workDone \in BOOLEAN /\ managerDone \in BOOLEAN
  /\ cleanup \in {"none", "running", "exited"}

Init ==
  /\ config \in Configs
  /\ pc = "validate"
  /\ clients = <<>> /\ clientsMap = None
  /\ wired = [part \in Parts |-> None]
  /\ maxRetries = 0
  /\ workers = <<>> /\ workDone = FALSE
  /\ cleanup = "none" /\ managerDone = FALSE

At(label, next) == pc = label /\ pc' = next

----------------------------------------------------------------------------
(* New *)

Check ==
  /\ At("validate", IF Validate(config) THEN "defaults" ELSE "failed")
  /\ UNCHANGED <<wiring, running>>

SetDefaults ==
  /\ At("defaults", "initClients")
  /\ config' = ApplyDefaults(config)
  /\ UNCHANGED <<clients, clientsMap, wired, maxRetries, running>>

(* Of the transport's parameters only the limit of connections to a proxy  *)
(* bears on the rest of the pool; 0 is no limit.                           *)
NewTransport      == [maxConnsPerHost |-> config.MaxConcurrentPerProxy]
NewProxyClient(u) == [url |-> u, transport |-> NewTransport]

(* A client per URL, or none when one cannot be parsed.  The index keeps   *)
(* the last client of a URL.                                               *)
InitClients ==
  LET urls    == config.ProxyURLs
      Last(u) == CHOOSE i \in DOMAIN urls :
                   urls[i] = u /\ \A k \in DOMAIN urls : urls[k] = u => k <= i
  IN  /\ IF Range(urls) \intersect Malformed # {}
         THEN /\ At("initClients", "failed")
              /\ managerDone' = TRUE
              /\ UNCHANGED <<clients, clientsMap>>
         ELSE /\ At("initClients", "startCleanup")
              /\ clients' = [i \in DOMAIN urls |-> NewProxyClient(urls[i])]
              /\ clientsMap' = [u \in Range(urls) |-> Last(u)]
              /\ UNCHANGED managerDone
      /\ UNCHANGED <<config, wired, maxRetries, workers, workDone>>

StartCleanup ==
  /\ At("startCleanup", "limiters")
  /\ cleanup' = IF config.IdleCleanupInterval > 0 THEN "running" ELSE "none"
  /\ UNCHANGED <<wiring, workers, workDone, managerDone>>

NewManager == InitClients /\ UNCHANGED cleanup

(* An object of its own for each of the clients is, here, its number. *)
Wire(part, objects) ==
  /\ wired' = [wired EXCEPT ![part] = objects]
  /\ UNCHANGED <<config, clients, clientsMap, maxRetries, running>>

Bucket(i) ==
  [object |-> i, capacity |-> config.RateLimitPerProxy, refillRate |-> config.RateLimitPerProxy]

(* Mutant: limiters are set by URL, as the manager's SetRateLimiters does. *)
SetRateLimitersByURL ==
  At("limiters", "breakers") /\ Wire("rateLimiter", [i \in Range(clientsMap) |-> Bucket(i)])

RateLimiters    == [i \in Each |-> Bucket(i)]
SetRateLimiters == At("limiters", "breakers") /\ Wire("rateLimiter", RateLimiters)

CircuitBreakers ==
  [i \in Each |->
     [object |-> i, failure |-> config.FailureThreshold, degraded |-> config.DegradedThreshold,
      minRequests |-> config.MinRequestsForTrip, recoveryTimeout |-> config.RecoveryTimeout,
      windowSize |-> 60]]
SetCircuitBreakers == At("breakers", "semaphores") /\ Wire("circuitBreaker", CircuitBreakers)

Semaphores ==
  [i \in IF config.MaxConcurrentPerProxy > 0 THEN Each ELSE {} |->
     [object |-> i, capacity |-> config.MaxConcurrentPerProxy]]
SetSemaphores == At("semaphores", "domains") /\ Wire("concurrencySem", Semaphores)

(* NewDomainLimiter makes no bucket for a rate that is not positive. *)
DomainBuckets ==
  LET rps == config.DomainRateLimits
  IN  [d \in {e \in DOMAIN rps : rps[e] > 0} |->
         [capacity |-> rps[d], refillRate |-> 2 * rps[d]]]

DomainLimiters ==
  [i \in IF DOMAIN config.DomainRateLimits # {} THEN Each ELSE {} |->
     [object |-> i, limiters |-> DomainBuckets]]
SetDomainLimiters == At("domains", "selector") /\ Wire("domainLimiter", DomainLimiters)

(* Without clients New would fail here, with the cleanup still running. *)
NewSelector ==
  /\ At("selector", IF clients = <<>> THEN "failed" ELSE "start")
  /\ maxRetries' = Len(clients)
  /\ UNCHANGED <<config, clients, clientsMap, wired, running>>

(* Mutant: the workers are started before the fields are set. *)
StartEarly ==
  /\ \/ At("limiters", "breakers") /\ workers' = [w \in 1 .. config.NumWorkers |-> Idle]
     \/ At("start", "open") /\ UNCHANGED workers
  /\ UNCHANGED <<wiring, workDone, cleanup, managerDone>>

(* Mutant: one worker too many. *)
StartOneMore ==
  /\ IF Len(workers) <= config.NumWorkers
     THEN pc = "start" /\ workers' = Append(workers, Idle) /\ UNCHANGED pc
     ELSE At("start", "open") /\ UNCHANGED workers
  /\ UNCHANGED <<wiring, workDone, cleanup, managerDone>>

(* A go statement per worker; after the last of them New returns. *)
Start ==
  /\ IF Len(workers) < config.NumWorkers
     THEN pc = "start" /\ workers' = Append(workers, Idle) /\ UNCHANGED pc
     ELSE At("start", "open") /\ UNCHANGED workers
  /\ UNCHANGED <<wiring, workDone, cleanup, managerDone>>

----------------------------------------------------------------------------
(* The goroutines that New starts.  The select of a worker may choose a    *)
(* job also when its context is done.                                      *)

WorkerDoes(w, before, after) ==
  /\ workers[w] = before
  /\ workers' = [workers EXCEPT ![w] = after]
  /\ UNCHANGED <<wiring, pc, workDone, cleanup, managerDone>>

UseClient(w, i)   == WorkerDoes(w, Idle, i)
RequestEnds(w, i) == WorkerDoes(w, i, Idle)
WorkerExits(w)    == workDone /\ WorkerDoes(w, Idle, Exited)

CleanupExits ==
  /\ cleanup = "running" /\ managerDone
  /\ cleanup' = "exited"
  /\ UNCHANGED <<wiring, pc, workers, workDone, managerDone>>

----------------------------------------------------------------------------
(* Close, called once after New has returned *)

StopWorkers ==
  /\ At("open", "wait")
  /\ workDone' = TRUE
  /\ UNCHANGED <<wiring, workers, cleanup, managerDone>>

(* Mutant: the manager is closed while workers finish. *)
DoNotWait ==
  /\ At("wait", "closeManager")
  /\ UNCHANGED <<wiring, running>>

WorkersGone ==
  /\ At("wait", "closeManager")
  /\ \A w \in DOMAIN workers : workers[w] = Exited
  /\ UNCHANGED <<wiring, running>>

CloseManager ==
  /\ At("closeManager", "waitCleanup")
  /\ managerDone' = TRUE
  /\ UNCHANGED <<wiring, workers, workDone, cleanup>>

CleanupGone ==
  /\ At("waitCleanup", "closed")
  /\ cleanup # "running"
  /\ UNCHANGED <<wiring, running>>

----------------------------------------------------------------------------
New   == \/ Check \/ SetDefaults \/ (NewManager \/ StartCleanup)
         \/ SetRateLimiters \/ SetCircuitBreakers \/ SetSemaphores \/ SetDomainLimiters
         \/ NewSelector \/ Start
Close == StopWorkers \/ WorkersGone \/ CloseManager \/ CleanupGone

Next ==
  \/ New \/ Close
  \/ \E w \in DOMAIN workers :
       WorkerExits(w) \/ \E i \in Each : UseClient(w, i) \/ RequestEnds(w, i)
  \/ CleanupExits

Spec == Init /\ [][Next]_vars

----------------------------------------------------------------------------
(* Wherever a goroutine of the pool runs, what it reads has been written   *)
(* and is not written any more: the fields of clients are plain, and only  *)
(* the order of New's steps publishes them.                                *)
FrozenInUse ==
  [][ /\ workers # <<>> => UNCHANGED wiring
      /\ cleanup = "running" => UNCHANGED <<config, clients>> ]_vars

(* A worker finds a client whole: a rate limiter and a breaker, and the    *)
(* limits that are configured, each an object of this client alone, also   *)
(* when the same URL is given twice and makes two clients.                 *)
ClientsAreWhole ==
  workers # <<>> =>
    /\ Each # {} /\ Len(clients) = Len(config.ProxyURLs)
    /\ DOMAIN wired["rateLimiter"] = Each /\ DOMAIN wired["circuitBreaker"] = Each
    /\ config.MaxConcurrentPerProxy > 0 => DOMAIN wired["concurrencySem"] = Each
    /\ DOMAIN config.DomainRateLimits # {} => DOMAIN wired["domainLimiter"] = Each
    /\ \A part \in Parts : \A i, k \in DOMAIN wired[part] :
         wired[part][i].object = wired[part][k].object => i = k

(* Whatever the caller has left to the defaults, New passes on what the    *)
(* other modules assume of their constants: a queue, workers, rates and    *)
(* slots there are, the thresholds are in order, a window has a length, a  *)
(* rotation tries all proxies, and who holds a slot of a proxy may open a  *)
(* connection to it.  CircuitBreaker takes any minimum of requests and any *)
(* timeout, since a negative one is passed on as it is; but it is not a    *)
(* field left at zero that makes a breaker trip, or retry, at once.        *)
ComponentsSuited ==
  workers # <<>> =>
    /\ config.NumWorkers > 0 /\ config.QueueSize > 0
    /\ maxRetries = Len(config.ProxyURLs)
    /\ \A i \in Each :
         /\ wired["rateLimiter"][i].capacity > 0 /\ wired["rateLimiter"][i].refillRate > 0
         /\ LET b == wired["circuitBreaker"][i]
            IN  /\ 0 < b.degraded /\ b.degraded < b.failure /\ b.failure <= 100
                /\ b.minRequests \in Int \ {0} /\ b.recoveryTimeout \in Int \ {0}
                /\ b.windowSize > 0
         /\ LET limit == clients[i].transport.maxConnsPerHost
            IN  \/ limit = 0
                \/ /\ i \in DOMAIN wired["concurrencySem"]
                   /\ limit >= wired["concurrencySem"][i].capacity

(* A New that fails, and a pool that has been closed, leave no goroutine   *)
(* behind; and the manager closes connections for good only when no worker *)
(* can open one any more, which Manager relies on.                         *)
NothingLeftBehind ==
  /\ pc \in {"failed", "closed"} => cleanup # "running"
  /\ managerDone \/ pc = "failed" => \A w \in DOMAIN workers : workers[w] = Exited

----------------------------------------------------------------------------
(* Why they hold: what has been done by the time each label is reached. *)
Published      == {"start", "open", "wait", "closeManager", "waitCleanup", "closed"}
WithDomains    == Published \union {"selector"}
WithSemaphores == WithDomains \union {"domains"}
WithBreakers   == WithSemaphores \union {"semaphores"}
WithLimiters   == WithBreakers \union {"breakers"}
WithCleanup    == WithLimiters \union {"limiters"}
WithClients    == WithCleanup \union {"startCleanup"}
Checked        == WithClients \union {"initClients", "defaults"}

(* The defaults change nothing that has been validated, and leave no zero. *)
ConfigChecked ==
  /\ IsConfig(config)
  /\ pc \in Checked => Validate(config)
  /\ pc \in Checked \ {"defaults"} => \A f \in Defaulted : config[f] # 0

(* No field is written twice, and none before the list of clients is.      *)
WrittenInOrder ==
  /\ clients = IF pc \in WithClients
               THEN [i \in DOMAIN config.ProxyURLs |-> NewProxyClient(config.ProxyURLs[i])]
               ELSE <<>>
  /\ wired["rateLimiter"]    = IF pc \in WithLimiters   THEN RateLimiters    ELSE None
  /\ wired["circuitBreaker"] = IF pc \in WithBreakers   THEN CircuitBreakers ELSE None
  /\ wired["concurrencySem"] = IF pc \in WithSemaphores THEN Semaphores      ELSE None
  /\ wired["domainLimiter"]  = IF pc \in WithDomains    THEN DomainLimiters  ELSE None
  /\ maxRetries = IF pc \in Published THEN Len(clients) ELSE 0

(* Goroutines start after what they read is written, and end in the order  *)
(* in which Close waits for them.                                          *)
RunningInOrder ==
  /\ workers # <<>> => pc \in Published
  /\ pc \in {"closeManager", "waitCleanup", "closed"} =>
       \A w \in DOMAIN workers : workers[w] = Exited
  /\ cleanup # "none" => pc \in WithCleanup
  /\ pc = "closed" => cleanup # "running"
  /\ managerDone => pc \in {"waitCleanup", "closed", "failed"}

(* The inductive invariant of New and Close. *)
IInv == TypeOK /\ ConfigChecked /\ WrittenInOrder /\ RunningInOrder
============================================================================
