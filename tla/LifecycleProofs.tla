-------------------------- MODULE LifecycleProofs --------------------------
(***************************************************************************)
(* Proofs about New and Close, for any configurations and any URLs that    *)
(* cannot be parsed: the fields of the clients are written in order and    *)
(* before any goroutine that reads them runs, and no goroutine is left.    *)
(***************************************************************************)
EXTENDS Lifecycle, FiniteSetTheorems, TLAPS

(* A list has a last index at which something stands. *)
LEMMA LastIndex ==
  ASSUME NEW n \in Nat, NEW T, T \subseteq 1 .. n, T # {}
  PROVE  \E m \in T : \A k \in T : k <= m
<1> DEFINE Above == {m .. n : m \in T}
           R == StrictSubsetOrdering(Nat)
           F == FiniteSubsetsOf(Nat)
<1>1. IsWellFoundedOn(R, F)
  BY FS_StrictSubsetOrderingWellFounded
<1>2. Above \subseteq F
  <2>1. \A m \in T : IsFiniteSet(m .. n) /\ m .. n \subseteq Nat
    BY FS_Interval
  <2> QED
    BY <2>1 DEF FiniteSubsetsOf
<1>3. Above # {}
  OBVIOUS
<1> HIDE DEF F, R, Above
<1>4. PICK I \in Above : \A J \in Above : <<J, I>> \notin R
  BY <1>1, <1>2, <1>3, WFMin
<1>5. PICK m \in T : I = m .. n
  BY <1>4 DEF Above
<1>6. ASSUME NEW k \in T, m < k
      PROVE  FALSE
  <2>1. k .. n \in Above
    BY <1>6 DEF Above
  <2>2. /\ k .. n \subseteq Nat /\ m .. n \subseteq Nat
        /\ k .. n \subseteq m .. n
        /\ m \in m .. n /\ m \notin k .. n
    BY <1>6
  <2>3. <<k .. n, m .. n>> \in R
    BY <2>2 DEF R, StrictSubsetOrdering
  <2> QED
    BY <1>4, <1>5, <2>1, <2>3
<1> QED
  BY <1>6

----------------------------------------------------------------------------
(* The configuration *)

LEMMA ConfigTypes ==
  ASSUME NEW c, IsConfig(c)
  PROVE  /\ c.NumWorkers \in Int /\ c.QueueSize \in Int /\ c.RateLimitPerProxy \in Int
         /\ c.FailureThreshold \in Int /\ c.DegradedThreshold \in Int
         /\ c.MaxConcurrentPerProxy \in Int /\ c.IdleCleanupInterval \in Int
         /\ Len(c.ProxyURLs) \in Nat /\ DOMAIN c.ProxyURLs = 1 .. Len(c.ProxyURLs)
<1>1. {"NumWorkers", "QueueSize", "RateLimitPerProxy", "FailureThreshold",
       "DegradedThreshold", "MaxConcurrentPerProxy", "IdleCleanupInterval"}
        \subseteq DOMAIN DefaultConfig \ {"ProxyURLs", "DomainRateLimits"}
  BY DEF DefaultConfig
<1>2. \A f \in {"NumWorkers", "QueueSize", "RateLimitPerProxy", "FailureThreshold",
                "DegradedThreshold", "MaxConcurrentPerProxy", "IdleCleanupInterval"} :
        c[f] \in Int
  BY <1>1 DEF IsConfig
<1>3. Len(c.ProxyURLs) \in Nat /\ DOMAIN c.ProxyURLs = 1 .. Len(c.ProxyURLs)
  BY DEF IsConfig
<1> QED
  BY <1>2, <1>3

(* The defaults replace no field that Validate has found in order. *)
LEMMA DefaultsKept ==
  ASSUME NEW c, IsConfig(c), Validate(c)
  PROVE  /\ IsConfig(ApplyDefaults(c)) /\ Validate(ApplyDefaults(c))
         /\ \A f \in Defaulted : ApplyDefaults(c)[f] # 0
<1> DEFINE d == ApplyDefaults(c)
<1>1. DOMAIN d = DOMAIN c /\ DOMAIN c = DOMAIN DefaultConfig
  BY DEF ApplyDefaults, IsConfig
<1>2. {"ProxyURLs", "DomainRateLimits", "NumWorkers", "QueueSize", "RateLimitPerProxy",
       "FailureThreshold", "DegradedThreshold", "MaxConcurrentPerProxy"} \subseteq DOMAIN c
  BY <1>1 DEF DefaultConfig
<1>3. \A f \in DOMAIN DefaultConfig \ {"ProxyURLs", "DomainRateLimits"} : DefaultConfig[f] \in Int
  BY DEF DefaultConfig
<1>4. d.ProxyURLs = c.ProxyURLs /\ d.DomainRateLimits = c.DomainRateLimits
      /\ d.MaxConcurrentPerProxy = c.MaxConcurrentPerProxy
  BY <1>2 DEF ApplyDefaults, Defaulted
<1>5. \A f \in DOMAIN c : c[f] # 0 => d[f] = c[f]
  BY DEF ApplyDefaults
<1>6. IsConfig(d)
  <2>1. \A f \in DOMAIN d \ {"ProxyURLs", "DomainRateLimits"} : d[f] \in Int
    BY <1>1, <1>3 DEF ApplyDefaults, IsConfig
  <2> QED
    BY <1>1, <1>4, <2>1 DEF IsConfig
<1>7. Validate(d)
  <2>1. \A f \in {"NumWorkers", "QueueSize", "RateLimitPerProxy", "FailureThreshold",
                  "DegradedThreshold"} : c[f] # 0
    BY ConfigTypes DEF Validate, IsRate
  <2>2. \A f \in {"NumWorkers", "QueueSize", "RateLimitPerProxy", "FailureThreshold",
                  "DegradedThreshold"} : d[f] = c[f]
    BY <1>2, <1>5, <2>1
  <2> HIDE DEF d
  <2> QED
    BY <1>4, <2>2 DEF Validate
<1>8. ASSUME NEW f \in Defaulted
      PROVE  d[f] # 0
  <2>1. f \in DOMAIN c /\ DefaultConfig[f] # 0
    BY <1>1 DEF Defaulted, DefaultConfig
  <2> QED
    BY <2>1 DEF ApplyDefaults
<1> QED
  BY <1>6, <1>7, <1>8

----------------------------------------------------------------------------
(* The labels at which the clients, and each of their fields, are there.   *)
LEMMA StageSets ==
  /\ Published \subseteq WithDomains /\ WithDomains \subseteq WithSemaphores
  /\ WithSemaphores \subseteq WithBreakers /\ WithBreakers \subseteq WithLimiters
  /\ WithLimiters \subseteq WithCleanup /\ WithCleanup \subseteq WithClients
  /\ WithClients \subseteq Checked
BY DEF Published, WithDomains, WithSemaphores, WithBreakers, WithLimiters, WithCleanup,
       WithClients, Checked

(* A step of one of the workers. *)
WorkerStep ==
  \E w \in DOMAIN workers :
    WorkerExits(w) \/ \E i \in Each : UseClient(w, i) \/ RequestEnds(w, i)

LEMMA InitIInv == Init => IInv
<1> SUFFICES ASSUME Init
             PROVE  IInv
  OBVIOUS
<1> USE DEF Init, None, Each
<1>1. ConfigChecked
  BY LifecycleAssumption
     DEF ConfigChecked, Published, WithDomains, WithSemaphores, WithBreakers,
         WithLimiters, WithCleanup, WithClients, Checked
<1>2. WrittenInOrder
  BY DEF WrittenInOrder, Published, WithDomains, WithSemaphores, WithBreakers,
         WithLimiters, WithCleanup, WithClients, Parts
<1>3. RunningInOrder
  BY DEF RunningInOrder
<1>4. TypeOK
  <2>1. DOMAIN config = DOMAIN DefaultConfig
    BY LifecycleAssumption DEF IsConfig
  <2>2. Each = {} /\ DOMAIN clientsMap = {} /\ Range(clientsMap) = {}
    BY DEF Range
  <2>3. DOMAIN wired = Parts /\ \A part \in Parts : DOMAIN wired[part] = {}
    OBVIOUS
  <2>4. maxRetries = 0 /\ workers = <<>> /\ workers \in Seq(Each \union {Idle, Exited})
    OBVIOUS
  <2> QED
    BY <2>1, <2>2, <2>3, <2>4 DEF TypeOK
<1> QED
  BY <1>1, <1>2, <1>3, <1>4 DEF IInv

----------------------------------------------------------------------------
(* Only New's first steps look at the configuration and write it.          *)
LEMMA ConfigStep == IInv /\ [Next]_vars => ConfigChecked'
<1> SUFFICES ASSUME IInv, [Next]_vars
             PROVE  ConfigChecked'
  OBVIOUS
<1>1. ConfigChecked
  BY DEF IInv
<1>2. CASE Check
  BY <1>1, <1>2
     DEF Check, At, wiring, ConfigChecked, Published, WithDomains, WithSemaphores,
         WithBreakers, WithLimiters, WithCleanup, WithClients, Checked
<1>3. CASE SetDefaults
  <2>1. IsConfig(config) /\ Validate(config) /\ config' = ApplyDefaults(config)
    BY <1>1, <1>3 DEF SetDefaults, At, ConfigChecked, Checked
  <2> QED
    BY <2>1, DefaultsKept DEF ConfigChecked
<1>4. CASE ~ Check /\ ~ SetDefaults
  <2>1. /\ config' = config
        /\ pc' \in Checked => pc \in Checked
        /\ pc' \in Checked \ {"defaults"} => pc # "defaults"
    <3>1. CASE New
      BY <1>4, <3>1
         DEF New, NewManager, InitClients, StartCleanup, SetRateLimiters,
             SetCircuitBreakers, SetSemaphores, SetDomainLimiters, NewSelector, Start, Wire,
             At, wiring, Published, WithDomains, WithSemaphores, WithBreakers,
             WithLimiters, WithCleanup, WithClients, Checked
    <3>2. CASE Close
      BY <3>2
         DEF Close, StopWorkers, WorkersGone, CloseManager, CleanupGone, At, wiring,
             Published, WithDomains, WithSemaphores, WithBreakers,
             WithLimiters, WithCleanup, WithClients, Checked
    <3>3. CASE WorkerStep \/ CleanupExits \/ UNCHANGED vars
      BY <3>3
         DEF WorkerStep, WorkerExits, UseClient, RequestEnds, WorkerDoes, CleanupExits,
             vars, wiring
    <3> QED
      BY <1>4, <3>1, <3>2, <3>3 DEF Next, WorkerStep
  <2> QED
    BY <1>1, <2>1 DEF ConfigChecked
<1> QED
  BY <1>2, <1>3, <1>4

(* The objects are made of the configuration and the list of clients.      *)
LEMMA ObjectsKept ==
  ASSUME UNCHANGED <<config, clients>>
  PROVE  /\ RateLimiters' = RateLimiters /\ CircuitBreakers' = CircuitBreakers
         /\ Semaphores' = Semaphores /\ DomainLimiters' = DomainLimiters
BY DEF RateLimiters, Bucket, CircuitBreakers, Semaphores, DomainLimiters, DomainBuckets, Each

(* The clients are a list as long as the list of URLs, or none.            *)
LEMMA ClientsListed ==
  ASSUME IInv
  PROVE  /\ Len(clients) \in Nat /\ Each = 1 .. Len(clients)
         /\ pc \in WithClients => /\ Each = DOMAIN config.ProxyURLs
                                  /\ Len(clients) = Len(config.ProxyURLs)
<1>1. /\ Len(config.ProxyURLs) \in Nat
      /\ DOMAIN config.ProxyURLs = 1 .. Len(config.ProxyURLs)
  BY ConfigTypes DEF IInv, ConfigChecked
<1>2. CASE pc \in WithClients
  <2>1. clients = [i \in 1 .. Len(config.ProxyURLs) |-> NewProxyClient(config.ProxyURLs[i])]
    BY <1>1, <1>2 DEF IInv, WrittenInOrder
  <2>2. Len(clients) = Len(config.ProxyURLs)
    BY <1>1, <2>1
  <2> QED
    BY <1>1, <2>1, <2>2 DEF Each
<1>3. CASE pc \notin WithClients
  BY <1>3 DEF IInv, WrittenInOrder, Each
<1> QED
  BY <1>2, <1>3

(* There is a client by then, so that no pool gets lost for want of one.   *)
LEMMA SelectorIsMade ==
  ASSUME IInv, NewSelector
  PROVE  At("selector", "start")
<1>1. pc = "selector" /\ pc \in WithClients /\ pc \in Checked
  BY DEF NewSelector, At, WithDomains, WithSemaphores, WithBreakers, WithLimiters,
         WithCleanup, WithClients, Checked
<1>2. Len(clients) = Len(config.ProxyURLs) /\ Len(config.ProxyURLs) # 0
  BY <1>1, ClientsListed DEF IInv, ConfigChecked, IsConfig, Validate
<1>3. clients # <<>>
  BY <1>2
<1> QED
  BY <1>1, <1>3 DEF NewSelector, At

(* Each step of New writes the field it is there for, and no other.        *)
LEMMA WrittenStep == IInv /\ [Next]_vars => WrittenInOrder'
<1> SUFFICES ASSUME IInv, [Next]_vars
             PROVE  WrittenInOrder'
  OBVIOUS
<1>1. WrittenInOrder /\ DOMAIN wired = Parts
  BY DEF IInv, TypeOK
<1> USE DEF At, wiring, Parts, Published, WithDomains, WithSemaphores, WithBreakers,
            WithLimiters, WithCleanup, WithClients
<1>2. CASE UNCHANGED wiring /\ UNCHANGED pc
  BY <1>1, <1>2, ObjectsKept DEF WrittenInOrder, NewProxyClient, NewTransport
<1>3. CASE Check \/ SetDefaults
  BY <1>1, <1>3 DEF Check, SetDefaults, WrittenInOrder
<1>4. CASE InitClients
  BY <1>1, <1>4 DEF InitClients, WrittenInOrder, NewProxyClient, NewTransport
<1>5. CASE StartCleanup \/ Start
  BY <1>1, <1>5, ObjectsKept
     DEF StartCleanup, Start, WrittenInOrder, NewProxyClient, NewTransport
<1>6. CASE SetRateLimiters \/ SetCircuitBreakers
  BY <1>1, <1>6, ObjectsKept
     DEF SetRateLimiters, SetCircuitBreakers, Wire, WrittenInOrder, NewProxyClient,
         NewTransport
<1>7. CASE SetSemaphores \/ SetDomainLimiters
  BY <1>1, <1>7, ObjectsKept
     DEF SetSemaphores, SetDomainLimiters, Wire, WrittenInOrder, NewProxyClient,
         NewTransport
<1>8. CASE NewSelector
  BY <1>1, <1>8, ObjectsKept, SelectorIsMade
     DEF NewSelector, WrittenInOrder, NewProxyClient, NewTransport
<1>9. CASE Close
  BY <1>1, <1>9, ObjectsKept
     DEF Close, StopWorkers, WorkersGone, CloseManager, CleanupGone, WrittenInOrder,
         NewProxyClient, NewTransport
<1>10. CASE WorkerStep \/ CleanupExits \/ UNCHANGED vars
  BY <1>2, <1>10
     DEF WorkerStep, WorkerExits, UseClient, RequestEnds, WorkerDoes, CleanupExits, vars
<1> QED
  BY <1>3, <1>4, <1>5, <1>6, <1>7, <1>8, <1>9, <1>10
     DEF Next, New, NewManager, WorkerStep

(* Goroutines are started by StartCleanup and Start and end on their own.  *)
LEMMA RunningStep == IInv /\ [Next]_vars => RunningInOrder'
<1> SUFFICES ASSUME IInv, [Next]_vars
             PROVE  RunningInOrder'
  OBVIOUS
<1>1. RunningInOrder
  BY DEF IInv
<1> USE DEF At, wiring, running, Published, WithDomains, WithSemaphores, WithBreakers,
            WithLimiters, WithCleanup
<1>2. CASE Check \/ SetDefaults \/ NewManager
  BY <1>1, <1>2 DEF Check, SetDefaults, NewManager, InitClients, RunningInOrder
<1>3. CASE StartCleanup \/ Start
  BY <1>1, <1>3 DEF StartCleanup, Start, RunningInOrder
<1>8. CASE NewSelector
  BY <1>1, <1>8, SelectorIsMade DEF NewSelector, RunningInOrder
<1>4. CASE SetRateLimiters \/ SetCircuitBreakers \/ SetSemaphores \/ SetDomainLimiters
  BY <1>1, <1>4
     DEF SetRateLimiters, SetCircuitBreakers, SetSemaphores, SetDomainLimiters, Wire,
         RunningInOrder
<1>5. CASE Close
  BY <1>1, <1>5
     DEF Close, StopWorkers, WorkersGone, CloseManager, CleanupGone, RunningInOrder
<1>6. CASE WorkerStep
  <2>1. PICK w \in DOMAIN workers, before \in Each \union {Idle}, after \in Each \union {Idle, Exited} :
          WorkerDoes(w, before, after)
    BY <1>6 DEF WorkerStep, WorkerExits, UseClient, RequestEnds
  <2>2. workers[w] # Exited
    BY <2>1, ClientsListed DEF WorkerDoes, Idle, Exited
  <2>3. workers # <<>> /\ UNCHANGED <<pc, cleanup, managerDone>>
    BY <2>1 DEF WorkerDoes
  <2> QED
    BY <1>1, <2>2, <2>3 DEF RunningInOrder
<1>7. CASE CleanupExits \/ UNCHANGED vars
  BY <1>1, <1>7 DEF CleanupExits, vars, RunningInOrder
<1> QED
  BY <1>2, <1>3, <1>4, <1>5, <1>6, <1>7, <1>8 DEF Next, New, WorkerStep

(* The index has an entry for each URL, the last client of that URL.       *)
LEMMA IndexStep ==
  ASSUME IInv, [Next]_vars
  PROVE  /\ DOMAIN clientsMap' = {clients'[i].url : i \in Each'}
         /\ Range(clientsMap') \subseteq Each'
<1> DEFINE urls == config.ProxyURLs
<1>1. /\ DOMAIN clientsMap = {clients[i].url : i \in Each}
      /\ Range(clientsMap) \subseteq Each
  BY DEF IInv, TypeOK
<1>2. CASE UNCHANGED <<clients, clientsMap>>
  BY <1>1, <1>2 DEF Each, Range
<1>3. CASE /\ clients' = [i \in DOMAIN urls |-> NewProxyClient(urls[i])]
           /\ clientsMap' = [u \in Range(urls) |->
                CHOOSE i \in DOMAIN urls :
                  urls[i] = u /\ \A k \in DOMAIN urls : urls[k] = u => k <= i]
  <2>1. Len(urls) \in Nat /\ DOMAIN urls = 1 .. Len(urls)
    BY ConfigTypes DEF IInv, ConfigChecked
  <2>2. ASSUME NEW u \in Range(urls)
        PROVE  clientsMap'[u] \in DOMAIN urls
    <3> DEFINE T == {i \in DOMAIN urls : urls[i] = u}
    <3>1. T \subseteq 1 .. Len(urls) /\ T # {}
      BY <2>1 DEF Range
    <3>2. \E m \in T : \A k \in T : k <= m
      BY <2>1, <3>1, LastIndex
    <3>3. \E i \in DOMAIN urls : urls[i] = u /\ \A k \in DOMAIN urls : urls[k] = u => k <= i
      BY <3>2
    <3> QED
      BY <1>3, <3>3
  <2>3. Each' = DOMAIN urls /\ \A i \in Each' : clients'[i].url = urls[i]
    BY <1>3 DEF Each, NewProxyClient
  <2>4. DOMAIN clientsMap' = Range(urls)
    BY <1>3
  <2> QED
    BY <2>2, <2>3, <2>4 DEF Range
<1>4. \/ UNCHANGED <<clients, clientsMap>>
      \/ InitClients
  <2>1. CASE New
    BY <2>1
       DEF New, Check, SetDefaults, NewManager, StartCleanup, SetRateLimiters,
           SetCircuitBreakers, SetSemaphores, SetDomainLimiters, NewSelector, Start, Wire,
           wiring
  <2>2. CASE Close
    BY <2>2 DEF Close, StopWorkers, WorkersGone, CloseManager, CleanupGone, wiring
  <2>3. CASE WorkerStep \/ CleanupExits \/ UNCHANGED vars
    BY <2>3
       DEF WorkerStep, WorkerExits, UseClient, RequestEnds, WorkerDoes, CleanupExits,
           vars, wiring
  <2> QED
    BY <2>1, <2>2, <2>3 DEF Next, WorkerStep
<1> QED
  BY <1>2, <1>3, <1>4 DEF InitClients

(* A worker is idle, uses one of the clients or has exited; Start makes as *)
(* many as are configured.                                                 *)
LEMMA WorkersStep ==
  ASSUME IInv, [Next]_vars
  PROVE  /\ workers' \in Seq(Each' \union {Idle, Exited})
         /\ workers' = <<>> \/ Len(workers') <= config'.NumWorkers
<1>1. /\ workers \in Seq(Each \union {Idle, Exited})
      /\ workers = <<>> \/ Len(workers) <= config.NumWorkers
      /\ workers # <<>> => pc \in Published
      /\ config.NumWorkers \in Int
  BY ConfigTypes DEF IInv, TypeOK, RunningInOrder, ConfigChecked
<1>2. CASE workers' = workers /\ UNCHANGED <<config, clients>>
  BY <1>1, <1>2 DEF Each
<1>3. CASE Start
  <2>1. UNCHANGED <<config, clients>>
    BY <1>3 DEF Start, wiring
  <2>2. CASE workers' = Append(workers, Idle) /\ Len(workers) < config.NumWorkers
    BY <1>1, <2>1, <2>2 DEF Each
  <2> QED
    BY <1>2, <1>3, <2>1, <2>2 DEF Start
<1>4. CASE Check \/ SetDefaults \/ InitClients
  <2>1. pc \notin Published /\ workers' = workers
    BY <1>4 DEF Check, SetDefaults, InitClients, At, Published, running
  <2>2. workers' = <<>>
    BY <1>1, <2>1
  <2> QED
    BY <2>2
<1>5. CASE WorkerStep
  <2>1. PICK w \in DOMAIN workers, before \in Each \union {Idle}, after \in Each \union {Idle, Exited} :
          WorkerDoes(w, before, after)
    BY <1>5 DEF WorkerStep, WorkerExits, UseClient, RequestEnds
  <2>2. UNCHANGED <<config, clients>> /\ workers' = [workers EXCEPT ![w] = after]
    BY <2>1 DEF WorkerDoes, wiring
  <2> QED
    BY <1>1, <2>2 DEF Each
<1>6. CASE \/ StartCleanup \/ SetRateLimiters \/ SetCircuitBreakers \/ SetSemaphores
           \/ SetDomainLimiters \/ NewSelector \/ Close \/ CleanupExits \/ UNCHANGED vars
  BY <1>2, <1>6
     DEF StartCleanup, SetRateLimiters, SetCircuitBreakers, SetSemaphores,
         SetDomainLimiters, NewSelector, Wire, Close, StopWorkers, WorkersGone,
         CloseManager, CleanupGone, CleanupExits, vars, wiring, running
<1> QED
  BY <1>3, <1>4, <1>5, <1>6 DEF Next, New, NewManager, WorkerStep

LEMMA TypeStep ==
  ASSUME IInv, [Next]_vars, ConfigChecked', WrittenInOrder'
  PROVE  TypeOK'
<1>1. DOMAIN config' = DOMAIN DefaultConfig
  BY DEF ConfigChecked, IsConfig
<1>2. /\ pc' \in {"validate", "defaults", "initClients", "startCleanup", "limiters", "breakers",
                  "semaphores", "domains", "selector", "start", "open", "wait",
                  "closeManager", "waitCleanup", "closed", "failed"}
      /\ DOMAIN wired' = Parts
      /\ workDone' \in BOOLEAN /\ managerDone' \in BOOLEAN
      /\ cleanup' \in {"none", "running", "exited"}
  <2>1. TypeOK
    BY DEF IInv
  <2> USE DEF TypeOK, At, wiring, running
  <2>2. CASE New
    BY <2>1, <2>2
       DEF New, Check, SetDefaults, NewManager, InitClients, StartCleanup, SetRateLimiters,
           SetCircuitBreakers, SetSemaphores, SetDomainLimiters, NewSelector, Start, Wire
  <2>3. CASE Close
    BY <2>1, <2>3 DEF Close, StopWorkers, WorkersGone, CloseManager, CleanupGone
  <2>4. CASE WorkerStep \/ CleanupExits \/ UNCHANGED vars
    BY <2>1, <2>4
       DEF WorkerStep, WorkerExits, UseClient, RequestEnds, WorkerDoes, CleanupExits, vars
  <2> QED
    BY <2>2, <2>3, <2>4 DEF Next, WorkerStep
<1>3. \A part \in Parts : DOMAIN wired'[part] \subseteq Each'
  BY DEF WrittenInOrder, Parts, None, RateLimiters, CircuitBreakers, Semaphores,
         DomainLimiters, Each
<1>4. maxRetries' \in {0, Len(clients')}
  BY DEF WrittenInOrder
<1> QED
  BY <1>1, <1>2, <1>3, <1>4, IndexStep, WorkersStep DEF TypeOK, Each

----------------------------------------------------------------------------
LEMMA StepIInv == IInv /\ [Next]_vars => IInv'
BY ConfigStep, WrittenStep, RunningStep, TypeStep DEF IInv

(* For any configuration, what has been validated, written and started by  *)
(* each step of New, and what Close has ended.                             *)
THEOREM InductiveInvariant == Spec => []IInv
BY InitIInv, StepIInv, PTL DEF Spec

(* Every client a worker can be given has a rate limiter and a breaker of  *)
(* its own, and the limits that are configured.                            *)
THEOREM WorkersFindWholeClients == Spec => []ClientsAreWhole
<1>1. ASSUME IInv, workers # <<>>
      PROVE  ClientsAreWhole
  <2>1. /\ pc \in Published /\ pc \in WithClients /\ pc \in WithLimiters
        /\ pc \in WithBreakers /\ pc \in WithSemaphores /\ pc \in WithDomains
        /\ pc \in Checked
    BY <1>1, StageSets DEF IInv, RunningInOrder
  <2>2. /\ wired["rateLimiter"] = RateLimiters /\ wired["circuitBreaker"] = CircuitBreakers
        /\ wired["concurrencySem"] = Semaphores /\ wired["domainLimiter"] = DomainLimiters
    BY <1>1, <2>1 DEF IInv, WrittenInOrder
  <2>3. Each # {} /\ Len(clients) = Len(config.ProxyURLs)
    <3>1. /\ Each = 1 .. Len(config.ProxyURLs) /\ Len(clients) = Len(config.ProxyURLs)
          /\ Len(config.ProxyURLs) \in Nat
      BY <1>1, <2>1, ClientsListed, ConfigTypes DEF IInv, ConfigChecked
    <3>2. Len(config.ProxyURLs) # 0
      BY <1>1, <2>1 DEF IInv, ConfigChecked, IsConfig, Validate
    <3>3. 1 \in 1 .. Len(config.ProxyURLs)
      BY <3>1, <3>2
    <3> QED
      BY <3>1, <3>3
  <2>4. ASSUME NEW part \in Parts, NEW i \in DOMAIN wired[part]
        PROVE  wired[part][i].object = i
    BY <2>2, <2>4
       DEF Parts, RateLimiters, Bucket, CircuitBreakers, Semaphores, DomainLimiters
  <2>5. /\ DOMAIN wired["rateLimiter"] = Each /\ DOMAIN wired["circuitBreaker"] = Each
        /\ config.MaxConcurrentPerProxy > 0 => DOMAIN wired["concurrencySem"] = Each
        /\ DOMAIN config.DomainRateLimits # {} => DOMAIN wired["domainLimiter"] = Each
    BY <2>2 DEF RateLimiters, CircuitBreakers, Semaphores, DomainLimiters
  <2>6. \A part \in Parts : \A i, k \in DOMAIN wired[part] :
          wired[part][i].object = wired[part][k].object => i = k
    BY <2>4
  <2> QED
    BY <2>3, <2>5, <2>6 DEF ClientsAreWhole
<1>2. IInv => ClientsAreWhole
  BY <1>1 DEF ClientsAreWhole
<1> QED
  BY <1>2, InductiveInvariant, PTL

(* What New passes on is what the components assume of their constants.    *)
THEOREM ComponentsAreSuited == Spec => []ComponentsSuited
<1>1. ASSUME IInv, workers # <<>>
      PROVE  ComponentsSuited
  <2>1. /\ pc \in Published /\ pc \in WithClients /\ pc \in WithLimiters
        /\ pc \in WithBreakers /\ pc \in WithSemaphores /\ pc \in Checked
    BY <1>1, StageSets DEF IInv, RunningInOrder
  <2>2. /\ wired["rateLimiter"] = RateLimiters /\ wired["circuitBreaker"] = CircuitBreakers
        /\ wired["concurrencySem"] = Semaphores
        /\ maxRetries = Len(clients) /\ Len(clients) = Len(config.ProxyURLs)
        /\ Each = DOMAIN config.ProxyURLs
        /\ clients = [i \in DOMAIN config.ProxyURLs |-> NewProxyClient(config.ProxyURLs[i])]
    BY <1>1, <2>1, ClientsListed DEF IInv, WrittenInOrder
  <2>3. IsConfig(config) /\ Validate(config) /\ \A f \in Defaulted : config[f] # 0
    BY <1>1, <2>1 DEF IInv, ConfigChecked, Published
  <2>4. ASSUME NEW i \in Each
        PROVE  /\ wired["rateLimiter"][i].capacity = config.RateLimitPerProxy
               /\ wired["rateLimiter"][i].refillRate = config.RateLimitPerProxy
               /\ wired["circuitBreaker"][i].failure = config.FailureThreshold
               /\ wired["circuitBreaker"][i].degraded = config.DegradedThreshold
               /\ wired["circuitBreaker"][i].minRequests = config.MinRequestsForTrip
               /\ wired["circuitBreaker"][i].recoveryTimeout = config.RecoveryTimeout
               /\ wired["circuitBreaker"][i].windowSize = 60
               /\ clients[i].transport.maxConnsPerHost = config.MaxConcurrentPerProxy
               /\ config.MaxConcurrentPerProxy > 0 =>
                    /\ i \in DOMAIN wired["concurrencySem"]
                    /\ wired["concurrencySem"][i].capacity = config.MaxConcurrentPerProxy
    BY <2>2, <2>4
       DEF RateLimiters, Bucket, CircuitBreakers, Semaphores, NewProxyClient, NewTransport
  <2>5. /\ config.NumWorkers > 0 /\ config.QueueSize > 0 /\ config.RateLimitPerProxy > 0
        /\ 0 < config.DegradedThreshold /\ config.DegradedThreshold < config.FailureThreshold
        /\ config.FailureThreshold <= 100
        /\ config.MaxConcurrentPerProxy \in Int /\ config.MaxConcurrentPerProxy >= 0
    BY <2>3, ConfigTypes DEF Validate, IsRate
  <2>6. config.MaxConcurrentPerProxy = 0 \/ config.MaxConcurrentPerProxy > 0
    BY <2>5
  <2>7. maxRetries = Len(config.ProxyURLs)
    BY <2>2
  <2>9. /\ config.MinRequestsForTrip \in Int \ {0}
        /\ config.RecoveryTimeout \in Int \ {0}
    <3>1. {"MinRequestsForTrip", "RecoveryTimeout"}
            \subseteq Defaulted \intersect (DOMAIN DefaultConfig \ {"ProxyURLs", "DomainRateLimits"})
      BY DEF Defaulted, DefaultConfig
    <3> QED
      BY <2>3, <3>1 DEF IsConfig
  <2>8. ASSUME NEW i \in Each
        PROVE  /\ wired["rateLimiter"][i].capacity > 0 /\ wired["rateLimiter"][i].refillRate > 0
               /\ 0 < wired["circuitBreaker"][i].degraded
               /\ wired["circuitBreaker"][i].degraded < wired["circuitBreaker"][i].failure
               /\ wired["circuitBreaker"][i].failure <= 100
               /\ wired["circuitBreaker"][i].minRequests \in Int \ {0}
               /\ wired["circuitBreaker"][i].recoveryTimeout \in Int \ {0}
               /\ wired["circuitBreaker"][i].windowSize > 0
               /\ \/ clients[i].transport.maxConnsPerHost = 0
                  \/ /\ i \in DOMAIN wired["concurrencySem"]
                     /\ clients[i].transport.maxConnsPerHost
                          >= wired["concurrencySem"][i].capacity
    BY <2>4, <2>5, <2>6, <2>9
  <2> QED
    BY <2>5, <2>7, <2>8 DEF ComponentsSuited
<1>2. IInv => ComponentsSuited
  BY <1>1 DEF ComponentsSuited
<1> QED
  BY <1>2, InductiveInvariant, PTL

(* A failed New and a finished Close leave no goroutine, and the manager   *)
(* is told to finish only when the workers have.                           *)
THEOREM NoGoroutineLeft == Spec => []NothingLeftBehind
<1>1. IInv => NothingLeftBehind
  BY DEF IInv, RunningInOrder, NothingLeftBehind, Published, WithDomains, WithSemaphores,
         WithBreakers, WithLimiters, WithCleanup
<1> QED
  BY <1>1, InductiveInvariant, PTL

(* What a goroutine of the pool reads is not written while it runs.        *)
THEOREM FieldsFrozen == Spec => FrozenInUse
<1>1. ASSUME IInv, [Next]_vars
      PROVE  /\ workers # <<>> => UNCHANGED wiring
             /\ cleanup = "running" => UNCHANGED <<config, clients>>
  <2>1. /\ workers # <<>> => pc \in Published
        /\ cleanup = "running" => pc \in WithCleanup
    BY <1>1 DEF IInv, RunningInOrder
  <2> USE DEF At, wiring, Published, WithDomains, WithSemaphores, WithBreakers,
              WithLimiters, WithCleanup
  <2>2. CASE New
    BY <2>1, <2>2
       DEF New, Check, SetDefaults, NewManager, InitClients, StartCleanup, SetRateLimiters,
           SetCircuitBreakers, SetSemaphores, SetDomainLimiters, NewSelector, Start, Wire
  <2>3. CASE Close
    BY <2>3 DEF Close, StopWorkers, WorkersGone, CloseManager, CleanupGone
  <2>4. CASE WorkerStep \/ CleanupExits \/ UNCHANGED vars
    BY <2>4
       DEF WorkerStep, WorkerExits, UseClient, RequestEnds, WorkerDoes, CleanupExits, vars
  <2> QED
    BY <1>1, <2>2, <2>3, <2>4 DEF Next, WorkerStep
<1>2. IInv /\ [Next]_vars
        => [/\ workers # <<>> => UNCHANGED wiring
            /\ cleanup = "running" => UNCHANGED <<config, clients>>]_vars
  BY <1>1
<1> QED
  BY <1>2, InductiveInvariant, PTL DEF Spec, FrozenInUse
============================================================================
