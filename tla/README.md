# A TLA+ model of rapid-proxy

rapid-proxy sends HTTP requests through a pool of proxies, with a rate limit, a
concurrency limit and a circuit breaker per proxy. Its core is concurrent and
almost free of locks: atomic words, compare-and-swap loops, buffered channels,
contexts, and plain fields that only the order of start-up publishes. These
modules model that core, TLC checks them on small instances, and TLAPS proves
the most important results for all values of the constants.

## The system

A request takes this way through the code:

    Do, DoBatch --> jobQueue --> worker --> Select --> domain limit --> proxy client
    rapidproxy/     worker/      worker/    selector/  ratelimit/       connection/
                                              |
                        breaker, semaphore and token bucket of each proxy

| Component | State | Operations | What makes it correct |
|---|---|---|---|
| token bucket `internal/ratelimit/token_bucket.go` | `tokens`, `lastRefill` (atomic words) | `TryAcquire`, `Acquire` (polls it), `Available`, `maybeRefill` | never hands out more than burst + rate x time; every interval is paid out once; lock-free |
| domain limiter `internal/ratelimit/domain_limiter.go` | a token bucket per domain | `NewDomainLimiter`, `TryAcquire`, `Acquire` | the wait for a domain does not stop the pool |
| sliding window `internal/ratelimit/sliding_window.go` | a map of buckets under a lock | `Increment`, `Count`, `Reset`, `cleanup` | counts what is in the window, stays bounded |
| circuit breaker `internal/health/circuit_breaker.go` | `state`, `lastStateChange`, two windows | `RecordSuccess`, `RecordFailure`, `IsHealthy` | trips when failures demand it, waits before a retry |
| selector `internal/selector/selector.go` | index and counters (atomic) | `Select` | full rotation, slots neither leaked nor exceeded, no token spent in vain |
| proxy client `internal/connection/client.go` | counters, semaphore, pointers to its limiters | `Do`, `GetMetrics`, `TryAcquireConcurrency`, `ReleaseConcurrency`, setters | each request counted once in the end |
| connection manager `internal/connection/manager.go` | clients, their index, a cleanup goroutine | `NewManager`, `cleanupLoop`, `Close` | `Close` ends the loop and the connections |
| transport `internal/connection/transport.go` | parameters | `NewTransport` | as many connections to a proxy as slots |
| worker pool `internal/worker/pool.go` | the job queue, counters | `worker`, `executeJob`, `Submit`, `SubmitBlocking`, `Stop` | a job runs at most once, the pool closes |
| pool `rapidproxy/pool.go` | the pool's context | `New`, `DoWithContext`, `DoBatchWithContext`, `Close` | every call returns, with a cause that is true; fields are set before they are used |
| configuration `rapidproxy/config.go` | `Config` | `DefaultConfig`, `Validate`, `ApplyDefaults` | the components get what they assume |
| metrics, errors and results | copies, constants | | see "What is not modelled" |

The components interact by direct calls on shared state (worker to selector to
breaker, bucket and semaphore), by channels (`jobQueue`, `ResultCh`), and by
contexts (of the caller, of the pool, of the worker pool). What is hard: atomic
words that belong together are written one after the other; checks are made on
values that are stale when acted upon; a `select` with several ready cases takes
any; the queue is closed while others send on it; calls are abandoned while
their jobs wait or run; a slot is held while a worker waits for something else;
and `Close` has to wait for workers it cannot interrupt. `PROJECT.json` lists
each hazard at its line with the properties that cover it.

## The modules

                Calls                        what callers are promised
                  ^  implemented by
             WorkerPool                      queue, workers, calls, Close
                  ^  implemented by
              Pipeline                       ... with slots and domain tokens

    Lifecycle    New and Close around all of it: who is built, set, started, ended
    Selector, TokenBucket (BucketWindow), SlidingWindow,
    CircuitBreaker (BreakerRetry),
    ProxyClient, Manager                     the inside of what Pipeline abstracts

`Calls` is the abstract specification. A call is new, open or returned, a job
not executed, running or done; a call returns once with an answer per job; an
answer that comes from an execution comes after it, a refused job is never
executed, and nothing starts after a Close has returned.

`WorkerPool` joins `worker/pool.go` with the calls that feed it. Callers
(`cpc`), the batch call (`bpc`), workers (`wpc`) and calls of `Close` (`xpc`)
share the queue and the contexts. Each `select` is a disjunction of its cases,
guarded by their readiness; a send on the closed queue is ready and panics, and
a panic ends the goroutine. What a call ends with is told by package and name,
since `worker.ErrPoolClosed` and `rapidproxy.ErrPoolClosed` are two values. The
proxy side of a job is reduced to its possible results. The refinement to
`Calls` reads the state of an execution off the workers' hands and the history
`runs`.

`Pipeline` extends `WorkerPool` and puts back what it leaves out of
`executeJob`: `Select` takes a slot of a proxy (`slots`, `held`), `Acquire`
waits for a token of the domain with the slot in hand, and the deferred
`ReleaseConcurrency` comes after the result has been delivered, as an action of
its own. `Select` is one step here; its inside is `Selector`. The bucket of a
domain is a count that time refills; its inside is `TokenBucket`. The refinement
to `WorkerPool` shows a worker that is about to release as one that waits for a
job.

`Lifecycle` is `New` statement by statement (`Check`, `SetDefaults`,
`InitClients`, `StartCleanup`, the four setters, `NewSelector`, one `Start` per
worker) and one `Close`, for each configuration in `Configs`. The goroutines
that `New` starts use clients while it goes on. `wired[part]` says which clients
have a field set and to which object. Thresholds are percentages, durations
seconds. The error return of the selector is there (`NewSelector`), and cannot
be reached after `Validate`.

`TokenBucket` has one action per atomic operation of `maybeRefill`, `TryAcquire`
and `Available`; `pc[t]` says which is next and `now`, `last`, `fresh`, `cur`
are the locals of goroutine `t`. `ReadClock`, `LoadLastRefill`, `CasLastRefill`,
`LoadForAdd` and `CasAdd` are `maybeRefill`, `LoadTokens` and `CasTokens` the
loop of `TryAcquire`. `Acquire` and `AcquireWithTimeout` add nothing but time
between calls of `TryAcquire`. The clock is the wall clock and may be set back;
`Int64` wraps a product at `MaxInt64`. `granted` and `latest` are history
variables: tokens handed out, and the highest time shown. `BucketWindow` adds an
observer that opens a window at any quiet moment, to tell what a bucket may pay
out after a pause.

`Selector` is `Select`: the checks of a proxy in their order, one action each
(`CheckContext`, `CheckHealth`, `TrySlot`, `TryToken`, `UndoSlot`), with
`ReleaseConcurrency` at the end of the request (`Finish`). Other workers, and an
environment that changes health and tokens, come in between.

`SlidingWindow` counts events in buckets; the clock is read in an action of its
own before the one that has the lock. `events` is the history of what was
recorded when, against which counts are compared. The clock only goes forward
here, while the code names and compares buckets by wall time: what counts are
worth after the clock has been set back the module does not say.

`CircuitBreaker` has one action per access to shared state: the counts and
increments of the windows, the load and the swap of the state, the store of its
time, the two resets. The clock is read in actions of their own, too: `ReadTime`
comes before the store of what it has read (`now[t]`), so that of two goroutines
that change the state at once the one that read first may store last;
`LoadLastChange` comes before `CanAttemptRecovery`, which reads the clock and
compares, so that anything may happen in between. Two histories say what the
times are worth: `entered` is the time of the last change of state, or, when it
overlapped with others (a swap while another is between its swap and its store),
of the first of these; `seen[t]` is what `entered` was when checker `t` found
the breaker dead with nobody in between, and zero otherwise. `purpose[t]` says
which of `shouldTrip`, `shouldDegrade` and `shouldRecover` a recorder is in.
Events leave the windows by `ExpireRequest` and `ExpireFailure`; two windows let
go of them apart because an event may fall into buckets that differ. This allows
a failure to leave before its request, which the code does not do: a superset of
its behaviours. The clock of this module does not go back. `MinRequests` and
`RecoveryTimeout` are any integers, since `Validate` looks at neither.
`BreakerRetry` adds an observer that notes when a recorder last made the breaker
dead, also one that was dead already.

`ProxyClient` has the counters of `Do` against the loads of `GetMetrics`. The
worker pool's and the selector's counters are read in the same way.

`Manager` has the cleanup loop, its ticker and `Close`; opening and keeping
connections is what net/http does with requests.

`Sums` defines a finite sum as a recursive function; its laws are at the head of
`TokenBucketProofs`. `SlidingWindow` sums by counting: the sum of `f` over a set
is the number of pairs of a place and one of its units. The `MC` modules name
constants, symmetries and a bound (`MCNext`) for TLC, the `Proofs` modules hold
the theorems.

Each module with mutants carries them next to the definition they vary: a
comment marked `Mutant` says which bug of the code they stand for. They are used
by no specification and show that the properties can fail.

## The runs

Runs that pass:

| Run | Bounds | Shows |
|---|---|---|
| `MCTokenBucket` (of `BucketWindow`) | 2 goroutines, capacity 1, rate 2/3 of a token per time unit, clock 1..5 | `RateBound`; `WindowBound`, at most twice the capacity after a pause; `WindowIInv`, the inductive invariant of both; that a refill credits more than half of what time is worth; that `lastRefill` never goes back; lock freedom |
| `MCSelector` | 2 workers, 2 proxies, 1 slot and 1 token each, 4 selections | slots, tokens, rotation, and that `Select` returns |
| `MCWorkerPool` | 1 worker, queue of 1, a Do whose context does not end, a batch of 2, 2 calls of Close | the inductive invariant `IInv` (no worker is left after Close, among others); a job runs once, errors have their causes, abandoned jobs send nothing; the calls return, also a batch of which the queue has refused a job |
| `MCPipeline` | 2 workers, queue of 1, a Do, a batch of 1, a Close, 1 proxy with 1 slot, a domain with a burst of 1 | the inductive invariant `PipelineIInv`; slots balance and come back; the pipeline is a worker pool and keeps the promise of `Calls`; calls return, accepted jobs run, Close returns |
| `MCLifecycle` | 5 lists of proxies (none, one, two, one twice, one malformed), -1..2 workers, 5 pairs of thresholds, -1..1 slots, 3 settings of domains, cleanup off or left to the default; besides, one at a time, -1..1 for `QueueSize`, `RateLimitPerProxy`, `MinRequestsForTrip` and `RecoveryTimeout` | the inductive invariant `IInv`; fields are set before they are used and not written afterwards; each client is whole; components get what they assume; a failed New and a Close leave nothing behind |
| `MCSlidingWindow` | 2 goroutines, window of 4 units, bucket of 2, 3 events, clock 5..11: the first bucket leaves the window | what is counted and what is kept |
| `MCCircuitBreaker` | 2 recorders, 1 checker, 3 requests in the window, thresholds 1/3 and 2/3 | the inductive invariant `IInv`, with the times of changes; trips are not missed; a proxy that is found dead, its death written down, waits for the timeout |
| `MCProxyClient` | 2 workers, 1 reader, 4 requests | counters balance, each counter of a report, the total among them, can be placed in time |
| `MCManager` | 2 clients, 2 connections each, 2 calls of Close | Close ends the loop and closes what is open; the second of two may panic, which counts as an end of it |

Two actors of a kind suffice for a race between two steps of a pair; the values
are the smallest that tell the outcomes apart (a queue of one is full with one
job, a minimum of two requests has a count below and one above it, a proxy with
one slot is busy with one request). A rate below one token per time unit is
needed for a refill to be rounded down. `MCWorkerPool` and `MCPipeline` share
the hard cases of calls: the first has a batch that is refused in part and a
second Close, which panics, with one worker; the second has two workers and a Do
that is abandoned, next to a batch of one job and one Close. All of them at
once, with the liveness properties, are too much for one run; the safety
properties are proved for any workers and calls. `MCCircuitBreaker` uses the
symmetry of recorders and has no liveness property. `MaxTime`, `MaxSelections`,
`MaxEvents`, `MaxRequests`, `MaxTokens` and `MaxConns` are bounds of the models
and stand in the guards; `Expires` switches the expiry of events off where a run
should show a race alone. `MCManager` and `MCLifecycle` switch the deadlock
check off: a pool that has been closed, and a New that has failed, do nothing
more.

Runs that end in a violation, each of a statement of the repository:

| Run | Statement |
|---|---|
| `MCNewCallsGetPoolClosed` | calls after Close get `ErrPoolClosed` (`errors.go:33`): or another package's error, or a panic |
| `MCDegradedFromHealthy` | only a healthy breaker degrades (`circuit_breaker.go:167`): a dead one, too, by a stale check |
| `MCFailedRetry` (of `BreakerRetry`) | a dead proxy is not used for the timeout (`config.go:146`, `:173`): one whose retry failed is, its timeout does not start again |

Other disagreements between what is written and what the code does, for which no
run is kept:

- A domain's limit is documented as its RPS with a burst of twice that
  (`domain_limiter.go:30`); the arguments of `NewTokenBucket` are capacity and
  rate, so that the rate is doubled and not the burst. `DomainBuckets` of
  `Lifecycle` has it as the code does.
- A proxy's burst is its rate (`rapidproxy/pool.go:74`), and not twice the rate
  (`rapidproxy/config.go:105`); after a pause it may be twice the capacity
  (`WindowBound`), since tokens are added after `lastRefill` has moved on.
- In that moment `TryAcquire` may also refuse although a refill is due.
- A refill is not elapsed seconds times rate when the product in nanoseconds
  exceeds an `int64` (`token_bucket.go:105`): at a rate of 1,000,000 after 2.6
  hours without a request. `RateBound` covers it: tokens are lost, never gained.
- `New` validates before it applies the defaults (`rapidproxy/pool.go:39`,
  `:43`): a zero `NumWorkers`, `QueueSize`, `RateLimitPerProxy` or threshold is
  an error, and that part of `ApplyDefaults` never has an effect. A nil `Config`
  ends in `ErrNoProxies`. `ApplyDefaults` writes to the caller's `Config`.
- `IdleCleanupInterval` of zero becomes two minutes; only a negative one
  switches the cleanup off.
- A URL that is given twice makes two clients, each with a rate limiter of its
  own, and `MaxIdleConns` is a limit per proxy, not of the pool.
- `ErrAllProxiesBusy` is also the answer when concurrency slots are taken, of
  proxies that are neither limited nor unhealthy (`errors.go:13`).
- A call that waits at Close gets `ErrPoolClosed`, and not `context.Canceled`
  (`errors.go:31`); its request is not cancelled.
- The errors of `errors.go` are declared again in internal packages, and calls
  end with those: to compare with the exported ones fails, but for
  `ErrPoolClosed` from the wait for a result.
- `GetErrorRate` may exceed 1 (`circuit_breaker.go:138`), and the breaker may
  trip on fewer requests than `MinRequestsForTrip`, since counts are taken at
  two times.
- Between the swap of the state and the store of its time `IsHealthy` may admit
  a request to a proxy that has just died. `DeadWaits` says nothing of a checker
  that looks at the state in that moment.
- Of two transitions that overlap, the one that has read the clock first may
  store last, and the breaker keeps the older time: a dead proxy may then be
  retried before its timeout. `ChangeIsStamped` and `DeadWaits` therefore count
  from the first of the transitions that overlap.
- A negative `MinRequestsForTrip` or `RecoveryTimeout` passes `Validate`
  (`rapidproxy/config.go:240`), and so does a threshold that is not a number,
  since every comparison with it is false: such a breaker trips on its first
  failure, retries at once, or never trips.
- A report of `GetMetrics` may show more outcomes than its total, and so an
  error rate above 1: the total is loaded first (`client.go:229`).
- A second Close of the pool panics in the worker pool (`worker/pool.go:215`);
  the manager, whose own second Close would panic too, is not reached.
- Nobody calls `SetState` of a client: the state that `GetMetrics` and the
  manager report stays healthy (`client.go:163`).

## Fairness

Liveness is checked under weak fairness of each goroutine's next step, which the
Go scheduler gives. A `select` with several ready cases is one step with a
choice; nothing is assumed about which case is taken. Nobody is obliged to make,
cancel or close anything. `Exchange` ends because `http.Client` has a timeout.

`Fairness` of the worker pool is no more than this. `PipelineFairness` adds that
time goes on: the bucket of a domain that is not full gets a token. A worker
that waits for its domain is given no token by assumption; it polls, and gets
one because others wait only finitely often: the run has finitely many jobs.
`CloseReturns` holds in it although Close does not cancel the wait for a domain.
In an unbounded stream of jobs one of many pollers may starve, which the run
does not say anything about.

`LockFree` of the token bucket is not that each call returns, which a loop of
compare-and-swaps does not promise, but that one which does not is overtaken
again and again by others that change the count.

## The proofs

| Module | Theorems | Property |
|---|---|---|
| `TokenBucketProofs` | `InductiveInvariant`, `TypeCorrect`, `RateLimited`, `LastRefillAdvances`, `RefillsAreFair` | `IInv`, `TypeOK`, `RateBound`, `LastRefillMonotone`, `RefillCreditsHalf` |
| | `WindowInductive`, `WindowLimited` | `WindowIInv`, `WindowBound` |
| `SelectorProofs` | `InductiveInvariant`, `NoSlotLeak`, `InFlightWithinCap`, `FailuresAreFree`, `BusyMeansAllRefused`, `RotationsAreEven` | `IInv`, `SlotsAreHeld`, `ConcurrencyCap`, `NoTokenWasted`, `FullRotation`, `EvenRotation` |
| `PipelineProofs`, of `WorkerPool` | `InductiveInvariant`, `JobsRunOnce`, `ErrorsAreTrue`, `AbandonedSendsNothing`, `ClosedIsQuiescent`, `PoolImplementsCalls` | `IInv`, `JobRunsOnce`, `OutcomeJustified`, `AbandonedJobSendsNothing`, `QuiescentAfterClose`, `ImplementsCalls` |
| `PipelineProofs`, of `Pipeline` | `PipelineInductive`, `SlotsAreBalanced`, `PipelineIsSafe`, `PipelineImplementsPool`, `PipelineImplementsCalls` | `PipelineIInv`, `SlotsBalance`, the four of the pool, `ImplementsPool`, `ImplementsCalls` |
| `LifecycleProofs` | `InductiveInvariant`, `WorkersFindWholeClients`, `ComponentsAreSuited`, `NoGoroutineLeft`, `FieldsFrozen` | `IInv`, `ClientsAreWhole`, `ComponentsSuited`, `NothingLeftBehind`, `FrozenInUse` |
| `SlidingWindowProofs` | `InductiveInvariant`, `WindowIsUpperBound`, `WindowIsLowerBound`, `MapStaysSmall` | its own `IInv`, `CountsOnlyWindow`, `CountsWholeWindow`, `BucketsAreRecent` |
| `CircuitBreakerProofs` | `InductiveInvariant`, `NoTripIsMissed`, `ChangesAreStamped`, `DeadProxiesWait` | `IInv`, `NoMissedTrip`, `ChangeIsStamped`, `DeadWaits` |
| `ManagerProofs` | `ClosedLeavesNothing` | `ClosedIsClean` |
| `ProxyClientProofs` | `EveryRequestIsCounted`, `ReportsAreBracketed` | `RequestsBalance`, `ReportIsBracketed` |

They hold for any number of goroutines, proxies, calls and requests, any queue,
capacity, rate, window and word size, any configurations, and any value of the
models' bounds. They assume what the named assumptions of the modules say of the
constants and nothing else; `RefillsAreFair` and `BusyMeansAllRefused` state one
more assumption each, which is explained below. Every safety property of a
passing run is proved.

- Token bucket. `IInv`'s heart is `Accounting`: tokens handed out, in the bucket
  and on their way into it are worth no more than the first fill and the
  intervals closed by `lastRefill`. `RateBound` alone is not inductive: between
  the compare-and-swap of `lastRefill` and that of `tokens` the tokens of an
  interval are in a local variable only. `Pending` sums these over all
  goroutines; `FreshIsEarned` says that a goroutine about to close an interval
  credits no more than its worth (here the overflow and the rounding only take
  away); `TimesOrdered` bounds all readings by `latest`. `RefillsAreFair` is the
  lower bound. It assumes that the rate times the age of the bucket does not
  exceed an `int64`; beyond that the product overflows and the code does lose
  tokens. `HalfCredited` holds between the load of `lastRefill` and its swap: a
  quotient that is at least one loses less than half of itself when it is
  rounded down.
- Window of the token bucket. No call is in progress when it opens, so that
  every reading of the clock is one of the window (`CallsSinceOpening`). Until
  an interval that ends in it has been closed, what is handed out, in the bucket
  and on its way is worth at most one full bucket. The first such interval may
  be a pause of any length; but `Capped` cuts what a refill adds, so that it is
  worth one full bucket more (`Worth`), and those after it begin in the window
  (`WindowAccounting`).
- Selector. The length of a semaphore is the number of workers that hold a slot;
  with it `WithinRotation` is inductive, which keeps a worker on the proxy it
  has acquired, and `SlotsWithinCapacity`. Those in flight hold a slot. `Trying`
  says which proxies a call has been to; that a whole rotation reaches every
  proxy is arithmetic of remainders (`RotationCovers`), and needs that
  `MaxRetries` has not been set below the number of proxies. For `EvenRotation`
  the counter is written as whole rounds and a rest (`RoundsOfStarts`): proxies
  up to the rest have one start more than the others.
- Worker pool. `IInv` adds to the four properties: `OnePlace` (a job is nowhere
  before it is accepted, then in the queue once, then with one worker, then
  done), `WorkerAtJob`, `BatchOrder` (the batch goes through its jobs in order),
  `Told`, and `Causes` (an error on its way has its cause already). The
  refinement maps a step of the pool to the step of `Calls` that opens a call,
  returns it, starts or finishes an execution or closes, and most steps to none;
  `NextMaps` has a lemma per action.
- Pipeline. Slots are held by workers between selection and release, and only by
  them (`WorkersHold`). The refinement to the worker pool is step by step:
  `GotoMaps` carries the change of a worker's place through the mapping. What is
  proved of the pool's variables is carried over to the pipeline by its own
  induction (`PipelineKeepsIInv`), since a worker that releases its slot is in a
  place the pool does not have: the lemmas about callers, batch and Close are
  used as they are, those about workers have a variant. On this rests
  `PipelineImplementsCalls`, that the callers of the whole pipeline get what
  `Calls` promises them.
- Life cycle. `New` is a sequence, so that its invariant says how far it has
  come: what has been validated and defaulted (`ConfigChecked`), which fields
  have been set and to what (`WrittenInOrder`), and which goroutines may run by
  then (`RunningInOrder`). Who runs is thereby related to what is still to be
  written. `ComponentsAreSuited` needs besides that `ApplyDefaults` keeps what
  `Validate` has accepted, and leaves no zero (`ConfigChecked`). Since there is
  a proxy, the selector is made (`SelectorIsMade`).
- Sliding window. The invariant is about every choice of buckets at once: their
  sum is no more than the events that fall into them (`NothingOld`), and no less
  if all of them begin late enough for no cleanup to have a claim on them
  (`NothingLost`), which is a matter of the present clock, since a goroutine
  cleans up with a time that is not ahead of it (`Readings`). A count is such a
  choice. Its sum is compared with the events by an inclusion between sets of
  units (`SumGrows`); an increment adds one unit (`SumAdds`).
- Circuit breaker. `SomeoneActs`: while the counts of a healthy breaker demand a
  trip some recorder is on its way to it with counts no lower than the present
  ones, or on its way to empty the windows. The last recorder to count a failure
  starts at a rate that is high enough, and a recorder that is between the two
  counts is not misled by requests that come later unless the windows let go of
  something: the invariant holds as long as the windows are not `disturbed`.
  `RequestsCover` (no more failures than requests, those on their way included)
  keeps a reset from leaving failures alone. For the times (`TimesInOrder`): who
  is about to store a time has read it after the first of the changes that
  overlap, and no change begins a new lot while it stands there, so that the
  time it stores is no older than `entered`, whoever stores last
  (`ChangeIsStamped`). For a checker (`SeenIsStamped`): the time it loads, and
  has loaded, is no older than the change it has seen; `DeadWaits` follows from
  this and the test against the clock. The assumptions say that recorders are
  finitely many and are not checkers, which are names of calls and not of
  goroutines.
- Manager. The steps of a Close are in order, and while one waits the loop is
  gone before the connections are closed.
- Proxy client. `Placed` says, at each load of a report, where it stands against
  the counters, the total among them; a counter that is still to be loaded only
  grows.

Model-checked only: liveness (`LockFree`, `SelectReturns`, `SlotsComeBack`,
`CallsReturn`, `AcceptedJobRuns` and the two `CloseReturns`), which rests on
fairness and is out of the prover's reach, and the violations. The invariant of
the sliding window speaks of all sets of buckets and is checked by no run of the
project; it has been checked on a smaller instance (2 events, clock up to 9).

## What is not modelled

- `Reset`, `SetCapacity`, `SetRefillRate` of the token bucket: only tests call
  them. Read-only statistics of each component other than `GetMetrics`; the
  selector's `totalSelections` is one of these, counted in the step that takes a
  start.
- The HTTP exchange, sockets, bodies, and the transport's parameters other than
  the limit of connections. A body that cannot be read to its end is a success
  in the code, as in the model.
- The client's last error, its timestamps and its own state word; the lookup of
  clients by URL and the manager's setters by URL, which only tests use (a
  mutant of `Lifecycle` shows what they would do with a URL given twice).
- Metrics: they copy what clients and manager report.
- Durations in results, and the fields of a `Result` but its error.
- Fields of the configuration that are handed to net/http as they are.
- Examples, and the servers that stand in for proxies in tests.

## The plan

Done: every component that runs in the pool, the abstract specification of its
calls with two levels of refinement, start-up and shutdown, and proofs of all
safety properties the runs check.

Left, in this order:

1. `AbstractLimiter`: an atomic bucket with a real-valued fill level, refined by
   `TokenBucket`, with the refinement proved; then `Reset`, `SetCapacity` and
   `SetRefillRate`.
2. `AtomicBreaker`: the breaker as its documentation has it, refined by
   `CircuitBreaker` with one recorder; its liveness (a dead proxy that answers
   again recovers).
3. `GetStats` of the worker pool against its counters.
4. Proofs: that an accepted job is never stranded unless Close is under way (the
   safety half of `AcceptedJobRuns`), that the order of the steps of two Closes
   leaves one to finish (that of `CloseReturns`), and the two refinements composed
   by instantiation.
