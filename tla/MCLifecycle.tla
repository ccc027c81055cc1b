---------------------------- MODULE MCLifecycle ----------------------------
(* Constants for model checking New and Close. *)
EXTENDS Lifecycle

CONSTANTS p, q, bad, domain

(* Lists of proxies, with one that occurs twice and one that is malformed, *)
(* times numbers of workers, thresholds, slots, domain limits and cleanup  *)
(* intervals on both sides of the bounds that the code looks at.           *)
Combined ==
  { [DefaultConfig EXCEPT !.ProxyURLs = urls, !.NumWorkers = n,
                          !.FailureThreshold = t[1], !.DegradedThreshold = t[2],
                          !.MaxConcurrentPerProxy = slots, !.DomainRateLimits = rps,
                          !.IdleCleanupInterval = interval] :
      urls \in {<<>>, <<p>>, <<p, q>>, <<p, p>>, <<p, bad>>},
      n \in {-1, 0, 1, 2},
      t \in {<<50, 20>>, <<10, 0>>, <<20, 20>>, <<0, 0>>, <<101, 20>>},
      slots \in {-1, 0, 1},
      rps \in {[d \in {} |-> 0], [d \in {domain} |-> 1], [d \in {domain} |-> 0]},
      interval \in {-1, 0} }

(* The other numbers that bear on the components, one at a time. *)
OneProxy == [DefaultConfig EXCEPT !.ProxyURLs = <<p>>, !.NumWorkers = 1]

Varied ==
  { [OneProxy EXCEPT ![f] = n] :
      f \in {"QueueSize", "RateLimitPerProxy", "MinRequestsForTrip", "RecoveryTimeout"},
      n \in -1 .. 1 }

MCConfigs == Combined \union Varied
============================================================================
