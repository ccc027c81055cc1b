---------------------------- MODULE MCWorkerPool ----------------------------
(* Constants for model checking the worker pool. *)
EXTENDS WorkerPool

CONSTANTS b1, b2

MCBatch == <<b1, b2>>

(* Bound of the model: the context of a Do does not end. *)
MCNext == Next /\ ctxDone' \subseteq {BatchCtx}

MCSpec == Init /\ [][MCNext]_vars /\ Fairness
============================================================================
