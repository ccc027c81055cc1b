----------------------------- MODULE MCPipeline -----------------------------
(* Constants for model checking the worker pool with its proxies. *)
EXTENDS Pipeline

CONSTANTS b1

MCBatch == <<b1>>
============================================================================
