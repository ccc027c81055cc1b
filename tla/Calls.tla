-------------------------------- MODULE Calls --------------------------------
(***************************************************************************)
(* What the pool promises to its callers: a call returns once, with one    *)
(* answer per job; a job is executed at most once; an answer that reports  *)
(* an execution comes after it; a job that was refused is never executed;  *)
(* and nothing is begun once Close has returned.  Nothing is promised      *)
(* about a job whose caller has stopped waiting: it may be executed later. *)
(***************************************************************************)
CONSTANTS
  CallIds,
  JobsOf,      \* JobsOf[c]: the jobs of call c
  Answers,     \* what a call can be told of a job
  Executed,    \* those that come from its execution
  Refused,     \* those that say the job has not been accepted
  NoAnswer

VARIABLES
  call,        \* call[c]: "new", "open" or "returned"
  execution,   \* execution[j]: "none", "running" or "done"
  answer,      \* answer[j]
  closed       \* a Close has returned

vars == <<call, execution, answer, closed>>
Jobs == UNION {JobsOf[c] : c \in CallIds}

Init ==
  /\ call = [c \in CallIds |-> "new"]
  /\ execution = [j \in Jobs |-> "none"]
  /\ answer = [j \in Jobs |-> NoAnswer]
  /\ closed = FALSE

Open(c) ==
  /\ call[c] = "new"
  /\ call' = [call EXCEPT ![c] = "open"]
  /\ UNCHANGED <<execution, answer, closed>>

Start(j) ==
  /\ ~ closed
  /\ execution[j] = "none" /\ answer[j] \notin Refused
  /\ \E c \in CallIds : j \in JobsOf[c] /\ call[c] # "new"
  /\ execution' = [execution EXCEPT ![j] = "running"]
  /\ UNCHANGED <<call, answer, closed>>

Finish(j) ==
  /\ execution[j] = "running"
  /\ execution' = [execution EXCEPT ![j] = "done"]
  /\ UNCHANGED <<call, answer, closed>>

Return(c) ==
  /\ call[c] = "open"
  /\ call' = [call EXCEPT ![c] = "returned"]
  /\ \A j \in Jobs : IF j \notin JobsOf[c] THEN answer'[j] = answer[j]
                     ELSE /\ answer'[j] \in Answers
                          /\ answer'[j] \in Executed => execution[j] = "done"
                          /\ answer'[j] \in Refused => execution[j] = "none"
  /\ DOMAIN answer' = Jobs
  /\ UNCHANGED <<execution, closed>>

Closed ==
  /\ \A j \in Jobs : execution[j] # "running"
  /\ closed' = TRUE
  /\ UNCHANGED <<call, execution, answer>>

Next ==
  \/ \E c \in CallIds : Open(c) \/ Return(c)
  \/ \E j \in Jobs : Start(j) \/ Finish(j)
  \/ Closed

Spec == Init /\ [][Next]_vars
============================================================================
