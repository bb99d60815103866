--------------------------- MODULE TaskLifecycle ---------------------------
(***************************************************************************)
(* What the verification pipeline promises about a task, without queue,    *)
(* retries, stalls, timers or crashes: it is created, queued and settled,  *)
(* in this order and once; a node seals at most one evaluation of a task   *)
(* that was queued, while the task takes evaluations; it opens what it     *)
(* sealed at most once, and only after the task stopped taking them.       *)
(* VerificationPipeline is shown to implement it.                          *)
(***************************************************************************)
CONSTANTS Tasks, Nodes

VARIABLES
  stage,    \* "absent", "created", "queued", "settled"
  sealed,   \* nodes with a sealed evaluation of the task
  closed,   \* tasks that take no further evaluation
  opened    \* nodes whose evaluation of the task is public

lifecycle == <<stage, sealed, closed, opened>>

Create(t) ==
  /\ stage[t] = "absent"
  /\ stage' = [stage EXCEPT ![t] = "created"]
  /\ UNCHANGED <<sealed, closed, opened>>

Enqueue(t) ==
  /\ stage[t] = "created"
  /\ stage' = [stage EXCEPT ![t] = "queued"]
  /\ UNCHANGED <<sealed, closed, opened>>

Settle(t) ==
  /\ stage[t] = "queued"
  /\ stage' = [stage EXCEPT ![t] = "settled"]
  /\ UNCHANGED <<sealed, closed, opened>>

Seal(n, t) ==
  /\ stage[t] \in {"queued", "settled"} /\ t \notin closed /\ n \notin sealed[t]
  /\ sealed' = [sealed EXCEPT ![t] = @ \union {n}]
  /\ closed' \in {closed, closed \union {t}}
  /\ UNCHANGED <<stage, opened>>

Close(t) ==
  /\ stage[t] # "absent" /\ t \notin closed
  /\ closed' = closed \union {t}
  /\ UNCHANGED <<stage, sealed, opened>>

Open(n, t) ==
  /\ t \in closed /\ n \in sealed[t] \ opened[t]
  /\ opened' = [opened EXCEPT ![t] = @ \union {n}]
  /\ UNCHANGED <<stage, sealed, closed>>

LifecycleInit ==
  /\ stage = [t \in Tasks |-> "absent"]
  /\ sealed = [t \in Tasks |-> {}] /\ opened = [t \in Tasks |-> {}]
  /\ closed = {}

LifecycleNext ==
  \E t \in Tasks :
    \/ Create(t) \/ Enqueue(t) \/ Settle(t) \/ Close(t)
    \/ \E n \in Nodes : Seal(n, t) \/ Open(n, t)

LifecycleSpec == LifecycleInit /\ [][LifecycleNext]_lifecycle
=============================================================================
