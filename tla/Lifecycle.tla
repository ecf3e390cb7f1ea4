----------------------------- MODULE Lifecycle -----------------------------
(***************************************************************************)
(* The states of the orchestrator and the moves between them               *)
(* (orchestration/lifecycle.py).  The runner and the training loop make    *)
(* the moves; a mark is ignored in a state it does not apply to.           *)
(***************************************************************************)
EXTENDS Integers, Sequences

VARIABLE history  \* every state so far

LifecycleState ==
  {"INIT", "STARTING", "RUNNING", "DEGRADED", "SHUTTING_DOWN", "STOPPED", "FAILED"}

state == history[Len(history)]

Allowed ==
  [INIT          |-> {"STARTING", "FAILED"},
   STARTING      |-> {"RUNNING", "DEGRADED", "FAILED"},
   RUNNING       |-> {"DEGRADED", "SHUTTING_DOWN", "FAILED"},
   DEGRADED      |-> {"RUNNING", "SHUTTING_DOWN", "FAILED"},
   SHUTTING_DOWN |-> {"STOPPED", "FAILED"},
   STOPPED       |-> {},
   FAILED        |-> {}]

\* A transition that is not allowed raises.
May(h, s) == s \in Allowed[h[Len(h)]]

MarkDegraded(h) ==
  IF h[Len(h)] \in {"RUNNING", "STARTING"} THEN Append(h, "DEGRADED") ELSE h

BeginShutdown(h) ==
  IF h[Len(h)] \in {"RUNNING", "DEGRADED"} THEN Append(h, "SHUTTING_DOWN") ELSE h

MarkStopped(h) ==
  IF h[Len(h)] = "SHUTTING_DOWN" THEN Append(h, "STOPPED") ELSE h

-----------------------------------------------------------------------------
(* What a lifecycle promises: it is born, and moves as it may. *)

LifecycleInit == history = <<"INIT">>

LifecycleNext ==
  \E s \in Allowed[state] :
    \/ history' = Append(history, s)
    \/ \E t \in Allowed[s] : history' = history \o <<s, t>>

LifecycleSpec == LifecycleInit /\ [][LifecycleNext]_history
=============================================================================
