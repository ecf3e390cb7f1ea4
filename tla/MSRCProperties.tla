--------------------------- MODULE MSRCProperties ---------------------------
(***************************************************************************)
(* What must hold of the multi-scale controller under every estimate,      *)
(* probe outcome and failure.                                              *)
(***************************************************************************)
EXTENDS MSRC

\* The types of the policy state, of the step's locals and of the ledger
\* (contracts.py, and the locals of run_policy and MSRCController.step).
TypeOK ==
  /\ scale \in Executable
  /\ upgrade_evidence \in Nat /\ downgrade_evidence \in Nat
  /\ cooldown \in Nat /\ lock \in Nat
  /\ inflight \in Executable \cup {NoScale}
  /\ last_action \in ActionType \cup {"none"}
  /\ oscillation_events \in Nat /\ upgrade_regret \in Nat
  /\ episode \in Nat
  /\ phase \in Phase
  /\ action \in [type : ActionType, target : Executable]
  /\ source \in Executable /\ selected \in Executable
  /\ probe_out \in ProbeResult \cup {NoResult}
  /\ pending \in ProbeResult \cup {NoResult}
  /\ trail \in {"none", "started", "completed", "resolved", "rolled_back"}
  /\ last_transition \in
       [source : Executable, target : Executable, rollback : BOOLEAN]

(***************************************************************************)
(* A probe result handed to the next step belongs to the probe forked by   *)
(* the step just before it, at the same scale, out of lock.  An executor   *)
(* that raised leaves inflight set for good, so nothing in one step alone  *)
(* keeps a result from meeting the target of another probe.                *)
(***************************************************************************)
PendingProbeIsFresh ==
  phase = "episode" /\ pending # NoResult =>
    /\ inflight = pending.target
    /\ last_action = "fork_probe"
    /\ lock = 0
    /\ Rank[pending.target] > Rank[scale]

(***************************************************************************)
(* The scale never moves while a lock is running, not even by the commit   *)
(* of a probe, which decide() handles before it looks at the lock, nor by  *)
(* the transition manager selecting another scale than the decision did.   *)
(***************************************************************************)
NoSwitchUnderLock == [][scale' # scale => Tick(lock) = 0]_vars

\* A committed probe raises the resolution: it never replays a target that
\* the scale has meanwhile reached or passed.
CommitRaisesResolution ==
  [][phase = "episode" /\ phase' = "execute"
     /\ action'.type = "commit_probe_result" => Rank[scale'] > Rank[scale]]_vars

\* Replaying the targets of the ledger's transition events gives the scale
\* that the next episode runs at, and a rollback event one that never moved.
LedgerGivesScale ==
  phase \in {"episode", "done"} =>
    /\ last_transition.target = scale
    /\ last_transition.rollback => scale = source

(***************************************************************************)
(* Between steps, the ledger shows no probe without an answer, but one     *)
(* whose result the next step is about to handle, or that the last         *)
(* iteration of the run forked.                                            *)
(***************************************************************************)
ProbesAreAnswered ==
  phase \in {"episode", "done"} =>
    /\ trail # "started"
    /\ trail = "completed" <=> pending # NoResult

(***************************************************************************)
(* The inductive invariant behind the safety properties: what a step in    *)
(* progress has already settled for the steps that finish it.              *)
(***************************************************************************)
MidStep == phase \in {"announce", "execute", "report", "decision", "transition"}
Executing == phase \in {"report", "decision", "transition"}

\* A probe is forked out of lock, at a finer scale, and is the one in flight.
ForkIsInFlight ==
  MidStep /\ action.type = "fork_probe" =>
    /\ inflight = action.target
    /\ last_action = "fork_probe"
    /\ lock = 0
    /\ Rank[action.target] > Rank[scale]

\* Only a fork is announced, and only a fork yields a result: its own.
ResultIsOfTheFork ==
  /\ phase = "announce" => action.type = "fork_probe"
  /\ Executing /\ probe_out # NoResult =>
       action.type = "fork_probe" /\ probe_out.target = action.target

\* decide() has moved the scale when it had to, and execution keeps it there.
MoveIsMade ==
  /\ MidStep => scale = (IF action.type \in ScaleChange THEN action.target
                         ELSE source)
  /\ Executing => selected = scale

\* The result of a probe is consumed by the decision that handles it.
ResultIsConsumed == MidStep => ~HandlingProbe

\* How far the ledger has followed the probe of this step.
LedgerFollowsStep ==
  /\ phase \in {"announce", "execute", "report"} =>
       /\ trail = "started" <=> action.type = "fork_probe" /\ phase # "announce"
       /\ trail = "completed" =>
            action.type \in {"commit_probe_result", "discard_probe_result"}
  /\ phase \in {"decision", "transition"} =>
       /\ trail = "completed" <=> probe_out # NoResult
       /\ trail = "started" => RolledBack

StepInv ==
  /\ PendingProbeIsFresh
  /\ ForkIsInFlight
  /\ ResultIsOfTheFork
  /\ MoveIsMade
  /\ ResultIsConsumed
  /\ LedgerFollowsStep
  /\ LedgerGivesScale
  /\ ProbesAreAnswered

Holds == {Profile[g].lock : g \in Regime}
           \cup {Larger(1, Profile[g].lock - 1) : g \in Regime}

\* The abstract switch the controller implements: its hold is the lock, its
\* trial the probe whose result waits to be handled.
Hysteresis == INSTANCE ScaleHysteresis WITH
  Start <- DefaultScale, None <- NoScale, hold <- lock,
  trial <- IF HandlingProbe THEN inflight ELSE NoScale

\* Every behaviour of the controller is one of the abstract switch.
ImplementsHysteresis == Hysteresis!Spec
=============================================================================
