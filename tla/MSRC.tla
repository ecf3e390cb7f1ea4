-------------------------------- MODULE MSRC --------------------------------
(***************************************************************************)
(* The multi-scale resolution controller and the loop that drives it: one  *)
(* run of MSRCPolicyBenchmarkRunner.run_policy with an adaptive policy.    *)
(* Each iteration runs an episode at the current scale, calls              *)
(* MSRCController.step, and feeds the probe result that step returns to    *)
(* the next iteration.                                                     *)
(*                                                                         *)
(* A step is split where its effects become visible outside the process:   *)
(* the policy's decision, the audit events and the probe episode.  Between *)
(* two of them an exception of the storage may end the run.                *)
(***************************************************************************)
EXTENDS ScaleCatalog

CONSTANTS
  DefaultScale,   \* scale of a new ScalePolicyState
  Regime,         \* regime labels; a singleton for baseline and aggressive
  Profile,        \* per regime: thresholds counted in steps or thousandths
  RegimeAware,    \* TRUE for regime_v3
  Readings(_),    \* what an estimate at a scale can tell the policy
  ProbeDelta,     \* ivc_r gains a probe can measure, in thousandths
  Episodes,       \* iterations of the run
  NoScale,
  NoResult

ProfileRecord == [upgradeN : Nat, downgradeN : Nat, cooldown : Nat,
                  lock : Nat, commitEvidence : Int, commitGain : Int]

(***************************************************************************)
(* The bits of a ScaleEstimate that the policy's control flow tests.       *)
(* selected is the lexicographic choice among the executable candidates;   *)
(* signal and probe matter when it is finer than the current scale,        *)
(* useful (the finer scale is still worth its cost) when it is coarser.    *)
(***************************************************************************)
Reading == [regime : Regime, selected : Executable,
            signal : BOOLEAN, probe : BOOLEAN, useful : BOOLEAN]

ProbeResult == [target : Executable, delta : ProbeDelta, viable : BOOLEAN]

ASSUME MSRCAssumption ==
  /\ DefaultScale \in Executable
  /\ Profile \in [Regime -> ProfileRecord]
  /\ RegimeAware \in BOOLEAN
  /\ \A s \in Scale : Readings(s) \subseteq Reading
  /\ ProbeDelta \subseteq Int
  /\ Episodes \in Nat
  /\ NoScale \notin Scale
  /\ NoResult \notin ProbeResult

VARIABLES
  \* ScalePolicyState
  scale, upgrade_evidence, downgrade_evidence, cooldown, lock, inflight,
  last_action, oscillation_events, upgrade_regret,
  \* run_policy and the locals of MSRCController.step
  episode, phase, action, source, selected, probe_out, pending,
  \* the audit ledger: state of its last probe, and its last transition
  trail, last_transition

policyVars == <<scale, upgrade_evidence, downgrade_evidence, cooldown, lock,
                inflight, last_action, oscillation_events, upgrade_regret>>
stepVars   == <<action, source, selected, probe_out>>
driverVars == <<episode, pending>>
auditVars  == <<trail, last_transition>>
vars       == <<policyVars, stepVars, driverVars, auditVars, phase>>

ActionType == {"keep_scale", "upgrade_scale", "downgrade_scale", "fork_probe",
               "commit_probe_result", "discard_probe_result",
               "lock_scale_for_n_steps"}
ScaleChange == {"upgrade_scale", "downgrade_scale", "commit_probe_result"}
Phase == {"episode", "announce", "execute", "report", "decision",
          "transition", "done", "aborted"}
-----------------------------------------------------------------------------
Init ==
  /\ scale = DefaultScale
  /\ upgrade_evidence = 0 /\ downgrade_evidence = 0
  /\ cooldown = 0 /\ lock = 0
  /\ inflight = NoScale
  /\ last_action = "none"
  /\ oscillation_events = 0 /\ upgrade_regret = 0
  /\ episode = 0
  /\ phase = IF Episodes = 0 THEN "done" ELSE "episode"
  /\ action = [type |-> "keep_scale", target |-> DefaultScale]
  /\ source = DefaultScale /\ selected = DefaultScale
  /\ probe_out = NoResult /\ pending = NoResult
  /\ trail = "none"
  /\ last_transition = [source |-> DefaultScale, target |-> DefaultScale,
                        rollback |-> FALSE]

Tick(n) == IF n > 0 THEN n - 1 ELSE 0
Larger(m, n) == IF m > n THEN m ELSE n
Clamp(x) == IF x < 0 THEN 0 ELSE IF x > 1000 THEN 1000 ELSE x

\* The benchmark's probe executor: outcome and evidence of a measured gain.
Positive(result) == result.viable /\ result.delta > 10
Evidence(result) == Clamp(500 + result.delta)

\* The commit criterion, with the profile of the step that handles the result.
Convincing(result, p) ==
  /\ Positive(result)
  /\ result.viable
  /\ Evidence(result) >= p.commitEvidence
  /\ RegimeAware => result.delta >= p.commitGain

\* register_action, and what step does with the chosen action.
Choose(type, target) ==
  /\ action' = [type |-> type, target |-> target]
  /\ last_action' = type
  /\ oscillation_events' =
       IF {last_action, type} = {"upgrade_scale", "downgrade_scale"}
       THEN oscillation_events + 1 ELSE oscillation_events
  /\ source' = scale
  /\ phase' = IF type = "fork_probe" THEN "announce" ELSE "execute"
  /\ UNCHANGED <<driverVars, auditVars, selected, probe_out>>

\* The action changes no scale, counter or probe but the two timers.
Stay(type) ==
  /\ Choose(type, scale)
  /\ lock' = Tick(lock) /\ cooldown' = Tick(cooldown)
  /\ UNCHANGED <<scale, inflight, upgrade_regret>>

\* Mutant: a move that opens no lock.
MoveWithoutLock(type, target, p, hold) ==
  /\ Choose(type, target)
  /\ scale' = target
  /\ cooldown' = p.cooldown /\ lock' = Tick(lock)

\* The scale moves now: decide() writes current_scale_id itself.
MoveTo(type, target, p, hold) ==
  /\ Choose(type, target)
  /\ scale' = target
  /\ cooldown' = p.cooldown /\ lock' = hold
-----------------------------------------------------------------------------
HandlingProbe == inflight # NoScale /\ pending # NoResult

\* Neither lock nor cooldown holds once this step's decrement is applied.
Free == ~HandlingProbe /\ Tick(lock) = 0 /\ Tick(cooldown) = 0

CommitProbe(r) ==
  /\ phase = "episode" /\ HandlingProbe
  /\ Convincing(pending, Profile[r.regime])
  /\ inflight' = NoScale
  /\ MoveTo("commit_probe_result", inflight, Profile[r.regime],
            Profile[r.regime].lock)
  /\ UNCHANGED <<upgrade_evidence, downgrade_evidence, upgrade_regret>>

DiscardProbe(r) ==
  /\ phase = "episode" /\ HandlingProbe
  /\ ~Convincing(pending, Profile[r.regime])
  /\ inflight' = NoScale
  /\ upgrade_regret' =
       IF Positive(pending) THEN upgrade_regret ELSE upgrade_regret + 1
  /\ Choose("discard_probe_result", scale)
  /\ lock' = Tick(lock) /\ cooldown' = Tick(cooldown)
  /\ UNCHANGED <<scale, upgrade_evidence, downgrade_evidence>>

HoldLock ==
  /\ phase = "episode" /\ ~HandlingProbe /\ Tick(lock) > 0
  /\ Stay("lock_scale_for_n_steps")
  /\ UNCHANGED <<upgrade_evidence, downgrade_evidence>>

HoldCooldown ==
  /\ phase = "episode" /\ ~HandlingProbe
  /\ Tick(lock) = 0 /\ Tick(cooldown) > 0
  /\ Stay("keep_scale")
  /\ UNCHANGED <<upgrade_evidence, downgrade_evidence>>

\* The current scale is already the best one; only regime_v3 keeps evidence.
KeepOptimal(r) ==
  /\ phase = "episode" /\ Free
  /\ Rank[r.selected] = Rank[scale]
  /\ upgrade_evidence'   = IF RegimeAware THEN upgrade_evidence ELSE 0
  /\ downgrade_evidence' = IF RegimeAware THEN downgrade_evidence ELSE 0
  /\ Stay("keep_scale")

WantsUpgrade(r) ==
  phase = "episode" /\ Free /\ Rank[r.selected] > Rank[scale]

\* Mutant: evidence that decays instead of being reset.
EvidenceDecays(r) == IF r.signal THEN upgrade_evidence + 1 ELSE upgrade_evidence - 1

UpgradeEvidence(r) == IF r.signal THEN upgrade_evidence + 1 ELSE 0

AccumulateUpgrade(r) ==
  /\ WantsUpgrade(r)
  /\ UpgradeEvidence(r) < Profile[r.regime].upgradeN
  /\ upgrade_evidence' = UpgradeEvidence(r)
  /\ downgrade_evidence' = IF r.signal THEN 0 ELSE downgrade_evidence
  /\ Stay("keep_scale")

ForkProbe(r) ==
  /\ WantsUpgrade(r)
  /\ UpgradeEvidence(r) >= Profile[r.regime].upgradeN
  /\ r.probe
  /\ upgrade_evidence' = UpgradeEvidence(r)
  /\ downgrade_evidence' = IF r.signal THEN 0 ELSE downgrade_evidence
  /\ inflight' = r.selected
  /\ cooldown' = Profile[r.regime].cooldown
  /\ lock' = Tick(lock)
  /\ Choose("fork_probe", r.selected)
  /\ UNCHANGED <<scale, upgrade_regret>>

UpgradeScale(r) ==
  /\ WantsUpgrade(r)
  /\ UpgradeEvidence(r) >= Profile[r.regime].upgradeN
  /\ ~r.probe
  /\ upgrade_evidence' = 0
  /\ downgrade_evidence' = IF r.signal THEN 0 ELSE downgrade_evidence
  /\ MoveTo("upgrade_scale", r.selected, Profile[r.regime],
            Profile[r.regime].lock)
  /\ UNCHANGED <<inflight, upgrade_regret>>

WantsDowngrade(r) ==
  phase = "episode" /\ Free /\ Rank[r.selected] < Rank[scale]

RefuseDowngrade(r) ==
  /\ WantsDowngrade(r)
  /\ r.useful
  /\ downgrade_evidence' = 0
  /\ UNCHANGED upgrade_evidence
  /\ Stay("keep_scale")

AccumulateDowngrade(r) ==
  /\ WantsDowngrade(r)
  /\ ~r.useful
  /\ downgrade_evidence + 1 < Profile[r.regime].downgradeN
  /\ downgrade_evidence' = downgrade_evidence + 1
  /\ upgrade_evidence' = 0
  /\ Stay("keep_scale")

DowngradeScale(r) ==
  /\ WantsDowngrade(r)
  /\ ~r.useful
  /\ downgrade_evidence + 1 >= Profile[r.regime].downgradeN
  /\ downgrade_evidence' = 0 /\ upgrade_evidence' = 0
  /\ MoveTo("downgrade_scale", r.selected, Profile[r.regime],
            Larger(1, Profile[r.regime].lock - 1))
  /\ UNCHANGED <<inflight, upgrade_regret>>

Decide ==
  \/ HoldLock
  \/ HoldCooldown
  \/ \E r \in Readings(scale) :
       \/ CommitProbe(r)
       \/ DiscardProbe(r)
       \/ KeepOptimal(r)
       \/ AccumulateUpgrade(r)
       \/ ForkProbe(r)
       \/ UpgradeScale(r)
       \/ RefuseDowngrade(r)
       \/ AccumulateDowngrade(r)
       \/ DowngradeScale(r)
-----------------------------------------------------------------------------
\* log_probe_started
AnnounceProbe ==
  /\ phase = "announce"
  /\ phase' = "execute"
  /\ trail' = "started"
  /\ UNCHANGED <<policyVars, stepVars, driverVars, last_transition>>

\* execute_action has run: it selected a scale, and perhaps got a result.
Executed(target, result) ==
  /\ phase = "execute"
  /\ phase' = "report"
  /\ selected' = target
  /\ probe_out' = result
  /\ UNCHANGED <<policyVars, driverVars, auditVars, action, source>>

RunProbe ==
  /\ action.type = "fork_probe"
  /\ \E d \in ProbeDelta, v \in BOOLEAN :
       Executed(scale, [target |-> action.target, delta |-> d, viable |-> v])

\* The executor raises: execute_action swallows it and rolls back.
RollbackProbe ==
  /\ action.type = "fork_probe"
  /\ Executed(scale, NoResult)

ExecuteMove ==
  /\ action.type \in ScaleChange
  /\ Executed(Runnable(action.target), NoResult)

ExecuteStay ==
  /\ action.type \notin ScaleChange \cup {"fork_probe"}
  /\ Executed(scale, NoResult)

\* Mutant: a discarded probe is not logged.
ReportCommitsOnly ==
  /\ phase = "report"
  /\ phase' = "decision"
  /\ trail' = IF probe_out # NoResult THEN "completed"
              ELSE IF action.type = "commit_probe_result"
                   THEN "resolved" ELSE trail
  /\ UNCHANGED <<policyVars, stepVars, driverVars, last_transition>>

\* log_probe_completed, log_probe_committed and log_probe_discarded
ReportProbe ==
  /\ phase = "report"
  /\ phase' = "decision"
  /\ trail' = IF probe_out # NoResult THEN "completed"
              ELSE IF action.type \in {"commit_probe_result",
                                       "discard_probe_result"}
                   THEN "resolved" ELSE trail
  /\ UNCHANGED <<policyVars, stepVars, driverVars, last_transition>>

\* current_scale_id = selected_scale_id, then log_decision
RecordDecision ==
  /\ phase = "decision"
  /\ phase' = "transition"
  /\ scale' = selected
  /\ UNCHANGED <<upgrade_evidence, downgrade_evidence, cooldown, lock,
                 inflight, last_action, oscillation_events, upgrade_regret,
                 stepVars, driverVars, auditVars>>

RolledBack == action.type = "fork_probe" /\ probe_out = NoResult

\* Mutant: run_policy keeps the result of an earlier probe.
KeepOldResult ==
  /\ phase = "transition"
  /\ last_transition' =
       [source |-> IF action.type \in ScaleChange THEN action.target ELSE scale,
        target |-> selected, rollback |-> RolledBack]
  /\ trail' = IF RolledBack THEN "rolled_back" ELSE trail
  /\ pending' = IF probe_out = NoResult THEN pending ELSE probe_out
  /\ episode' = episode + 1
  /\ phase' = IF episode + 1 = Episodes THEN "done" ELSE "episode"
  /\ UNCHANGED <<policyVars, stepVars>>

\* Mutant: the record names the requested scale, not the selected one.
RecordRequested ==
  /\ phase = "transition"
  /\ last_transition' =
       [source |-> IF action.type \in ScaleChange THEN action.target ELSE scale,
        target |-> action.target, rollback |-> RolledBack]
  /\ trail' = IF RolledBack THEN "rolled_back" ELSE trail
  /\ pending' = probe_out
  /\ episode' = episode + 1
  /\ phase' = IF episode + 1 = Episodes THEN "done" ELSE "episode"
  /\ UNCHANGED <<policyVars, stepVars>>

(***************************************************************************)
(* log_transition, and the return to run_policy.  The record's source is   *)
(* the scale execute_action was given, which decide() had already changed. *)
(***************************************************************************)
RecordTransition ==
  /\ phase = "transition"
  /\ last_transition' =
       [source |-> IF action.type \in ScaleChange THEN action.target ELSE scale,
        target |-> selected, rollback |-> RolledBack]
  /\ trail' = IF RolledBack THEN "rolled_back" ELSE trail
  /\ pending' = probe_out
  /\ episode' = episode + 1
  /\ phase' = IF episode + 1 = Episodes THEN "done" ELSE "episode"
  /\ UNCHANGED <<policyVars, stepVars>>

\* A storage or episode failure propagates out of run_policy.
Abort ==
  /\ phase \notin {"done", "aborted"}
  /\ phase' = "aborted"
  /\ UNCHANGED <<policyVars, stepVars, driverVars, auditVars>>

Step ==
  \/ Decide
  \/ AnnounceProbe
  \/ RunProbe \/ RollbackProbe \/ ExecuteMove \/ ExecuteStay
  \/ ReportProbe
  \/ RecordDecision
  \/ RecordTransition

Next == Step \/ Abort

Spec == Init /\ [][Next]_vars
=============================================================================
