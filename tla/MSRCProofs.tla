----------------------------- MODULE MSRCProofs -----------------------------
(***************************************************************************)
(* The safety of the multi-scale controller, for every catalogue, profile, *)
(* estimator and length of run; and, for the default catalogue with its    *)
(* own estimator, that the resolution never falls.                         *)
(***************************************************************************)
EXTENDS MSRCDefault, TLAPS

-----------------------------------------------------------------------------
(***************************************************************************)
(* Arithmetic of the timers.                                               *)
(***************************************************************************)

\* A decremented timer of the policy is a natural number.
LEMMA TickType == ASSUME NEW n \in Nat PROVE Tick(n) \in Nat
BY DEF Tick

\* A timer at zero stays there.
LEMMA TickZero == Tick(0) = 0
BY DEF Tick

\* The lock of a downgrade is a natural number.
LEMMA LargerType ==
  ASSUME NEW m \in Nat, NEW n \in Int PROVE Larger(m, n) \in Nat
BY DEF Larger

\* A scale that is executable runs as itself (execute_action).
LEMMA RunnableExecutable ==
  ASSUME NEW s \in Executable PROVE Runnable(s) = s
BY DEF Runnable

\* What a reading, its profile and its scale are.
LEMMA ReadingType ==
  ASSUME NEW s \in Executable, NEW r \in Readings(s)
  PROVE  /\ r.regime \in Regime
         /\ r.selected \in Executable
         /\ Profile[r.regime] \in ProfileRecord
         /\ Profile[r.regime].cooldown \in Nat
         /\ Profile[r.regime].lock \in Nat
<1>1. r \in Reading
  BY CatalogAssumption, MSRCAssumption
<1>2. r.regime \in Regime /\ r.selected \in Executable
  BY <1>1 DEF Reading
<1>3. Profile[r.regime] \in ProfileRecord
  BY <1>2, MSRCAssumption
<1> QED
  BY <1>2, <1>3 DEF ProfileRecord

-----------------------------------------------------------------------------
(***************************************************************************)
(* Types.                                                                  *)
(***************************************************************************)

\* The type invariant is inductive: it holds initially.
LEMMA TypeInit == Init => TypeOK
BY CatalogAssumption, MSRCAssumption DEF Init, TypeOK, Phase, ActionType

\* Every decision of the policy preserves the types.
LEMMA TypeDecide == TypeOK /\ Decide => TypeOK'
<1> SUFFICES ASSUME TypeOK, Decide PROVE TypeOK'
  OBVIOUS
<1> USE TickType DEF TypeOK, Choose, Stay, MoveTo, ActionType, Phase,
                     auditVars, driverVars
<1>1. CASE HoldLock
  BY <1>1 DEF HoldLock
<1>2. CASE HoldCooldown
  BY <1>2 DEF HoldCooldown
<1>3. CASE \E r \in Readings(scale) : CommitProbe(r) \/ DiscardProbe(r)
  <2> PICK r \in Readings(scale) : CommitProbe(r) \/ DiscardProbe(r)
    BY <1>3
  <2>1. CASE CommitProbe(r)
    BY <2>1, ReadingType DEF CommitProbe, HandlingProbe
  <2>2. CASE DiscardProbe(r)
    BY <2>2 DEF DiscardProbe
  <2> QED
    BY <2>1, <2>2
<1>4. CASE \E r \in Readings(scale) :
             \/ KeepOptimal(r) \/ AccumulateUpgrade(r) \/ ForkProbe(r)
             \/ UpgradeScale(r)
  <2> PICK r \in Readings(scale) :
             \/ KeepOptimal(r) \/ AccumulateUpgrade(r) \/ ForkProbe(r)
             \/ UpgradeScale(r)
    BY <1>4
  <2>0. UpgradeEvidence(r) \in Nat
    BY DEF UpgradeEvidence
  <2>1. CASE KeepOptimal(r)
    BY <2>1 DEF KeepOptimal
  <2>2. CASE AccumulateUpgrade(r)
    BY <2>0, <2>2 DEF AccumulateUpgrade
  <2>3. CASE ForkProbe(r)
    BY <2>0, <2>3, ReadingType DEF ForkProbe
  <2>4. CASE UpgradeScale(r)
    BY <2>4, ReadingType DEF UpgradeScale
  <2> QED
    BY <2>1, <2>2, <2>3, <2>4
<1>5. CASE \E r \in Readings(scale) :
             RefuseDowngrade(r) \/ AccumulateDowngrade(r) \/ DowngradeScale(r)
  <2> PICK r \in Readings(scale) :
             RefuseDowngrade(r) \/ AccumulateDowngrade(r) \/ DowngradeScale(r)
    BY <1>5
  <2>1. CASE RefuseDowngrade(r)
    BY <2>1 DEF RefuseDowngrade
  <2>2. CASE AccumulateDowngrade(r)
    BY <2>2 DEF AccumulateDowngrade
  <2>3. CASE DowngradeScale(r)
    <3>1. Profile[r.regime].lock - 1 \in Int /\ 1 \in Nat
      BY ReadingType
    <3>2. Larger(1, Profile[r.regime].lock - 1) \in Nat
      BY <3>1, LargerType
    <3> QED
      BY <2>3, <3>2, ReadingType DEF DowngradeScale
  <2> QED
    BY <2>1, <2>2, <2>3
<1> QED
  BY <1>1, <1>2, <1>3, <1>4, <1>5 DEF Decide

\* So does every later part of a step.
LEMMA TypeStep == TypeOK /\ [Next]_vars => TypeOK'
<1> SUFFICES ASSUME TypeOK, [Next]_vars PROVE TypeOK'
  OBVIOUS
<1> USE DEF TypeOK, policyVars, stepVars, driverVars, auditVars, ActionType,
            Phase
<1>1. CASE Decide
  BY <1>1, TypeDecide
<1>2. CASE AnnounceProbe
  BY <1>2 DEF AnnounceProbe
<1>3. CASE RunProbe
  <2> PICK d \in ProbeDelta, v \in BOOLEAN :
         Executed(scale, [target |-> action.target, delta |-> d, viable |-> v])
    BY <1>3 DEF RunProbe
  <2>1. [target |-> action.target, delta |-> d, viable |-> v] \in ProbeResult
    BY DEF ProbeResult
  <2> QED
    BY <2>1 DEF Executed
<1>4. CASE RollbackProbe \/ ExecuteStay
  BY <1>4 DEF RollbackProbe, ExecuteStay, Executed
<1>5. CASE ExecuteMove
  BY <1>5, RunnableExecutable DEF ExecuteMove, Executed
<1>6. CASE ReportProbe
  BY <1>6 DEF ReportProbe
<1>7. CASE RecordDecision
  BY <1>7 DEF RecordDecision
<1>8. CASE RecordTransition
  BY <1>8 DEF RecordTransition, RolledBack
<1>9. CASE Abort
  BY <1>9 DEF Abort
<1>10. CASE UNCHANGED vars
  BY <1>10 DEF vars
<1> QED
  BY <1>1, <1>2, <1>3, <1>4, <1>5, <1>6, <1>7, <1>8, <1>9, <1>10
     DEF Next, Step

\* Type correctness of the policy state, the step and the ledger.
THEOREM TypeCorrect == Spec => []TypeOK
BY TypeInit, TypeStep, PTL DEF Spec
-----------------------------------------------------------------------------
(***************************************************************************)
(* The inductive invariant.                                                *)
(***************************************************************************)

\* A probe result in hand, between steps, is being handled by the next step.
LEMMA PendingIsHandled ==
  ASSUME TypeOK, PendingProbeIsFresh, phase = "episode", ~HandlingProbe
  PROVE  pending = NoResult
BY CatalogAssumption, MSRCAssumption
   DEF TypeOK, PendingProbeIsFresh, HandlingProbe, ProbeResult

\* The step invariant holds before the first step.
LEMMA InvInit == Init => StepInv
BY CatalogAssumption, MSRCAssumption
   DEF Init, StepInv, PendingProbeIsFresh, ForkIsInFlight, ResultIsOfTheFork,
       MoveIsMade, ResultIsConsumed, LedgerFollowsStep, LedgerGivesScale,
       ProbesAreAnswered, MidStep, Executing, HandlingProbe

\* A decision that handles no probe, and forks none.
LEMMA InvPlain ==
  ASSUME TypeOK, StepInv, phase = "episode", ~HandlingProbe,
         NEW type \in ActionType \ {"fork_probe"}, NEW target \in Executable,
         Choose(type, target), UNCHANGED inflight,
         scale' = IF type \in ScaleChange THEN target ELSE scale
  PROVE  StepInv'
<1>1. pending = NoResult
  BY PendingIsHandled DEF StepInv
<1> QED
  BY <1>1 DEF TypeOK, StepInv, PendingProbeIsFresh, ForkIsInFlight,
       ResultIsOfTheFork, MoveIsMade, ResultIsConsumed, LedgerFollowsStep,
       LedgerGivesScale, ProbesAreAnswered, MidStep, Executing, HandlingProbe,
       Choose, auditVars, driverVars, ActionType, ScaleChange

\* Whatever is decided, the step has settled what its later stages need.
LEMMA InvDecide == TypeOK /\ StepInv /\ Decide => StepInv'
<1> SUFFICES ASSUME TypeOK, StepInv, Decide PROVE StepInv'
  OBVIOUS
<1>1. CASE HoldLock
  BY <1>1, InvPlain DEF HoldLock, Stay, TypeOK, ActionType, ScaleChange
<1>2. CASE HoldCooldown
  BY <1>2, InvPlain DEF HoldCooldown, Stay, TypeOK, ActionType, ScaleChange
<1>3. CASE \E r \in Readings(scale) : CommitProbe(r) \/ DiscardProbe(r)
  <2> PICK r \in Readings(scale) : CommitProbe(r) \/ DiscardProbe(r)
    BY <1>3
  <2> USE DEF TypeOK, StepInv, PendingProbeIsFresh, ForkIsInFlight,
       ResultIsOfTheFork, MoveIsMade, ResultIsConsumed, LedgerFollowsStep,
       LedgerGivesScale, ProbesAreAnswered, MidStep, Executing, HandlingProbe,
       Choose, auditVars, driverVars, ScaleChange
  <2>1. CASE CommitProbe(r)
    BY <2>1 DEF CommitProbe, MoveTo
  <2>2. CASE DiscardProbe(r)
    BY <2>2 DEF DiscardProbe
  <2> QED
    BY <2>1, <2>2
<1>4. CASE \E r \in Readings(scale) : ForkProbe(r)
  <2> PICK r \in Readings(scale) : ForkProbe(r)
    BY <1>4
  <2>1. r.selected \in Executable
    BY ReadingType DEF TypeOK
  <2>2. pending = NoResult
    BY PendingIsHandled DEF StepInv, ForkProbe, WantsUpgrade, Free
  <2>3. Tick(lock) = 0 /\ phase = "episode" /\ Rank[r.selected] > Rank[scale]
    BY DEF ForkProbe, WantsUpgrade, Free
  <2>4. trail \notin {"started", "completed"}
    BY <2>2, <2>3 DEF StepInv, ProbesAreAnswered
  <2> QED
    BY <2>1, <2>2, <2>3, <2>4 DEF TypeOK, StepInv, PendingProbeIsFresh,
       ForkIsInFlight, ResultIsOfTheFork, MoveIsMade, ResultIsConsumed,
       LedgerFollowsStep, LedgerGivesScale, ProbesAreAnswered, MidStep,
       Executing, HandlingProbe, Choose, auditVars, driverVars, ScaleChange,
       ForkProbe
<1>5. CASE \E r \in Readings(scale) :
             \/ KeepOptimal(r) \/ AccumulateUpgrade(r)
             \/ RefuseDowngrade(r) \/ AccumulateDowngrade(r)
  <2> PICK r \in Readings(scale) :
             \/ KeepOptimal(r) \/ AccumulateUpgrade(r)
             \/ RefuseDowngrade(r) \/ AccumulateDowngrade(r)
    BY <1>5
  <2>1. phase = "episode" /\ ~HandlingProbe /\ Stay("keep_scale")
    BY DEF KeepOptimal, AccumulateUpgrade, RefuseDowngrade,
           AccumulateDowngrade, WantsUpgrade, WantsDowngrade, Free
  <2> QED
    BY <2>1, InvPlain DEF Stay, TypeOK, ActionType, ScaleChange
<1>6. CASE \E r \in Readings(scale) : UpgradeScale(r) \/ DowngradeScale(r)
  <2> PICK r \in Readings(scale) : UpgradeScale(r) \/ DowngradeScale(r)
    BY <1>6
  <2>1. phase = "episode" /\ ~HandlingProbe /\ UNCHANGED inflight
    BY DEF UpgradeScale, DowngradeScale, WantsUpgrade, WantsDowngrade, Free
  <2>2. r.selected \in Executable
    BY ReadingType DEF TypeOK
  <2>3. CASE UpgradeScale(r)
    BY <2>1, <2>2, <2>3, InvPlain
       DEF UpgradeScale, MoveTo, ActionType, ScaleChange
  <2>4. CASE DowngradeScale(r)
    BY <2>1, <2>2, <2>4, InvPlain
       DEF DowngradeScale, MoveTo, ActionType, ScaleChange
  <2> QED
    BY <2>3, <2>4
<1> QED
  BY <1>1, <1>2, <1>3, <1>4, <1>5, <1>6 DEF Decide

\* Every stage of a step keeps the step invariant.
LEMMA InvStep == TypeOK /\ StepInv /\ [Next]_vars => StepInv'
<1> SUFFICES ASSUME TypeOK, StepInv, [Next]_vars PROVE StepInv'
  OBVIOUS
<1> USE DEF TypeOK, StepInv, PendingProbeIsFresh, ForkIsInFlight,
       ResultIsOfTheFork, MoveIsMade, ResultIsConsumed, LedgerFollowsStep,
       LedgerGivesScale, ProbesAreAnswered, MidStep, Executing, HandlingProbe,
       policyVars, stepVars, driverVars, auditVars, ScaleChange
<1>1. CASE Decide
  BY <1>1, InvDecide
<1>2. CASE AnnounceProbe
  BY <1>2 DEF AnnounceProbe
<1>3. CASE RunProbe
  BY <1>3 DEF RunProbe, Executed
<1>4. CASE RollbackProbe \/ ExecuteStay
  BY <1>4 DEF RollbackProbe, ExecuteStay, Executed
<1>5. CASE ExecuteMove
  BY <1>5, RunnableExecutable DEF ExecuteMove, Executed
<1>6. CASE ReportProbe
  BY <1>6 DEF ReportProbe, RolledBack
<1>7. CASE RecordDecision
  BY <1>7 DEF RecordDecision, RolledBack
<1>8. CASE RecordTransition
  BY <1>8 DEF RecordTransition, RolledBack
<1>9. CASE Abort
  BY <1>9 DEF Abort
<1>10. CASE UNCHANGED vars
  BY <1>10 DEF vars, RolledBack
<1> QED
  BY <1>1, <1>2, <1>3, <1>4, <1>5, <1>6, <1>7, <1>8, <1>9, <1>10
     DEF Next, Step

\* Everything a step in progress has settled, and so that a probe result in
\* hand is always that of the probe just forked.
THEOREM StepInvariant == Spec => [](TypeOK /\ StepInv)
BY TypeInit, TypeStep, InvInit, InvStep, PTL DEF Spec
\* A probe result in hand between steps is that of the probe just forked.
THEOREM FreshPending == Spec => []PendingProbeIsFresh
BY StepInvariant, PTL DEF StepInv

\* Between steps the transition events give the scale of the next episode.
THEOREM LedgerScale == Spec => []LedgerGivesScale
BY StepInvariant, PTL DEF StepInv

\* Between steps no probe of the ledger is left without its answer.
THEOREM LedgerAnswers == Spec => []ProbesAreAnswered
BY StepInvariant, PTL DEF StepInv

-----------------------------------------------------------------------------
(***************************************************************************)
(* What a step may do to the scale.                                        *)
(***************************************************************************)

\* Only a commit, an upgrade or a downgrade moves the scale.
LEMMA MovingDecision ==
  ASSUME TypeOK, StepInv, [Next]_vars, scale' # scale
  PROVE  \E r \in Readings(scale) :
           CommitProbe(r) \/ UpgradeScale(r) \/ DowngradeScale(r)
<1> USE DEF policyVars
<1>1. ASSUME Decide
      PROVE  \E r \in Readings(scale) :
               CommitProbe(r) \/ UpgradeScale(r) \/ DowngradeScale(r)
  BY <1>1 DEF Decide, HoldLock, HoldCooldown, DiscardProbe, KeepOptimal,
       AccumulateUpgrade, ForkProbe, RefuseDowngrade, AccumulateDowngrade,
       Stay
<1>2. ~AnnounceProbe /\ ~ReportProbe /\ ~RecordTransition /\ ~Abort
  BY DEF AnnounceProbe, ReportProbe, RecordTransition, Abort
<1>3. ~RunProbe /\ ~RollbackProbe /\ ~ExecuteMove /\ ~ExecuteStay
  BY DEF RunProbe, RollbackProbe, ExecuteMove, ExecuteStay, Executed
<1>4. ~RecordDecision
  BY DEF RecordDecision, StepInv, MoveIsMade, Executing
<1>5. ~UNCHANGED vars
  BY DEF vars
<1> QED
  BY <1>1, <1>2, <1>3, <1>4, <1>5 DEF Next, Step

\* A probe is handled out of lock, at a scale below its target.
LEMMA HandledProbe ==
  ASSUME TypeOK, StepInv, phase = "episode", HandlingProbe
  PROVE  inflight = pending.target /\ lock = 0 /\ Rank[inflight] > Rank[scale]
BY DEF TypeOK, StepInv, PendingProbeIsFresh, HandlingProbe

\* No move of the scale while a lock runs, not even by a commit.
THEOREM LockIsRespected == Spec => NoSwitchUnderLock
<1>1. TypeOK /\ StepInv /\ [Next]_vars => (scale' # scale => Tick(lock) = 0)
  <2> SUFFICES ASSUME TypeOK, StepInv, [Next]_vars, scale' # scale
               PROVE  Tick(lock) = 0
    OBVIOUS
  <2> PICK r \in Readings(scale) :
         CommitProbe(r) \/ UpgradeScale(r) \/ DowngradeScale(r)
    BY MovingDecision
  <2>1. CASE CommitProbe(r)
    BY <2>1, HandledProbe, TickZero DEF CommitProbe
  <2>2. CASE UpgradeScale(r)
    BY <2>2 DEF UpgradeScale, WantsUpgrade, Free
  <2>3. CASE DowngradeScale(r)
    BY <2>3 DEF DowngradeScale, WantsDowngrade, Free
  <2> QED
    BY <2>1, <2>2, <2>3
<1> QED
  BY <1>1, StepInvariant, PTL DEF Spec, NoSwitchUnderLock

\* A commit never replays a probe that the scale has reached or passed.
THEOREM CommitsAreUpgrades == Spec => CommitRaisesResolution
<1> DEFINE Committing == /\ phase = "episode" /\ phase' = "execute"
                         /\ action'.type = "commit_probe_result"
<1>1. TypeOK /\ StepInv /\ [Next]_vars
        => (Committing => Rank[scale'] > Rank[scale])
  <2> SUFFICES ASSUME TypeOK, StepInv, [Next]_vars, Committing
               PROVE  Rank[scale'] > Rank[scale]
    OBVIOUS
  <2>1. Decide
    BY DEF Next, Step, AnnounceProbe, RunProbe, RollbackProbe, ExecuteMove,
           ExecuteStay, Executed, ReportProbe, RecordDecision,
           RecordTransition, Abort, vars
  <2>2. \E r \in Readings(scale) : CommitProbe(r)
    BY <2>1 DEF Decide, HoldLock, HoldCooldown, DiscardProbe, KeepOptimal,
         AccumulateUpgrade, ForkProbe, UpgradeScale, RefuseDowngrade,
         AccumulateDowngrade, DowngradeScale, Stay, MoveTo, Choose
  <2> QED
    BY <2>2, HandledProbe DEF CommitProbe, MoveTo
<1> QED
  BY <1>1, StepInvariant, PTL DEF Spec, CommitRaisesResolution

-----------------------------------------------------------------------------
(***************************************************************************)
(* The refinement.                                                         *)
(***************************************************************************)

\* The controller starts as the abstract switch does.
LEMMA RefineInit == Init => Hysteresis!Init
BY DEF Init, Hysteresis!Init, HandlingProbe

\* The holds of the abstract switch are the locks of the profiles.
LEMMA LocksAreHolds ==
  ASSUME NEW g \in Regime
  PROVE  Profile[g].lock \in Holds /\ Larger(1, Profile[g].lock - 1) \in Holds
BY DEF Holds

\* Both specifications decrement their timer alike.
LEMMA SameTimer == ASSUME NEW n PROVE Hysteresis!Elapse(n) = Tick(n)
BY DEF Hysteresis!Elapse, Tick

\* A decision is a step of the abstract switch.
LEMMA RefineDecide ==
  ASSUME TypeOK, StepInv, Decide
  PROVE  Hysteresis!Next
<1> DEFINE trial == IF HandlingProbe THEN inflight ELSE NoScale
<1>0. phase = "episode" /\ pending' = pending
  BY DEF Decide, HoldLock, HoldCooldown, CommitProbe, DiscardProbe,
       KeepOptimal, AccumulateUpgrade, ForkProbe, UpgradeScale,
       RefuseDowngrade, AccumulateDowngrade, DowngradeScale, Stay, MoveTo,
       Choose, WantsUpgrade, WantsDowngrade, driverVars
<1>1. ASSUME ~HandlingProbe PROVE trial = NoScale /\ trial' = NoScale
  <2>1. pending = NoResult
    BY <1>0, <1>1, PendingIsHandled DEF StepInv
  <2> QED
    BY <1>0, <1>1, <2>1 DEF HandlingProbe
<1>2. ASSUME ~HandlingProbe, lock' = Tick(lock), UNCHANGED scale
      PROVE  Hysteresis!Next
  BY <1>1, <1>2, SameTimer DEF Hysteresis!Next, Hysteresis!Wait
<1>3. CASE HoldLock \/ HoldCooldown
  BY <1>2, <1>3 DEF HoldLock, HoldCooldown, Stay
<1>4. CASE \E r \in Readings(scale) :
             \/ KeepOptimal(r) \/ AccumulateUpgrade(r) \/ ForkProbe(r)
             \/ RefuseDowngrade(r) \/ AccumulateDowngrade(r)
  BY <1>2, <1>4 DEF KeepOptimal, AccumulateUpgrade, ForkProbe,
     RefuseDowngrade, AccumulateDowngrade, Stay, WantsUpgrade, WantsDowngrade,
     Free
<1>5. CASE \E r \in Readings(scale) : UpgradeScale(r) \/ DowngradeScale(r)
  <2> PICK r \in Readings(scale) : UpgradeScale(r) \/ DowngradeScale(r)
    BY <1>5
  <2>1. ~HandlingProbe /\ Tick(lock) = 0
    BY DEF UpgradeScale, DowngradeScale, WantsUpgrade, WantsDowngrade, Free
  <2>2. r.regime \in Regime /\ r.selected \in Scale
    BY ReadingType, CatalogAssumption DEF TypeOK
  <2>3. scale' = r.selected /\ lock' \in Holds
    BY <2>2, LocksAreHolds DEF UpgradeScale, DowngradeScale, MoveTo
  <2> QED
    BY <1>1, <2>1, <2>2, <2>3, SameTimer
       DEF Hysteresis!Next, Hysteresis!Switch
<1>6. CASE \E r \in Readings(scale) : CommitProbe(r) \/ DiscardProbe(r)
  <2> PICK r \in Readings(scale) : CommitProbe(r) \/ DiscardProbe(r)
    BY <1>6
  <2>1. HandlingProbe /\ inflight' = NoScale
    BY DEF CommitProbe, DiscardProbe
  <2>2. trial = inflight /\ inflight # NoScale /\ trial' = NoScale
    BY <2>1 DEF HandlingProbe
  <2>3. CASE CommitProbe(r)
    <3>1. lock' \in Holds /\ scale' = inflight
      BY <2>3, ReadingType, LocksAreHolds DEF CommitProbe, MoveTo, TypeOK
    <3> QED
      BY <2>2, <3>1 DEF Hysteresis!Next, Hysteresis!Adopt
  <2>4. CASE DiscardProbe(r)
    <3>1. lock' = lock /\ UNCHANGED scale
      BY <1>0, <2>1, <2>4, HandledProbe, TickZero DEF DiscardProbe
    <3> QED
      BY <2>2, <3>1 DEF Hysteresis!Next, Hysteresis!Reject
  <2> QED
    BY <2>3, <2>4
<1> QED
  BY <1>3, <1>4, <1>5, <1>6 DEF Decide

\* So is the transition it leads to, or nothing.
LEMMA RefineTransition ==
  ASSUME TypeOK, StepInv, RecordTransition
  PROVE  [Hysteresis!Next]_Hysteresis!switchVars
<1> DEFINE trial == IF HandlingProbe THEN inflight ELSE NoScale
<1>1. trial = NoScale /\ UNCHANGED <<scale, lock, inflight>> /\ pending' = probe_out
  BY DEF StepInv, ResultIsConsumed, MidStep, RecordTransition, policyVars
<1>2. CASE probe_out = NoResult
  BY <1>1, <1>2 DEF HandlingProbe, Hysteresis!switchVars
<1>3. CASE probe_out # NoResult
  <2>1. inflight = action.target /\ lock = 0
    BY <1>3 DEF RecordTransition, StepInv, ResultIsOfTheFork, ForkIsInFlight,
                MidStep, Executing
  <2>2. action.target \in Scale /\ action.target # NoScale
    BY CatalogAssumption, MSRCAssumption DEF TypeOK
  <2>3. action.target # scale
    <3>1. Rank[action.target] > Rank[scale]
      BY <1>3 DEF RecordTransition, StepInv, ResultIsOfTheFork, ForkIsInFlight,
                  MidStep, Executing
    <3>2. Rank[scale] \in Nat
      BY CatalogAssumption DEF TypeOK
    <3> QED
      BY <3>1, <3>2
  <2>4. trial' = action.target
    BY <1>1, <1>3, <2>1, <2>2 DEF HandlingProbe
  <2> QED
    BY <1>1, <2>1, <2>2, <2>3, <2>4 DEF Hysteresis!Next, Hysteresis!BeginTrial
<1> QED
  BY <1>2, <1>3

\* Every stage of a step is a step of the abstract switch or a stutter.
LEMMA RefineStep ==
  TypeOK /\ StepInv /\ [Next]_vars => [Hysteresis!Next]_Hysteresis!switchVars
<1> SUFFICES ASSUME TypeOK, StepInv, [Next]_vars
             PROVE  [Hysteresis!Next]_Hysteresis!switchVars
  OBVIOUS
<1>1. CASE Decide
  BY <1>1, RefineDecide
<1>2. CASE RecordTransition
  BY <1>2, RefineTransition
<1>3. CASE RecordDecision
  BY <1>3 DEF RecordDecision, StepInv, MoveIsMade, Executing, HandlingProbe,
              driverVars, Hysteresis!switchVars
<1>4. CASE \/ AnnounceProbe \/ RunProbe \/ RollbackProbe \/ ExecuteMove
           \/ ExecuteStay \/ ReportProbe \/ Abort \/ UNCHANGED vars
  <2>1. UNCHANGED <<scale, lock, inflight, pending>>
    BY <1>4 DEF AnnounceProbe, RunProbe, RollbackProbe, ExecuteMove,
         ExecuteStay, Executed, ReportProbe, Abort, vars, policyVars,
         driverVars
  <2> QED
    BY <2>1 DEF HandlingProbe, Hysteresis!switchVars
<1> QED
  BY <1>1, <1>2, <1>3, <1>4 DEF Next, Step

\* The controller implements the abstract switch with hysteresis.
THEOREM Refinement == Spec => ImplementsHysteresis
BY RefineInit, RefineStep, StepInvariant, PTL
   DEF Spec, ImplementsHysteresis, Hysteresis!Spec
-----------------------------------------------------------------------------
(***************************************************************************)
(* With the default catalogue, no estimate makes any of the three policies *)
(* lower the resolution: for every input, not only the grid that TLC       *)
(* explores, the lexicographic choice is 5x5.                              *)
(***************************************************************************)

\* The scores of an estimate are numbers of the ranges the choice relies on.
LEMMA EstimateType ==
  ASSUME NEW s, NEW i \in Input, NEW e, e = EstimateOf(s, i)
  PROVE  /\ e.req \in Int
         /\ e.het \in Nat /\ e.epi \in Nat /\ e.risk \in Nat /\ e.opp \in Nat
<1> DEFINE het == Heterogeneity(s, i)
           epi == Epistemic(s, i)
           risk == Risk(i)
<1>0. /\ i.het \in Int /\ i.epi \in Int /\ i.prox \in Int /\ i.low \in Int
      /\ i.verdict \in Int /\ i.op \in Int /\ i.complexity \in Int
      /\ i.usage \in Int
  <2>1. /\ i.het \in Score /\ i.epi \in 0..900 /\ i.prox \in Score
        /\ i.low \in Score /\ i.verdict \in {0, 500} /\ i.op \in Score
        /\ i.complexity \in Score /\ i.usage \in Score
    BY DEF Input
  <2>2. \A x \in Score \cup 0..900 \cup {0, 500} : x \in Int
    BY DEF Score
  <2> QED
    BY <2>1, <2>2
<1>1. \A x \in Int : Unit(x) \in Nat
  BY DEF Unit, AtMost, Max0
<1>2. Blind(s, i) \in Int
  <2>1. 55 * i.usage + 45 * i.complexity \in Int
    BY <1>0
  <2> QED
    BY <2>1 DEF Blind
<1>3. het \in Nat
  <2> DEFINE boost == IF i.het < 180 THEN (350 * i.complexity) \div 1000 ELSE 0
             spot  == (300 * Blind(s, i)) \div 1000
  <2>1. boost \in Int /\ spot \in Int /\ i.het \in Int
    BY <1>0, <1>2
  <2> HIDE DEF boost, spot
  <2>2. i.het + spot + boost \in Int
    BY <2>1
  <2> QED
    BY <1>1, <2>2 DEF Heterogeneity, boost, spot
<1>4. epi \in Nat
  <2>1. i.epi + Blind(s, i) \div 10 \in Int
    BY <1>0, <1>2
  <2> QED
    BY <1>1, <2>1 DEF Epistemic
<1>5. risk \in Nat
  <2>1. 52 * i.prox + 38 * i.low + 10 * i.verdict \in Int
    BY <1>0
  <2>2. (52 * i.prox + 38 * i.low + 10 * i.verdict) \div 100 \in Int
    BY <2>1
  <2> QED
    BY <1>1, <2>2 DEF Risk
<1> HIDE DEF het, epi, risk
<1>6. Required(het, epi, risk, i.op) \in Int
  BY <1>0, <1>3, <1>4, <1>5 DEF Required
<1>7. i.opp \in Nat
  BY DEF Input, Score
<1> QED
  BY <1>3, <1>4, <1>5, <1>6, <1>7 DEF EstimateOf, het, epi, risk

\* 5x5 beats 1x1 by more than the widest margin of equivalence.
LEMMA FiveDominates ==
  ASSUME NEW e, NEW aggressive \in BOOLEAN,
         e.req \in Int,
         e.het \in Nat, e.epi \in Nat, e.risk \in Nat, e.opp \in Nat
  PROVE  CognitiveScore("5x5", e, aggressive)
           - CognitiveScore("1x1", e, aggressive) > 45000
<1> DEFINE extra == IF aggressive
                    THEN 120 * e.het + 105 * e.epi + 90 * e.risk ELSE 0
           tent(rank) == Max0(300000 - Abs(3 * e.req - 10000 * rank))
<1>1. extra \in Int
  OBVIOUS
<1>2. tent(5) \in Int /\ tent(1) \in Int /\ tent(5) >= tent(1) - 40000
  BY DEF Max0, Abs
<1>3. CognitiveScore("5x5", e, aggressive)
        = 594000 + tent(5) + (270 * e.het + 210 * e.epi + 150 * e.risk)
          + extra + 165 * e.opp
  BY DEF CognitiveScore, SpecOf, Spec5x5
<1>4. CognitiveScore("1x1", e, aggressive)
        = 288750 + tent(1) + 0 + extra + 33 * e.opp
  BY DEF CognitiveScore, SpecOf, Spec1x1
<1> HIDE DEF extra, tent
<1> QED
  BY <1>1, <1>2, <1>3, <1>4

\* So 5x5 is the choice, whatever the demand and whatever else is a candidate.
LEMMA FiveIsSelected ==
  ASSUME NEW engine, NEW e,
         e.req \in Int,
         e.het \in Nat, e.epi \in Nat, e.risk \in Nat, e.opp \in Nat
  PROVE  Selected(engine, e) = "5x5"
<1> DEFINE five == CognitiveScore("5x5", e, Aggressive(engine))
           one  == CognitiveScore("1x1", e, Aggressive(engine))
<1> HIDE DEF five, one
<1>1. five - one > 45000
  <2>1. Aggressive(engine) \in BOOLEAN
    BY DEF Aggressive
  <2> QED
    BY <2>1, FiveDominates DEF five, one
<1>2. /\ Epsilon(engine) \in Int
      /\ 0 <= Epsilon(engine) /\ Epsilon(engine) <= 45000
  BY DEF Epsilon
<1>3. five \in Int /\ one \in Int
  BY DEF five, one, CognitiveScore, SpecOf, Spec1x1, Spec5x5, Max0, Abs
<1>4. "5x5" \in Candidates(e) /\ Viable("5x5", e)
      /\ Candidates(e) \subseteq {"1x1", "5x5"}
  BY DEF Candidates, Viable, SpecOf, Spec5x5
<1>5. ~(five - one <= Epsilon(engine))
      /\ five - five <= Epsilon(engine) /\ one - five <= Epsilon(engine)
  BY <1>1, <1>2, <1>3
<1>6. Equivalent(engine, e) = {"5x5"}
  <2> DEFINE viable == {s \in Candidates(e) : Viable(s, e)}
  <2>1. "5x5" \in viable /\ viable \subseteq {"1x1", "5x5"}
    BY <1>4
  <2>2. Equivalent(engine, e)
          = {s \in viable : \A o \in viable :
               CognitiveScore(o, e, Aggressive(engine))
                 - CognitiveScore(s, e, Aggressive(engine)) <= Epsilon(engine)}
    BY DEF Equivalent
  <2> HIDE DEF viable
  <2> QED
    BY <2>1, <2>2, <1>5, Zenon DEF five, one
<1> QED
  BY <1>6 DEF Selected

\* Every reading of the estimator, of any scale, points to 5x5.
LEMMA ReadingsPointUp ==
  ASSUME Observed \subseteq Input, NEW s, NEW r \in EstimatorReadings(s)
  PROVE  r.selected = "5x5"
<1>1. s \in Executables /\ r \in ReadingTable[s]
  BY DEF EstimatorReadings
<1>2. PICK i \in Observed : r = ReadingOf(Engine, s, EstimateOf(s, i))
  BY <1>1 DEF ReadingTable
<1>3. i \in Input
  OBVIOUS
<1>4. Selected(Engine, EstimateOf(s, i)) = "5x5"
  BY <1>3, EstimateType, FiveIsSelected
<1> QED
  BY <1>2, <1>4 DEF ReadingOf

(***************************************************************************)
(* No policy lowers the resolution of the default catalogue, for every     *)
(* input of the estimator, probe gain and length of run.                   *)
(***************************************************************************)
THEOREM DefaultNeverFalls ==
  ASSUME Scale = ScaleIds, Rank = ScaleRank, Executable = Executables,
         \A s \in Executable : Readings(s) = EstimatorReadings(s),
         Observed \subseteq Input
  PROVE  Spec => ResolutionNeverFalls
<1>1. ASSUME NEW s \in Executable PROVE Rank[s] \in Nat /\ Rank[s] <= Rank["5x5"]
  BY <1>1 DEF Executables, ScaleRank, ScaleIds
<1>2. ASSUME TypeOK, StepInv, [Next]_vars PROVE Rank[scale'] >= Rank[scale]
  <2>1. Rank[scale] \in Nat /\ Rank[scale] <= Rank["5x5"]
    BY <1>1, <1>2 DEF TypeOK
  <2>0. Rank["5x5"] \in Nat
    BY <1>1 DEF Executables
  <2>2. CASE scale' = scale
    BY <2>1, <2>2
  <2>3. CASE scale' # scale
    <3> PICK r \in Readings(scale) :
           CommitProbe(r) \/ UpgradeScale(r) \/ DowngradeScale(r)
      BY <1>2, <2>3, MovingDecision
    <3>1. Rank[scale'] \in Nat
      BY <1>1, <1>2, TypeStep DEF TypeOK
    <3>2. r.selected = "5x5"
      BY <1>2, ReadingsPointUp DEF TypeOK
    <3>3. CASE CommitProbe(r)
      BY <1>2, <2>1, <3>1, <3>3, HandledProbe DEF CommitProbe, MoveTo
    <3>4. CASE UpgradeScale(r)
      BY <2>1, <3>1, <3>4 DEF UpgradeScale, WantsUpgrade, MoveTo
    <3>5. ~DowngradeScale(r)
      BY <2>0, <2>1, <3>2 DEF DowngradeScale, WantsDowngrade
    <3> QED
      BY <3>3, <3>4, <3>5
  <2> QED
    BY <2>2, <2>3
<1> QED
  BY <1>2, StepInvariant, PTL DEF Spec, ResolutionNeverFalls
=============================================================================
