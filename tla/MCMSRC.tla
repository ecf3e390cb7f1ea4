------------------------------- MODULE MCMSRC -------------------------------
(***************************************************************************)
(* Instances of the controller for TLC.  The profiles are those of         *)
(* scale_policy_engine.py.  MCReadings gives the policy every estimate a   *)
(* catalogue, an estimator or a test may hand it.                          *)
(***************************************************************************)
EXTENDS MSRCProperties

DefaultIds == {"1x1", "2x2", "3x3", "5x5", "10x10", "30x30"}
DefaultRank == [s \in DefaultIds |->
  CASE s = "1x1" -> 1 [] s = "2x2" -> 2 [] s = "3x3" -> 3
    [] s = "5x5" -> 5 [] s = "10x10" -> 10 [] OTHER -> 30]

\* An extended catalogue in which the 10x10 scale is executable too.
LadderExecutable == {"1x1", "5x5", "10x10"}

RegimeLabels == {"homogeneous", "heterogeneous", "viability_edge"}
RegimeProfile == [g \in RegimeLabels |->
  CASE g = "homogeneous" ->
         [upgradeN |-> 3, downgradeN |-> 4, cooldown |-> 2, lock |-> 3,
          commitEvidence |-> 600, commitGain |-> 30]
    [] g = "heterogeneous" ->
         [upgradeN |-> 1, downgradeN |-> 6, cooldown |-> 1, lock |-> 2,
          commitEvidence |-> 460, commitGain |-> -5]
    [] OTHER ->
         [upgradeN |-> 2, downgradeN |-> 6, cooldown |-> 1, lock |-> 2,
          commitEvidence |-> 480, commitGain |-> -5]]

\* A loss, a gain below the commit thresholds, one between them, one above.
MCProbeDelta == {-20, 5, 60, 150}

Finer(s)   == {e \in Executable : Rank[e] > Rank[s]}
Coarser(s) == {e \in Executable : Rank[e] < Rank[s]}

MCReadings(s) ==
  [regime : Regime, selected : Finer(s), signal : BOOLEAN, probe : BOOLEAN,
   useful : {FALSE}]
  \cup
  [regime : Regime, selected : Coarser(s), signal : {FALSE}, probe : {FALSE},
   useful : BOOLEAN]
  \cup
  [regime : Regime, selected : {s} \cap Executable, signal : {FALSE},
   probe : {FALSE}, useful : {FALSE}]
=============================================================================
