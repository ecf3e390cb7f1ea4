---------------------------- MODULE MSRCDowngrade ----------------------------
(***************************************************************************)
(* The baseline policy in a run whose every episode asks for little        *)
(* resolution under high pressure: the demand for which                    *)
(* tests/msrc/test_scale_policy_engine.py:80 expects a downgrade after     *)
(* five decisions, with the estimator's own estimates.                     *)
(***************************************************************************)
EXTENDS MCMSRCDefault

BaselineRegime == {"baseline"}
BaselineProfile == [g \in BaselineRegime |->
  [upgradeN |-> 3, downgradeN |-> 5, cooldown |-> 2, lock |-> 3,
   commitEvidence |-> 550, commitGain |-> 0]]

\* required at most 0.15, operational pressure at least 0.8, VRAM pressure at
\* least 0.9, as in the test.
LowDemand == {i \in Grid :
  /\ EstimateOf("5x5", i).req <= 15000
  /\ i.op >= 800 /\ i.press >= 900 /\ i.opp <= 100}

VARIABLE stayed  \* history: decisions since the scale last moved

DowngradeInit == Init /\ stayed = 0

DowngradeNext ==
  /\ Next
  /\ stayed' = IF scale' # scale THEN 0
               ELSE IF phase = "episode" /\ phase' # "aborted" THEN stayed + 1
               ELSE stayed

DowngradeSpec == DowngradeInit /\ [][DowngradeNext]_<<vars, stayed>>

(***************************************************************************)
(* Downgrade with evidence (ADR_MSRC_MULTISCALE_RESOLUTION.md:37): while   *)
(* every episode asks for little, the controller leaves a finer scale once *)
(* lock and cooldown are over and the evidence is complete.                *)
(***************************************************************************)
LowDemandComesDown ==
  LET p == BaselineProfile["baseline"]
  IN  Rank[scale] > Rank[DefaultScale] => stayed <= p.lock + p.cooldown + p.downgradeN
=============================================================================
