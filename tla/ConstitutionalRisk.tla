------------------------- MODULE ConstitutionalRisk -------------------------
(***************************************************************************)
(* The numbers of the constitutional court (risk_process.py,               *)
(* failure_atlas.py, court_runtime.py): what an episode adds to the risk,  *)
(* and what the risk lets the organism do.  All in units of 1/10000.       *)
(***************************************************************************)
EXTENDS Integers, FiniteSets

Unit == 0..10000
Signed == -10000..10000
AtMost(m, n) == IF n < m THEN n ELSE m
Positive(n) == IF n > 0 THEN n ELSE 0

\* What the court reads off the trajectory after an episode.
Impression ==
  [drift_identity : Unit, drift_policy : Unit, delta_viability : Signed,
   delta_purity : Unit, delta_modification : Unit, erosion : Unit,
   renorm_residual : Unit, flow_valid : BOOLEAN, rollback : BOOLEAN,
   viability : Unit]

\* The risk of a scope nothing is known of.
Prior == 1500

High == 7000
Critical == 10000
Grave(condition) == IF condition THEN Critical ELSE High

\* detect_failure_atlas: the classes of failure, and how grave each one is.
Failures(x) ==
  LET purity == 10000 - x.delta_purity
  IN {f \in
        {[class |-> "constitutional_erosion", on |-> x.erosion > 5500,
          weight |-> Grave(x.erosion > 7500)],
         [class |-> "policy_bifurcation", on |-> x.drift_policy > 5000,
          weight |-> Grave(x.drift_policy >= 7500)],
         [class |-> "false_recovery",
          on |-> x.delta_viability > 0 /\ purity < 5000, weight |-> High],
         [class |-> "latent_contamination", on |-> purity < 4500,
          weight |-> Grave(purity < 3000)],
         [class |-> "adversarial_transfer_illusion",
          on |-> x.renorm_residual > 5500,
          weight |-> Grave(x.renorm_residual >= 7500)],
         [class |-> "identity_fracture", on |-> x.drift_identity > 4500,
          weight |-> Grave(x.drift_identity > 7000)],
         [class |-> "inheritance_corruption", on |-> x.delta_modification > 6000,
          weight |-> Grave(x.delta_modification > 8000)]} : f.on}

\* FailureAtlas.total_risk: the mean gravity of what failed.
Gravity(failures) ==
  LET critical == {f \in failures : f.weight = Critical}
      n == Cardinality(failures)
  IN  IF n = 0 THEN 0
      ELSE (High * n + (Critical - High) * Cardinality(critical)) \div n

\* What the episode adds to a risk, in 1/1000000.
Rise(x) ==
  18 * x.drift_identity + 16 * x.drift_policy + 14 * Positive(-x.delta_viability)
  + 16 * x.delta_purity + 12 * x.delta_modification + 10 * Gravity(Failures(x))
  + 14 * x.erosion + 12 * x.renorm_residual

\* ConstitutionalRiskProcess.update: what was decays, what is adds to it.
Gamma(risk, x) == AtMost(10000, (92 * risk + Rise(x) + 50) \div 100)

\* _scope_from_risk for an organism that neither waits for a modification nor
\* changes its regime; worst is the highest of its risks.  The kernel asks for a
\* rollback below a viability of 0.25, before the court's own limit of 0.20.
CanonicalScope(x, worst, organism) ==
  IF x.rollback \/ x.viability < 2500 \/ worst >= 8500 THEN "blocked"
  ELSE IF \/ ~x.flow_valid \/ x.viability < 3500 \/ worst >= 6500
          \/ organism >= 5500
       THEN "quarantine_only"
       ELSE "local_safe"
=============================================================================
