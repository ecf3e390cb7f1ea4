----------------------------- MODULE MSRCDefault -----------------------------
(***************************************************************************)
(* The controller over the default catalogue and the real estimator: its   *)
(* readings are those ScaleScoring computes from what episodes can show.   *)
(***************************************************************************)
EXTENDS MSRCProperties, ScaleScoring

CONSTANTS
  Engine,    \* "baseline", "aggressive" or "regime_v3"
  Observed   \* the inputs that episodes show the estimator

\* Tabulated: the estimate depends on the scale through the blindspot bonus.
ReadingTable ==
  [s \in Executables |-> {ReadingOf(Engine, s, EstimateOf(s, i)) : i \in Observed}]

EstimatorReadings(s) == IF s \in Executables THEN ReadingTable[s] ELSE {}

(***************************************************************************)
(* What the estimator makes of the default catalogue: the resolution only  *)
(* rises.  Among the candidates of an estimate 5x5 is always there,        *)
(* viable, and ahead of 1x1 by more than the equivalence margin, so the    *)
(* downgrade branch is never taken.  It is why MSRCDowngrade finds what it *)
(* finds.                                                                  *)
(***************************************************************************)
ResolutionNeverFalls == [][Rank[scale'] >= Rank[scale]]_vars
=============================================================================
