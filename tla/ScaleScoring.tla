---------------------------- MODULE ScaleScoring ----------------------------
(***************************************************************************)
(* The arithmetic behind a decision of the multi-scale controller: from    *)
(* the component scores of an estimate to the demand, the candidate        *)
(* scales, their cognitive scores, the lexicographic choice, and the       *)
(* signals that the policy's control flow tests.                           *)
(*                                                                         *)
(* The code's floats are integers here.  Component scores are thousandths; *)
(* the required resolution is in units of 1/100000, a cognitive score in   *)
(* units of 1/1500000, so that every weighted sum below is exact.          *)
(***************************************************************************)
EXTENDS Integers

Max0(x) == IF x > 0 THEN x ELSE 0
AtMost(x, bound) == IF x > bound THEN bound ELSE x
Abs(x) == IF x < 0 THEN -x ELSE x
Unit(x) == AtMost(Max0(x), 1000)

Score == 0..1000

\* ScaleCatalog.default(): prior in hundredths, costs in tenths.
ScaleIds == {"1x1", "2x2", "3x3", "5x5", "10x10", "30x30"}
Executables == {"1x1", "5x5"}
Spec1x1 == [rank |-> 1, structured |-> FALSE, time |-> 10, artifact |-> 10,
            prior |-> 35]
Spec5x5 == [rank |-> 5, structured |-> TRUE, time |-> 22, artifact |-> 22,
            prior |-> 72]
ScaleRank == [s \in ScaleIds |->
  CASE s = "1x1" -> 1 [] s = "2x2" -> 2 [] s = "3x3" -> 3
    [] s = "5x5" -> 5 [] s = "10x10" -> 10 [] OTHER -> 30]
SpecOf(s) == IF s = "1x1" THEN Spec1x1 ELSE Spec5x5

(***************************************************************************)
(* What an episode shows the estimator: the component scores as measured,  *)
(* risk through its parts, and the VRAM sample.                            *)
(***************************************************************************)
Input == [het : Score, epi : 0..900, prox : Score, low : Score,
          verdict : {0, 500}, op : Score, complexity : Score, usage : Score,
          opp : Score, press : Score, frag : Score]

Estimate == [req : 0..100000, het : Score, epi : Score, risk : Score,
             op : Score, opp : Score, press : Score, frag : Score,
             prox : Score, low : Score, complexity : Score, blind : Score]

\* _scale_blindspot_bonus, from its (clamped) usage component; 1x1 only.
Blind(s, i) ==
  IF s = "1x1" THEN (55 * i.usage + 45 * i.complexity) \div 100 ELSE 0

Heterogeneity(s, i) ==
  Unit(i.het + (300 * Blind(s, i)) \div 1000
             + IF i.het < 180 THEN (350 * i.complexity) \div 1000 ELSE 0)

Epistemic(s, i) == Unit(i.epi + Blind(s, i) \div 10)

Risk(i) == Unit((52 * i.prox + 38 * i.low + 10 * i.verdict) \div 100)

\* In 1/100000.
Required(het, epi, risk, op) ==
  34 * risk + 33 * het + 28 * epi + 5 * (1000 - op)

EstimateOf(s, i) ==
  LET het == Heterogeneity(s, i)
      epi == Epistemic(s, i)
  IN [req |-> Required(het, epi, Risk(i), i.op), het |-> het, epi |-> epi,
      risk |-> Risk(i), op |-> i.op, opp |-> i.opp, press |-> i.press,
      frag |-> i.frag, prox |-> i.prox, low |-> i.low,
      complexity |-> i.complexity, blind |-> Blind(s, i)]

\* _resolution_rank_from_required
MinimumRank(req) ==
  CASE req < 25000 -> 1
    [] req >= 25000 /\ req < 45000 -> 2
    [] req >= 45000 /\ req < 60000 -> 3
    [] req >= 60000 /\ req < 80000 -> 5
    [] req >= 80000 /\ req < 90000 -> 10
    [] OTHER -> 30

\* The executable scales the recommended ones map to: 2x2 and 3x3 fall to
\* 1x1 (3x3 by the tie), 10x10 and 30x30 to 5x5.
Candidates(e) == IF MinimumRank(e.req) <= 3 THEN {"1x1", "5x5"} ELSE {"5x5"}
-----------------------------------------------------------------------------
\* _estimate_cognitive_gain; the clamp at 1.5 is above every score.
CognitiveScore(s, e, aggressive) ==
  LET spec == SpecOf(s) IN
  8250 * spec.prior
  + Max0(300000 - Abs(3 * e.req - 10000 * spec.rank))
  + (IF spec.structured THEN 270 * e.het + 210 * e.epi + 150 * e.risk ELSE 0)
  + (IF aggressive THEN 120 * e.het + 105 * e.epi + 90 * e.risk ELSE 0)
  + 33 * spec.rank * e.opp

\* _estimate_viability is positive; no executable scale has rank above 5.
Viable(s, e) == ~(e.risk >= 920 /\ ~SpecOf(s).structured)

\* The part of the meta cost penalty that differs between two candidates.
MetaCost(s) == 90 * AtMost(SpecOf(s).time, 100)
               + 40 * AtMost(SpecOf(s).artifact, 150)

Epsilon(engine) == IF engine = "baseline" THEN 45000 ELSE 30000
Aggressive(engine) == engine # "baseline"

\* _select_lexicographic.  5x5 is a viable candidate of every estimate.
Equivalent(engine, e) ==
  LET viable == {s \in Candidates(e) : Viable(s, e)} IN
  {s \in viable : \A o \in viable :
     CognitiveScore(o, e, Aggressive(engine))
       - CognitiveScore(s, e, Aggressive(engine)) <= Epsilon(engine)}

Selected(engine, e) ==
  CHOOSE s \in Equivalent(engine, e) :
    \A o \in Equivalent(engine, e) : MetaCost(s) <= MetaCost(o)

\* The current scale scores zero when the demand has ruled it out.
CurrentScore(engine, s, e) ==
  IF s \in Candidates(e) THEN CognitiveScore(s, e, Aggressive(engine)) ELSE 0

Delta(engine, s, e) ==
  CognitiveScore(Selected(engine, e), e, Aggressive(engine))
    - CurrentScore(engine, s, e)
-----------------------------------------------------------------------------
\* RegimeClassifier.classify
Edge(e) ==
  \/ e.risk >= 720
  \/ e.low >= 720 /\ e.prox >= 820
  \/ e.prox >= 950 /\ e.complexity < 500 /\ e.risk >= 450
  \/ e.risk >= 620 /\ e.req >= 72000

Heterogeneous(e) ==
  \/ e.het >= 240
  \/ e.complexity >= 500
  \/ e.blind >= 450
  \/ e.epi >= 340 /\ e.complexity >= 350

RegimeLabel(e) == IF Edge(e) THEN "viability_edge"
                  ELSE IF Heterogeneous(e) THEN "heterogeneous"
                  ELSE "homogeneous"

CriticalHighSignal(e) == e.risk >= 780 /\ e.req >= 70000
ProbeFavorable(e) == e.opp >= 620 /\ e.press < 880 /\ e.epi >= 220

\* The thresholds and weights of the regime profiles, in hundredths.
RegimeWeights(g) ==
  CASE g = "homogeneous" ->
         [up |-> 64, down |-> 24, probe |-> 58, bias |-> 18, het |-> 16,
          epi |-> 34, risk |-> 20, opp |-> 10, req |-> 20, meta |-> 25,
          gain |-> 22, dominant |-> 46]
    [] g = "heterogeneous" ->
         [up |-> 42, down |-> 26, probe |-> 30, bias |-> -10, het |-> 42,
          epi |-> 22, risk |-> 14, opp |-> 14, req |-> 22, meta |-> 12,
          gain |-> 10, dominant |-> 35]
    [] OTHER ->
         [up |-> 45, down |-> 18, probe |-> 32, bias |-> -6, het |-> 20,
          epi |-> 30, risk |-> 34, opp |-> 18, req |-> 22, meta |-> 12,
          gain |-> 8, dominant |-> 30]

\* _regime_upgrade_signal_score, in 1/30000000.
RegimeSignalScore(e, delta, w) ==
  3 * w.req * e.req
  + 300 * (w.het * e.het + w.epi * e.epi + w.risk * e.risk + w.opp * e.opp)
  + 5 * Max0(delta) - 300000 * w.bias - 300 * w.meta * e.op
  + (IF CriticalHighSignal(e) THEN 2400000 ELSE 0)
  + (IF ProbeFavorable(e) THEN 1500000 ELSE 0)

\* _probe_signal, in 1/100000.
ProbeSignal(e) == 35 * e.epi + 25 * e.het + 20 * e.risk + 20 * e.opp

RoomToProbe(e) == e.opp >= 450 /\ e.press < 930 /\ e.frag < 920

\* The expected gain asks for more resolution; in a homogeneous world, only
\* where the need, the risk and the memory speak for it too.
GainSignal(e, delta) ==
  IF RegimeLabel(e) = "homogeneous"
  THEN delta >= 420000 /\ e.epi >= 200 /\ e.risk >= 220 /\ e.opp >= 550
  ELSE delta >= 15000 * RegimeWeights(RegimeLabel(e)).gain

UpgradeSignal(engine, e, delta) ==
  LET w == RegimeWeights(RegimeLabel(e)) IN
  CASE engine = "baseline" -> e.req >= 62000 \/ delta >= 90000
    [] engine = "aggressive" ->
         \/ e.req >= 46000 \/ e.het >= 220 \/ e.epi >= 200 \/ e.risk >= 400
         \/ delta >= 180000 /\ e.opp >= 550 /\ (e.risk >= 350 \/ e.epi >= 180)
    [] OTHER ->
         \/ RegimeSignalScore(e, delta, w) >= 300000 * w.up
         \/ e.req >= 1000 * w.up
         \/ GainSignal(e, delta)

ShouldProbe(engine, e, delta) ==
  LET w == RegimeWeights(RegimeLabel(e)) IN
  CASE engine = "baseline" -> e.epi >= 550
    [] engine = "aggressive" ->
         /\ ProbeSignal(e) >= 38000
         /\ ~(e.req >= 72000 \/ delta >= 675000 \/ e.risk >= 720)
         /\ RoomToProbe(e)
    [] OTHER ->
         /\ ProbeSignal(e) + (IF ProbeFavorable(e) THEN 10000 ELSE 0)
              >= 1000 * w.probe
         /\ ~ \/ RegimeSignalScore(e, delta, w) >= 300000 * (w.up + 16)
              \/ delta >= 15000 * w.dominant
              \/ e.req >= 82000
         /\ RoomToProbe(e)

\* The three reasons to refuse a downgrade.
StillUseful(engine, e, delta) ==
  LET g == RegimeLabel(e)
      down == CASE engine = "baseline" -> 35 [] engine = "aggressive" -> 28
                [] OTHER -> RegimeWeights(g).down
  IN \/ e.req > 1000 * down
     \/ engine = "regime_v3" /\ g # "homogeneous" /\ (e.het >= 200 \/ e.risk >= 440)
     \/ -delta > Epsilon(engine)

\* What the policy reads off an estimate taken at scale s.
ReadingOf(engine, s, e) ==
  LET delta == Delta(engine, s, e) IN
  [regime |-> IF engine = "regime_v3" THEN RegimeLabel(e) ELSE engine,
   selected |-> Selected(engine, e),
   signal |-> UpgradeSignal(engine, e, delta),
   probe |-> ShouldProbe(engine, e, delta),
   useful |-> StillUseful(engine, e, delta)]
=============================================================================
