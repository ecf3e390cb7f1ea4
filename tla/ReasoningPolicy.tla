-------------------------- MODULE ReasoningPolicy --------------------------
(***************************************************************************)
(* Which families of reasoning an episode runs, and in what order          *)
(* (scheduler_meta/policy.py): the signals of the context, the regime, the *)
(* scores, the sequence each kind of profile proposes, and the validation  *)
(* that corrects it.  Pure functions; ReasoningRun calls them.             *)
(*                                                                         *)
(* What a context shows is in hundredths, a signal in 1/10000 and a score  *)
(* in 1/1000000.  The external thinker is left out: select_sequence        *)
(* refuses every profile that has it.                                      *)
(***************************************************************************)
EXTENDS Integers, FiniteSets, Sequences, SequencesExt

Core == <<"abd", "ana", "cau", "ctf", "ded", "prob">>
Augmenters == {"heur", "dia_adv", "fal_guard"}
Shadows == <<"ind", "eml_sr">>
Deliberative == <<"plan", "opt">>

Optional == Augmenters \union ToSet(Shadows) \union ToSet(Deliberative)

\* The order of names, which breaks ties.
Alphabet == <<"dia_adv", "eml_sr", "fal_guard", "heur", "ind", "opt", "plan">>

\* The optional families of each profile.
Profiles ==
  [core_only                  |-> <<>>,
   core_plus_heur             |-> <<"heur">>,
   core_plus_dialectic        |-> <<"dia_adv">>,
   core_plus_guard            |-> <<"fal_guard">>,
   core_plus_heur_guard       |-> <<"heur", "fal_guard">>,
   core_plus_heur_dialectic   |-> <<"heur", "dia_adv">>,
   core_plus_guard_dialectic  |-> <<"fal_guard", "dia_adv">>,
   core_plus_triple_optional  |-> <<"heur", "dia_adv", "fal_guard">>,
   core_plus_deliberative     |-> Deliberative,
   core_plus_ind              |-> <<"ind">>,
   core_plus_plan             |-> <<"plan">>,
   core_plus_opt              |-> <<"opt">>,
   adaptive_family_ecology    |-> <<"heur", "dia_adv", "fal_guard", "eml_sr">>,
   adaptive_family_ecology_v2 |-> <<"heur", "dia_adv", "fal_guard">> \o Shadows,
   full_family_exploration    |-> <<"heur", "dia_adv", "fal_guard">> \o Shadows \o Deliberative]

AdaptiveProfiles == {"adaptive_family_ecology", "adaptive_family_ecology_v2",
                     "full_family_exploration"}

Labels == {"homogeneous_safe", "heterogeneous_elevated", "heterogeneous_warning",
           "viability_edge", "vram_favorable"}

HardMaxSteps == 10

Larger(m, n) == IF m > n THEN m ELSE n
Smaller(m, n) == IF m < n THEN m ELSE n
Unit(n) == Larger(0, Smaller(10000, n))
Index(seq, f) == SelectInSeq(seq, LAMBDA g : g = f)

\* The members of a set by growing key; no two have the same key.
Ordered(S, key) ==
  [i \in 1..Cardinality(S) |->
     CHOOSE f \in S : Cardinality({g \in S : key[g] <= key[f]}) = i]

-----------------------------------------------------------------------------
(* The signals and the regime *)

\* What a context shows: heterogeneity is the weighted sum of the statistics
\* of the observation, entropy the one that also counts by itself, bare that it
\* has at most one proposition, gap how far the counterfactual world is,
\* regularity and law how symbolic its laws look, vram the mean of the headroom
\* and the opportunity, hint what the caller adds to it.
Context ==
  [uncertainty : 0..100, contradiction : 0..100, continuity : 0..100,
   edge : 0..100, gap : 0..100, alarm : BOOLEAN, margin : 0..100,
   level : 0..100, heterogeneity : 0..100, entropy : 0..100, bare : BOOLEAN,
   regularity : 0..100, law : 0..100, vram : 0..100, hint : 0..100]

\* What an alarm makes of the context.
Alarmed(c) ==
  IF c.alarm
  THEN [c EXCEPT !.contradiction = Larger(@, 40), !.edge = Larger(@, 30),
                 !.level = Larger(@, 86)]
  ELSE c

Signals(c) ==
  LET a == Alarmed(c)
      If(b, n) == IF b THEN n ELSE 0
  IN [uncertainty   |-> 100 * a.uncertainty,
      contradiction |-> 100 * a.contradiction,
      edge          |-> 100 * a.edge,
      causal        |-> 100 * a.gap,
      regularity    |-> 100 * a.regularity,
      law           |-> 100 * a.law,
      heterogeneity |-> 100 * a.heterogeneity,
      level         |-> 100 * a.level,
      viability     |-> Unit(40 * a.edge + 35 * a.level + 20 * (100 - a.margin)
                             + If(a.alarm, 1500)),
      ambiguity     |-> Unit(45 * a.uncertainty + 30 * a.contradiction + 25 * a.gap),
      fragility     |-> Unit(45 * a.contradiction + 35 * (100 - a.continuity)
                             + If(a.alarm, 2000)),
      pattern       |-> Unit(60 * a.heterogeneity + If(a.bare, 3000) + 10 * a.entropy),
      vram          |-> Unit(90 * a.vram + 10 * a.hint)]

\* The regime the signals show, with or without a regime of free memory.
Shows(s, withMemory) ==
  IF s.viability >= 7000 THEN "viability_edge"
  ELSE IF s.heterogeneity >= 5500 /\ s.level >= 8200 THEN "heterogeneous_warning"
  ELSE IF s.heterogeneity >= 4000 THEN "heterogeneous_elevated"
  ELSE IF withMemory /\ s.vram >= 6200 THEN "vram_favorable"
  ELSE "homogeneous_safe"

\* The regime, and the one beneath a regime of free memory; hint is the label
\* the caller asks for, or "none".
Regime(hint, s) ==
  LET primary == IF hint # "none" THEN hint ELSE Shows(s, TRUE)
  IN [primary |-> primary,
      beneath |-> IF primary = "vram_favorable" THEN Shows(s, FALSE) ELSE primary]

Heterogeneous(label) == label \in {"heterogeneous_elevated", "heterogeneous_warning"}

Floor(label) ==
  CASE label = "homogeneous_safe" -> {"abd", "ded", "prob"}
    [] label = "heterogeneous_elevated" -> {"abd", "ana", "cau", "ctf"}
    [] label = "heterogeneous_warning" -> {"abd", "ana", "cau", "ctf", "ded"}
    [] label = "viability_edge" -> {"cau", "ctf", "ded", "prob"}

SafeProfile(label) ==
  CASE label = "homogeneous_safe" -> "core_only"
    [] label = "heterogeneous_elevated" -> "core_plus_heur"
    [] OTHER -> "core_plus_guard"

\* The score of each optional family; those of the core order nothing.
Scores(s, label) ==
  LET boost(c, n) == IF c THEN 10000 * n ELSE 0
      tense == s.ambiguity >= 5500
      frail == s.fragility >= 5000
      patterned == s.pattern >= 4500
      edgy == label = "viability_edge"
      roomy == label = "vram_favorable"
  IN [heur      |-> 120000 + 30 * s.edge + boost(Heterogeneous(label), 28)
                    + boost(roomy, 18) + boost(patterned, 18),
      dia_adv   |-> 100000 + 30 * s.contradiction + boost(edgy, 22)
                    + boost(tense, 22) + boost(frail, 20),
      fal_guard |-> 100000 + 30 * s.fragility + boost(edgy, 28) + boost(frail, 30),
      ind       |-> 80000 + 32 * s.pattern + boost(roomy, 18) + boost(patterned, 20),
      eml_sr    |-> 80000 + 30 * s.regularity + 22 * s.law,
      plan      |-> 100000 + 30 * s.viability + 12 * s.level,
      opt       |-> 100000 + 28 * s.causal + 12 * s.viability]

\* A set of families, the best score first.
Best(S, score) == Ordered(S, [f \in S |-> Index(Alphabet, f) - 10 * score[f]])

\* The steps the signals grant, or the steps asked for (0: none are).
Budget(s, asked) ==
  LET bonus(b) == IF b THEN 1 ELSE 0
      granted == 6 + bonus(s.uncertainty >= 6000) + bonus(s.contradiction >= 5000)
                   + bonus(s.causal >= 5000) - bonus(s.edge >= 8000)
  IN Larger(4, Smaller(10, IF asked = 0 THEN granted ELSE asked))

-----------------------------------------------------------------------------
(* The sequence *)

\* The family an overlay comes right after, among those present.
Anchor(f, present) ==
  CASE f = "heur" -> "abd"
    [] f = "ind" -> IF "heur" \in present THEN "heur" ELSE "abd"
    [] f = "dia_adv" -> "ana"
    [] f \in {"eml_sr", "plan"} -> "ctf"
    [] f = "opt" -> IF "plan" \in present THEN "plan" ELSE "ctf"
    [] f = "fal_guard" -> "ded"

Limit(f) ==
  CASE f \in {"heur", "ind"} -> "ana"
    [] f = "dia_adv" -> "cau"
    [] f = "eml_sr" -> "ded"
    [] f \in {"fal_guard", "plan", "opt"} -> "prob"

\* No anchor is prob: it stays last.
InsertOverlay(seq, f) ==
  InsertAt(seq, Index(seq, Anchor(f, ToSet(seq))) + 1, f)

\* The core with the overlays of a pool at their anchors, put in one by one.
Composed(pool) ==
  LET with(f, seq) == IF f \in pool THEN InsertOverlay(seq, f) ELSE seq
  IN with("fal_guard", with("eml_sr", with("opt", with("plan",
       with("dia_adv", with("ind", with("heur", Core)))))))

\* Which of two overlays is dropped first: shadow and deliberative ones go in
\* this order, then those that are no default, each by score and name.
Sooner(f, g, default, score) ==
  LET first == Shadows \o Deliberative
      turn(h) == IF h \in ToSet(first) THEN Index(first, h)
                 ELSE IF h \notin default THEN 5 ELSE 6
  IN \/ turn(f) < turn(g)
     \/ /\ turn(f) = turn(g)
        /\ \/ score[f] < score[g]
           \/ score[f] = score[g] /\ Index(Alphabet, f) < Index(Alphabet, g)

\* The overlays of the pool that are not dropped sooner, itself among them.
Outlasting(f, pool, default, score) ==
  {g \in pool : ~ Sooner(g, f, default, score)}

\* Mutant: only shadow and deliberative families are dropped.
KeptAugmenters(pool, default, score, steps) ==
  {f \in pool : \/ f \in Augmenters
                \/ Len(Core) + Cardinality(Outlasting(f, pool, default, score)) <= steps}

\* The overlays of a pool that a number of steps has room for: one after the
\* other is dropped until the rest fits.
Kept(pool, default, score, steps) ==
  {f \in pool : Len(Core) + Cardinality(Outlasting(f, pool, default, score)) <= steps}

\* The families of the core that are present, in the order of the core.
KeepsOrder(seq) ==
  \A i, j \in 1..Len(Core) :
    i < j /\ {Core[i], Core[j]} \subseteq ToSet(seq) =>
      Index(seq, Core[i]) < Index(seq, Core[j])

AtAnchors(seq) ==
  \A f \in ToSet(seq) \intersect Optional :
    LET before(g, h) == {g, h} \subseteq ToSet(seq) => Index(seq, g) < Index(seq, h)
    IN before(Anchor(f, ToSet(seq)), f) /\ before(f, Limit(f))

\* What the validator asks of a sequence.
Passes(seq, floor, allowed, steps, anchored) ==
  /\ floor \union ToSet(Core) \subseteq ToSet(seq)
  /\ ToSet(seq) \subseteq allowed \union ToSet(Core)
  /\ KeepsOrder(seq)
  /\ anchored => AtAnchors(seq)
  /\ "prob" \in ToSet(seq) => Last(seq) = "prob"
  /\ Len(seq) \in Len(Core)..steps

WantsSymbolic(s, experimental) == experimental /\ (s.regularity >= 4000 \/ s.law >= 4000)

\* The sequence of the safe profile, for when the corrected one fails too.
SafeSequence(regime, allowed, s, experimental, score, steps) ==
  LET pool == (ToSet(Profiles[SafeProfile(regime.beneath)])
                 \union (IF regime.primary = "vram_favorable" THEN {"heur"} ELSE {})
                 \union (IF WantsSymbolic(s, experimental) THEN {"eml_sr"} ELSE {}))
              \intersect allowed
  IN Composed(Kept(pool, pool, score, steps))

\* The validated sequence: the proposed one if it passes, else the core with
\* its overlays and trimmed to the steps, else the safe one.
Validated(proposed, allowed, requested, regime, default, s, experimental, score, anchored) ==
  LET steps == Larger(Len(Core), Smaller(HardMaxSteps, requested))
      passes(seq) == Passes(seq, Floor(regime.beneath), allowed, steps, anchored)
      corrected ==
        IF passes(proposed) THEN proposed
        ELSE Composed(Kept(ToSet(proposed) \intersect allowed, default, score, steps))
      chosen == IF passes(corrected) THEN corrected
                ELSE SafeSequence(regime, allowed, s, experimental, score, steps)
  IN [sequence |-> chosen, passed |-> passes(chosen),
      safe |-> ~ passes(corrected), steps |-> steps]

-----------------------------------------------------------------------------
(* The proposals *)

Off(directives) == {f \in DOMAIN directives : directives[f] = "off"}
On(directives) == {f \in DOMAIN directives : directives[f] = "on"}

\* Mutant: what is on is added, what is off stays.
GovernedOn(optional, directives) == optional \union On(directives)

\* The optional families of a profile that the directives leave; a directive
\* adds no family the profile lacks.
Governed(optional, directives) == optional \ Off(directives)

\* A fixed profile: at the anchors, or in the order of the profile after the
\* first family.
FixedProposal(profile, optional) ==
  IF profile \in {"core_plus_deliberative", "core_plus_ind", "core_plus_plan", "core_plus_opt"}
  THEN Composed(optional)
  ELSE <<Head(Core)>>
         \o Ordered(optional, [f \in optional |-> Index(Profiles[profile], f)])
         \o Tail(Core)

Activated(f, s, label, experimental) ==
  LET edgy == label = "viability_edge"
  IN CASE f = "heur" -> \/ Heterogeneous(label) \/ label = "vram_favorable"
                        \/ s.edge >= 5800 \/ s.pattern >= 4500
       [] f = "dia_adv" -> edgy \/ s.ambiguity >= 5500 \/ s.contradiction >= 4500
       [] f = "fal_guard" -> edgy \/ s.fragility >= 5000 \/ s.contradiction >= 5500
       [] f = "ind" -> FALSE
       [] f = "eml_sr" -> WantsSymbolic(s, experimental)
       [] f = "plan" -> edgy \/ s.viability >= 6000
       [] f = "opt" -> edgy \/ s.causal >= 5000

\* An adaptive profile: the families called for after the first one of the
\* core, then the rest while steps last, and prob forced to the end.
AdaptiveProposal(profile, optional, forced, s, label, experimental, score, steps) ==
  LET active == IF profile = "full_family_exploration" THEN optional
                ELSE {f \in optional : f \in forced \/ Activated(f, s, label, experimental)}
      whole == <<Head(Core)>> \o Best(active, score) \o Tail(Core)
                 \o Best(optional \ active, score)
      cut == SubSeq(whole, 1, Smaller(steps, Len(whole)))
  IN IF "prob" \in ToSet(cut) THEN RemoveAt(cut, Index(cut, "prob")) \o <<"prob">>
     ELSE ReplaceAt(cut, Len(cut), "prob")

\* The overlays the second version of the ecology admits, by role.
Admitted(allowed, s, regime, experimental, requested) ==
  LET label == regime.beneath
      default ==
        allowed \intersect
          ((IF Heterogeneous(label) \/ regime.primary = "vram_favorable" THEN {"heur"} ELSE {})
           \union (IF label \in {"heterogeneous_warning", "viability_edge"}
                   THEN {"fal_guard"} ELSE {})
           \union (IF label = "viability_edge" THEN {"dia_adv"} ELSE {}))
      conditional ==
        (allowed \ default) \intersect
          ((IF s.contradiction >= 4500 \/ s.ambiguity >= 5500 THEN {"dia_adv"} ELSE {})
           \union (IF s.fragility >= 5000 \/ s.contradiction >= 5500
                   THEN {"fal_guard"} ELSE {})
           \union (IF \/ /\ regime.primary = "viability_edge"
                         /\ requested >= Len(Core) + Cardinality(default) + 1
                         /\ s.edge >= 7500 \/ s.pattern >= 4500
                      \/ regime.primary = "homogeneous_safe" /\ s.edge >= 7500
                   THEN {"heur"} ELSE {}))
      shadow ==
        allowed \intersect
          ((IF regime.primary = "vram_favorable" /\ s.pattern >= 4000 THEN {"ind"} ELSE {})
           \union (IF WantsSymbolic(s, experimental) THEN {"eml_sr"} ELSE {}))
  IN [default |-> default, all |-> default \union conditional \union shadow]

\* The families of a profile that may run.
Allowed(profile, experimental) ==
  {f \in ToSet(Profiles[profile]) : f = "eml_sr" => experimental}

\* select_sequence: what the scheduler runs, and how it was validated.
Select(s, requested, mode, profile, hint, experimental, directives) ==
  LET regime == Regime(hint, s)
      allowed == Allowed(profile, experimental)
      governed == Governed(allowed, directives)
      score == Scores(s, regime.primary)
      validated(proposed, steps, default, anchored) ==
        Validated(proposed, allowed, steps, regime, default, s, experimental, score, anchored)
  IN IF mode = "fixed" /\ profile \notin AdaptiveProfiles
     THEN validated(FixedProposal(profile, governed),
                    Larger(requested, Len(Core) + Cardinality(governed)), governed, FALSE)
     ELSE IF profile = "adaptive_family_ecology_v2"
     THEN LET admitted == Admitted(allowed, s, regime, experimental, requested)
              steps == Smaller(HardMaxSteps,
                               Larger(requested, Len(Core) + Cardinality(admitted.all)))
          IN validated(Composed(admitted.all), steps, admitted.default, TRUE)
     ELSE LET steps == Larger(requested, Len(Core))
          IN validated(AdaptiveProposal(profile, governed, On(directives), s,
                                        regime.primary, experimental, score, steps),
                       steps, {}, FALSE)
=============================================================================
