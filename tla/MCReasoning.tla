---------------------------- MODULE MCReasoning ----------------------------
(***************************************************************************)
(* Instances of ReasoningRun: one episode of every kind of context under   *)
(* every profile, and a few episodes of some contexts under profiles the   *)
(* selector governs, with runners of two scenarios.                        *)
(***************************************************************************)
EXTENDS ReasoningRun

Quiet ==
  [uncertainty |-> 25, contradiction |-> 0, continuity |-> 100, edge |-> 0, gap |-> 0,
   alarm |-> FALSE, margin |-> 50, level |-> 20, heterogeneity |-> 0, entropy |-> 0,
   bare |-> FALSE, regularity |-> 0, law |-> 0, vram |-> 0, hint |-> 0]

\* An alarm with a causal gap, under pressure.
Pressed ==
  [Quiet EXCEPT !.alarm = TRUE, !.edge = 90, !.gap = 60, !.contradiction = 60]

\* On both sides of the thresholds a signal has; of a long run, and of one
\* that has just been shaken.
Kinds ==
  [uncertainty : {25}, contradiction : {0, 47, 61}, continuity : {100},
   edge : {0, 77, 90}, gap : {0, 57}, alarm : BOOLEAN, margin : {50}, level : {20},
   heterogeneity : {30, 60}, entropy : {100}, bare : BOOLEAN, regularity : {0, 43},
   law : {0}, vram : {0, 68}, hint : {100}]
  \union
  [uncertainty : {97}, contradiction : {0, 61}, continuity : {7},
   edge : {0, 90}, gap : {57}, alarm : BOOLEAN, margin : {50}, level : {20},
   heterogeneity : {30, 57}, entropy : {0}, bare : {TRUE}, regularity : {20},
   law : {43}, vram : {0, 71}, hint : {0}]

Once(mode, steps) ==
  [mode : {mode}, profile : DOMAIN Profiles, hint : {"none"}, steps : {steps},
   experimental : {TRUE}, contexts : {Kinds}, episodes : {1}]

\* In two scenarios, with room for what the directives turn on.
Lives ==
  [mode : {"adaptive"}, profile : {"full_family_exploration", "adaptive_family_ecology"},
   hint : {"none"}, steps : {0, 7, 9}, experimental : {FALSE},
   contexts : {{Quiet, Pressed}}, episodes : {3}]

\* A longer run, whose regime is hinted.
FixedLives ==
  [mode : {"fixed"}, profile : {"core_plus_triple_optional"}, hint : {"viability_edge"},
   steps : {6}, experimental : {FALSE}, contexts : {{Quiet}}, episodes : {4}]

MCSetups == Once("adaptive", 0) \union Once("fixed", 6) \union Lives
            \union FixedLives
=============================================================================
