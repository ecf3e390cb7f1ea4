--------------------------- MODULE MCEpisodeGate ---------------------------
(***************************************************************************)
(* Instances of EpisodeGate: the thermal and the resource world, whose     *)
(* formulas differ (thermal_scenario.py:69, resource_scenario.py:73).      *)
(***************************************************************************)
EXTENDS EpisodeGate, TLC

CONSTANTS thermal, resource

MCWorlds == {thermal, resource}

Production == (thermal :> "TEMP_HIGH") @@ (resource :> "STOCK_LOW")

\* No step tells the worlds apart by more than their formulas being different.
Interchangeable == Permutations(MCWorlds)

Shows(form, continuity, ruling) ==
  [form |-> form, continuity |-> continuity, ruling |-> ruling]

\* Promoted; promoted if the court has no say, but with no rule; certified if
\* it has none, but not promoted; and the objections of the closure.
MCImpressions == {
  Shows("whole", 100, "free"), Shows("whole", 63, "risky"),
  Shows("whole", 50, "blocked"), Shows("open", 100, "free"),
  Shows("broken", 100, "free")}
MCGood == {Shows("whole", 100, "free")}
=============================================================================
