--------------------------- MODULE MCAutoEvolution ---------------------------
(***************************************************************************)
(* Instances of AutoEvolution.  An episode of the life loop is good, poor  *)
(* or one that breaks invariants; the life is checked from the age at      *)
(* which a runner's organism is still healthy and soon is not.             *)
(***************************************************************************)
EXTENDS AutoEvolution

Shown(belief, breaches) ==
  [belief |-> belief, breaches |-> breaches, gap |-> 150, shift |-> 0]

MCExperiences == {Shown(86500, 0), Shown(55000, 0), Shown(76500, 1), Shown(27000, 4)}

\* The organism after n uneventful episodes with nothing retrieved.
Aged[n \in 0..24] ==
  IF n = 0 THEN Newborn
  ELSE Advance(Aged[n - 1], Shown(86500, 0), 0, FALSE, n)

MCStarts == {[state |-> Aged[24], certificates |-> 24]}
MCIoCs == {0, 1}
MCVerdicts == {"certified"}
=============================================================================
