SPECIFICATION Spec
CONSTANTS
  Setups <- MCSetups
  Scenarios = {"thermal_homeostasis", "grid_thermal"}
  Candidates = {"heur", "dia_adv", "fal_guard", "ind", "plan", "opt"}
  Rewards = {0, 2}
  Epsilon = 1
  MinObs = 1
  MaxActive = 2
  SeedSizes = {1, 2}
INVARIANT TypeOK
INVARIANT ClosureHolds
INVARIANT CorrectionSuffices
INVARIANT DirectivesRule
INVARIANT EvidenceIsTheLedger
