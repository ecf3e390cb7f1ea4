SPECIFICATION Spec
CONSTANTS
  Experiences <- MCExperiences
  IoCs <- MCIoCs
  Verdicts <- MCVerdicts
  Starts <- MCStarts
  Block = 4
  Blocks = 2
  Patience = 2
  PostWindow = 2
  Cooldown = 2
  Earned = 4
INVARIANT TypeOK
INVARIANT TrialInv
PROPERTY TrialsEndJudgedAfterHealth
PROPERTY JudgedOnTheWholeWindow
PROPERTY ClockGoesBackWithRecord
PROPERTY ImplementsTrial
CHECK_DEADLOCK FALSE
