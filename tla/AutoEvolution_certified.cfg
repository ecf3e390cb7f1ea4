SPECIFICATION Spec
CONSTANTS
  Experiences <- MCExperiences
  IoCs <- MCIoCs
  Verdicts <- MCVerdicts
  Starts <- MCStarts
  Block = 4
  Blocks = 2
  Patience = 2
  PostWindow = 2
  Cooldown = 2
  Earned = 4
PROPERTY CertifiedImproves
CHECK_DEADLOCK FALSE
