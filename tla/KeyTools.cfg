SPECIFICATION ToolsSpec
CONSTANTS
  Ceremony = {c1, c2, c3}
  MaxFailures = 3
  Record <- MCRecord
  SystemNode = "FFFF"
  SamePath = FALSE
  MaxRecords = 2
  MaxWizardFailures = 1
INVARIANTS
  ReportedPairMatches
  WrittenIsOneSystem
  BothWritten
PROPERTIES
  OnlyForceReplaces
  EventuallyMatched
  WizardAsksForForce
