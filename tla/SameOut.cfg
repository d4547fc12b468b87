SPECIFICATION ToolsSpec
CONSTANTS
  Ceremony = {c1, c2, c3}
  MaxFailures = 0
  Record <- MCRecord
  SystemNode = "FFFF"
  SamePath = TRUE
  MaxRecords = 1
  MaxWizardFailures = 1
INVARIANTS
  BothWritten
