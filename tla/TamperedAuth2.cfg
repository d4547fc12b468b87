SPECIFICATION LibrarySpec
CONSTANTS
  Call = {c1, c2}
  Key = {k1, k2}
  None = None
  MaxCrashes = 0
  MaxProvisions = 0
INVARIANTS
  TamperedAuth2IsMacMismatch
