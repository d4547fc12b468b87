SPECIFICATION EitherSpec
CONSTANTS
  Call = {c1, c2}
  Key = {k1, k2}
  None = None
  MaxCrashes = 1
  MaxProvisions = 1
INVARIANTS
  TypeOK
  ServedKeysAgree
  VerdictNotMasked
  ExpectNeverPanics
PROPERTIES
  RecoversOnceProvisioned
  EveryCallAnswered
