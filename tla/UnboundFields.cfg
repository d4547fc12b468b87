SPECIFICATION Spec
CONSTANTS
  Base = 2
  Prime = 5
  Key = {k1, k2}
  Session <- MCSession
  Cm <- MCCm
  Time = {0, 1}
  Value = {0, 1, 4, 5, 6}
  MaxIssued = 2
INVARIANTS
  ProofBindsTheAbove
\* An attestation is verified once.
CHECK_DEADLOCK FALSE
