SPECIFICATION BytesSpec
CONSTANTS
  Data <- MCData
  Keys <- MCKeys
  KGroup <- MCKGroup
  KUser <- MCKUser
  Card <- MCCard
  Element <- MCElement
  BlockData <- MCBlockData
  Masks <- MCMasks
  HitsOn <- MCHitsOn
  Key <- MCKey
  Codes <- MCCodes
  Shortest = {0, 234}
  Growth = 24
  Order = 257
  Boxes = {1, 2, 3, 4, 5, 6, 7, 8}
  Radix = 2
  Modulus = 11
  LIMB_LEN = 3
  EcmdLen = 3
  ResponseLen = 4
  RandomnessLen = 3
INVARIANTS
  DecryptInverts
  SpecVector
  ParityIgnored
  VerifiersAgree
  CircuitMirrorsChecks
  HintsFollowWires
  OnlyTheGenuine
  GenuineGoesThrough
  OpensUnderItsCode
  LengthsFit
  GadgetIsTable
  OneOpening
\* Each of the computations ends.
CHECK_DEADLOCK FALSE
