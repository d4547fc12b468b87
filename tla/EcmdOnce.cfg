SPECIFICATION Spec
CONSTANTS
  cardA = cardA  cardB = cardB
  r1a = r1a  r1b = r1b  r2a = r2a  r2b = r2b
  tidX = tidX  tidY = tidY  tidZ = tidZ
  s1 = s1  s2 = s2  s3 = s3  b1 = b1  h1 = h1  h2 = h2
  BadHex = BadHex  Absent = Absent  ZeroCm = ZeroCm
  IDm <- oneCard
  IDi <- oneCard
  IDiOf <- cardIDi
  KeyBitsOf <- keyBitsShared
  R1 = {r1a, r1b}
  R2 = {r2a, r2b}
  Tid = {tidX, tidY, tidZ}
  TailOf <- tailsDistinct
  SlotLimit = 2
  Holder = {h1}
  Service = {s1, s2, s3}
  Block = {b1}
  NodePaths <- onePath
  Keys <- onePath
  KeysOf <- listKeys
  ReadSpec <- spec2
  MaxSettles = 2
  MaxAttests = 1
  MaxRedeploys = 0
INVARIANTS
  OneEcmdPerSession
CHECK_DEADLOCK FALSE
