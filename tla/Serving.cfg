SPECIFICATION ServingSpec
CONSTANTS
  Worker = {w1, w2}
  Call = {a1, a2, a3, b1}
  Proving = {a1, a2, a3}
  IdleMemory = 1
  ProveMemory = 5
  MemoryLimit = 15
  MaxKills = 1
  idi = idi  r2a = r2a  r2b = r2b  tidX = tidX  tidY = tidY
  s1 = s1  s2 = s2
  IDm = {idm}
  R1 = {r1}
  R2 = {r2a, r2b}
  Tid = {tidX, tidY}
  IDi = {idi}
  KeyBitsOf <- MCKeyBitsOf
  TailOf <- MCTailOf
  IDiOf <- MCIDiOf
  SlotLimit = 16
  BadHex = BadHex  Absent = Absent  ZeroCm = ZeroCm
  Idm = idm
  Challenge = r1
  FixtureService = s1
  Service = {s1, s2}
  Ceremony = {c1, c2}
  NodePaths <- MCNodePaths
  Keys <- MCNodePaths
  KeysOf <- MCKeysOf
  MaxOutages = 2
  MaxDeploys = 2
INVARIANTS
  MemoryFits
  OkIsGenuine
  OutagesAreHarmless
PROPERTIES
  CallersAreAnswered
  ClientEndsWell
\* The client may end well.
CHECK_DEADLOCK FALSE
