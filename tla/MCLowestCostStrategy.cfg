CONSTANTS
  a = a
  b = b
  c = c
  d = d
  p = p
  q = q
  x = x
  NoFace = NoFace
  Face = {a, b, c, d}
  NextHops <- MCNextHops
  PI = {p}
  Probe = {x}
  Asks <- OneName
  Levels = {0, 10, 100}
  TaintingEnabled = TRUE
SPECIFICATION Spec
INVARIANTS
  TypeOK
  OldFaceTornDown
  TeardownHasUpstream
  TaintedProbeCounts
  RedirectedProbeReturns
PROPERTIES
  MeasuredWhereSent
