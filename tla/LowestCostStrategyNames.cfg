CONSTANTS
  a = a
  b = b
  c = c
  d = d
  p = p
  q = q
  x = x
  NoFace = NoFace
  Face = {a, b, c, d}
  NextHops <- MCNextHops
  PI = {p, q}
  Probe = {x}
  Asks <- TwoNames
  Levels = {0, 10, 100}
  TaintingEnabled = TRUE
SPECIFICATION Spec
INVARIANTS
  SomeInterestTornDown
