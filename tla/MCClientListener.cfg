CONSTANTS
  Conns = {c1, c2}
  Levels = {TRUE, FALSE}
  MaxPackets = 2
  c1 = c1
  c2 = c2
SPECIFICATION Spec
SYMMETRY Symmetry
INVARIANT Lifetimes
INVARIANT GoneIsHeard
INVARIANT HandshakeEnds
CHECK_DEADLOCK FALSE
