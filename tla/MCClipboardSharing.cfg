CONSTANTS
  Clients = {a, b}
  Bridges = {bridge}
  Primary = primary
  Large = {1}
  MaxCopies = 3
  MaxMoves = 5
  MaxUnderWay = 2
  a = a
  b = b
  bridge = bridge
  primary = primary
SPECIFICATION Spec
SYMMETRY Symmetry
INVARIANT CopyArrives
INVARIANT CleanAgrees
CHECK_DEADLOCK FALSE
