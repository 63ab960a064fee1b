CONSTANTS
  Conns = {c1}
  Levels = {FALSE}
  MaxPackets = 2
  c1 = c1
SPECIFICATION Spec
INVARIANT DeletedOnce
CHECK_DEADLOCK FALSE
