CONSTANTS
  c1 = c1
  c2 = c2
  c3 = c3
  Primary = primary
  Nobody = nobody
  NoName = ""
  NoDirection = "none"
  Proxies = {c1, c2, c3}
  HDirs = {"right"}
  VDirs = {"down"}
  Spots = {1, 2}
  Names <- MCNames
  OwnName <- MCOwnName
  Configs <- TwoTapConfigs
  ScreenSaver = FALSE
SPECIFICATION Spec
SYMMETRY SameName
INVARIANT TypeOK
INVARIANT Registry
INVARIANT Focused
INVARIANT PendingSwitch
PROPERTY TwoTapCrossing
CHECK_DEADLOCK FALSE
