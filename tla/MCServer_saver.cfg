CONSTANTS
  c1 = c1
  c2 = c2
  c3 = c3
  Primary = primary
  Nobody = nobody
  NoName = ""
  NoDirection = "none"
  Proxies = {c1, c2}
  HDirs = {"right"}
  VDirs = {}
  Spots = {1, 2}
  Names <- MCNames
  OwnName <- MCOwnName
  Configs <- DelayConfigs
  ScreenSaver = TRUE
SPECIFICATION LiveSpec
INVARIANT SaverSynced
PROPERTY LockHolds
PROPERTY SaverStaysConnected
PROPERTY OldClientsDrain
CHECK_DEADLOCK FALSE
