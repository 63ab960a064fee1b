CONSTANTS
  ctrl = ctrl
  a = a
  k = k
  mute = mute
  pc = pc
  dongle = dongle
  Primary = primary
  Unmapped = unmapped
  NoUsage = nousage
  Keys = {ctrl, a, k, mute}
  Modifiers = {ctrl}
  Media = {mute}
  Buttons = {0, 1}
  IdOf <- MCIdOf
  LocalOf <- MCLocalOf
  HotKeys <- MCHotKeys
  AsPressed = FALSE
  Locals = {pc}
  Bridges = {dongle}
  MaxWire = 1
  MaxFaults = 1
SPECIFICATION Spec
INVARIANT Releasable
INVARIANT NothingStuck
CHECK_DEADLOCK FALSE
