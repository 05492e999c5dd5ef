SPECIFICATION Spec
CONSTANTS
  keyboard = keyboard
  pad = pad
  ctrl = ctrl
  volup = volup
  None = None
  Node = {keyboard}
  Key = {ctrl, volup}
  KeysOf <- OneNode
  Repeats = {volup}
  Lossy = {}
  Fragile = {}
  MaxQueue = 2
  ModifierOf <- OneModifier
  Config <- OneConfig
  FirstConfig <- Moving
  Siblings = {}
  SlowStop = FALSE
INVARIANTS
  ReleaseReachesItsMirror
CHECK_DEADLOCK FALSE
