SPECIFICATION FairSpec
CONSTANTS
  keyboard = keyboard
  pad = pad
  ctrl = ctrl
  volup = volup
  None = None
  Node = {keyboard, pad}
  Key = {ctrl, volup}
  KeysOf <- TwoNodes
  Repeats = {volup}
  Lossy = {keyboard}
  Fragile = {keyboard, pad}
  MaxQueue = 1
  ModifierOf <- OneModifier
  Config <- Configs
  FirstConfig <- Bound
  Siblings = {pad}
  SlowStop = FALSE
INVARIANTS
  TypeOK
  NoStuckKey
  NoKeyLeftBehind
  NoGhostModifier
  RunsFreshConfig
PROPERTIES
  HandoverCompletes
  CallsReturn
CHECK_DEADLOCK FALSE
