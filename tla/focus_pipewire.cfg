SPECIFICATION Spec
CONSTANTS
  player = player
  browser = browser
  speakers = speakers
  headset = headset
  None = None
  App <- TwoApps
  Name <- TwoNames
  Stream <- OneStream
  AppOf <- OneStreamAppOf
  Denotes <- TwoDenotes
  TargetName <- TwoTargets
  Sink = {speakers}
  MaxVolume = 1
  PipeWire = TRUE
  Fresh = {1}
  Mixes = {}
  Deltas = {}
  Levels = {0}
  Limits <- FullRange
  MuteOps = {}
  Ducks = {0}
  Routes = {}
  Queries = {}
  Trouble = {"lost", "unread"}
  MaxDue = 1
  MayStop = FALSE
INVARIANTS
  OneParkedVolume
PROPERTIES
  ParkedVolumeIsHandedOver
  DuckedIsRemembered
CHECK_DEADLOCK FALSE
