SPECIFICATION Spec
CONSTANTS
  player = player
  browser = browser
  speakers = speakers
  headset = headset
  None = None
  App <- TwoApps
  Name <- TwoNames
  Stream <- OneStream
  AppOf <- OneStreamAppOf
  Denotes <- TwoDenotes
  TargetName <- TwoTargets
  Sink = {speakers}
  MaxVolume = 2
  PipeWire = FALSE
  Fresh = {0, 2}
  Mixes = {0}
  Deltas <- UpDown
  Levels = {}
  Limits <- Reversed
  MuteOps = {}
  Ducks = {}
  Routes = {}
  Queries = {}
  Trouble = {"lost", "unread", "late"}
  MaxDue = 2
  MayStop = FALSE
INVARIANTS
  TypeOK
  NeverStranded
  ParkedWithinLimits
PROPERTIES
  ParkedVolumeIsHandedOver
  ReplayWritesOnlyParked
CHECK_DEADLOCK FALSE
