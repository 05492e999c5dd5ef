SPECIFICATION Spec
CONSTANTS
  player = player
  browser = browser
  speakers = speakers
  headset = headset
  None = None
  App <- TwoApps
  Name <- TwoNames
  Stream <- TwoStreams
  AppOf <- OneAppOf
  Denotes <- TwoDenotes
  TargetName <- TwoTargets
  Sink = {speakers}
  MaxVolume = 2
  PipeWire = FALSE
  Fresh = {1, 2}
  Mixes = {}
  Deltas = {}
  Levels = {}
  Limits = {}
  MuteOps = {}
  Ducks = {0}
  Routes = {}
  Queries = {}
  Trouble = {}
  MaxDue = 1
  MayStop = TRUE
INVARIANTS
  DuckingHasSnapshot
PROPERTIES
  RestoreKeepsToItsStream
CHECK_DEADLOCK FALSE
