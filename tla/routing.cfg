SPECIFICATION Spec
CONSTANTS
  player = player
  browser = browser
  speakers = speakers
  headset = headset
  None = None
  App <- OneApp
  Name <- TwoNames
  Stream <- OneStream
  AppOf <- OneStreamAppOf
  Denotes <- AliasDenotes
  TargetName <- OneTarget
  Sink = {speakers, headset}
  MaxVolume = 1
  PipeWire = TRUE
  Fresh = {1}
  Mixes = {}
  Deltas = {}
  Levels = {}
  Limits = {}
  MuteOps = {"on"}
  Ducks = {}
  Routes = {speakers, headset}
  Queries = {}
  Trouble = {"lost", "unread"}
  MaxDue = 1
  MayStop = FALSE
INVARIANTS
  ClearsWaitOnlyForContext
  RouteOrClear
PROPERTIES
  RouteKeptUntilStored
  ParkedMuteIsHandedOver
CONSTRAINT OneKind
CHECK_DEADLOCK FALSE
