SPECIFICATION FairSpec
CONSTANTS
  player = player
  browser = browser
  speakers = speakers
  headset = headset
  None = None
  App <- OneApp
  Name <- OneName
  Stream <- OneStream
  AppOf <- OneStreamAppOf
  Denotes <- OneDenotes
  TargetName <- OneTarget
  Sink = {speakers}
  MaxVolume = 1
  PipeWire = FALSE
  Fresh = {1}
  Mixes = {}
  Deltas = {}
  Levels = {0}
  Limits <- FullRange
  MuteOps = {"toggle", "off"}
  Ducks = {}
  Routes = {}
  Queries = {1}
  Trouble = {}
  MaxDue = 1
  MayStop = TRUE
PROPERTIES
  Reconnects
  AnnouncedStreamIsServed
  StaysDown
  StopCompletes
CHECK_DEADLOCK FALSE
