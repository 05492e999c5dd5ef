SPECIFICATION Spec
CONSTANTS
  player = player
  chromium = chromium
  music = music
  game = game
  speakers = speakers
  headset = headset
  garbage = garbage
  w1 = w1
  w2 = w2
  w3 = w3
  NoApp = NoApp
  NoSink = NoSink
  NoFile = NoFile
  NoWindow = NoWindow
  Damaged <- Damages
  App <- Apps
  Similar <- Alike
  Window <- Windows
  AppIdOf <- Ids3
  Aliases <- Remaps
  Stories <- JustRouting
INVARIANTS
  RoutesFollowSettings
CHECK_DEADLOCK FALSE
