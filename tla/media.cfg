SPECIFICATION Spec
CONSTANTS
  spotify = spotify
  vlc = vlc
  song = song
  radio = radio
  cover = cover
  poster = poster
  None = None
  Player <- TwoPlayers
  Track <- TwoTracks
  MaxInbox = 3
  MaxAsked = 1
  Timed <- TwoTracks
  Seekable <- TwoTracks
  ArtOf <- ArtOfBoth
  TitleOf <- Titled
  MaxArt = 1
  Scenes <- AllScenes
  Tracked <- Ordered
SYMMETRY Alike
INVARIANTS
  TypeOK
  SettledIsCurrent
  FollowsTheFirst
  ArtIsCurrentOrComing
  DragsEnd
  LingersForACause
  LayoutKeysNeedOverlay
PROPERTIES
  ShowsTheActive
  SeekHitsWhatWasSeen
CHECK_DEADLOCK FALSE
