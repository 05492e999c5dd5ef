------------------------- MODULE MediaPanelProofs -------------------------
(***************************************************************************)
(* Theorems about MediaPanel: the player followed, the drags, the time     *)
(* the overlay stays, the layout keys, the picture and the position shown, *)
(* the seeks, and what is known of a player that has been heard out.       *)
(***************************************************************************)
EXTENDS MediaPanel, MprisClientProofs, OsdWindowProofs, SequenceTheorems

\* The players of the scene play something, whatever it is.
BusTypes ==
    /\ inbox \in Seq(Message) /\ real \in [Player -> Infos]
    /\ scene \in Scenes
    /\ \A p \in scene.players : real[p].track # None
FollowInv == BusTypes /\ cfg \in Settings /\ Right(client, cfg.progress)

\* What waits in the inbox is well formed, and a message about properties says
\* which.
LEMMA HeadIsMessage ==
  ASSUME BusTypes, inbox # <<>>
  PROVE  /\ Head(inbox) \in Message /\ Tail(inbox) \in Seq(Message)
         /\ Head(inbox).player \in Player
         /\ Head(inbox).type = "props" => Head(inbox).info \in Infos
         /\ Head(inbox).type # "owner" => Head(inbox).at \in Track \cup {None}
<1>1. Head(inbox) \in Message /\ Tail(inbox) \in Seq(Message)
  BY DEF BusTypes
<1>2. \A m \in Message : /\ m.player \in Player /\ (m.type = "props" => m.info \in Infos)
                         /\ m.type # "owner" => m.at \in Track \cup {None}
  BY DEF Message
<1> QED BY <1>1, <1>2

-----------------------------------------------------------------------------
(* The players.                                                            *)

LEMMA ScenesAreScenes ==
  ASSUME scene \in Scenes
  PROVE  scene.players \subseteq Player /\ scene.settings \subseteq Settings
  BY PanelAssumption DEF Scene

LEMMA SendsKeepsTypes ==
  ASSUME inbox \in Seq(Message), NEW m \in Message, Sends(m)
  PROVE  inbox' \in Seq(Message)
  BY DEF Sends

\* A player that tells of a position plays a track.
LEMMA TellsKeepsTypes ==
  ASSUME BusTypes, scene' = scene, NEW p \in Player, real[p].track # None,
         NEW type \in {"pushed", "polled", "seeked"},
         Sends([type |-> type, player |-> p, at |-> real[p].track]), real' = real
  PROVE  BusTypes'
<1>1. [type |-> type, player |-> p, at |-> real[p].track] \in Message
  BY DEF Message, Infos, BusTypes
<1> QED BY <1>1, SendsKeepsTypes DEF BusTypes

LEMMA ChangesKeepsTypes ==
  ASSUME BusTypes, scene' = scene, NEW p \in Player, NEW s \in Status \cup {None},
         NEW t \in Track, NEW b \in BOOLEAN, PlayerChanges(p, client.known, s, t, b)
  PROVE  BusTypes'
<1> DEFINE i == [status |-> IF s # real[p].status THEN s ELSE None,
                 track |-> IF t # real[p].track THEN t ELSE None]
           m == [type |-> "props", player |-> p, info |-> i, at |-> IF b THEN t ELSE None]
<1>1. i \in Infos
  BY DEF Infos
<1> HIDE DEF i
<1>2. m \in Message
  BY <1>1 DEF Message
<1> HIDE DEF m
<1>3. Sends(m) \/ inbox' = inbox
  BY DEF PlayerChanges, m, i
<1>4. inbox' \in Seq(Message)
  BY <1>2, <1>3, SendsKeepsTypes DEF BusTypes
<1>5. real' = [real EXCEPT ![p] = [status |-> s, track |-> t]] /\ t # None
  BY BusAssumption DEF PlayerChanges
<1>6. real' \in [Player -> Infos]
  BY <1>5 DEF BusTypes, Infos
<1>7. \A q \in scene.players : real'[q].track # None
  BY <1>5, ScenesAreScenes DEF BusTypes
<1> QED BY <1>4, <1>6, <1>7 DEF BusTypes

LEMMA PlayersKeepTypes ==
  ASSUME BusTypes, scene' = scene, NEW p \in Player, PlayerStep(p)
  PROVE  BusTypes'
<1>1. /\ p \in scene.players /\ real[p] \in Infos /\ real[p].track \in Track
      /\ inbox \in Seq(Message)
  BY DEF BusTypes, PlayerStep, Infos
<1>2. CASE PlayerComes(p)
  <2>1. [type |-> "owner", player |-> p, present |-> TRUE] \in Message
    BY DEF Message
  <2> QED BY <1>1, <1>2, <2>1, SendsKeepsTypes DEF PlayerComes, BusTypes
<1>3. CASE PlayerGoes(p)
  <2>1. [type |-> "owner", player |-> p, present |-> FALSE] \in Message
    BY DEF Message
  <2> QED BY <1>1, <1>3, <2>1, SendsKeepsTypes DEF PlayerGoes, BusTypes
<1>4. CASE \E s \in IF Happens("status") THEN Status ELSE {real[p].status},
              t \in IF Happens("track") THEN Track ELSE {real[p].track}, b \in BOOLEAN :
              PlayerChanges(p, client.known, s, t, b)
  <2>1. PICK s \in Status \cup {None}, t \in Track, b \in BOOLEAN :
              PlayerChanges(p, client.known, s, t, b)
    BY <1>1, <1>4 DEF Infos
  <2> QED BY <2>1, ChangesKeepsTypes
<1>5. CASE PlayerTells(p, client.known, "pushed")
  BY <1>1, <1>5, BusAssumption, TellsKeepsTypes DEF PlayerTells
<1>6. CASE PlayerAnswers(p)
  <2>1. [type |-> "props", player |-> p, info |-> real[p], at |-> real[p].track] \in Message
    BY <1>1 DEF Message
  <2>2. real' = real
    BY <1>6 DEF PlayerAnswers
  <2>3. CASE Sends([type |-> "props", player |-> p, info |-> real[p], at |-> real[p].track])
    BY <1>1, <2>1, <2>2, <2>3, SendsKeepsTypes DEF BusTypes
  <2>4. CASE Sends([type |-> "polled", player |-> p, at |-> real[p].track])
    BY <1>1, <2>2, <2>4, BusAssumption, TellsKeepsTypes
  <2> QED BY <1>6, <2>3, <2>4 DEF PlayerAnswers
<1>7. CASE PlayerFails(p)
  BY <1>7 DEF PlayerFails, BusTypes
<1> QED
  BY <1>2, <1>3, <1>4, <1>5, <1>6, <1>7, Zenon DEF PlayerStep, PlayerActs

LEMMA SeeksKeepTypes ==
  ASSUME BusTypes, scene' = scene, NEW p \in Player, PlayerSeeks(p)
  PROVE  BusTypes'
<1>1. CASE PlayerTells(p, client.known, "seeked") /\ real[p].track # None
  BY <1>1, TellsKeepsTypes DEF PlayerTells
<1>2. CASE UNCHANGED busVars
  BY <1>2 DEF BusTypes, busVars
<1> QED BY <1>1, <1>2 DEF PlayerSeeks

-----------------------------------------------------------------------------
(* The client.                                                             *)

\* What a message makes the client, apart from what it tells the overlay.
LEMMA HearsLeaves ==
  ASSUME NEW m, Hears(m)
  PROVE  /\ m.type = "owner" => /\ client' = RemovePlayer(client, m.player, cfg.progress).client
                                /\ missed' = missed \ {m.player}
         /\ m.type = "props" => client' = ApplyProperties(client, m, cfg.progress).client
         /\ m.type \notin {"owner", "props"} => client' = client
         /\ m.type # "owner" => missed' = missed
         /\ asked' = asked
<1> DEFINE owner == RemovePlayer(client, m.player, cfg.progress)
           props == ApplyProperties(client, m, cfg.progress)
           pushed == PositionOnly(client, m, osd.seeking, FALSE)
           other == TellPosition(client, m)
           heard == CASE m.type = "owner" -> owner [] m.type = "props" -> props
                      [] m.type = "pushed" -> pushed [] OTHER -> other
<1>1. client' = heard.client
  BY Zenon DEF Hears, Tells
<1>2. missed' = (IF m.type = "owner" THEN missed \ {m.player} ELSE missed) /\ asked' = asked
  BY Zenon DEF Hears
<1>3. pushed.client = client /\ other.client = client
  BY DEF PositionOnly, TellPosition, Done
<1> HIDE DEF owner, props, pushed, other
<1>4. /\ m.type = "owner" => heard = owner
      /\ m.type = "props" => heard = props
      /\ m.type \notin {"owner", "props"} => heard \in {pushed, other}
  OBVIOUS
<1> HIDE DEF heard
<1>5. m.type \notin {"owner", "props"} => heard.client = client
  BY <1>3, <1>4
<1> QED
  BY <1>1, <1>2, <1>4, <1>5 DEF owner, props

LEMMA HandlesIsRight ==
  ASSUME FollowInv, Handles
  PROVE  Right(client', cfg.progress)
<1> DEFINE m == Head(inbox)
<1>1. m.player \in Player /\ (m.type = "props" => m.info \in Infos)
  BY HeadIsMessage DEF Handles, FollowInv
<1>2. Right(client, cfg.progress) /\ cfg.progress \in BOOLEAN
  BY DEF FollowInv, Settings
<1> HIDE DEF m
<1>3. CASE HearsOfPlayer(m)
  BY <1>1, <1>2, <1>3, AddPlayerIsRight DEF HearsOfPlayer
<1>4. CASE Hears(m)
  <2>1. CASE m.type = "owner"
    <3>1. client' = RemovePlayer(client, m.player, cfg.progress).client
      BY <1>4, <2>1, HearsLeaves
    <3> QED BY <3>1, <1>1, <1>2, RemovePlayerIsRight
  <2>2. CASE m.type = "props"
    <3>1. client' = ApplyProperties(client, m, cfg.progress).client
      BY <1>4, <2>2, HearsLeaves
    <3> QED BY <3>1, <2>2, <1>1, <1>2, ApplyPropertiesIsRight
  <2>3. CASE m.type \notin {"owner", "props"}
    BY <1>2, <1>4, <2>3, HearsLeaves
  <2> QED BY <2>1, <2>2, <2>3
<1> QED BY <1>3, <1>4 DEF Handles, m

LEMMA ReloadsIsRight ==
  ASSUME FollowInv, NEW o, NEW new \in Settings, NEW tracked \in Seq(Player),
         Reloads(o, new, tracked)
  PROVE  cfg' \in Settings /\ Right(client', cfg'.progress)
<1>1. cfg' = new /\ client' = Reload(client, tracked, new.progress).client
  BY DEF Reloads, Tells
<1>2. new.progress \in BOOLEAN /\ Right(client, cfg.progress)
  BY DEF Settings, FollowInv
<1> QED BY <1>1, <1>2, ReloadIsRight

\* Only messages, the focus and the settings change what is followed.
LEMMA OthersLeaveTheClient ==
  ASSUME \/ Throttles \/ PollTimeout
         \/ \E url \in Urls, good \in BOOLEAN : ArtArrives(url, good)
         \/ \E p \in Player : PlayerStep(p) \/ PlayerSeeks(p)
         \/ VolumeChanges \/ MediaKey \/ HideTimesOut
         \/ MouseEnters \/ MouseLeaves
         \/ PressesEdge \/ PressesInterior \/ PressesBar \/ Releases \/ SeekInterrupted
         \/ LayoutKey \/ LayoutAction \/ DialogOpens \/ DialogPreviews
  PROVE  UNCHANGED <<client, cfg>>
  BY Zenon DEF Throttles, PollTimeout, ArtArrives, PlayerStep, PlayerSeeks, VolumeChanges,
     MediaKey, HideTimesOut, MouseEnters, MouseLeaves, PressesEdge, PressesInterior, PressesBar,
     Releases, SeekInterrupted, LayoutKey, LayoutAction, DialogOpens, DialogPreviews, Overlay,
     panelVars

\* Only the players and the handlers of messages touch the inbox.
LEMMA OthersLeaveTheBus ==
  ASSUME \/ PollTimeout
         \/ \E url \in Urls, good \in BOOLEAN : ArtArrives(url, good)
         \/ \E p \in Player \cup {None} : FocusChanges(p)
         \/ VolumeChanges \/ MediaKey \/ HideTimesOut
         \/ MouseEnters \/ MouseLeaves
         \/ PressesEdge \/ PressesInterior \/ PressesBar \/ Releases \/ SeekInterrupted
         \/ LayoutKey \/ LayoutAction \/ DialogOpens \/ DialogPreviews
         \/ DialogCloses \/ ProgressToggles
  PROVE  UNCHANGED <<inbox, real>>
  BY Zenon DEF PollTimeout, ArtArrives, FocusChanges, VolumeChanges,
     MediaKey, HideTimesOut, MouseEnters, MouseLeaves, PressesEdge, PressesInterior, PressesBar,
     Releases, SeekInterrupted, LayoutKey, LayoutAction, DialogOpens, DialogPreviews, DialogCloses,
     ProgressToggles, Overlay, busVars

LEMMA StepKeepsBusTypes ==
  ASSUME BusTypes, Next, scene' = scene
  PROVE  BusTypes'
<1>1. CASE Handles \/ Throttles
  BY <1>1, HeadIsMessage DEF Handles, Throttles, BusTypes
<1>2. ASSUME NEW p \in Player, PlayerStep(p) \/ PlayerSeeks(p) PROVE BusTypes'
  BY <1>2, PlayersKeepTypes, SeeksKeepTypes
<1>3. CASE UNCHANGED <<inbox, real>>
  BY <1>3 DEF BusTypes
<1> QED BY <1>1, <1>2, <1>3, OthersLeaveTheBus DEF Next

LEMMA FollowInit == Init => FollowInv
<1> SUFFICES ASSUME Init PROVE FollowInv
  OBVIOUS
<1>1. scene.players \subseteq Player /\ cfg \in Settings /\ scene \in Scenes
  BY ScenesAreScenes DEF Init
<1>2. BusTypes
  <2>1. PICK playing \in [scene.players -> Track] :
          real = [p \in Player |-> IF p \in scene.players
                                   THEN [status |-> "Playing", track |-> playing[p]] ELSE NoInfo]
    BY DEF Init, BusInit
  <2>2. real \in [Player -> Infos]
    BY <2>1, <1>1 DEF Infos, NoInfo, Status
  <2>3. \A p \in scene.players : real[p].track # None
    BY <2>1, <1>1, BusAssumption
  <2>4. inbox \in Seq(Message)
    BY DEF Init, BusInit
  <2> QED BY <1>1, <2>2, <2>3, <2>4 DEF BusTypes
<1>3. Right(client, cfg.progress)
  <2>1. PICK t \in Tracked : client = NewClient(t)
    BY DEF Init
  <2>2. t \in Seq(Player) /\ cfg.progress \in BOOLEAN
    BY <1>1, PanelAssumption DEF Settings
  <2> QED BY <2>1, <2>2, NewClientIsRight
<1> QED BY <1>1, <1>2, <1>3 DEF FollowInv

LEMMA FollowStep == FollowInv /\ [Next /\ UNCHANGED scene]_vars => FollowInv'
<1> SUFFICES ASSUME FollowInv, [Next /\ UNCHANGED scene]_vars PROVE FollowInv'
  OBVIOUS
<1>1. CASE UNCHANGED vars
  BY <1>1 DEF vars, busVars, panelVars, FollowInv, BusTypes
<1>2. CASE Next /\ scene' = scene
  <2>1. BusTypes'
    BY <1>2, StepKeepsBusTypes DEF FollowInv
  <2>2. ASSUME cfg' \in Settings, Right(client', cfg'.progress) PROVE FollowInv'
    BY <2>1, <2>2 DEF FollowInv
  <2>3. CASE Handles
    BY <2>2, <2>3, HandlesIsRight DEF Handles, FollowInv
  <2>4. ASSUME NEW p \in Player \cup {None}, FocusChanges(p) PROVE FollowInv'
    <3>1. client' = SetPreferredApp(client, p, cfg.progress).client /\ cfg' = cfg
      BY <2>4 DEF FocusChanges, Tells
    <3>2. Right(client', cfg.progress)
      BY <3>1, SetPreferredAppIsRight DEF FollowInv, Settings
    <3> QED BY <2>2, <3>1, <3>2 DEF FollowInv
  <2>5. CASE DialogCloses
    <3>1. PICK new \in scene.settings, tracked \in Tracked :
            Reloads(HidePreview(osd, new), new, tracked)
      BY <2>5 DEF DialogCloses
    <3>2. new \in Settings /\ tracked \in Seq(Player)
      BY <3>1, ScenesAreScenes, PanelAssumption DEF FollowInv, BusTypes
    <3> QED BY <2>2, <3>1, <3>2, ReloadsIsRight
  <2>6. CASE ProgressToggles
    <3>1. [cfg EXCEPT !.progress = ~@] \in Settings /\ client.tracked \in Seq(Player)
      BY DEF FollowInv, Settings, Right, Client
    <3> QED BY <2>2, <2>6, <3>1, ReloadsIsRight DEF ProgressToggles
  <2>7. CASE UNCHANGED <<client, cfg>>
    BY <2>2, <2>7 DEF FollowInv
  <2> QED BY <1>2, <2>3, <2>4, <2>5, <2>6, <2>7, OthersLeaveTheClient DEF Next
<1> QED BY <1>1, <1>2

\* The player followed is the one the documentation orders first, among any
\* number of players and whatever is done in whatever order (mprisclient.cpp).
THEOREM TheFirstIsFollowed == Spec => []FollowsTheFirst
<1>1. FollowInv => FollowsTheFirst
  <2> SUFFICES ASSUME FollowInv PROVE FollowsTheFirst
    OBVIOUS
  <2>1. FollowsFirst(client, cfg.progress)
    BY DEF FollowInv, Right
  <2>2. \A p : ClassIn(client, p) = Class(p)
    BY DEF ClassIn, Class
  <2> QED BY <2>1, <2>2 DEF FollowsFirst, FollowsTheFirst, ComesFirst, Eligible
<1> QED BY <1>1, FollowInit, FollowStep, PTL DEF Spec

-----------------------------------------------------------------------------
(* What the client tells the overlay.                                      *)

\* A signal that is emitted carries what the overlay can take.
Told(signals) ==
    /\ DOMAIN signals = DOMAIN Quiet
    /\ signals.art.emitted => signals.art.value \in Urls
    /\ signals.track.emitted => signals.track.value \in Track \cup {None}
    /\ signals.status.emitted => signals.status.value \in Status \cup {None}
    /\ signals.position.emitted => signals.position.value \in Track \cup {None}

\* A handler that turns client c into r.client tells of every change in what is
\* followed, and only what is true.
Tracks(c, r) ==
    LET new == r.client.shown
        gone == r.client.active = None
    IN  /\ IF r.signals.art.emitted THEN r.signals.art.value = Art(new.track)
                                    ELSE Art(new.track) = Art(c.shown.track)
        /\ IF r.signals.none.emitted THEN gone ELSE gone => c.active = None
        /\ IF r.signals.track.emitted THEN ~gone /\ r.signals.track.value = new.track
           ELSE ~gone => c.active # None /\ new.track = c.shown.track
        /\ IF r.signals.status.emitted THEN r.signals.status.value = new.status
           ELSE ~gone => c.active # None /\ new.status = c.shown.status

Sound(c, r) == Told(r.signals) /\ Tracks(c, r)

LEMMA ArtIsAUrl == \A t \in Track \cup {None} : Art(t) \in Urls
  BY DEF Art, Urls

LEMMA QuietIsTold == Told(Quiet)
  BY DEF Told, Quiet, Silence, Signal

LEMMA ReevaluateTells ==
  ASSUME NEW c \in Client, Idle(c), NEW force \in BOOLEAN, NEW progress \in BOOLEAN
  PROVE  Sound(c, Reevaluate(c, force, progress))
<1> DEFINE p == Chosen(c)
           r == Reevaluate(c, force, progress)
<1> SUFFICES Told(r.signals) /\ Tracks(c, r)
  BY DEF Sound
<1>1. p = None \/ p \in Player
  <2>1. ComesFirst(c, p) => p \in Eligible(c)
    BY DEF ComesFirst
  <2>2. p = None \/ ComesFirst(c, p)
    BY ChosenComesFirst
  <2> QED BY <2>1, <2>2, EligiblePlayers
<1>2. CASE p # None
  <2> DEFINE new == c.info[p]
             other == c.active # p
             art1 == (other \/ Art(c.shown.track) # Art(new.track)) \/ force
             track1 == (other \/ c.shown.track # new.track) \/ force
             status1 == c.active = None \/ c.shown.status # new.status
             v1 == Art(new.track)
             v2 == new.track
             v3 == new.status
  <2>1. r.signals = [Quiet EXCEPT !.art = Signal(art1, v1), !.track = Signal(track1, v2),
                                  !.status = Signal(status1, v3)]
    BY <1>2, Zenon DEF Reevaluate, Follows, Done
  <2>2. v1 \in Urls /\ v2 \in Track \cup {None} /\ v3 \in Status \cup {None}
    BY <1>1, <1>2, ArtIsAUrl DEF Client, Infos
  <2>3. r.client.shown = new /\ r.client.active = p
    <3>1. r.client = [c EXCEPT !.active = p, !.shown = new,
                               !.poll = progress /\ new.status = "Playing"]
      BY <1>2, Zenon DEF Reevaluate, Follows, Done
    <3> QED BY <3>1 DEF Client
  <2>4. /\ ~track1 => c.active # None /\ v2 = c.shown.track
        /\ ~status1 => c.active # None /\ v3 = c.shown.status
    BY <1>2
  <2>5. ~art1 => v1 = Art(c.shown.track)
    OBVIOUS
  <2>6. /\ v1 = Art(r.client.shown.track) /\ v2 = r.client.shown.track
        /\ v3 = r.client.shown.status /\ r.client.active # None
    BY <1>2, <2>3
  <2> HIDE DEF r, v1, v2, v3, art1, track1, status1
  <2>7. Told(r.signals)
    BY <2>1, <2>2 DEF Told, Quiet, Silence, Signal
  <2> QED BY <2>1, <2>4, <2>5, <2>6, <2>7 DEF Tracks, Quiet, Silence, Signal
<1>3. CASE p = None /\ c.active # None
  <2> DEFINE art1 == Art(c.shown.track) # None
  <2>1. r.signals = [Quiet EXCEPT !.art = Signal(art1, None), !.none = Signal(TRUE, None)]
    BY <1>3, Zenon DEF Reevaluate, LosesPlayer, Done
  <2>2. r.client.shown = NoInfo /\ r.client.active = None
    <3>1. r.client = [c EXCEPT !.active = None, !.shown = NoInfo, !.poll = FALSE]
      BY <1>3, Zenon DEF Reevaluate, LosesPlayer, Done
    <3> QED BY <3>1 DEF Client
  <2>3. Art(NoInfo.track) = None
    BY DEF Art, NoInfo
  <2>4. ~art1 => Art(c.shown.track) = None
    OBVIOUS
  <2> HIDE DEF r, art1
  <2> QED BY <2>1, <2>2, <2>3, <2>4, NoneIsATitle DEF Told, Tracks, Quiet, Silence, Signal
<1>4. CASE p = None /\ c.active = None
  <2>1. r.signals = Quiet /\ r.client = c
    BY <1>4, Zenon DEF Reevaluate, Done
  <2> HIDE DEF r
  <2> QED BY <1>4, <2>1, QuietIsTold DEF Tracks, Quiet, Silence, Signal
<1> QED BY <1>1, <1>2, <1>3, <1>4

\* What is forced tells the track of whoever is followed.
Forced(r) == r.client.active # None => r.signals.track.emitted

LEMMA ForceTells ==
  ASSUME NEW c \in Client, NEW progress
  PROVE  Forced(Reevaluate(c, TRUE, progress))
<1> DEFINE p == Chosen(c)
           new == c.info[p]
           poll == progress /\ new.status = "Playing"
           r == Reevaluate(c, TRUE, progress)
<1>1. CASE p # None
  <2> DEFINE art1 == (c.active # p \/ Art(c.shown.track) # Art(new.track)) \/ TRUE
             track1 == (c.active # p \/ c.shown.track # new.track) \/ TRUE
             status1 == c.active = None \/ c.shown.status # new.status
  <2>1. r.signals = [Quiet EXCEPT !.art = Signal(art1, Art(new.track)),
                                  !.track = Signal(track1, new.track),
                                  !.status = Signal(status1, new.status)]
    BY <1>1, Zenon DEF Reevaluate, Follows, Done
  <2>2. track1 = TRUE
    OBVIOUS
  <2> HIDE DEF art1, track1, status1
  <2>3. r.signals.track = Signal(track1, new.track)
    BY <2>1, Zenon DEF Quiet
  <2>4. Signal(TRUE, new.track).emitted = TRUE
    BY DEF Signal
  <2>5. r.signals.track.emitted = TRUE
    BY <2>2, <2>3, <2>4, Zenon
  <2> QED BY <2>5, Zenon DEF Forced
<1>2. CASE p = None
  <2>1. \/ r.client = [c EXCEPT !.active = None, !.shown = NoInfo, !.poll = FALSE]
        \/ r.client = c /\ c.active = None
    BY <1>2, Zenon DEF Reevaluate, LosesPlayer, Done
  <2> QED BY <2>1 DEF Client, Forced
<1> QED BY <1>1, <1>2

\* Whatever is told leaves the overlay as good as it was.
LEMMA TellsKeepsGood ==
  ASSUME NEW o \in Osd, Upkept(o), NEW r, Told(r.signals), Tells(o, r)
  PROVE  osd' \in Osd /\ Upkept(osd') /\ Tame(o, osd')
<1> DEFINE told == r.signals
           panel == IF told.art.emitted THEN ArtChanged(r.client, o, told.art.value)
                    ELSE [osd |-> o, art |-> art]
           none == IF told.none.emitted THEN SetProgressVisible(panel.osd, FALSE) ELSE panel.osd
           track == IF told.track.emitted
                    THEN SetProgressVisible(UpdateTrack(none, told.track.value), TRUE) ELSE none
           status == IF told.status.emitted THEN UpdatePlaybackStatus(track, told.status.value)
                     ELSE track
           last == IF told.position.emitted THEN UpdatePosition(status, told.position.value)
                   ELSE status
           kept(x) == x \in Osd /\ Upkept(x) /\ Tame(o, x)
<1>1. osd' \in {last, OthersHidden(last)}
  BY Zenon DEF Tells
<1>2. kept(panel.osd)
  <2>1. Tame(o, o)
    BY DEF Tame
  <2>2. CASE told.art.emitted
    <3>1. panel.osd = o \/ \E v \in Urls : panel.osd = SetAlbumArt(o, v)
      BY <2>2, NoneIsATitle DEF ArtChanged, Ready, Told
    <3> QED BY <2>1, <3>1, TypeSetAlbumArt, GoodUpdates
  <2>3. CASE ~told.art.emitted
    BY <2>1, <2>3
  <2> QED BY <2>2, <2>3
<1> HIDE DEF panel
<1>3. kept(none)
  <2>1. CASE told.none.emitted
    BY <1>2, <2>1, TypeSetProgressVisible, GoodSetProgressVisible DEF Tame
  <2> QED BY <1>2, <2>1
<1> HIDE DEF none
<1>4. kept(track)
  <2>1. CASE told.track.emitted
    <3> DEFINE updated == UpdateTrack(none, told.track.value)
    <3>1. kept(updated)
      BY <1>3, <2>1, TypeUpdateTrack, GoodUpdateTrack DEF Tame, Told
    <3> HIDE DEF updated
    <3>2. kept(SetProgressVisible(updated, TRUE))
      BY <3>1, TypeSetProgressVisible, GoodSetProgressVisible DEF Tame
    <3> QED BY <2>1, <3>2 DEF updated
  <2> QED BY <1>3, <2>1
<1> HIDE DEF track
<1>5. kept(status)
  <2>1. CASE told.status.emitted
    BY <1>4, <2>1, TypeUpdatePlaybackStatus, GoodUpdates DEF Tame, Told
  <2> QED BY <1>4, <2>1
<1> HIDE DEF status
<1>6. kept(last)
  <2>1. CASE told.position.emitted
    BY <1>5, <2>1, TypeUpdatePosition, GoodUpdates DEF Tame, Told
  <2> QED BY <1>5, <2>1
<1> HIDE DEF last
<1>7. kept(OthersHidden(last))
  BY <1>6, GoodOthersHidden DEF Tame
<1> QED BY <1>1, <1>6, <1>7

\* Only what is known has changed from c to d.
LEMMA ReevaluatesSound ==
  ASSUME NEW c, NEW before, Right(c, before), NEW d \in Client,
         d.active = c.active, d.shown = c.shown, NEW r,
         NEW force \in BOOLEAN, NEW progress \in BOOLEAN,
         d.poll = c.poll, r = Reevaluate(d, force, progress)
  PROVE  Sound(c, r)
<1>1. Idle(d)
  BY DEF Right, Idle
<1>2. Sound(d, r)
  BY <1>1, ReevaluateTells
<1> QED BY <1>2 DEF Sound, Tracks

\* What is quiet about the player and its art is sound.
LEMMA PositionIsSound ==
  ASSUME NEW c, NEW r, NEW e, NEW at, r.client = c,
         r.signals = [Quiet EXCEPT !.position = Signal(e, at)], at \in Track \cup {None}
  PROVE  Sound(c, r)
  BY DEF Sound, Told, Tracks, Signal, Quiet, Silence

LEMMA QuietIsSound == ASSUME NEW c PROVE Sound(c, Done(c, Quiet))
  BY DEF Sound, Told, Tracks, Signal, Quiet, Silence, Done

\* A position is told of the player that is followed, before and after.
Points(c, r, m) ==
    r.signals.position.emitted =>
       /\ r.signals.position.value = m.at /\ m.type # "owner"
       /\ c.active = m.player /\ r.client.active = m.player

LEMMA QuietPoints == ASSUME NEW c, NEW d, NEW m PROVE Points(c, Done(d, Quiet), m)
  BY DEF Points, Done, Quiet, Silence, Signal
LEMMA SilencePoints == ASSUME NEW c, NEW r, NEW m, r.signals.position = Silence PROVE Points(c, r, m)
  BY DEF Points, Silence, Signal
LEMMA SignalPoints ==
  ASSUME NEW c, NEW r, NEW m, NEW e \in BOOLEAN, r.signals.position = Signal(e, m.at), m.type # "owner",
         e => c.active = m.player /\ r.client.active = m.player
  PROVE  Points(c, r, m)
  BY DEF Points, Signal

\* What a message makes the client tell.
LEMMA HearsTells ==
  ASSUME FollowInv, NEW m, m.player \in Player, m.type = "props" => m.info \in Infos,
         m.type # "owner" => m.at \in Track \cup {None}, Hears(m)
  PROVE  \E r : Sound(client, r) /\ Tells(osd, r) /\ Points(client, r, m)
<1>1. client \in Client /\ cfg.progress \in BOOLEAN /\ Right(client, cfg.progress)
  BY DEF FollowInv, Right, Settings
<1>2. CASE m.type = "owner"
  <2> DEFINE r == RemovePlayer(client, m.player, cfg.progress)
             d == [client EXCEPT !.known = @ \ {m.player}, !.info[m.player] = NoInfo]
             e == Reevaluate(d, FALSE, cfg.progress)
  <2>1. Tells(osd, r)
    BY <1>2 DEF Hears
  <2>2. d \in Client /\ d.active = client.active /\ d.shown = client.shown /\ d.poll = client.poll
    BY <1>1 DEF Client, Infos, NoInfo
  <2>3. r \in {Done(client, Quiet), e}
    BY DEF RemovePlayer
  <2> HIDE DEF d
  <2>4. Sound(client, e)
    BY <1>1, <2>2, ReevaluatesSound
  <2>5. Points(client, r, m)
    BY <1>1, RemovePlayerKnows, SilencePoints
  <2> HIDE DEF r, e
  <2> QED BY <2>1, <2>3, <2>4, <2>5, QuietIsSound
<1>3. CASE m.type = "props"
  <2> DEFINE r == ApplyProperties(client, m, cfg.progress)
             told == [status |-> Merge(m.info.status, client.info[m.player].status),
                      track |-> Merge(m.info.track, client.info[m.player].track)]
             d == [client EXCEPT !.info[m.player] = told]
             e == Reevaluate(d, FALSE, cfg.progress)
             tells == m.at # None /\ client.active = m.player /\ e.client.active = m.player
             f == Done(e.client, [e.signals EXCEPT !.position = Signal(tells, m.at)])
  <2>1. Tells(osd, r)
    BY <1>3 DEF Hears
  <2>2. told \in Infos
    BY <1>1, <1>3 DEF Infos, Client, Merge
  <2>3. d \in Client /\ d.active = client.active /\ d.shown = client.shown /\ d.poll = client.poll
    <3> HIDE DEF told
    <3> QED BY <1>1, <2>2 DEF Client
  <2>4. r \in {Done(client, Quiet), f}
    BY DEF ApplyProperties
  <2>7. Points(client, r, m)
    BY <1>1, <1>3, ApplyPropertiesKnows DEF Points
  <2> HIDE DEF d
  <2>5. Sound(client, e)
    BY <1>1, <2>3, ReevaluatesSound
  <2> HIDE DEF r, e, tells
  <2>6. Sound(client, f)
    <3>1. /\ f.client = e.client /\ f.signals.art = e.signals.art
          /\ f.signals.none = e.signals.none
          /\ f.signals.track = e.signals.track /\ f.signals.status = e.signals.status
          /\ f.signals.position = Signal(tells, m.at) /\ DOMAIN f.signals = DOMAIN e.signals
      BY <2>5 DEF Done, Sound, Told, Quiet
    <3> HIDE DEF f
    <3>2. Told(f.signals)
      BY <1>3, <2>5, <3>1 DEF Sound, Told, Signal
    <3>3. Tracks(client, f)
      BY <2>5, <3>1 DEF Sound, Tracks
    <3> QED BY <3>2, <3>3 DEF Sound
  <2> QED BY <2>1, <2>4, <2>6, <2>7, QuietIsSound
<1>4. CASE m.type = "pushed"
  <2> DEFINE e == client.active = m.player /\ ~osd.seeking /\ ~FALSE
             r == PositionOnly(client, m, osd.seeking, FALSE)
  <2>1. Tells(osd, r)
    BY <1>4 DEF Hears
  <2>2. r.signals = [Quiet EXCEPT !.position = Signal(e, m.at)] /\ r.client = client
    BY DEF PositionOnly, Done
  <2>6. e \in BOOLEAN /\ (e => client.active = m.player)
    OBVIOUS
  <2> HIDE DEF e, r
  <2>3. Sound(client, r)
    BY <1>4, <2>2, PositionIsSound
  <2>4. r.signals.position = Signal(e, m.at)
    BY <2>2 DEF Quiet
  <2>5. Points(client, r, m)
    BY <1>4, <2>2, <2>4, <2>6, SignalPoints
  <2> QED BY <2>1, <2>3, <2>5
<1>5. CASE m.type \notin {"owner", "props", "pushed"}
  <2> DEFINE r == TellPosition(client, m)
  <2>1. Tells(osd, r)
    BY <1>5 DEF Hears
  <2>2. r.signals = [Quiet EXCEPT !.position = Signal(client.active = m.player, m.at)] /\ r.client = client
    BY DEF TellPosition, Done
  <2> HIDE DEF r
  <2>3. Sound(client, r)
    BY <1>5, <2>2, PositionIsSound
  <2>4. r.signals.position = Signal(client.active = m.player, m.at)
    BY <2>2 DEF Quiet
  <2>5. Points(client, r, m)
    BY <1>5, <2>2, <2>4, SignalPoints
  <2> QED BY <2>1, <2>3, <2>5
<1> QED BY <1>2, <1>3, <1>4, <1>5

LEMMA FocusTells ==
  ASSUME FollowInv, NEW p \in Player \cup {None}, FocusChanges(p)
  PROVE  \E r : Sound(client, r) /\ Tells(osd, r) /\ r.signals.position = Silence
<1> DEFINE d == [client EXCEPT !.preferred = p]
           r == SetPreferredApp(client, p, cfg.progress)
           e == Reevaluate(d, TRUE, cfg.progress)
<1>1. Right(client, cfg.progress) /\ cfg.progress \in BOOLEAN
  BY DEF FollowInv, Settings
<1>2. d \in Client /\ d.active = client.active /\ d.shown = client.shown /\ d.poll = client.poll
  BY <1>1 DEF Right, Client
<1>3. r \in {Done(client, Quiet), e}
  BY DEF SetPreferredApp
<1>4. Tells(osd, r)
  BY DEF FocusChanges
<1> HIDE DEF d
<1>5. Sound(client, e)
  BY <1>1, <1>2, ReevaluatesSound
<1>6. r.signals.position = Silence
  <2>1. client \in Client /\ client.tracked \in Seq(Player)
    BY <1>1 DEF Right, Client
  <2> QED BY <1>1, <2>1, ChoiceKnows
<1> HIDE DEF r, e
<1> QED BY <1>3, <1>4, <1>5, <1>6, QuietIsSound

LEMMA ReloadsTells ==
  ASSUME FollowInv, NEW o, NEW new \in Settings, NEW tracked \in Seq(Player),
         Reloads(o, new, tracked)
  PROVE  \E r : /\ Sound(client, r) /\ Forced(r) /\ r.signals.position = Silence
                /\ Tells(ReloadStyles(o, new), r)
<1> DEFINE d == [client EXCEPT !.tracked = tracked]
           r == Reload(client, tracked, new.progress)
<1>1. Right(client, cfg.progress) /\ new.progress \in BOOLEAN
  BY DEF FollowInv, Settings
<1>2. d \in Client /\ d.active = client.active /\ d.shown = client.shown /\ d.poll = client.poll
  BY <1>1 DEF Right, Client
<1>3. r = Reevaluate(d, TRUE, new.progress)
  BY DEF Reload
<1>4. Tells(ReloadStyles(o, new), r)
  BY DEF Reloads
<1>7. r.signals.position = Silence
  <2>1. client \in Client /\ None \in Player \cup {None}
    BY <1>1 DEF Right
  <2> QED BY <1>1, <2>1, ChoiceKnows
<1> HIDE DEF d, r
<1>5. Sound(client, r)
  BY <1>1, <1>2, <1>3, ReevaluatesSound
<1>6. Forced(r)
  BY <1>2, <1>3, ForceTells
<1> QED BY <1>4, <1>5, <1>6, <1>7

-----------------------------------------------------------------------------
(* The overlay.                                                            *)

\* The overlay is good and knows the settings; the dialog blocks the mouse, and
\* a preview is the dialog's.
PanelInv ==
    /\ FollowInv
    /\ osd \in Osd /\ Upkept(osd)
    /\ osd.enabled = cfg.progress /\ osd.position = cfg.position
    /\ osd.seeking => cfg.interactive
    /\ osd.preview => dialog
    /\ dialog => ~osd.pressed

\* What keeps the settings and the dialog, and begins nothing.
LEMMA TameStep ==
  ASSUME PanelInv, FollowInv', UNCHANGED <<cfg, dialog>>,
         osd' \in Osd, Upkept(osd'), Tame(osd, osd')
  PROVE  PanelInv'
  BY DEF PanelInv, Tame

LEMMA ClientStepKeepsPanel ==
  ASSUME PanelInv, FollowInv', Handles \/ \E p \in Player \cup {None} : FocusChanges(p)
  PROVE  PanelInv'
<1>1. UNCHANGED <<cfg, dialog>>
  BY DEF Handles, FocusChanges, userVars
<1>2. ASSUME NEW r, Told(r.signals), Tells(osd, r) PROVE PanelInv'
  <2>1. osd' \in Osd /\ Upkept(osd') /\ Tame(osd, osd')
    BY <1>2, TellsKeepsGood DEF PanelInv
  <2> QED BY <1>1, <2>1, TameStep
<1>3. CASE Handles
  <2> DEFINE m == Head(inbox)
  <2>1. /\ m.player \in Player /\ (m.type = "props" => m.info \in Infos)
        /\ (m.type # "owner" => m.at \in Track \cup {None})
    BY <1>3, HeadIsMessage DEF Handles, PanelInv, FollowInv
  <2>2. HearsOfPlayer(m) \/ Hears(m)
    BY <1>3 DEF Handles
  <2> HIDE DEF m
  <2>3. CASE HearsOfPlayer(m)
    BY <1>1, <2>3, TameStep DEF HearsOfPlayer, PanelInv, Tame
  <2>4. CASE Hears(m)
    <3>1. \E r : Sound(client, r) /\ Tells(osd, r)
      BY <2>1, <2>4, HearsTells DEF PanelInv
    <3> QED BY <3>1, <1>2 DEF Sound
  <2> QED BY <2>2, <2>3, <2>4
<1>4. ASSUME NEW p \in Player \cup {None}, FocusChanges(p) PROVE PanelInv'
  BY <1>2, <1>4, FocusTells DEF PanelInv, Sound
<1> QED BY <1>3, <1>4

LEMMA ReloadsKeepsPanel ==
  ASSUME PanelInv, FollowInv', NEW o \in Osd, Upkept(o), NEW new \in Settings,
         NEW tracked \in Seq(Player), Reloads(o, new, tracked),
         o.preview => dialog', o.pressed => ~dialog'
  PROVE  PanelInv'
<1> DEFINE a == ReloadStyles(o, new)
<1>1. /\ a \in Osd /\ Upkept(a) /\ a.enabled = new.progress /\ a.position = new.position
      /\ (a.preview => o.preview) /\ (a.pressed => o.pressed) /\ (a.seeking => new.interactive)
  BY TypeReloadStyles, GoodReloadStyles
<1>2. PICK r : Told(r.signals) /\ Tells(a, r)
  BY ReloadsTells DEF PanelInv, Sound
<1>3. cfg' = new
  BY DEF Reloads
<1> HIDE DEF a
<1>4. osd' \in Osd /\ Upkept(osd') /\ Tame(a, osd')
  BY <1>1, <1>2, TellsKeepsGood
<1> QED BY <1>1, <1>3, <1>4 DEF PanelInv, Tame

LEMMA SettingsStepKeepsPanel ==
  ASSUME PanelInv, FollowInv', DialogCloses \/ ProgressToggles
  PROVE  PanelInv'
<1>1. CASE DialogCloses
  <2>1. PICK new \in scene.settings, tracked \in Tracked :
          Reloads(HidePreview(osd, new), new, tracked)
    BY <1>1 DEF DialogCloses
  <2>2. new \in Settings /\ tracked \in Seq(Player)
    BY <2>1, ScenesAreScenes, PanelAssumption DEF PanelInv, FollowInv, BusTypes
  <2> DEFINE o == HidePreview(osd, new)
  <2>3. o \in Osd /\ Upkept(o) /\ ~o.preview
    BY <2>2, TypeHidePreview, GoodHidePreview DEF PanelInv
  <2>4. dialog' = FALSE
    BY <1>1 DEF DialogCloses
  <2> HIDE DEF o
  <2>5. Reloads(o, new, tracked)
    BY <2>1 DEF o
  <2> QED BY <2>2, <2>3, <2>4, <2>5, ReloadsKeepsPanel
<1>2. CASE ProgressToggles
  <2> DEFINE new == [cfg EXCEPT !.progress = ~@]
  <2>1. new \in Settings /\ client.tracked \in Seq(Player)
    BY DEF PanelInv, FollowInv, Settings, Right, Client
  <2>2. Reloads(osd, new, client.tracked) /\ dialog' = dialog
    BY <1>2 DEF ProgressToggles, userVars
  <2> HIDE DEF new
  <2> QED BY <2>1, <2>2, ReloadsKeepsPanel DEF PanelInv
<1> QED BY <1>1, <1>2

LEMMA OverlayStepKeepsPanel ==
  ASSUME PanelInv, FollowInv',
         \/ VolumeChanges \/ MediaKey \/ HideTimesOut
         \/ MouseEnters \/ MouseLeaves
         \/ PressesEdge \/ PressesInterior \/ PressesBar \/ Releases \/ SeekInterrupted
         \/ LayoutAction \/ DialogPreviews
  PROVE  PanelInv'
<1> USE DEF Overlay
<1>1. osd \in Osd /\ Upkept(osd) /\ cfg \in Settings
  BY DEF PanelInv, FollowInv
<1>2. ASSUME NEW r \in Osd, Upkept(r), Tame(osd, r), Overlay(r) PROVE PanelInv'
  BY <1>2, TameStep
<1>3. CASE VolumeChanges
  BY <1>1, <1>2, <1>3, TypeShowVolume, GoodShowVolume DEF VolumeChanges
<1>4. CASE MediaKey
  BY <1>1, <1>2, <1>4, TypeShowMediaAction, GoodShowMediaAction DEF MediaKey
<1>5. CASE HideTimesOut
  BY <1>1, <1>2, <1>5, TypeHideTimeout, GoodHideTimeout DEF HideTimesOut
<1>6. CASE MouseEnters \/ MouseLeaves
  BY <1>1, <1>2, <1>6, TypeEnter, TypeLeave, GoodPointer DEF MouseEnters, MouseLeaves
<1>7. ASSUME NEW r \in Osd, Upkept(r), Same(osd, r, {"enabled", "position", "preview"}),
             r.seeking => cfg.interactive, ~dialog, Overlay(r)
      PROVE  PanelInv'
  BY <1>7 DEF PanelInv, Same
<1>8. CASE PressesEdge
  BY <1>1, <1>7, <1>8, TypePress, GoodPress DEF PressesEdge, MouseOver
<1>9. CASE PressesInterior
  BY <1>1, <1>7, <1>9, TypePress, GoodPress DEF PressesInterior, MouseOver
<1>10. CASE PressesBar
  BY <1>1, <1>7, <1>10, TypePress, GoodPress DEF PressesBar, MouseOver
<1>11. CASE Releases
  BY <1>1, <1>2, <1>11, TypeRelease, GoodRelease DEF Releases
<1>12. CASE SeekInterrupted
  BY <1>1, <1>2, <1>12, TypeRelease, GoodSeekInterrupted DEF SeekInterrupted
<1>13. CASE LayoutAction
  <2>1. Tame(osd, osd)
    BY DEF Tame
  <2> QED BY <1>1, <1>2, <1>13, <2>1, TypeLayout, GoodLayout DEF LayoutAction
<1>14. CASE DialogPreviews
  <2>1. dialog /\ ~osd.pressed
    BY <1>14 DEF DialogPreviews, PanelInv
  <2>2. ASSUME NEW r \in {ShowPreview(osd, cfg), ShowPreviewHeld(osd, cfg)}, Overlay(r)
        PROVE  PanelInv'
    <3>1. r \in Osd /\ Upkept(r) /\ Same(osd, r, {"enabled", "position", "seeking", "pressed"})
      BY <1>1, <2>1, TypeShowPreview, GoodShowPreview
    <3> QED BY <2>1, <2>2, <3>1 DEF PanelInv, Same
  <2>3. CASE Overlay(ReleasePreview(osd))
    BY <1>1, <1>2, <2>3, TypeReleasePreview, GoodReleasePreview
  <2> QED BY <1>14, <2>2, <2>3 DEF DialogPreviews
<1> QED BY <1>3, <1>4, <1>5, <1>6, <1>8, <1>9, <1>10, <1>11, <1>12, <1>13, <1>14

LEMMA PanelInit == Init => PanelInv
<1> SUFFICES ASSUME Init PROVE PanelInv
  OBVIOUS
<1>1. FollowInv /\ cfg \in Settings
  BY FollowInit DEF FollowInv
<1>2. osd = NewOsd(cfg) /\ dialog = FALSE
  BY DEF Init
<1>3. cfg.progress \in BOOLEAN /\ cfg.position \in BOOLEAN
  BY <1>1 DEF Settings
<1>4. NewOsd(cfg) \in Osd
  BY <1>3, NoneIsATitle, Zenon DEF NewOsd, Osd
<1>5. Upkept(NewOsd(cfg))
  BY <1>3 DEF NewOsd, Upkept, Drag, Row, Cause
<1> QED BY <1>1, <1>2, <1>4, <1>5 DEF PanelInv, NewOsd

LEMMA PanelStep == PanelInv /\ [Next /\ UNCHANGED scene]_vars => PanelInv'
<1> SUFFICES ASSUME PanelInv, [Next /\ UNCHANGED scene]_vars PROVE PanelInv'
  OBVIOUS
<1>1. FollowInv'
  BY FollowStep DEF PanelInv
<1>2. CASE UNCHANGED <<osd, cfg, dialog>>
  BY <1>1, <1>2 DEF PanelInv
<1>3. CASE UNCHANGED vars
  BY <1>2, <1>3 DEF vars, panelVars, userVars
<1>4. CASE Handles \/ \E p \in Player \cup {None} : FocusChanges(p)
  BY <1>1, <1>4, ClientStepKeepsPanel
<1>5. CASE DialogCloses \/ ProgressToggles
  BY <1>1, <1>5, SettingsStepKeepsPanel
<1>6. ASSUME NEW url \in Urls, NEW good \in BOOLEAN, ArtArrives(url, good) PROVE PanelInv'
  <2>1. osd' = osd \/ \E v \in Urls : osd' = SetAlbumArt(osd, v)
    BY <1>6, NoneIsATitle DEF ArtArrives, Ready
  <2>2. UNCHANGED <<cfg, dialog>>
    BY <1>6 DEF ArtArrives, userVars
  <2> QED BY <1>1, <1>2, <2>1, <2>2, TypeSetAlbumArt, GoodUpdates, TameStep DEF PanelInv
<1>7. CASE \/ VolumeChanges \/ MediaKey \/ HideTimesOut
           \/ MouseEnters \/ MouseLeaves
           \/ PressesEdge \/ PressesInterior \/ PressesBar \/ Releases \/ SeekInterrupted
           \/ LayoutAction \/ DialogPreviews
  BY <1>1, <1>7, OverlayStepKeepsPanel
<1>8. CASE LayoutKey \/ Throttles \/ PollTimeout \/ \E p \in Player : PlayerStep(p) \/ PlayerSeeks(p)
  BY <1>2, <1>8, Zenon DEF LayoutKey, Throttles, PollTimeout, PlayerStep, PlayerSeeks, panelVars, userVars
<1>9. CASE DialogOpens
  BY <1>1, <1>9 DEF DialogOpens, PanelInv, panelVars
<1> QED BY <1>3, <1>4, <1>5, <1>6, <1>7, <1>8, <1>9 DEF Next

LEMMA PanelAlways == Spec => []PanelInv
  BY PanelInit, PanelStep, PTL DEF Spec

\* No drag outlives its ground, whichever handler takes it away (osdwindow.cpp,
\* with reloadStyles and the settings dialog).
THEOREM EveryDragEnds == Spec => []DragsEnd
<1>1. PanelInv => DragsEnd
  BY DEF PanelInv, FollowInv, Settings, Upkept, Drag, Row, DragsEnd
<1> QED BY <1>1, PanelAlways, PTL

\* The overlay never stays without a cause that ends: the hide timer is
\* restarted on every path that ends one (restartHideTimerAfterResize), but for
\* the resize cancelled with the pointer outside, which osd.dropped records.
THEOREM TheOverlayGoes == Spec => []LingersForACause
<1>1. PanelInv => LingersForACause
  BY DEF PanelInv, Upkept, Cause, LingersForACause
<1> QED BY <1>1, PanelAlways, PTL

\* The keyboard thread takes layout keys only of a visible overlay that is no
\* preview, and a full overlay has the row it should have.
THEOREM LayoutKeysHaveAnOverlay == Spec => []LayoutKeysNeedOverlay
<1>1. PanelInv => LayoutKeysNeedOverlay
  BY DEF PanelInv, Upkept, Row, LayoutKeysNeedOverlay
<1> QED BY <1>1, PanelAlways, PTL

-----------------------------------------------------------------------------
(* What is shown of the track followed.                                    *)

\* The signals are what sets what the overlay says, and a position that is not
\* told goes with its title.
LEMMA TellsContent ==
  ASSUME NEW o \in Osd, NEW r, Told(r.signals), Tells(o, r)
  PROVE  LET told == r.signals
             panel == ArtChanged(r.client, o, told.art.value)
         IN  /\ osd'.title = IF told.track.emitted THEN Title(told.track.value) ELSE o.title
             /\ IF told.art.emitted THEN osd'.picture = panel.osd.picture /\ art' = panel.art
                ELSE osd'.picture = o.picture /\ art' = art
             /\ osd'.playing = IF told.status.emitted THEN told.status.value ELSE o.playing
             /\ osd'.enabled = o.enabled
             /\ osd'.wanted = IF ~o.enabled THEN o.wanted ELSE IF told.track.emitted THEN TRUE
                              ELSE IF told.none.emitted THEN FALSE ELSE o.wanted
             /\ \/ osd'.at = None
                \/ osd'.at = o.at /\ osd'.title = o.title
                \/ told.position.emitted /\ osd'.at = told.position.value
<1> DEFINE told == r.signals
           panel == IF told.art.emitted THEN ArtChanged(r.client, o, told.art.value)
                    ELSE [osd |-> o, art |-> art]
           none == IF told.none.emitted THEN SetProgressVisible(panel.osd, FALSE) ELSE panel.osd
           updated == UpdateTrack(none, told.track.value)
           track == IF told.track.emitted THEN SetProgressVisible(updated, TRUE) ELSE none
           status == IF told.status.emitted THEN UpdatePlaybackStatus(track, told.status.value)
                     ELSE track
           last == IF told.position.emitted THEN UpdatePosition(status, told.position.value)
                   ELSE status
<1>1. osd' \in {last, OthersHidden(last)} /\ art' = panel.art
  BY Zenon DEF Tells
<1>2. /\ panel.osd \in Osd /\ panel.osd.title = o.title /\ panel.osd.playing = o.playing
      /\ panel.osd.at = o.at /\ panel.osd.wanted = o.wanted /\ panel.osd.enabled = o.enabled
  <2>1. CASE told.art.emitted
    <3>1. panel.osd = o \/ \E v \in Urls : panel.osd = SetAlbumArt(o, v)
      BY <2>1, NoneIsATitle DEF ArtChanged, Ready, Told
    <3> QED BY <3>1, TypeSetAlbumArt, KeptAlbumArt
  <2>2. CASE ~told.art.emitted
    BY <2>2
  <2> QED BY <2>1, <2>2
<1>3. IF told.art.emitted THEN panel = ArtChanged(r.client, o, told.art.value)
      ELSE panel.osd = o /\ panel.art = art
  OBVIOUS
<1> HIDE DEF panel
<1>4. /\ none \in Osd /\ Says(panel.osd, none) /\ none.enabled = o.enabled
      /\ none.wanted = IF told.none.emitted /\ o.enabled THEN FALSE ELSE o.wanted
  BY <1>2, TypeSetProgressVisible, KeptSetProgressVisible DEF Says
<1> HIDE DEF none
<1>5. /\ track \in Osd /\ track.picture = none.picture /\ track.playing = none.playing
      /\ track.title = IF told.track.emitted THEN Title(told.track.value) ELSE none.title
      /\ \/ track.at = None
         \/ track.at = none.at /\ track.title = none.title
      /\ track.enabled = none.enabled
      /\ track.wanted = IF told.track.emitted /\ none.enabled THEN TRUE ELSE none.wanted
  <2>1. CASE told.track.emitted
    <3>1. told.track.value \in Track \cup {None}
      BY <2>1 DEF Told
    <3>2. updated \in Osd
      BY <1>4, <3>1, TypeUpdateTrack
    <3>3. /\ updated.title = Title(told.track.value)
          /\ updated.at = IF none.title = updated.title THEN none.at ELSE None
          /\ updated.picture = none.picture /\ updated.playing = none.playing
          /\ updated.wanted = none.wanted /\ updated.enabled = none.enabled
      BY <1>4, KeptUpdateTrack, Zenon
    <3> HIDE DEF updated
    <3>4. /\ track \in Osd /\ Says(updated, track) /\ track.enabled = updated.enabled
          /\ track.wanted = IF updated.enabled THEN TRUE ELSE updated.wanted
      BY <2>1, <3>2, TypeSetProgressVisible, KeptSetProgressVisible
    <3> HIDE DEF track
    <3> QED BY <2>1, <3>2, <3>3, <3>4 DEF Says
  <2>2. CASE ~told.track.emitted
    BY <1>4, <2>2
  <2> QED BY <2>1, <2>2
<1> HIDE DEF track
<1>6. /\ status \in Osd /\ status.title = track.title /\ status.picture = track.picture
      /\ status.at = track.at /\ status.wanted = track.wanted /\ status.enabled = track.enabled
      /\ status.playing = IF told.status.emitted THEN told.status.value ELSE track.playing
  <2>1. CASE told.status.emitted
    <3>1. UpdatePlaybackStatus(track, told.status.value) \in Osd
      BY <1>5, <2>1, TypeUpdatePlaybackStatus DEF Told
    <3> QED BY <1>5, <2>1, <3>1, KeptStatus
  <2>2. CASE ~told.status.emitted
    BY <1>5, <2>2
  <2> QED BY <2>1, <2>2
<1> HIDE DEF status
<1>7. LET seen == osd'
      IN  /\ seen.title = status.title /\ seen.picture = status.picture
          /\ seen.playing = status.playing /\ seen.wanted = status.wanted
          /\ seen.enabled = status.enabled
          /\ \/ seen.at = status.at
             \/ told.position.emitted /\ seen.at = told.position.value
  <2>1. /\ last.title = status.title /\ last.picture = status.picture
        /\ last.playing = status.playing /\ last.wanted = status.wanted /\ last.enabled = status.enabled
        /\ \/ last.at = status.at
           \/ told.position.emitted /\ last.at = told.position.value
    BY <1>6, KeptPosition
  <2>2. last \in Osd
    BY <1>6, TypeUpdatePosition DEF Told
  <2> HIDE DEF last
  <2>3. Kept(last, OthersHidden(last))
    BY <2>2, KeptOthersHidden
  <2> QED BY <1>1, <2>1, <2>3 DEF Kept, Says
<1> HIDE DEF last
<1>8. \/ osd'.at = None
      \/ osd'.at = o.at /\ osd'.title = o.title
      \/ told.position.emitted /\ osd'.at = told.position.value
  BY <1>1, <1>2, <1>4, <1>5, <1>6, <1>7 DEF Says
<1>9. /\ osd'.title = IF told.track.emitted THEN Title(told.track.value) ELSE o.title
      /\ osd'.playing = IF told.status.emitted THEN told.status.value ELSE o.playing
      /\ osd'.enabled = o.enabled
  BY <1>1, <1>2, <1>4, <1>5, <1>6, <1>7 DEF Says
<1>10. osd'.wanted = IF ~o.enabled THEN o.wanted ELSE IF told.track.emitted THEN TRUE
                     ELSE IF told.none.emitted THEN FALSE ELSE o.wanted
  BY <1>1, <1>2, <1>4, <1>5, <1>6, <1>7 DEF Says
<1>11. IF told.art.emitted
       THEN LET now == ArtChanged(r.client, o, told.art.value)
            IN  osd'.picture = now.osd.picture /\ art' = now.art
       ELSE osd'.picture = o.picture /\ art' = art
  BY <1>1, <1>3, <1>4, <1>5, <1>6, <1>7 DEF Says
<1> QED BY <1>8, <1>9, <1>10, <1>11

\* A picture asked for is there, or being downloaded; nothing else is given up.
LEMMA RequestedPends ==
  ASSUME NEW a, DOMAIN a = {"memory", "pending", "disk"}, NEW url
  PROVE  /\ ~Requested(a, url).ready => url \in Requested(a, url).art.pending
         /\ a.pending \subseteq Requested(a, url).art.pending
         /\ DOMAIN Requested(a, url).art = {"memory", "pending", "disk"}
  BY SMTT(30) DEF Requested, Stores, Announce

LEMMA FinishedPends ==
  ASSUME NEW a, DOMAIN a = {"memory", "pending", "disk"}, NEW url, NEW good
  PROVE  LET r == Finished(a, url, good)
         IN  r.ready = TRUE /\ r.art.pending = a.pending \ {url} /\ DOMAIN r.art = {"memory", "pending", "disk"}
<1> DEFINE disk == IF good THEN a.disk \cup {url} ELSE a.disk
           b == [a EXCEPT !.pending = @ \ {url}, !.disk = disk]
           memory == IF Len(b.memory) >= MaxArt THEN Tail(b.memory) ELSE b.memory
           r == Announce(b, memory, url, good)
<1>1. b.pending = a.pending \ {url} /\ DOMAIN b = {"memory", "pending", "disk"}
  OBVIOUS
<1>2. Finished(a, url, good) = r
  BY DEF Finished, Stores
<1> HIDE DEF b, memory
<1>3. r.ready = TRUE /\ r.art.pending = b.pending /\ DOMAIN r.art = DOMAIN b
  BY <1>1 DEF Announce
<1> QED BY <1>1, <1>2, <1>3

-----------------------------------------------------------------------------
ArtShape == DOMAIN art = {"memory", "pending", "disk"}
ShownInv == PanelInv /\ Showing /\ ArtIsCurrentOrComing /\ ArtShape

\* A step in which the client tells r to an overlay that says what osd says and
\* knows the settings.
LEMMA SoundStepShows ==
  ASSUME Showing, ArtIsCurrentOrComing, ArtShape, NEW o \in Osd, Says(osd, o),
         cfg.progress \in BOOLEAN, cfg'.progress \in BOOLEAN, osd.wanted \in BOOLEAN,
         o.enabled = cfg'.progress, o.wanted = (cfg'.progress /\ osd.wanted),
         NEW r, Sound(client, r), Tells(o, r), cfg'.progress = cfg.progress \/ Forced(r)
  PROVE  Showing' /\ ArtIsCurrentOrComing' /\ ArtShape'
<1> DEFINE told == r.signals
           panel == ArtChanged(client', o, told.art.value)
           url == Art(client'.shown.track)
<1>1. client' = r.client /\ Told(told) /\ Tracks(client, r)
  BY DEF Tells, Sound
<1>2. /\ osd'.title = IF told.track.emitted THEN Title(told.track.value) ELSE o.title
      /\ IF told.art.emitted THEN osd'.picture = panel.osd.picture /\ art' = panel.art
         ELSE osd'.picture = o.picture /\ art' = art
      /\ osd'.playing = IF told.status.emitted THEN told.status.value ELSE o.playing
      /\ osd'.enabled = o.enabled
      /\ osd'.wanted = IF ~o.enabled THEN o.wanted ELSE IF told.track.emitted THEN TRUE
                       ELSE IF told.none.emitted THEN FALSE ELSE o.wanted
  BY <1>1, TellsContent
<1>3. Showing'
  <2>1. ASSUME client'.active # None
        PROVE  osd'.title = Title(client'.shown.track) /\ osd'.playing = client'.shown.status
    BY <1>1, <1>2, <2>1 DEF Tracks, Showing, Says
  <2>2. osd'.wanted <=> cfg'.progress /\ client'.active # None
    <3>1. osd.wanted <=> cfg.progress /\ client.active # None
      BY DEF Showing
    <3> QED BY <1>1, <1>2, <3>1 DEF Tracks, Forced
  <2> QED BY <1>2, <2>1, <2>2 DEF Showing
<1>4. CASE told.art.emitted
  <2>1. told.art.value = url
    BY <1>1, <1>4 DEF Tracks
  <2>2. CASE url = None
    <3>1. panel = [osd |-> SetAlbumArt(o, None), art |-> art]
      BY <2>1, <2>2 DEF ArtChanged
    <3>2. osd'.picture = None /\ art' = art
      BY <1>2, <1>4, <3>1, KeptAlbumArt
    <3> QED BY <1>3, <3>2 DEF ArtIsCurrentOrComing, ArtShape
  <2>3. CASE url # None
    <3> DEFINE q == Requested(art, url)
    <3>1. panel = Ready(client', o, url, q)
      BY <2>1, <2>3 DEF ArtChanged
    <3>2. (~q.ready => url \in q.art.pending) /\ DOMAIN q.art = {"memory", "pending", "disk"}
      BY RequestedPends DEF ArtShape
    <3>3. art' = q.art
      BY <1>2, <1>4, <3>1 DEF Ready
    <3> HIDE DEF q
    <3>4. CASE q.ready
      <4>1. osd'.picture \in {None, url}
        BY <1>2, <1>4, <3>1, <3>4, KeptAlbumArt DEF Ready, Says
      <4> QED BY <1>3, <3>2, <3>3, <4>1 DEF ArtIsCurrentOrComing, ArtShape
    <3> QED BY <1>3, <3>2, <3>3, <3>4 DEF ArtIsCurrentOrComing, ArtShape
  <2> QED BY <2>2, <2>3
<1>5. CASE ~told.art.emitted
  BY <1>1, <1>2, <1>3, <1>5 DEF Tracks, ArtIsCurrentOrComing, ArtShape, Says
<1> QED BY <1>4, <1>5

\* A step that leaves the client and the art alone, and what the overlay says.
LEMMA KeptStepShows ==
  ASSUME ShownInv, PanelInv', Kept(osd, osd'), UNCHANGED <<client, art, cfg>>
  PROVE  ShownInv'
  BY DEF ShownInv, Showing, ArtIsCurrentOrComing, ArtShape, Kept, Says

LEMMA OverlayStepKeeps ==
  ASSUME osd \in Osd,
         \/ VolumeChanges \/ MediaKey \/ HideTimesOut
         \/ MouseEnters \/ MouseLeaves
         \/ PressesEdge \/ PressesInterior \/ PressesBar \/ Releases \/ SeekInterrupted
         \/ LayoutAction \/ DialogPreviews
  PROVE  Kept(osd, osd') /\ UNCHANGED <<client, art, cfg>>
<1>1. ASSUME NEW r, Overlay(r), Kept(osd, r) PROVE Kept(osd, osd') /\ UNCHANGED <<client, art, cfg>>
  BY <1>1, Zenon DEF Overlay
<1>2. CASE VolumeChanges \/ MediaKey \/ HideTimesOut
  BY <1>1, <1>2, KeptShow, KeptShowMediaAction, KeptHideTimeout
     DEF VolumeChanges, MediaKey, HideTimesOut
<1>3. CASE MouseEnters \/ MouseLeaves
  BY <1>1, <1>3, KeptMouse DEF MouseEnters, MouseLeaves
<1>4. CASE PressesEdge \/ PressesInterior \/ PressesBar
  BY <1>1, <1>4, KeptMouse DEF PressesEdge, PressesInterior, PressesBar
<1>5. CASE Releases \/ SeekInterrupted
  BY <1>1, <1>5, KeptRelease, KeptMouse DEF Releases, SeekInterrupted
<1>6. CASE LayoutAction
  <2>1. Kept(osd, osd)
    BY DEF Kept, Says
  <2> QED BY <1>1, <1>6, <2>1, KeptMouse DEF LayoutAction
<1>7. CASE DialogPreviews
  BY <1>1, <1>7, KeptShow DEF DialogPreviews
<1> QED BY <1>2, <1>3, <1>4, <1>5, <1>6, <1>7

LEMMA ClientStepShows ==
  ASSUME ShownInv, PanelInv',
         Handles \/ (\E p \in Player \cup {None} : FocusChanges(p)) \/ DialogCloses \/ ProgressToggles
  PROVE  ShownInv'
<1>1. /\ PanelInv /\ FollowInv /\ osd \in Osd /\ cfg \in Settings
      /\ Showing /\ ArtIsCurrentOrComing /\ ArtShape
  BY DEF ShownInv, PanelInv, FollowInv
<1>2. /\ cfg.progress \in BOOLEAN /\ osd.wanted \in BOOLEAN
      /\ osd.enabled = cfg.progress /\ (osd.wanted => cfg.progress)
  <2>1. osd.wanted \in BOOLEAN
    BY <1>1, Zenon DEF Osd
  <2> QED BY <1>1, <2>1 DEF Settings, Showing
<1>3. ASSUME \E r : Sound(client, r) /\ Tells(osd, r), cfg' = cfg PROVE ShownInv'
  <2>1. Says(osd, osd) /\ osd.wanted = (cfg.progress /\ osd.wanted)
    BY <1>2 DEF Says
  <2> QED BY <1>1, <1>2, <1>3, <2>1, SoundStepShows DEF ShownInv
<1>4. CASE Handles
  <2> DEFINE m == Head(inbox)
  <2>1. /\ m.player \in Player /\ (m.type = "props" => m.info \in Infos)
        /\ (m.type # "owner" => m.at \in Track \cup {None})
    BY <1>1, <1>4, HeadIsMessage DEF Handles, FollowInv
  <2>2. (HearsOfPlayer(m) \/ Hears(m)) /\ cfg' = cfg
    BY <1>4 DEF Handles
  <2> HIDE DEF m
  <2>3. CASE HearsOfPlayer(m)
    <3>1. client'.active = client.active /\ client'.shown = client.shown /\ UNCHANGED <<osd, art>>
      BY <1>1, <2>3 DEF HearsOfPlayer, AddPlayer, FollowInv, Right, Client
    <3> QED BY <1>1, <2>2, <3>1 DEF ShownInv, Showing, ArtIsCurrentOrComing, ArtShape
  <2>4. CASE Hears(m)
    BY <1>1, <1>3, <2>1, <2>2, <2>4, HearsTells
  <2> QED BY <2>2, <2>3, <2>4
<1>5. ASSUME NEW p \in Player \cup {None}, FocusChanges(p) PROVE ShownInv'
  <2>1. cfg' = cfg
    BY <1>5 DEF FocusChanges
  <2> QED BY <1>1, <1>3, <1>5, <2>1, FocusTells
<1>6. ASSUME NEW o \in Osd, Kept(osd, o), NEW new \in Settings, NEW tracked \in Seq(Player),
             Reloads(o, new, tracked)
      PROVE  ShownInv'
  <2> DEFINE a == ReloadStyles(o, new)
  <2>1. a \in Osd /\ Says(o, a) /\ a.enabled = new.progress /\ a.wanted = (new.progress /\ o.wanted)
    BY <1>6, TypeReloadStyles, KeptReloadStyles
  <2>2. \E r : Sound(client, r) /\ Forced(r) /\ Tells(a, r)
    BY <1>1, <1>6, ReloadsTells
  <2>3. cfg' = new /\ new.progress \in BOOLEAN
    BY <1>6 DEF Reloads, Settings
  <2> HIDE DEF a
  <2>4. Says(osd, a) /\ a.enabled = cfg'.progress /\ a.wanted = (cfg'.progress /\ osd.wanted)
    BY <1>6, <2>1, <2>3 DEF Kept, Says
  <2> QED BY <1>1, <1>2, <2>1, <2>2, <2>3, <2>4, SoundStepShows DEF ShownInv
<1>7. CASE DialogCloses
  <2>1. PICK new \in scene.settings, tracked \in Tracked :
          Reloads(HidePreview(osd, new), new, tracked)
    BY <1>7 DEF DialogCloses
  <2>2. new \in Settings /\ tracked \in Seq(Player)
    BY <1>1, <2>1, ScenesAreScenes, PanelAssumption DEF FollowInv, BusTypes
  <2>3. HidePreview(osd, new) \in Osd /\ Kept(osd, HidePreview(osd, new))
    BY <1>1, TypeHidePreview, KeptHideTimeout
  <2> QED BY <1>6, <2>1, <2>2, <2>3
<1>8. CASE ProgressToggles
  <2>1. [cfg EXCEPT !.progress = ~@] \in Settings /\ client.tracked \in Seq(Player)
    BY <1>1 DEF FollowInv, Settings, Right, Client
  <2>2. Kept(osd, osd)
    BY DEF Kept, Says
  <2> QED BY <1>1, <1>6, <1>8, <2>1, <2>2 DEF ProgressToggles
<1> QED BY <1>4, <1>5, <1>7, <1>8

LEMMA ShownInit == Init => ShownInv
<1> SUFFICES ASSUME Init PROVE ShownInv
  OBVIOUS
<1>1. PanelInv
  BY PanelInit
<1>2. /\ osd.picture = None /\ osd.enabled = cfg.progress /\ osd.wanted = FALSE
      /\ client.active = None /\ art = Art0
  BY DEF Init, NewOsd, NewClient
<1> QED BY <1>1, <1>2 DEF ShownInv, Showing, ArtIsCurrentOrComing, ArtShape, Art0

LEMMA ShownStep == ShownInv /\ [Next /\ UNCHANGED scene]_vars => ShownInv'
<1> SUFFICES ASSUME ShownInv, [Next /\ UNCHANGED scene]_vars PROVE ShownInv'
  OBVIOUS
<1>1. PanelInv' /\ osd \in Osd
  BY PanelStep DEF ShownInv, PanelInv
<1>2. CASE UNCHANGED <<client, osd, art, cfg>>
  BY <1>1, <1>2, KeptStepShows DEF Kept, Says
<1>3. CASE UNCHANGED vars
  BY <1>2, <1>3 DEF vars, panelVars
<1>4. ASSUME NEW url \in Urls, NEW good \in BOOLEAN, ArtArrives(url, good) PROVE ShownInv'
  <2> DEFINE q == Finished(art, url, good)
  <2>1. /\ osd' = Ready(client, osd, url, q).osd /\ art' = q.art /\ client' = client /\ cfg' = cfg
    BY <1>4 DEF ArtArrives, Ready
  <2>2. q.ready = TRUE /\ q.art.pending = art.pending \ {url} /\ DOMAIN q.art = {"memory", "pending", "disk"}
    BY FinishedPends DEF ShownInv, ArtShape
  <2> HIDE DEF q
  <2>3. CASE Art(client.shown.track) = url
    <3>1. /\ osd'.picture \in {None, url} /\ osd'.title = osd.title /\ osd'.playing = osd.playing
          /\ osd'.wanted = osd.wanted /\ osd'.enabled = osd.enabled
      BY <1>1, <2>1, <2>2, <2>3, KeptAlbumArt DEF Ready
    <3> QED BY <1>1, <2>1, <2>2, <2>3, <3>1 DEF ShownInv, Showing, ArtIsCurrentOrComing, ArtShape
  <2>4. CASE Art(client.shown.track) # url
    <3>1. osd' = osd
      BY <2>1, <2>4 DEF Ready
    <3> QED BY <1>1, <2>1, <2>2, <2>4, <3>1 DEF ShownInv, Showing, ArtIsCurrentOrComing, ArtShape
  <2> QED BY <2>3, <2>4
<1>5. CASE LayoutKey \/ DialogOpens \/ Throttles \/ PollTimeout
           \/ \E p \in Player : PlayerStep(p) \/ PlayerSeeks(p)
  BY <1>2, <1>5, Zenon DEF LayoutKey, DialogOpens, Throttles, PollTimeout, PlayerStep, PlayerSeeks, panelVars
<1>6. CASE Kept(osd, osd') /\ UNCHANGED <<client, art, cfg>>
  BY <1>1, <1>6, KeptStepShows
<1> QED BY <1>1, <1>3, <1>4, <1>5, <1>6, OverlayStepKeeps, ClientStepShows DEF Next

LEMMA ShownAlways == Spec => []ShownInv
  BY ShownInit, ShownStep, PTL DEF Spec

\* Whatever picture arrives late, the one shown is that of the track followed,
\* or that one is on its way (main.cpp, AlbumArtCache::ready).
THEOREM PictureIsOfTheTrack == Spec => []ArtIsCurrentOrComing
<1>1. ShownInv => ArtIsCurrentOrComing
  BY DEF ShownInv
<1> QED BY <1>1, ShownAlways, PTL

\* A seek is committed only to the title that was under the pointer when the
\* drag began (osdwindow.cpp, updateTrack ends the drag of any other).
THEOREM SeeksHitWhatWasSeen == Spec => SeekHitsWhatWasSeen
<1>1. ShownInv /\ [Next /\ UNCHANGED scene]_vars
        => [sought' \notin {None, sought} => Title(sought') = osd.grip]_vars
  <2> SUFFICES ASSUME ShownInv, Next, sought' \notin {None, sought}
               PROVE  Title(sought') = osd.grip
    BY DEF vars
  <2>1. Releases
    BY Zenon DEF Next, Handles, Throttles, PollTimeout, ArtArrives, PlayerStep, PlayerSeeks,
       FocusChanges, VolumeChanges, MediaKey, HideTimesOut, MouseEnters, MouseLeaves, PressesEdge,
       PressesInterior, PressesBar, SeekInterrupted, LayoutKey, LayoutAction, DialogOpens,
       DialogPreviews, DialogCloses, ProgressToggles
  <2>2. /\ osd.seeking /\ sought' = SetPosition(client) /\ sought' # None
    BY <2>1 DEF Releases, Commits
  <2>3. client.active # None /\ sought' = client.shown.track
    BY <2>2 DEF SetPosition
  <2>4. osd.grip = osd.title
    BY <2>2 DEF ShownInv, PanelInv, Upkept, Drag
  <2> QED BY <2>3, <2>4 DEF ShownInv, Showing
<1> QED BY <1>1, ShownAlways, PTL DEF Spec, SeekHitsWhatWasSeen

-----------------------------------------------------------------------------
(* Types.                                                                  *)

Asked == {"all", "position"}
WireTypes ==
    /\ owned \subseteq Player /\ missed \subseteq Player
    /\ asked \in [Player -> Seq(Asked)]
    /\ Len(inbox) <= MaxInbox
UserTypes ==
    dialog \in BOOLEAN /\ posted \in BOOLEAN /\ sought \in Track \cup {None}

Picture == [url : Urls, good : BOOLEAN]
Cache == [memory : Seq(Picture), pending : SUBSET Urls, disk : SUBSET Urls]

\* An address in memory is moved to the end, any other is added there.
LEMMA NewestIsBounded ==
  ASSUME NEW memory \in Seq(Picture), NEW url \in Urls, NEW good \in BOOLEAN
  PROVE  LET r == Newest(memory, url, good)
             there == \E i \in DOMAIN memory : memory[i].url = url
         IN  /\ r \in Seq(Picture)
             /\ Len(r) = Len(memory) + (IF there THEN 0 ELSE 1)
<1> DEFINE places == {i \in DOMAIN memory : memory[i].url = url}
           n == CHOOSE i \in places : TRUE
           rest == Without(memory, url)
<1>1. [url |-> url, good |-> good] \in Picture
  BY DEF Picture
<1>2. CASE places = {}
  <2>1. rest = memory
    BY <1>2 DEF Without
  <2> QED BY <1>1, <1>2, <2>1 DEF Newest
<1>3. CASE places # {}
  <2>1. n \in 1 .. Len(memory) /\ Len(memory) \in Nat
    BY <1>3
  <2>2. rest = RemoveAt(memory, n)
    BY <1>3 DEF Without
  <2> HIDE DEF n
  <2> DEFINE before == SubSeq(memory, 1, n - 1)
             after == SubSeq(memory, n + 1, Len(memory))
  <2>3. before \in Seq(Picture) /\ Len(before) = n - 1
    BY <2>1
  <2>4. after \in Seq(Picture) /\ Len(after) = Len(memory) - n
    BY <2>1
  <2>5. rest = before \o after
    BY <2>2 DEF RemoveAt
  <2> HIDE DEF before, after, rest
  <2>6. rest \in Seq(Picture) /\ Len(rest) = Len(before) + Len(after)
    BY <2>3, <2>4, <2>5, ConcatProperties, Zenon
  <2> QED BY <1>1, <1>3, <2>1, <2>3, <2>4, <2>6 DEF Newest, rest
<1> QED BY <1>2, <1>3

LEMMA StoresTypes ==
  ASSUME NEW a \in Cache, Len(a.memory) <= MaxArt, NEW url \in Urls, NEW good \in BOOLEAN
  PROVE  Stores(a, url, good).art \in Cache /\ Len(Stores(a, url, good).art.memory) <= MaxArt
<1> DEFINE memory == IF Len(a.memory) >= MaxArt THEN Tail(a.memory) ELSE a.memory
<1>1. memory \in Seq(Picture) /\ Len(memory) + 1 <= MaxArt
  BY ArtAssumption DEF Cache
<1>2. Stores(a, url, good).art = [a EXCEPT !.memory = Newest(memory, url, good)]
  BY DEF Stores, Announce
<1> HIDE DEF memory
<1>3. Newest(memory, url, good) \in Seq(Picture) /\ Len(Newest(memory, url, good)) <= MaxArt
  BY <1>1, ArtAssumption, NewestIsBounded
<1> QED BY <1>2, <1>3 DEF Cache

LEMMA RequestedTypes ==
  ASSUME NEW a \in Cache, Len(a.memory) <= MaxArt, NEW url \in Urls
  PROVE  Requested(a, url).art \in Cache /\ Len(Requested(a, url).art.memory) <= MaxArt
<1>1. CASE Has(a, url)
  <2> DEFINE good == Good(a, url)
             new == Newest(a.memory, url, good)
  <2>1. good \in BOOLEAN
    BY DEF Good, Cache
  <2>2. Requested(a, url).art = [a EXCEPT !.memory = new]
    BY <1>1 DEF Requested
  <2> HIDE DEF good
  <2>3. new \in Seq(Picture) /\ Len(new) = Len(a.memory)
    BY <1>1, <2>1, NewestIsBounded DEF Has, Cache
  <2> QED BY <2>2, <2>3 DEF Cache
<1>2. CASE ~Has(a, url) /\ url \in a.disk
  <2>1. Requested(a, url) = Stores(a, url, TRUE)
    BY <1>2 DEF Requested
  <2> QED BY <2>1, StoresTypes
<1>3. CASE ~Has(a, url) /\ url \notin a.disk
  <2>1. Requested(a, url).art = [a EXCEPT !.pending = @ \cup {url}]
    BY <1>3 DEF Requested
  <2> QED BY <2>1 DEF Cache
<1> QED BY <1>1, <1>2, <1>3

LEMMA FinishedTypes ==
  ASSUME NEW a \in Cache, Len(a.memory) <= MaxArt, NEW url \in Urls, NEW good \in BOOLEAN
  PROVE  Finished(a, url, good).art \in Cache /\ Len(Finished(a, url, good).art.memory) <= MaxArt
<1> DEFINE b == [a EXCEPT !.pending = @ \ {url}, !.disk = IF good THEN @ \cup {url} ELSE @]
<1>1. b \in Cache /\ b.memory = a.memory
  BY DEF Cache
<1>2. Finished(a, url, good) = Stores(b, url, good)
  BY DEF Finished
<1> HIDE DEF b
<1> QED BY <1>1, <1>2, StoresTypes

ArtTypes == art \in Cache /\ Len(art.memory) <= MaxArt

\* Whatever the client tells asks for one picture at most.
LEMMA TellsKeepsArt ==
  ASSUME ArtTypes, NEW o \in Osd, NEW r, Told(r.signals), Tells(o, r)
  PROVE  ArtTypes'
<1> DEFINE url == r.signals.art.value
<1>1. IF r.signals.art.emitted THEN art' = ArtChanged(r.client, o, url).art ELSE art' = art
  BY TellsContent
<1>2. CASE r.signals.art.emitted /\ url # None
  <2>1. art' = Requested(art, url).art
    BY <1>1, <1>2 DEF ArtChanged, Ready
  <2>2. url \in Urls
    BY <1>2 DEF Told
  <2> QED BY <2>1, <2>2, RequestedTypes DEF ArtTypes
<1>3. CASE ~r.signals.art.emitted \/ url = None
  <2>1. art' = art
    BY <1>1, <1>3 DEF ArtChanged
  <2> QED BY <2>1 DEF ArtTypes
<1> QED BY <1>2, <1>3

LEMMA StepKeepsArt ==
  ASSUME ShownInv, ArtTypes, Next
  PROVE  ArtTypes'
<1>1. FollowInv /\ osd \in Osd /\ cfg \in Settings
  BY DEF ShownInv, PanelInv, FollowInv
<1>2. CASE UNCHANGED art
  BY <1>2 DEF ArtTypes
<1>3. CASE Handles
  <2> DEFINE m == Head(inbox)
  <2>1. /\ m.player \in Player /\ (m.type = "props" => m.info \in Infos)
        /\ (m.type # "owner" => m.at \in Track \cup {None})
    BY <1>1, <1>3, HeadIsMessage DEF Handles, FollowInv
  <2>2. HearsOfPlayer(m) \/ Hears(m)
    BY <1>3 DEF Handles
  <2> HIDE DEF m
  <2>3. CASE HearsOfPlayer(m)
    BY <1>2, <2>3 DEF HearsOfPlayer
  <2>4. CASE Hears(m)
    <3>1. PICK r : Sound(client, r) /\ Tells(osd, r)
      BY <1>1, <2>1, <2>4, HearsTells
    <3> QED BY <1>1, <3>1, TellsKeepsArt DEF Sound
  <2> QED BY <2>2, <2>3, <2>4
<1>4. ASSUME NEW p \in Player \cup {None}, FocusChanges(p) PROVE ArtTypes'
  <2>1. PICK r : Sound(client, r) /\ Tells(osd, r)
    BY <1>1, <1>4, FocusTells
  <2> QED BY <1>1, <2>1, TellsKeepsArt DEF Sound
<1>5. ASSUME NEW o \in Osd, NEW new \in Settings, NEW tracked \in Seq(Player),
             Reloads(o, new, tracked)
      PROVE  ArtTypes'
  <2>1. PICK r : Sound(client, r) /\ Tells(ReloadStyles(o, new), r)
    BY <1>1, <1>5, ReloadsTells
  <2>2. ReloadStyles(o, new) \in Osd
    BY <1>5, TypeReloadStyles
  <2> QED BY <2>1, <2>2, TellsKeepsArt DEF Sound
<1>6. CASE DialogCloses
  <2>1. PICK new \in scene.settings, tracked \in Tracked :
          Reloads(HidePreview(osd, new), new, tracked)
    BY <1>6 DEF DialogCloses
  <2>2. new \in Settings /\ tracked \in Seq(Player)
    BY <1>1, <2>1, ScenesAreScenes, PanelAssumption DEF FollowInv, BusTypes
  <2>3. HidePreview(osd, new) \in Osd
    BY <1>1, TypeHidePreview
  <2> QED BY <1>5, <2>1, <2>2, <2>3
<1>7. CASE ProgressToggles
  <2>1. [cfg EXCEPT !.progress = ~@] \in Settings /\ client.tracked \in Seq(Player)
    BY <1>1 DEF FollowInv, Settings, Right, Client
  <2> QED BY <1>1, <1>5, <1>7, <2>1 DEF ProgressToggles
<1>8. ASSUME NEW url \in Urls, NEW good \in BOOLEAN, ArtArrives(url, good) PROVE ArtTypes'
  <2>1. art' = Finished(art, url, good).art
    BY <1>8 DEF ArtArrives, Ready
  <2> QED BY <2>1, FinishedTypes DEF ArtTypes
<1>9. CASE \/ Throttles \/ PollTimeout
           \/ \E p \in Player : PlayerStep(p) \/ PlayerSeeks(p)
           \/ VolumeChanges \/ MediaKey \/ HideTimesOut
           \/ MouseEnters \/ MouseLeaves
           \/ PressesEdge \/ PressesInterior \/ PressesBar \/ Releases \/ SeekInterrupted
           \/ LayoutKey \/ LayoutAction \/ DialogOpens \/ DialogPreviews
  <2>1. UNCHANGED art
    BY <1>9, Zenon DEF Throttles, PollTimeout, PlayerStep, PlayerSeeks, VolumeChanges,
       MediaKey, HideTimesOut, MouseEnters, MouseLeaves, PressesEdge, PressesInterior, PressesBar,
       Releases, SeekInterrupted, LayoutKey, LayoutAction, DialogOpens, DialogPreviews, Overlay,
       panelVars
  <2> QED BY <1>2, <2>1
<1> QED BY <1>3, <1>4, <1>6, <1>7, <1>8, <1>9 DEF Next

LEMMA StepKeepsUserTypes ==
  ASSUME UserTypes, ShownInv, Next
  PROVE  UserTypes'
<1>1. client.active # None => client.shown.track \in Track \cup {None}
  BY DEF ShownInv, PanelInv, FollowInv, Right, Client, Infos
<1>2. SetPosition(client) \in Track \cup {None}
  BY <1>1, ClientAssumption DEF SetPosition
<1>3. dialog' \in BOOLEAN
  BY Zenon DEF UserTypes, Next, Handles, Throttles, PollTimeout, ArtArrives, PlayerStep, PlayerSeeks,
       FocusChanges, VolumeChanges, MediaKey, HideTimesOut, MouseEnters, MouseLeaves, PressesEdge,
       PressesInterior, PressesBar, Releases, SeekInterrupted, LayoutKey, LayoutAction, DialogOpens,
       DialogPreviews, DialogCloses, ProgressToggles, Overlay, userVars
<1>4. posted' \in BOOLEAN
  BY Zenon DEF UserTypes, Next, Handles, Throttles, PollTimeout, ArtArrives, PlayerStep, PlayerSeeks,
       FocusChanges, VolumeChanges, MediaKey, HideTimesOut, MouseEnters, MouseLeaves, PressesEdge,
       PressesInterior, PressesBar, Releases, SeekInterrupted, LayoutKey, LayoutAction, DialogOpens,
       DialogPreviews, DialogCloses, ProgressToggles, Overlay, userVars
<1>5. sought' \in {None, sought, SetPosition(client)}
  BY Zenon DEF Next, Handles, Throttles, PollTimeout, ArtArrives, PlayerStep, PlayerSeeks,
       FocusChanges, VolumeChanges, MediaKey, HideTimesOut, MouseEnters, MouseLeaves, PressesEdge,
       PressesInterior, PressesBar, Releases, SeekInterrupted, LayoutKey, LayoutAction, DialogOpens,
       DialogPreviews, DialogCloses, ProgressToggles
<1> QED BY <1>2, <1>3, <1>4, <1>5 DEF UserTypes

\* What the players and the application have under way.
LEMMA PlayerKeepsWire ==
  ASSUME WireTypes, BusTypes, NEW p \in Player, PlayerStep(p) \/ PlayerSeeks(p)
  PROVE  WireTypes'
<1>1. MaxInbox \in Nat /\ inbox \in Seq(Message)
  BY BusAssumption DEF BusTypes
<1>2. ASSUME NEW m, Sends(m), Room PROVE Len(inbox') <= MaxInbox
  BY <1>1, <1>2 DEF Sends, Room
<1>3. /\ \/ inbox' = inbox
         \/ Room /\ \E m : Sends(m)
      /\ owned' \in {owned, owned \cup {p}, owned \ {p}}
      /\ \/ asked' = asked
         \/ asked' = [asked EXCEPT ![p] = <<>>]
         \/ asked' = [asked EXCEPT ![p] = Tail(@)] /\ asked[p] # <<>>
      /\ missed' \in {missed, missed \cup {p}}
  <2>1. CASE PlayerComes(p) /\ missed' = missed
    BY <2>1, Zenon DEF PlayerComes
  <2>2. CASE PlayerGoes(p) /\ missed' = missed
    BY <2>2, Zenon DEF PlayerGoes
  <2>3. CASE (\E s, t, b : PlayerChanges(p, client.known, s, t, b)) /\ missed' = missed
    BY <2>3, Zenon DEF PlayerChanges
  <2>4. CASE (\E type : PlayerTells(p, client.known, type)) /\ missed' = missed
    BY <2>4, Zenon DEF PlayerTells
  <2>5. CASE PlayerAnswers(p) /\ missed' = missed
    BY <2>5, Zenon DEF PlayerAnswers
  <2>6. CASE PlayerFails(p) /\ missed' \in {missed, missed \cup {p}}
    BY <2>6, Zenon DEF PlayerFails
  <2>7. CASE UNCHANGED busVars /\ missed' = missed
    BY <2>7, Zenon DEF busVars
  <2>8. PlayerSeeks(p) => (UNCHANGED busVars \/ \E type : PlayerTells(p, client.known, type)) /\ missed' = missed
    BY Zenon DEF PlayerSeeks
  <2>9. PlayerStep(p) => \/ PlayerComes(p) /\ missed' = missed
                         \/ PlayerGoes(p) /\ missed' = missed
                         \/ (\E s, t, b : PlayerChanges(p, client.known, s, t, b)) /\ missed' = missed
                         \/ (\E type : PlayerTells(p, client.known, type)) /\ missed' = missed
                         \/ PlayerAnswers(p) /\ missed' = missed
                         \/ PlayerFails(p) /\ missed' \in {missed, missed \cup {p}}
    BY Zenon DEF PlayerStep, PlayerActs
  <2> QED BY <2>1, <2>2, <2>3, <2>4, <2>5, <2>6, <2>7, <2>8, <2>9
<1>4. Len(inbox') <= MaxInbox
  BY <1>2, <1>3 DEF WireTypes
<1>5. asked' \in [Player -> Seq(Asked)]
  <2>1. asked[p] \in Seq(Asked) /\ <<>> \in Seq(Asked)
    BY DEF WireTypes
  <2>2. asked[p] # <<>> => Tail(asked[p]) \in Seq(Asked)
    BY <2>1
  <2> QED BY <1>3, <2>1, <2>2 DEF WireTypes
<1> QED BY <1>3, <1>4, <1>5 DEF WireTypes

LEMMA ClientKeepsWire ==
  ASSUME WireTypes, BusTypes, Handles \/ Throttles \/ PollTimeout
  PROVE  WireTypes'
<1>1. inbox \in Seq(Message) /\ MaxInbox \in Nat
  BY BusAssumption DEF BusTypes
<1>2. ASSUME inbox # <<>>, inbox' = Tail(inbox) PROVE Len(inbox') <= MaxInbox
  BY <1>1, <1>2 DEF WireTypes
<1>3. CASE Handles
  <2> DEFINE m == Head(inbox)
  <2>1. m.player \in Player /\ inbox # <<>> /\ inbox' = Tail(inbox) /\ owned' = owned
    BY <1>3, HeadIsMessage DEF Handles
  <2>2. HearsOfPlayer(m) \/ Hears(m)
    BY <1>3 DEF Handles
  <2> HIDE DEF m
  <2>3. asked' = asked \/ asked' = [asked EXCEPT ![m.player] = Append(@, "all")]
    BY <2>2, Zenon DEF HearsOfPlayer, Hears
  <2>4. missed' \in {missed, missed \ {m.player}}
    BY <2>2, Zenon DEF HearsOfPlayer, Hears
  <2>5. asked[m.player] \in Seq(Asked) /\ Append(asked[m.player], "all") \in Seq(Asked)
    BY <2>1 DEF WireTypes, Asked
  <2> QED BY <1>2, <2>1, <2>3, <2>4, <2>5 DEF WireTypes
<1>4. CASE Throttles
  BY <1>2, <1>4 DEF Throttles, WireTypes
<1>5. CASE PollTimeout
  <2> DEFINE p == client.active
  <2>1. p \in Player /\ asked' = [asked EXCEPT ![p] = Append(@, "position")]
        /\ UNCHANGED <<owned, inbox, missed>>
    BY <1>5 DEF PollTimeout, WireTypes
  <2> HIDE DEF p
  <2>2. asked[p] \in Seq(Asked) /\ Append(asked[p], "position") \in Seq(Asked)
    BY <2>1 DEF WireTypes, Asked
  <2> QED BY <2>1, <2>2 DEF WireTypes
<1> QED BY <1>3, <1>4, <1>5

LEMMA StepKeepsWireTypes ==
  ASSUME WireTypes, BusTypes, Next
  PROVE  WireTypes'
<1>1. ASSUME NEW p \in Player, PlayerStep(p) \/ PlayerSeeks(p) PROVE WireTypes'
  BY <1>1, PlayerKeepsWire
<1>2. CASE Handles \/ Throttles \/ PollTimeout
  BY <1>2, ClientKeepsWire
<1>3. CASE \/ \E url \in Urls, good \in BOOLEAN : ArtArrives(url, good)
           \/ \E p \in Player \cup {None} : FocusChanges(p)
           \/ VolumeChanges \/ MediaKey \/ HideTimesOut
           \/ MouseEnters \/ MouseLeaves
           \/ PressesEdge \/ PressesInterior \/ PressesBar \/ Releases \/ SeekInterrupted
           \/ LayoutKey \/ LayoutAction \/ DialogOpens \/ DialogPreviews
           \/ DialogCloses \/ ProgressToggles
  <2>1. UNCHANGED <<owned, asked, inbox, missed>>
    BY <1>3, Zenon DEF ArtArrives, FocusChanges, VolumeChanges,
       MediaKey, HideTimesOut, MouseEnters, MouseLeaves, PressesEdge, PressesInterior, PressesBar,
       Releases, SeekInterrupted, LayoutKey, LayoutAction, DialogOpens, DialogPreviews, DialogCloses,
       ProgressToggles, Overlay, busVars
  <2> QED BY <2>1 DEF WireTypes
<1> QED BY <1>1, <1>2, <1>3 DEF Next

TypeInv == ShownInv /\ WireTypes /\ UserTypes /\ ArtTypes

LEMMA TypeInit == Init => TypeInv
<1> SUFFICES ASSUME Init PROVE TypeInv
  OBVIOUS
<1>1. ShownInv
  BY ShownInit
<1>2. /\ owned = {} /\ missed = {} /\ asked = [p \in Player |-> <<>>] /\ inbox = <<>>
      /\ dialog = FALSE /\ posted = FALSE /\ sought = None /\ art = Art0
  BY DEF Init, BusInit
<1>3. WireTypes
  <2>1. Len(inbox) <= MaxInbox
    BY <1>2, BusAssumption
  <2>2. asked \in [Player -> Seq(Asked)]
    BY <1>2
  <2> QED BY <1>2, <2>1, <2>2 DEF WireTypes
<1>4. ArtTypes
  BY <1>2, ArtAssumption DEF ArtTypes, Art0, Cache
<1> QED BY <1>1, <1>2, <1>3, <1>4 DEF TypeInv, UserTypes

LEMMA TypeStep == TypeInv /\ [Next /\ UNCHANGED scene]_vars => TypeInv'
<1> SUFFICES ASSUME TypeInv, [Next /\ UNCHANGED scene]_vars PROVE TypeInv'
  OBVIOUS
<1>1. ShownInv' /\ ShownInv /\ BusTypes
  BY ShownStep DEF TypeInv, ShownInv, PanelInv, FollowInv
<1>2. CASE UNCHANGED vars
  BY <1>1, <1>2 DEF TypeInv, vars, busVars, panelVars, userVars, WireTypes, UserTypes, ArtTypes
<1>3. CASE Next
  BY <1>1, <1>3, StepKeepsArt, StepKeepsUserTypes, StepKeepsWireTypes DEF TypeInv
<1> QED BY <1>2, <1>3

LEMMA TypeAlways == Spec => []TypeInv
  BY TypeInit, TypeStep, PTL DEF Spec

\* The bus, the client, the overlay, the settings and the art cache stay well
\* formed, and the cache within its bound (AlbumArtCache::storeAndEmit).
THEOREM PanelTypeCorrect == Spec => []TypeOK
<1>1. TypeInv => TypeOK
  <2> SUFFICES ASSUME TypeInv PROVE TypeOK
    OBVIOUS
  <2>1. BusTypes /\ cfg \in Settings /\ client \in Client /\ osd \in Osd
    BY DEF TypeInv, ShownInv, PanelInv, FollowInv, Right
  <2>2. Messages \subseteq Message
    BY <2>1 DEF Messages, BusTypes
  <2>3. {art.memory[i].url : i \in DOMAIN art.memory} \cup art.pending \cup art.disk \subseteq Urls
    <3>1. art.memory \in Seq(Picture) /\ art.pending \subseteq Urls /\ art.disk \subseteq Urls
      BY DEF TypeInv, ArtTypes, Cache
    <3> DEFINE memory == art.memory
    <3>2. memory \in Seq(Picture)
      BY <3>1
    <3> HIDE DEF memory
    <3>3. \A i \in DOMAIN memory : memory[i] \in Picture
      BY <3>2
    <3>4. \A e \in Picture : e.url \in Urls
      BY DEF Picture
    <3> QED BY <3>1, <3>3, <3>4 DEF memory
  <2> QED BY <2>1, <2>2, <2>3 DEF TypeOK, TypeInv, BusTypes, WireTypes, UserTypes, ArtTypes, Asked
<1> QED BY <1>1, TypeAlways, PTL

-----------------------------------------------------------------------------
(* What is under way, and what it will make the client believe.            *)

\* What a message says of a player: nothing, or one value.
Presence(b) == IF b THEN "here" ELSE "gone"
SaysPresent(m, p) == IF m.type = "owner" /\ m.player = p THEN <<Presence(m.present)>> ELSE <<>>
SaysStatus(m, p) ==
    IF m.type = "props" /\ m.player = p /\ m.info.status # None THEN <<m.info.status>> ELSE <<>>
SaysTrack(m, p) ==
    IF m.type = "props" /\ m.player = p /\ m.info.track # None THEN <<m.info.track>> ELSE <<>>

\* Of something that was v, the first n of the sayings x leave w.
Leaves(x, v, n, w) ==
    /\ \A k \in 1 .. n : x[k] # <<>> /\ (\A j \in k + 1 .. n : x[j] = <<>>) => x[k] = <<w>>
    /\ (\A j \in 1 .. n : x[j] = <<>>) => v = w

Presences(p) == [i \in DOMAIN inbox |-> SaysPresent(inbox[i], p)]
Statuses(p) == [i \in DOMAIN inbox |-> SaysStatus(inbox[i], p)]
TracksSaid(p) == [i \in DOMAIN inbox |-> SaysTrack(inbox[i], p)]

\* A player comes and goes by turns; the last that is heard is so.
Comings(p) ==
    /\ Leaves(Presences(p), Presence(p \in client.known), Len(inbox), Presence(p \in owned))
    /\ \A i \in DOMAIN inbox :
          Presences(p)[i] # <<>> =>
             Leaves(Presences(p), Presence(p \in client.known), i - 1, Presence(~inbox[i].present))

\* It is there, has answered everything and will not go before the client has
\* caught up.
Answered(p) ==
    /\ p \in owned \ missed
    /\ \A i \in DOMAIN asked[p] : asked[p][i] # "all"
    /\ \A i \in DOMAIN inbox : Presences(p)[i] = <<>>

\* What the client will know of it is what it plays.
Truth(p) ==
    /\ Leaves(TracksSaid(p), client.info[p].track, Len(inbox), real[p].track)
    /\ Leaves(Statuses(p), client.info[p].status, Len(inbox), real[p].status)

\* A position arrives while the client believes its track, but for those from
\* before the answer to GetAll.
Full(m, p) == m.type = "props" /\ m.player = p /\ m.info.status # None /\ m.info.track # None
Placed(p) ==
    \A i \in DOMAIN inbox :
       /\ inbox[i].player = p /\ inbox[i].type # "owner" /\ inbox[i].at # None
       /\ \A j \in i + 1 .. Len(inbox) : ~Full(inbox[j], p)
       => Leaves(TracksSaid(p), client.info[p].track, i, inbox[i].at)

Wire(p) == Comings(p) /\ (Answered(p) => Truth(p) /\ Placed(p))
WireInv ==
    /\ \A p \in Player : Wire(p)
    /\ \A p \in scene.players : real[p].status # None

\* The first of the sayings is heard.
LEMMA LeavesTail ==
  ASSUME NEW x, NEW y, NEW n \in Nat \ {0}, NEW v, NEW u, NEW w,
         \A i \in 1 .. n - 1 : y[i] = x[i + 1],
         x[1] = <<>> => u = v,
         x[1] # <<>> => x[1] = <<u>>,
         Leaves(x, v, n, w)
  PROVE  Leaves(y, u, n - 1, w)
<1>1. ASSUME NEW k \in 1 .. n - 1, y[k] # <<>>, \A j \in k + 1 .. n - 1 : y[j] = <<>>
      PROVE  y[k] = <<w>>
  <2>1. k + 1 \in 1 .. n /\ x[k + 1] # <<>> /\ x[k + 1] = y[k]
    BY <1>1
  <2>2. ASSUME NEW j \in (k + 1) + 1 .. n PROVE x[j] = <<>>
    <3>1. j - 1 \in k + 1 .. n - 1 /\ j - 1 \in 1 .. n - 1 /\ (j - 1) + 1 = j
      BY <2>2
    <3> QED BY <1>1, <3>1
  <2> QED BY <2>1, <2>2 DEF Leaves
<1>2. ASSUME \A j \in 1 .. n - 1 : y[j] = <<>>
      PROVE  u = w
  <2>1. ASSUME NEW j \in 2 .. n PROVE x[j] = <<>>
    <3>1. j - 1 \in 1 .. n - 1 /\ (j - 1) + 1 = j
      BY <2>1
    <3> QED BY <1>2, <3>1
  <2>2. CASE x[1] = <<>>
    <3>1. \A j \in 1 .. n : x[j] = <<>>
      <4>1. \A j \in 1 .. n : j = 1 \/ j \in 2 .. n
        OBVIOUS
      <4> QED BY <2>1, <2>2, <4>1
    <3> QED BY <2>2, <3>1 DEF Leaves
  <2>3. CASE x[1] # <<>>
    <3>1. 1 \in 1 .. n /\ \A j \in 1 + 1 .. n : x[j] = <<>>
      BY <2>1
    <3>2. x[1] = <<w>> /\ x[1] = <<u>>
      BY <2>3, <3>1 DEF Leaves
    <3> QED BY <3>2
  <2> QED BY <2>2, <2>3
<1> QED BY <1>1, <1>2 DEF Leaves

\* Another thing is said.
LEMMA LeavesSame ==
  ASSUME NEW x, NEW y, NEW n \in Int, NEW v, NEW w, \A i \in 1 .. n : y[i] = x[i], Leaves(x, v, n, w)
  PROVE  Leaves(y, v, n, w)
<1>1. ASSUME NEW k \in 1 .. n, y[k] # <<>>, \A j \in k + 1 .. n : y[j] = <<>>
      PROVE  y[k] = <<w>>
  <2>1. \A j \in k + 1 .. n : j \in 1 .. n
    OBVIOUS
  <2> QED BY <1>1, <2>1 DEF Leaves
<1>2. (\A j \in 1 .. n : y[j] = <<>>) => v = w
  BY DEF Leaves
<1> QED BY <1>1, <1>2 DEF Leaves

LEMMA LeavesSilence ==
  ASSUME NEW x, NEW n \in Nat, NEW v, NEW w, x[n + 1] = <<>>, Leaves(x, v, n, w)
  PROVE  Leaves(x, v, n + 1, w)
<1>1. ASSUME NEW k \in 1 .. n + 1, x[k] # <<>>, \A j \in k + 1 .. n + 1 : x[j] = <<>>
      PROVE  x[k] = <<w>>
  <2>1. k \in 1 .. n /\ \A j \in k + 1 .. n : j \in k + 1 .. n + 1
    BY <1>1
  <2> QED BY <1>1, <2>1 DEF Leaves
<1>2. ASSUME \A j \in 1 .. n + 1 : x[j] = <<>>
      PROVE  v = w
  <2>1. \A j \in 1 .. n : j \in 1 .. n + 1
    OBVIOUS
  <2> QED BY <1>2, <2>1 DEF Leaves
<1> QED BY <1>1, <1>2 DEF Leaves

LEMMA LeavesLast ==
  ASSUME NEW x, NEW n \in Nat, NEW v, NEW w, x[n + 1] = <<w>>
  PROVE  Leaves(x, v, n + 1, w)
<1>1. <<w>> # <<>>
  OBVIOUS
<1>2. ASSUME NEW k \in 1 .. n + 1, x[k] # <<>>, \A j \in k + 1 .. n + 1 : x[j] = <<>>
      PROVE  x[k] = <<w>>
  <2>1. k = n + 1 \/ n + 1 \in k + 1 .. n + 1
    BY <1>2
  <2> QED BY <1>1, <1>2, <2>1
<1>3. n + 1 \in 1 .. n + 1
  OBVIOUS
<1> QED BY <1>1, <1>2, <1>3 DEF Leaves

-----------------------------------------------------------------------------
(* A player sends something, and something is heard of it.                 *)

LEMMA SaidAppend ==
  ASSUME inbox \in Seq(Message), NEW m \in Message, inbox' = Append(inbox, m), NEW p
  PROVE  LET n == Len(inbox)
         IN  /\ n \in Nat /\ Len(inbox') = n + 1
             /\ DOMAIN inbox = 1 .. n /\ DOMAIN inbox' = 1 .. n + 1
             /\ \A i \in 1 .. n : inbox'[i] = inbox[i]
             /\ inbox'[n + 1] = m
             /\ \A i \in 1 .. n : /\ Presences(p)'[i] = Presences(p)[i]
                                  /\ Statuses(p)'[i] = Statuses(p)[i]
                                  /\ TracksSaid(p)'[i] = TracksSaid(p)[i]
             /\ Presences(p)'[n + 1] = SaysPresent(m, p)
             /\ Statuses(p)'[n + 1] = SaysStatus(m, p)
             /\ TracksSaid(p)'[n + 1] = SaysTrack(m, p)
<1> DEFINE n == Len(inbox)
<1>1. /\ n \in Nat /\ Len(inbox') = n + 1
      /\ DOMAIN inbox = 1 .. n /\ DOMAIN inbox' = 1 .. n + 1
      /\ \A i \in 1 .. n : inbox'[i] = inbox[i]
      /\ inbox'[n + 1] = m
  OBVIOUS
<1> HIDE DEF n
<1>2. /\ \A i \in 1 .. n + 1 : Presences(p)'[i] = SaysPresent(inbox'[i], p)
      /\ \A i \in 1 .. n : Presences(p)[i] = SaysPresent(inbox[i], p)
  BY <1>1 DEF Presences
<1>3. /\ \A i \in 1 .. n + 1 : Statuses(p)'[i] = SaysStatus(inbox'[i], p)
      /\ \A i \in 1 .. n : Statuses(p)[i] = SaysStatus(inbox[i], p)
  BY <1>1 DEF Statuses
<1>4. /\ \A i \in 1 .. n + 1 : TracksSaid(p)'[i] = SaysTrack(inbox'[i], p)
      /\ \A i \in 1 .. n : TracksSaid(p)[i] = SaysTrack(inbox[i], p)
  BY <1>1 DEF TracksSaid
<1>5. n + 1 \in 1 .. n + 1 /\ \A i \in 1 .. n : i \in 1 .. n + 1
  BY <1>1
<1> QED BY <1>1, <1>2, <1>3, <1>4, <1>5 DEF n

\* Something that says nothing of a coming or going.
LEMMA ComingsAppend ==
  ASSUME inbox \in Seq(Message), NEW m \in Message, inbox' = Append(inbox, m), NEW p,
         Comings(p), SaysPresent(m, p) = <<>>,
         p \in client'.known <=> p \in client.known, p \in owned' <=> p \in owned
  PROVE  Comings(p)'
<1> DEFINE n == Len(inbox)
           x == Presences(p)
           y == Presences(p)'
           v == Presence(p \in client.known)
           w == Presence(p \in owned)
<1>1. /\ n \in Nat /\ Len(inbox') = n + 1 /\ DOMAIN inbox = 1 .. n /\ DOMAIN inbox' = 1 .. n + 1
      /\ \A i \in 1 .. n : inbox'[i] = inbox[i]
      /\ \A i \in 1 .. n : y[i] = x[i]
      /\ y[n + 1] = <<>>
  BY SaidAppend
<1>2. Presence(p \in client'.known) = v /\ Presence(p \in owned') = w
  BY DEF Presence
<1>3. /\ Leaves(x, v, n, w)
      /\ \A i \in 1 .. n : x[i] # <<>> => Leaves(x, v, i - 1, Presence(~inbox[i].present))
  BY <1>1 DEF Comings
<1> HIDE DEF n, x, y, v, w
<1>4. Leaves(y, v, n + 1, w)
  <2>1. Leaves(y, v, n, w)
    BY <1>1, <1>3, LeavesSame
  <2> QED BY <1>1, <2>1, LeavesSilence
<1>5. ASSUME NEW i \in 1 .. n + 1, y[i] # <<>>
      PROVE  Leaves(y, v, i - 1, Presence(~inbox'[i].present))
  <2>1. i \in 1 .. n
    BY <1>1, <1>5
  <2>2. /\ Leaves(x, v, i - 1, Presence(~inbox[i].present)) /\ inbox'[i] = inbox[i]
        /\ \A j \in 1 .. i - 1 : y[j] = x[j]
    BY <1>1, <1>3, <1>5, <2>1
  <2> QED BY <1>1, <2>1, <2>2, LeavesSame
<1> QED BY <1>1, <1>2, <1>4, <1>5 DEF Comings, y, v, w

\* What p sends says only what is true then; what others send nothing of it.
LEMMA NewsKeepsWire ==
  ASSUME inbox \in Seq(Message), NEW m \in Message, inbox' = Append(inbox, m), NEW p \in Player,
         Wire(p), client' = client, SaysPresent(m, p) = <<>>, p \in owned' <=> p \in owned,
         Answered(p)' => Answered(p) \/ Full(m, p),
         \/ SaysTrack(m, p) = <<real'[p].track>>
         \/ SaysTrack(m, p) = <<>> /\ real'[p].track = real[p].track,
         \/ SaysStatus(m, p) = <<real'[p].status>>
         \/ SaysStatus(m, p) = <<>> /\ real'[p].status = real[p].status,
         m.player = p => m.at \in {None, real'[p].track}
  PROVE  Wire(p)'
<1> DEFINE n == Len(inbox)
           x == TracksSaid(p)
           y == TracksSaid(p)'
           s == Statuses(p)
           t == Statuses(p)'
           known == client.info[p]
<1>1. /\ n \in Nat /\ Len(inbox') = n + 1 /\ DOMAIN inbox = 1 .. n /\ DOMAIN inbox' = 1 .. n + 1
      /\ \A i \in 1 .. n : inbox'[i] = inbox[i]
      /\ inbox'[n + 1] = m
      /\ \A i \in 1 .. n : y[i] = x[i] /\ t[i] = s[i]
      /\ y[n + 1] = SaysTrack(m, p) /\ t[n + 1] = SaysStatus(m, p)
  BY SaidAppend
<1>2. Comings(p)'
  BY ComingsAppend DEF Wire
<1>3. ASSUME Answered(p)' PROVE Truth(p)'
  <2>1. Answered(p) => Leaves(x, known.track, n, real[p].track) /\ Leaves(s, known.status, n, real[p].status)
    BY DEF Wire, Truth
  <2>2. Full(m, p) => SaysTrack(m, p) # <<>> /\ SaysStatus(m, p) # <<>>
    BY DEF Full, SaysTrack, SaysStatus
  <2> HIDE DEF n, x, y, s, t, known
  <2>3. Leaves(y, known.track, n + 1, real'[p].track)
    <3>1. CASE SaysTrack(m, p) = <<real'[p].track>>
      BY <1>1, <3>1, LeavesLast
    <3>2. CASE SaysTrack(m, p) = <<>> /\ real'[p].track = real[p].track
      <4>1. Leaves(x, known.track, n, real'[p].track)
        BY <1>3, <2>1, <2>2, <3>2
      <4>2. Leaves(y, known.track, n, real'[p].track)
        BY <1>1, <4>1, LeavesSame
      <4> QED BY <1>1, <3>2, <4>2, LeavesSilence
    <3> QED BY <3>1, <3>2
  <2>4. Leaves(t, known.status, n + 1, real'[p].status)
    <3>1. CASE SaysStatus(m, p) = <<real'[p].status>>
      BY <1>1, <3>1, LeavesLast
    <3>2. CASE SaysStatus(m, p) = <<>> /\ real'[p].status = real[p].status
      <4>1. Leaves(s, known.status, n, real'[p].status)
        BY <1>3, <2>1, <2>2, <3>2
      <4>2. Leaves(t, known.status, n, real'[p].status)
        BY <1>1, <4>1, LeavesSame
      <4> QED BY <1>1, <3>2, <4>2, LeavesSilence
    <3> QED BY <3>1, <3>2
  <2> QED BY <1>1, <2>3, <2>4 DEF Truth, y, t, known
<1>4. ASSUME Answered(p)' PROVE Placed(p)'
  <2> SUFFICES ASSUME NEW i \in DOMAIN inbox',
                      inbox'[i].player = p, inbox'[i].type # "owner", inbox'[i].at # None,
                      \A j \in i + 1 .. Len(inbox') : ~Full(inbox'[j], p)
               PROVE  Leaves(y, known.track, i, inbox'[i].at)
    BY DEF Placed
  <2>1. CASE i = n + 1
    <3>1. Leaves(y, known.track, n + 1, real'[p].track)
      BY <1>1, <1>3, <1>4 DEF Truth
    <3>2. inbox'[i].at = real'[p].track
      BY <1>1, <2>1
    <3> QED BY <2>1, <3>1, <3>2
  <2>2. CASE i \in 1 .. n
    <3>1. ~Full(m, p)
      <4>1. n + 1 \in i + 1 .. Len(inbox')
        BY <1>1, <2>2
      <4> QED BY <1>1, <4>1
    <3>2. \A j \in i + 1 .. n : ~Full(inbox[j], p)
      <4>1. \A j \in i + 1 .. n : j \in i + 1 .. Len(inbox') /\ j \in 1 .. n
        BY <1>1, <2>2
      <4> QED BY <1>1, <4>1
    <3>3. Leaves(x, known.track, i, inbox[i].at)
      BY <1>1, <1>4, <2>2, <3>1, <3>2 DEF Wire, Placed
    <3>4. \A j \in 1 .. i : y[j] = x[j]
      BY <1>1, <2>2
    <3> HIDE DEF x, y, known
    <3> QED BY <1>1, <2>2, <3>3, <3>4, LeavesSame
  <2> QED BY <1>1, <2>1, <2>2
<1> QED BY <1>2, <1>3, <1>4 DEF Wire

\* The player comes or goes.
LEMMA OwnerKeepsWire ==
  ASSUME inbox \in Seq(Message), NEW p \in Player, NEW here \in BOOLEAN,
         inbox' = Append(inbox, [type |-> "owner", player |-> p, present |-> here]),
         Wire(p), client' = client, p \in owned <=> ~here, p \in owned' <=> here
  PROVE  Wire(p)'
<1> DEFINE n == Len(inbox)
           m == [type |-> "owner", player |-> p, present |-> here]
           x == Presences(p)
           y == Presences(p)'
           v == Presence(p \in client.known)
<1>1. m \in Message /\ SaysPresent(m, p) = <<Presence(here)>> /\ m.present = here
  BY DEF Message, SaysPresent
<1> HIDE DEF m
<1>2. inbox' = Append(inbox, m)
  BY DEF m
<1>3. /\ n \in Nat /\ Len(inbox') = n + 1 /\ DOMAIN inbox = 1 .. n /\ DOMAIN inbox' = 1 .. n + 1
      /\ \A i \in 1 .. n : inbox'[i] = inbox[i]
      /\ inbox'[n + 1] = m
      /\ \A i \in 1 .. n : y[i] = x[i]
      /\ y[n + 1] = <<Presence(here)>>
  BY <1>1, <1>2, SaidAppend
<1>4. /\ Leaves(x, v, n, Presence(~here))
      /\ \A i \in 1 .. n : x[i] # <<>> => Leaves(x, v, i - 1, Presence(~inbox[i].present))
  <2>1. Presence(p \in owned) = Presence(~here)
    BY DEF Presence
  <2> QED BY <1>3, <2>1 DEF Wire, Comings
<1>5. Presence(p \in owned') = Presence(here) /\ Presence(p \in client'.known) = v
  BY DEF Presence
<1>6. ~Answered(p)'
  <2>1. n + 1 \in DOMAIN inbox' /\ Presences(p)'[n + 1] # <<>>
    BY <1>3
  <2> QED BY <2>1 DEF Answered
<1> HIDE DEF n, x, y, v
<1>7. Leaves(y, v, n + 1, Presence(here))
  BY <1>3, LeavesLast
<1>8. ASSUME NEW i \in 1 .. n + 1, y[i] # <<>>
      PROVE  Leaves(y, v, i - 1, Presence(~inbox'[i].present))
  <2>1. CASE i = n + 1
    <3>1. Leaves(y, v, n, Presence(~here)) /\ i - 1 = n /\ inbox'[i].present = here
      BY <1>1, <1>3, <1>4, <2>1, LeavesSame
    <3> QED BY <3>1
  <2>2. CASE i \in 1 .. n
    <3>1. /\ Leaves(x, v, i - 1, Presence(~inbox[i].present)) /\ inbox'[i] = inbox[i]
          /\ \A j \in 1 .. i - 1 : y[j] = x[j]
      BY <1>3, <1>4, <1>8, <2>2
    <3> QED BY <1>3, <2>2, <3>1, LeavesSame
  <2> QED BY <1>3, <2>1, <2>2
<1>9. Comings(p)'
  BY <1>3, <1>5, <1>7, <1>8 DEF Comings, y, v, n
<1> QED BY <1>6, <1>9 DEF Wire

\* Nothing is said or heard of it.
LEMMA SameKeepsWire ==
  ASSUME NEW p, Wire(p), inbox' = inbox,
         p \in client'.known <=> p \in client.known, p \in owned' <=> p \in owned,
         client'.info[p] = client.info[p],
         Answered(p)' => Answered(p) /\ real'[p] = real[p]
  PROVE  Wire(p)'
<1>1. /\ Presence(p \in client'.known) = Presence(p \in client.known)
      /\ Presence(p \in owned') = Presence(p \in owned)
  BY DEF Presence
<1>2. /\ Presences(p)' = Presences(p) /\ Statuses(p)' = Statuses(p)
      /\ TracksSaid(p)' = TracksSaid(p)
  BY DEF Presences, Statuses, TracksSaid
<1>3. Comings(p)'
  BY <1>1, <1>2 DEF Wire, Comings
<1>4. ASSUME Answered(p)' PROVE Truth(p)' /\ Placed(p)'
  <2>1. Truth(p) /\ Placed(p) /\ real'[p] = real[p]
    BY <1>4 DEF Wire
  <2> QED BY <1>2, <2>1 DEF Truth, Placed
<1> QED BY <1>3, <1>4 DEF Wire

\* The oldest message is taken.
LEMMA SaidTail ==
  ASSUME inbox \in Seq(Message), inbox # <<>>, inbox' = Tail(inbox), NEW p
  PROVE  LET n == Len(inbox)
         IN  /\ n \in Nat \ {0} /\ Len(inbox') = n - 1
             /\ DOMAIN inbox = 1 .. n /\ DOMAIN inbox' = 1 .. n - 1
             /\ \A i \in 1 .. n - 1 : inbox'[i] = inbox[i + 1]
             /\ \A i \in 1 .. n - 1 : /\ Presences(p)'[i] = Presences(p)[i + 1]
                                      /\ Statuses(p)'[i] = Statuses(p)[i + 1]
                                      /\ TracksSaid(p)'[i] = TracksSaid(p)[i + 1]
             /\ Presences(p)[1] = SaysPresent(Head(inbox), p)
             /\ Statuses(p)[1] = SaysStatus(Head(inbox), p)
             /\ TracksSaid(p)[1] = SaysTrack(Head(inbox), p)
<1> DEFINE n == Len(inbox)
<1>1. /\ n \in Nat \ {0} /\ Len(inbox') = n - 1
      /\ DOMAIN inbox = 1 .. n /\ DOMAIN inbox' = 1 .. n - 1
      /\ \A i \in 1 .. n - 1 : inbox'[i] = inbox[i + 1]
      /\ Head(inbox) = inbox[1]
  OBVIOUS
<1> HIDE DEF n
<1>2. /\ \A i \in 1 .. n - 1 : Presences(p)'[i] = SaysPresent(inbox'[i], p)
      /\ \A i \in 1 .. n : Presences(p)[i] = SaysPresent(inbox[i], p)
  BY <1>1 DEF Presences
<1>3. /\ \A i \in 1 .. n - 1 : Statuses(p)'[i] = SaysStatus(inbox'[i], p)
      /\ \A i \in 1 .. n : Statuses(p)[i] = SaysStatus(inbox[i], p)
  BY <1>1 DEF Statuses
<1>4. /\ \A i \in 1 .. n - 1 : TracksSaid(p)'[i] = SaysTrack(inbox'[i], p)
      /\ \A i \in 1 .. n : TracksSaid(p)[i] = SaysTrack(inbox[i], p)
  BY <1>1 DEF TracksSaid
<1>5. 1 \in 1 .. n /\ \A i \in 1 .. n - 1 : i + 1 \in 1 .. n
  BY <1>1
<1>6. \A i \in 1 .. n - 1 : /\ Presences(p)'[i] = Presences(p)[i + 1]
                            /\ Statuses(p)'[i] = Statuses(p)[i + 1]
                            /\ TracksSaid(p)'[i] = TracksSaid(p)[i + 1]
  BY <1>1, <1>2, <1>3, <1>4, <1>5
<1>7. /\ Presences(p)[1] = SaysPresent(Head(inbox), p)
      /\ Statuses(p)[1] = SaysStatus(Head(inbox), p)
      /\ TracksSaid(p)[1] = SaysTrack(Head(inbox), p)
  BY <1>1, <1>2, <1>3, <1>4, <1>5
<1> QED BY <1>1, <1>6, <1>7 DEF n

LEMMA ComingsTail ==
  ASSUME inbox \in Seq(Message), inbox # <<>>, inbox' = Tail(inbox), NEW p, Comings(p),
         p \in owned' <=> p \in owned,
         IF SaysPresent(Head(inbox), p) = <<>> THEN p \in client'.known <=> p \in client.known
         ELSE SaysPresent(Head(inbox), p) = <<Presence(p \in client'.known)>>
  PROVE  Comings(p)'
<1> DEFINE n == Len(inbox)
           x == Presences(p)
           y == Presences(p)'
           v == Presence(p \in client.known)
           u == Presence(p \in client'.known)
           w == Presence(p \in owned)
<1>1. /\ n \in Nat \ {0} /\ Len(inbox') = n - 1 /\ DOMAIN inbox = 1 .. n /\ DOMAIN inbox' = 1 .. n - 1
      /\ \A i \in 1 .. n - 1 : inbox'[i] = inbox[i + 1]
      /\ \A i \in 1 .. n - 1 : y[i] = x[i + 1]
      /\ x[1] = SaysPresent(Head(inbox), p)
  BY SaidTail
<1>2. Presence(p \in owned') = w
  BY DEF Presence
<1>3. /\ x[1] = <<>> => u = v
      /\ x[1] # <<>> => x[1] = <<u>>
  <2>1. (p \in client'.known <=> p \in client.known) => u = v
    BY DEF Presence
  <2> QED BY <1>1, <2>1
<1>4. /\ Leaves(x, v, n, w)
      /\ \A i \in 1 .. n : x[i] # <<>> => Leaves(x, v, i - 1, Presence(~inbox[i].present))
  BY <1>1 DEF Comings
<1> HIDE DEF n, x, y, v, u, w
<1>5. Leaves(y, u, n - 1, w)
  BY <1>1, <1>3, <1>4, LeavesTail
<1>6. ASSUME NEW i \in 1 .. n - 1, y[i] # <<>>
      PROVE  Leaves(y, u, i - 1, Presence(~inbox'[i].present))
  <2>1. i \in Nat \ {0} /\ i + 1 \in 1 .. n /\ (i + 1) - 1 = i /\ \A j \in 1 .. i - 1 : j \in 1 .. n - 1
    BY <1>1
  <2>2. Leaves(x, v, i, Presence(~inbox[i + 1].present)) /\ inbox'[i] = inbox[i + 1]
    BY <1>1, <1>4, <1>6, <2>1
  <2>3. \A j \in 1 .. i - 1 : y[j] = x[j + 1]
    BY <1>1, <2>1
  <2>4. Leaves(y, u, i - 1, Presence(~inbox[i + 1].present))
    BY <1>3, <2>1, <2>2, <2>3, LeavesTail
  <2> QED BY <2>2, <2>4
<1> QED BY <1>1, <1>2, <1>5, <1>6 DEF Comings, y, u, w

LEMMA HeadKeepsWire ==
  ASSUME inbox \in Seq(Message), inbox # <<>>, inbox' = Tail(inbox), NEW p \in Player, Wire(p),
         p \in owned' <=> p \in owned, real' = real,
         SaysPresent(Head(inbox), p) = <<>>, p \in client'.known <=> p \in client.known,
         Answered(p)' =>
            /\ Answered(p)
            /\ IF SaysTrack(Head(inbox), p) = <<>> THEN client'.info[p].track = client.info[p].track
               ELSE SaysTrack(Head(inbox), p) = <<client'.info[p].track>>
            /\ IF SaysStatus(Head(inbox), p) = <<>> THEN client'.info[p].status = client.info[p].status
               ELSE SaysStatus(Head(inbox), p) = <<client'.info[p].status>>
  PROVE  Wire(p)'
<1> DEFINE n == Len(inbox)
           x == TracksSaid(p)
           y == TracksSaid(p)'
           s == Statuses(p)
           t == Statuses(p)'
           old == client.info[p]
           new == client'.info[p]
<1>1. /\ n \in Nat \ {0} /\ Len(inbox') = n - 1 /\ DOMAIN inbox = 1 .. n /\ DOMAIN inbox' = 1 .. n - 1
      /\ \A i \in 1 .. n - 1 : inbox'[i] = inbox[i + 1]
      /\ \A i \in 1 .. n - 1 : y[i] = x[i + 1] /\ t[i] = s[i + 1]
      /\ x[1] = SaysTrack(Head(inbox), p) /\ s[1] = SaysStatus(Head(inbox), p)
  BY SaidTail
<1>2. Comings(p)'
  BY ComingsTail DEF Wire
<1>3. SUFFICES ASSUME Answered(p)' PROVE Truth(p)' /\ Placed(p)'
  BY <1>2 DEF Wire
<1>4. /\ Leaves(x, old.track, n, real[p].track) /\ Leaves(s, old.status, n, real[p].status)
      /\ Placed(p)
  BY <1>3 DEF Wire, Truth
<1>5. /\ x[1] = <<>> => new.track = old.track
      /\ x[1] # <<>> => x[1] = <<new.track>>
      /\ s[1] = <<>> => new.status = old.status
      /\ s[1] # <<>> => s[1] = <<new.status>>
  BY <1>1, <1>3
<1>6. Truth(p)'
  <2> HIDE DEF n, x, y, s, t, old, new
  <2>1. Leaves(y, new.track, n - 1, real[p].track)
    BY <1>1, <1>4, <1>5, LeavesTail
  <2>2. Leaves(t, new.status, n - 1, real[p].status)
    BY <1>1, <1>4, <1>5, LeavesTail
  <2> QED BY <1>1, <2>1, <2>2 DEF Truth, y, t, new
<1>7. Placed(p)'
  <2> SUFFICES ASSUME NEW i \in DOMAIN inbox',
                      inbox'[i].player = p, inbox'[i].type # "owner", inbox'[i].at # None,
                      \A j \in i + 1 .. Len(inbox') : ~Full(inbox'[j], p)
               PROVE  Leaves(y, new.track, i, inbox'[i].at)
    BY DEF Placed
  <2>1. i + 1 \in 1 .. n /\ i + 1 \in Nat \ {0} /\ (i + 1) - 1 = i /\ inbox'[i] = inbox[i + 1]
    BY <1>1
  <2>2. ASSUME NEW j \in (i + 1) + 1 .. n PROVE ~Full(inbox[j], p)
    <3>1. j - 1 \in i + 1 .. Len(inbox') /\ j - 1 \in 1 .. n - 1 /\ (j - 1) + 1 = j
      BY <1>1, <2>1, <2>2
    <3>2. inbox'[j - 1] = inbox[j]
      BY <1>1, <3>1
    <3> QED BY <3>1, <3>2
  <2>3. Leaves(x, old.track, i + 1, inbox[i + 1].at)
    BY <1>1, <1>4, <2>1, <2>2 DEF Placed
  <2>4. \A j \in 1 .. (i + 1) - 1 : y[j] = x[j + 1]
    BY <1>1, <2>1
  <2> HIDE DEF n, x, y, old, new
  <2>5. Leaves(y, new.track, (i + 1) - 1, inbox[i + 1].at)
    BY <1>5, <2>1, <2>3, <2>4, LeavesTail
  <2> QED BY <2>1, <2>5
<1> QED BY <1>6, <1>7

-----------------------------------------------------------------------------
(* Every step keeps what is under way in order.                            *)

\* Who has answered and will stay is known.
LEMMA AnsweredIsKnown ==
  ASSUME inbox \in Seq(Message), NEW p, Comings(p), Answered(p)
  PROVE  p \in client.known
<1>1. \A i \in 1 .. Len(inbox) : Presences(p)[i] = <<>>
  BY DEF Answered
<1>2. Presence(p \in client.known) = Presence(p \in owned) /\ p \in owned
  BY <1>1 DEF Comings, Leaves, Answered
<1> QED BY <1>2 DEF Presence

\* Nobody owes less than before.
Owes(p) == p \in missed \/ \E i \in DOMAIN asked[p] : asked[p][i] = "all"

LEMMA AnsweredSame ==
  ASSUME NEW p, inbox' = inbox, p \in owned' => p \in owned, Owes(p) => Owes(p)', Answered(p)'
  PROVE  Answered(p)
<1>1. Presences(p)' = Presences(p)
  BY DEF Presences
<1> QED BY <1>1 DEF Answered, Owes

LEMMA AnsweredAppend ==
  ASSUME inbox \in Seq(Message), NEW m \in Message, inbox' = Append(inbox, m), NEW p,
         p \in owned' => p \in owned, Owes(p) => Owes(p)', Answered(p)'
  PROVE  Answered(p)
<1>1. \A i \in DOMAIN inbox : i \in DOMAIN inbox' /\ Presences(p)'[i] = Presences(p)[i]
  <2>1. /\ DOMAIN inbox = 1 .. Len(inbox) /\ DOMAIN inbox' = 1 .. Len(inbox) + 1
        /\ \A i \in 1 .. Len(inbox) : Presences(p)'[i] = Presences(p)[i]
        /\ Len(inbox) \in Nat
    BY SaidAppend
  <2> QED BY <2>1
<1> QED BY <1>1 DEF Answered, Owes

LEMMA AnsweredTail ==
  ASSUME inbox \in Seq(Message), inbox # <<>>, inbox' = Tail(inbox), NEW p,
         SaysPresent(Head(inbox), p) = <<>>,
         p \in owned' => p \in owned, Owes(p) => Owes(p)', Answered(p)'
  PROVE  Answered(p)
<1>1. /\ DOMAIN inbox = 1 .. Len(inbox) /\ DOMAIN inbox' = 1 .. Len(inbox) - 1
      /\ Len(inbox) \in Nat \ {0}
      /\ \A i \in 1 .. Len(inbox) - 1 : Presences(p)'[i] = Presences(p)[i + 1]
      /\ Presences(p)[1] = <<>>
  BY SaidTail
<1>2. ASSUME NEW i \in DOMAIN inbox PROVE Presences(p)[i] = <<>>
  <2>1. CASE i = 1
    BY <1>1, <2>1
  <2>2. CASE i # 1
    <3>1. i - 1 \in DOMAIN inbox' /\ (i - 1) + 1 = i
      BY <1>1, <2>2
    <3> QED BY <1>1, <3>1 DEF Answered
  <2> QED BY <2>1, <2>2
<1> QED BY <1>2 DEF Answered, Owes

\* A position answered, or asked for.
LEMMA OwesAfterAnswer ==
  ASSUME NEW p, asked[p] \in Seq(Asked), asked[p] # <<>>, asked'[p] = Tail(asked[p]),
         Head(asked[p]) # "all", p \in missed => p \in missed', Owes(p)
  PROVE  Owes(p)'
<1>1. CASE p \in missed
  BY <1>1 DEF Owes
<1>2. CASE \E i \in DOMAIN asked[p] : asked[p][i] = "all"
  <2>1. PICK i \in DOMAIN asked[p] : asked[p][i] = "all"
    BY <1>2
  <2>2. i - 1 \in DOMAIN asked'[p] /\ asked'[p][i - 1] = asked[p][i]
    BY <2>1
  <2> QED BY <2>1, <2>2 DEF Owes
<1> QED BY <1>1, <1>2 DEF Owes

LEMMA OwesWhenAsked ==
  ASSUME NEW p, asked[p] \in Seq(Asked), NEW what \in Asked, asked'[p] = Append(asked[p], what),
         p \in missed => p \in missed'
  PROVE  /\ Owes(p) => Owes(p)'
         /\ what = "all" => Owes(p)'
<1>1. /\ \A i \in DOMAIN asked[p] : i \in DOMAIN asked'[p] /\ asked'[p][i] = asked[p][i]
      /\ Len(asked[p]) + 1 \in DOMAIN asked'[p] /\ asked'[p][Len(asked[p]) + 1] = what
  OBVIOUS
<1> QED BY <1>1 DEF Owes

\* What another player sends.
LEMMA OthersNewsKeepsWire ==
  ASSUME inbox \in Seq(Message), NEW m \in Message, inbox' = Append(inbox, m), NEW p \in Player,
         Wire(p), client' = client, m.player # p, p \in owned' <=> p \in owned,
         Owes(p) => Owes(p)', real'[p] = real[p]
  PROVE  Wire(p)'
<1>1. SaysPresent(m, p) = <<>> /\ SaysTrack(m, p) = <<>> /\ SaysStatus(m, p) = <<>>
  BY DEF SaysPresent, SaysTrack, SaysStatus
<1>2. Answered(p)' => Answered(p)
  BY AnsweredAppend
<1> QED BY <1>1, <1>2, NewsKeepsWire

LEMMA ComingKeepsWire ==
  ASSUME BusTypes, WireTypes, client' = client, missed' = missed, NEW q \in Player, NEW p \in Player,
         Wire(p), PlayerComes(q) \/ PlayerGoes(q)
  PROVE  Wire(p)'
<1>1. PICK here \in BOOLEAN :
         /\ inbox' = Append(inbox, [type |-> "owner", player |-> q, present |-> here])
         /\ q \in owned <=> ~here
         /\ owned' = IF here THEN owned \cup {q} ELSE owned \ {q}
         /\ real' = real
         /\ asked' = IF here THEN asked ELSE [asked EXCEPT ![q] = <<>>]
  <2>1. CASE PlayerComes(q)
    <3> WITNESS TRUE \in BOOLEAN
    <3> QED BY <2>1 DEF PlayerComes, Sends
  <2>2. CASE PlayerGoes(q)
    <3> WITNESS FALSE \in BOOLEAN
    <3> QED BY <2>2 DEF PlayerGoes, Sends
  <2> QED BY <2>1, <2>2
<1>2. inbox \in Seq(Message)
  BY DEF BusTypes
<1>3. CASE p = q
  <2>1. p \in owned <=> ~here
    BY <1>1, <1>3
  <2>2. p \in owned' <=> here
    BY <1>1, <1>3
  <2> QED BY <1>1, <1>2, <1>3, <2>1, <2>2, OwnerKeepsWire
<1>4. CASE p # q
  <2> DEFINE m == [type |-> "owner", player |-> q, present |-> here]
  <2>1. m \in Message /\ m.player # p
    BY <1>4 DEF Message
  <2>2. (p \in owned' <=> p \in owned) /\ asked'[p] = asked[p]
    BY <1>1, <1>4 DEF WireTypes
  <2>3. Owes(p) => Owes(p)'
    BY <2>2 DEF Owes
  <2> HIDE DEF m
  <2> QED BY <1>1, <1>2, <2>1, <2>2, <2>3, OthersNewsKeepsWire DEF m
<1> QED BY <1>3, <1>4

LEMMA ChangingKeepsWire ==
  ASSUME BusTypes, WireTypes, client' = client, missed' = missed, NEW q \in Player, NEW p \in Player,
         Wire(p), real[q].status # None, NEW s \in Status \cup {None}, s # None, NEW t \in Track,
         NEW b \in BOOLEAN, PlayerChanges(q, client.known, s, t, b)
  PROVE  Wire(p)'
<1> DEFINE i == [status |-> IF s # real[q].status THEN s ELSE None,
                 track |-> IF t # real[q].track THEN t ELSE None]
           m == [type |-> "props", player |-> q, info |-> i, at |-> IF b THEN t ELSE None]
<1>1. i \in Infos /\ m.player = q /\ m.type = "props" /\ m.info = i /\ m.at \in {None, t}
  BY DEF Infos
<1>2. m \in Message
  <2>1. m.at \in Track \cup {None}
    BY <1>1
  <2> HIDE DEF i
  <2> QED BY <1>1, <2>1 DEF Message
<1>3. real' = [real EXCEPT ![q] = [status |-> s, track |-> t]] /\ owned' = owned /\ asked' = asked
  BY DEF PlayerChanges
<1>4. IF q \in client.known THEN inbox' = Append(inbox, m) ELSE inbox' = inbox
  BY DEF PlayerChanges, Sends
<1>5. inbox \in Seq(Message) /\ real \in [Player -> Infos]
  BY DEF BusTypes
<1>6. Owes(p) => Owes(p)'
  BY <1>3 DEF Owes
<1>7. CASE q \in client.known /\ p # q
  <2>1. real'[p] = real[p] /\ m.player # p
    BY <1>1, <1>3, <1>5, <1>7
  <2> HIDE DEF m
  <2> QED BY <1>2, <1>3, <1>4, <1>5, <1>6, <1>7, <2>1, OthersNewsKeepsWire
<1>8. CASE q \in client.known /\ p = q
  <2>1. real'[p] = [status |-> s, track |-> t]
    BY <1>3, <1>5, <1>8
  <2>2. \/ SaysTrack(m, p) = <<t>>
        \/ SaysTrack(m, p) = <<>> /\ t = real[p].track
    BY <1>1, <1>8, BusAssumption DEF SaysTrack
  <2>3. \/ SaysStatus(m, p) = <<s>>
        \/ SaysStatus(m, p) = <<>> /\ s = real[p].status
    BY <1>1, <1>8 DEF SaysStatus
  <2>4. SaysPresent(m, p) = <<>>
    BY <1>1 DEF SaysPresent
  <2>5. m.at \in {None, real'[p].track}
    BY <1>1, <2>1
  <2> HIDE DEF m, i
  <2>6. Answered(p)' => Answered(p)
    BY <1>2, <1>3, <1>4, <1>5, <1>6, <1>8, AnsweredAppend
  <2>7. \/ SaysTrack(m, p) = <<real'[p].track>>
        \/ SaysTrack(m, p) = <<>> /\ real'[p].track = real[p].track
    BY <2>1, <2>2
  <2>8. \/ SaysStatus(m, p) = <<real'[p].status>>
        \/ SaysStatus(m, p) = <<>> /\ real'[p].status = real[p].status
    BY <2>1, <2>3
  <2>9. inbox' = Append(inbox, m) /\ (p \in owned' <=> p \in owned)
    BY <1>3, <1>4, <1>8
  <2> QED BY <1>2, <1>5, <2>4, <2>5, <2>6, <2>7, <2>8, <2>9, NewsKeepsWire
<1>9. CASE q \notin client.known
  <2>1. inbox' = inbox /\ owned' = owned
    BY <1>3, <1>4, <1>9
  <2>2. Answered(p)' => Answered(p)
    BY <1>6, <2>1, AnsweredSame
  <2>3. Answered(p) => p # q
    BY <1>5, <1>9, AnsweredIsKnown DEF Wire
  <2>4. p # q => real'[p] = real[p]
    BY <1>3, <1>5
  <2> QED BY <2>1, <2>2, <2>3, <2>4, SameKeepsWire
<1> QED BY <1>7, <1>8, <1>9

\* A message about a position, pushed, sought or answered.
LEMMA PositionKeepsWire ==
  ASSUME BusTypes, client' = client, NEW q \in Player, NEW p \in Player, Wire(p),
         real[q].track # None, NEW type \in {"pushed", "polled", "seeked"},
         Sends([type |-> type, player |-> q, at |-> real[q].track]),
         real' = real, owned' = owned, Owes(p) => Owes(p)'
  PROVE  Wire(p)'
<1> DEFINE m == [type |-> type, player |-> q, at |-> real[q].track]
<1>1. m \in Message /\ m.type \notin {"owner", "props"} /\ m.player = q /\ m.at = real[q].track
  BY DEF Message, Infos, BusTypes
<1>2. inbox' = Append(inbox, m) /\ inbox \in Seq(Message)
  BY DEF Sends, BusTypes
<1> HIDE DEF m
<1>3. /\ SaysPresent(m, p) = <<>> /\ SaysTrack(m, p) = <<>> /\ SaysStatus(m, p) = <<>>
  BY <1>1 DEF SaysPresent, SaysTrack, SaysStatus
<1>4. m.player = p => m.at \in {None, real'[p].track}
  BY <1>1
<1>5. Answered(p)' => Answered(p)
  BY <1>1, <1>2, AnsweredAppend
<1> QED BY <1>1, <1>2, <1>3, <1>4, <1>5, NewsKeepsWire

LEMMA AnsweringKeepsWire ==
  ASSUME BusTypes, WireTypes, client' = client, missed' = missed, NEW q \in Player, NEW p \in Player,
         Wire(p), real[q].status # None, real[q].track # None, PlayerAnswers(q)
  PROVE  Wire(p)'
<1>1. /\ asked[q] \in Seq(Asked) /\ asked[q] # <<>> /\ asked' = [asked EXCEPT ![q] = Tail(@)]
      /\ asked \in [Player -> Seq(Asked)]
      /\ real' = real /\ owned' = owned
      /\ inbox \in Seq(Message)
  BY DEF PlayerAnswers, WireTypes, BusTypes
<1>2. asked'[q] = Tail(asked[q]) /\ (p # q => asked'[p] = asked[p])
  BY <1>1
<1>3. p # q => (Owes(p) => Owes(p)')
  BY <1>2 DEF Owes
<1>4. CASE Head(asked[q]) = "all"
  <2> DEFINE m == [type |-> "props", player |-> q, info |-> real[q], at |-> real[q].track]
  <2>1. /\ m \in Message /\ m.type = "props" /\ m.player = q
        /\ m.info = real[q] /\ m.at = real[q].track
    BY DEF Message, BusTypes, Infos
  <2>2. inbox' = Append(inbox, m)
    BY <1>4 DEF PlayerAnswers, Sends
  <2> HIDE DEF m
  <2>3. CASE p # q
    BY <1>1, <1>3, <2>1, <2>2, <2>3, OthersNewsKeepsWire
  <2>4. CASE p = q
    <3>1. Full(m, p)
      BY <2>1, <2>4 DEF Full
    <3>2. SaysTrack(m, p) = <<real'[p].track>> /\ SaysStatus(m, p) = <<real'[p].status>>
      BY <1>1, <2>1, <2>4 DEF SaysTrack, SaysStatus
    <3>3. SaysPresent(m, p) = <<>>
      BY <2>1 DEF SaysPresent
    <3>4. m.at \in {None, real'[p].track}
      BY <1>1, <2>1, <2>4
    <3> QED BY <1>1, <2>1, <2>2, <3>1, <3>2, <3>3, <3>4, NewsKeepsWire
  <2> QED BY <2>3, <2>4
<1>5. CASE Head(asked[q]) # "all"
  <2>1. Sends([type |-> "polled", player |-> q, at |-> real[q].track])
    BY <1>5 DEF PlayerAnswers
  <2>2. p = q => (Owes(p) => Owes(p)')
    BY <1>1, <1>2, <1>5, OwesAfterAnswer
  <2> QED BY <1>1, <1>3, <2>1, <2>2, PositionKeepsWire
<1> QED BY <1>4, <1>5

LEMMA FailingKeepsWire ==
  ASSUME BusTypes, WireTypes, client' = client, NEW q \in Player, NEW p \in Player, Wire(p),
         PlayerFails(q), missed' = IF Head(asked[q]) = "all" THEN missed \cup {q} ELSE missed
  PROVE  Wire(p)'
<1>1. /\ asked[q] \in Seq(Asked) /\ asked[q] # <<>> /\ asked' = [asked EXCEPT ![q] = Tail(@)]
      /\ asked \in [Player -> Seq(Asked)]
      /\ UNCHANGED <<owned, real, inbox>>
  BY DEF PlayerFails, WireTypes
<1>2. asked'[q] = Tail(asked[q]) /\ (p # q => asked'[p] = asked[p]) /\ (p \in missed => p \in missed')
  BY <1>1
<1>3. Owes(p) => Owes(p)'
  <2>1. CASE p # q
    BY <1>2, <2>1 DEF Owes
  <2>2. CASE p = q /\ Head(asked[q]) = "all"
    BY <2>2 DEF Owes
  <2>3. CASE p = q /\ Head(asked[q]) # "all"
    BY <1>1, <1>2, <2>3, OwesAfterAnswer
  <2> QED BY <2>1, <2>2, <2>3
<1>4. Answered(p)' => Answered(p)
  BY <1>1, <1>3, AnsweredSame
<1> QED BY <1>1, <1>4, SameKeepsWire

Plays == \A p \in scene.players : real[p].status # None

LEMMA PlayersKeepWire ==
  ASSUME BusTypes, WireTypes, WireInv, scene' = scene, NEW q \in Player, PlayerStep(q) \/ PlayerSeeks(q)
  PROVE  WireInv'
<1>1. /\ client' = client
      /\ \A p \in Player : Wire(p)
      /\ Plays
      /\ scene.players \subseteq Player
  BY ScenesAreScenes, Zenon DEF PlayerStep, PlayerSeeks, panelVars, WireInv, Plays, BusTypes
<1>2. ASSUME real' = real, \A p \in Player : Wire(p)' PROVE WireInv'
  BY <1>1, <1>2 DEF WireInv, Plays
<1>3. CASE PlayerSeeks(q)
  <2>1. missed' = missed /\ (UNCHANGED busVars \/ (real[q].track = sought /\ sought # None /\ PlayerTells(q, client.known, "seeked")))
    BY <1>3, Zenon DEF PlayerSeeks
  <2>2. CASE UNCHANGED busVars
    <3>1. UNCHANGED <<inbox, owned, real, asked>>
      BY <2>2 DEF busVars
    <3>2. ASSUME NEW p \in Player PROVE Wire(p)'
      <4>1. Answered(p)' => Answered(p)
        BY <2>1, <3>1, AnsweredSame DEF Owes
      <4> QED BY <1>1, <3>1, <4>1, SameKeepsWire
    <3> QED BY <1>2, <3>1, <3>2
  <2>3. CASE real[q].track = sought /\ sought # None /\ PlayerTells(q, client.known, "seeked")
    <3>1. ASSUME NEW p \in Player PROVE Wire(p)'
      BY <1>1, <2>1, <2>3, PositionKeepsWire DEF PlayerTells, Owes
    <3> QED BY <1>2, <2>3, <3>1 DEF PlayerTells
  <2> QED BY <2>1, <2>2, <2>3
<1>4. CASE PlayerStep(q)
  <2>1. q \in scene.players /\ real[q].track \in Track /\ real[q].status \in Status
    BY <1>1, <1>4 DEF PlayerStep, BusTypes, Infos, Plays
  <2>2. real[q].track # None /\ real[q].status # None
    BY <2>1, BusAssumption
  <2>3. CASE (PlayerComes(q) \/ PlayerGoes(q)) /\ missed' = missed
    <3>1. real' = real
      BY <2>3 DEF PlayerComes, PlayerGoes
    <3>2. ASSUME NEW p \in Player PROVE Wire(p)'
      BY <1>1, <2>3, ComingKeepsWire
    <3> QED BY <1>2, <3>1, <3>2
  <2>4. CASE \E s \in IF Happens("status") THEN Status ELSE {real[q].status},
                t \in IF Happens("track") THEN Track ELSE {real[q].track}, b \in BOOLEAN :
                PlayerChanges(q, client.known, s, t, b) /\ UNCHANGED missed
    <3>1. PICK s \in Status, t \in Track, b \in BOOLEAN :
                PlayerChanges(q, client.known, s, t, b) /\ UNCHANGED missed
      BY <2>1, <2>4
    <3>2. s # None /\ s \in Status \cup {None}
      BY BusAssumption
    <3>3. ASSUME NEW p \in Player PROVE Wire(p)'
      BY <1>1, <2>2, <3>1, <3>2, ChangingKeepsWire
    <3>4. real' = [real EXCEPT ![q] = [status |-> s, track |-> t]]
      BY <3>1 DEF PlayerChanges
    <3>5. Plays'
      BY <1>1, <3>2, <3>4 DEF Plays, BusTypes
    <3> QED BY <3>3, <3>5 DEF WireInv, Plays
  <2>5. CASE PlayerTells(q, client.known, "pushed") /\ UNCHANGED missed
    <3>1. ASSUME NEW p \in Player PROVE Wire(p)'
      BY <1>1, <2>2, <2>5, PositionKeepsWire DEF PlayerTells, Owes
    <3> QED BY <1>2, <2>5, <3>1 DEF PlayerTells
  <2>6. CASE PlayerAnswers(q) /\ UNCHANGED missed
    <3>1. ASSUME NEW p \in Player PROVE Wire(p)'
      BY <1>1, <2>2, <2>6, AnsweringKeepsWire
    <3> QED BY <1>2, <2>6, <3>1 DEF PlayerAnswers
  <2>7. CASE PlayerFails(q) /\ missed' = IF Head(asked[q]) = "all" THEN missed \cup {q} ELSE missed
    <3>1. ASSUME NEW p \in Player PROVE Wire(p)'
      BY <1>1, <2>7, FailingKeepsWire
    <3> QED BY <1>2, <2>7, <3>1 DEF PlayerFails
  <2> QED
    BY <1>4, <2>3, <2>4, <2>5, <2>6, <2>7, Zenon DEF PlayerStep, PlayerActs
<1> QED BY <1>3, <1>4

\* A message of another player is handled, or one that says nothing.
LEMMA SilentHeadKeepsWire ==
  ASSUME BusTypes, inbox # <<>>, inbox' = Tail(inbox), NEW p \in Player, Wire(p),
         owned' = owned, real' = real, Owes(p) => Owes(p)',
         p \in client'.known <=> p \in client.known, client'.info[p] = client.info[p],
         Head(inbox).player # p \/ Head(inbox).type \notin {"owner", "props"}
  PROVE  Wire(p)'
<1>1. /\ SaysPresent(Head(inbox), p) = <<>> /\ SaysTrack(Head(inbox), p) = <<>>
      /\ SaysStatus(Head(inbox), p) = <<>>
  BY DEF SaysPresent, SaysTrack, SaysStatus
<1>2. inbox \in Seq(Message)
  BY DEF BusTypes
<1>3. Answered(p)' => Answered(p)
  BY <1>1, <1>2, AnsweredTail
<1> QED BY <1>1, <1>2, <1>3, HeadKeepsWire

\* It has come, and is asked what it plays; or it has gone.
LEMMA PresenceKeepsWire ==
  ASSUME BusTypes, WireTypes, inbox # <<>>, inbox' = Tail(inbox), NEW p \in Player, Wire(p),
         owned' = owned, Head(inbox).type = "owner", Head(inbox).player = p,
         p \in client'.known <=> Head(inbox).present,
         Head(inbox).present /\ p \in owned \ client.known => Owes(p)'
  PROVE  Wire(p)'
<1> DEFINE m == Head(inbox)
           n == Len(inbox)
           x == Presences(p)
<1>1. inbox \in Seq(Message) /\ m \in Message
  BY HeadIsMessage DEF BusTypes
<1>2. m.present \in BOOLEAN
  BY <1>1 DEF Message
<1>3. SaysPresent(m, p) = <<Presence(p \in client'.known)>> /\ SaysPresent(m, p) # <<>>
  <2>1. SaysPresent(m, p) = <<Presence(m.present)>>
    BY DEF SaysPresent
  <2>2. Presence(m.present) = Presence(p \in client'.known)
    BY <1>2 DEF Presence
  <2> QED BY <2>1, <2>2
<1>4. Comings(p)'
  BY <1>1, <1>3, ComingsTail DEF Wire
<1>5. ASSUME Answered(p)' PROVE FALSE
  <2>1. /\ n \in Nat \ {0} /\ DOMAIN inbox = 1 .. n /\ DOMAIN inbox' = 1 .. n - 1
        /\ \A i \in 1 .. n - 1 : Presences(p)'[i] = x[i + 1]
        /\ x[1] = SaysPresent(m, p)
        /\ m = inbox[1]
    BY <1>1, SaidTail
  <2>2. \A j \in 2 .. n : x[j] = <<>>
    <3> SUFFICES ASSUME NEW j \in 2 .. n PROVE x[j] = <<>>
      OBVIOUS
    <3>1. j - 1 \in 1 .. n - 1 /\ (j - 1) + 1 = j
      BY <2>1
    <3> QED BY <1>5, <2>1, <3>1 DEF Answered
  <2>3. /\ Leaves(x, Presence(p \in client.known), n, Presence(p \in owned))
        /\ Leaves(x, Presence(p \in client.known), 1 - 1, Presence(~m.present))
    BY <1>3, <2>1 DEF Wire, Comings
  <2>4. x[1] = <<Presence(p \in owned)>>
    BY <1>3, <2>1, <2>2, <2>3 DEF Leaves
  <2>5. Presence(p \in client.known) = Presence(~m.present)
    BY <2>3 DEF Leaves
  <2>6. p \in owned /\ ~Owes(p)'
    BY <1>5 DEF Answered, Owes
  <2>7. m.present
    BY <1>2, <2>1, <2>4, <2>6 DEF SaysPresent, Presence
  <2>8. p \notin client.known
    BY <2>5, <2>7 DEF Presence
  <2> QED BY <2>6, <2>7, <2>8
<1> QED BY <1>4, <1>5 DEF Wire

\* What is told of a player that has answered is what is then known of it.
LEMMA PropsKeepWire ==
  ASSUME BusTypes, inbox # <<>>, inbox' = Tail(inbox), NEW p \in Player, Wire(p), client \in Client,
         NEW progress \in BOOLEAN, Head(inbox).type = "props", Head(inbox).player = p,
         client' = ApplyProperties(client, Head(inbox), progress).client,
         owned' = owned, real' = real, missed' = missed, asked' = asked
  PROVE  Wire(p)'
<1> DEFINE m == Head(inbox)
           old == client.info[p]
           new == client'.info[p]
<1>1. inbox \in Seq(Message) /\ m.info \in Infos
  BY HeadIsMessage DEF BusTypes
<1>2. /\ client'.known = client.known
      /\ p \in client.known =>
            /\ new.track = IF m.info.track = None THEN old.track ELSE m.info.track
            /\ new.status = IF m.info.status = None THEN old.status ELSE m.info.status
  BY <1>1, ApplyPropertiesKnows
<1> HIDE DEF new, old
<1>3. SaysPresent(m, p) = <<>>
  BY DEF SaysPresent
<1>4. Answered(p)' => Answered(p)
  BY <1>1, <1>3, AnsweredTail DEF Owes
<1>5. Answered(p) => p \in client.known
  BY <1>1, AnsweredIsKnown DEF Wire
<1>6. ASSUME p \in client.known
      PROVE  /\ IF SaysTrack(m, p) = <<>> THEN new.track = old.track ELSE SaysTrack(m, p) = <<new.track>>
             /\ IF SaysStatus(m, p) = <<>> THEN new.status = old.status
                ELSE SaysStatus(m, p) = <<new.status>>
  BY <1>2, <1>6 DEF SaysTrack, SaysStatus
<1> QED BY <1>1, <1>2, <1>3, <1>4, <1>5, <1>6, HeadKeepsWire DEF new, old

LEMMA HandlingKeepsWire ==
  ASSUME TypeInv, NEW p \in Player, Wire(p), Handles
  PROVE  Wire(p)'
<1> DEFINE m == Head(inbox)
<1>1. /\ BusTypes /\ WireTypes /\ client \in Client /\ cfg.progress \in BOOLEAN
      /\ inbox # <<>> /\ inbox' = Tail(inbox) /\ owned' = owned /\ real' = real
      /\ asked[p] \in Seq(Asked)
  BY DEF TypeInv, ShownInv, PanelInv, FollowInv, Right, Settings, Handles, WireTypes
<1>2. m \in Message /\ m.player \in Player /\ (m.type = "props" => m.info \in Infos)
  BY <1>1, HeadIsMessage
<1>3. m.type = "owner" => m.present \in BOOLEAN
  BY <1>2 DEF Message
<1>4. IF m.type = "owner" /\ m.present THEN HearsOfPlayer(m) ELSE Hears(m)
  BY DEF Handles
<1>5. CASE m.type = "owner" /\ m.present
  <2> DEFINE q == m.player
  <2>1. /\ client' = AddPlayer(client, q) /\ missed' = missed
        /\ asked' = IF q \in owned \ client.known
                    THEN [asked EXCEPT ![q] = Append(@, "all")] ELSE asked
    BY <1>4, <1>5 DEF HearsOfPlayer
  <2>2. client'.known = client.known \cup {q} /\ \A r \in Player \ {q} : client'.info[r] = client.info[r]
    BY <1>1, <1>2, <2>1, AddPlayerKnows
  <2>3. CASE p = q
    <3>1. p \in owned \ client.known => Owes(p)'
      <4> SUFFICES ASSUME p \in owned \ client.known PROVE Owes(p)'
        OBVIOUS
      <4>1. asked'[p] = Append(asked[p], "all")
        BY <1>1, <2>1, <2>3 DEF WireTypes
      <4> QED BY <1>1, <2>1, <4>1, OwesWhenAsked DEF Asked
    <3> QED BY <1>1, <1>5, <2>2, <2>3, <3>1, PresenceKeepsWire
  <2>4. CASE p # q
    <3>1. asked'[p] = asked[p]
      BY <2>1, <2>4
    <3> QED BY <1>1, <2>1, <2>2, <2>4, <3>1, SilentHeadKeepsWire DEF Owes
  <2> QED BY <2>3, <2>4
<1>6. CASE m.type = "owner" /\ ~m.present
  <2> DEFINE q == m.player
  <2>1. /\ client' = RemovePlayer(client, q, cfg.progress).client /\ missed' = missed \ {q}
        /\ asked' = asked
    BY <1>4, <1>6, HearsLeaves
  <2>2. client'.known = client.known \ {q} /\ \A r \in Player \ {q} : client'.info[r] = client.info[r]
    BY <1>1, <1>2, <2>1, RemovePlayerKnows
  <2>3. CASE p = q
    BY <1>1, <1>6, <2>2, <2>3, PresenceKeepsWire
  <2>4. CASE p # q
    BY <1>1, <2>1, <2>2, <2>4, SilentHeadKeepsWire DEF Owes
  <2> QED BY <2>3, <2>4
<1>7. CASE m.type = "props"
  <2>1. /\ client' = ApplyProperties(client, m, cfg.progress).client
        /\ missed' = missed /\ asked' = asked
    BY <1>4, <1>7, HearsLeaves
  <2>2. CASE p = m.player
    BY <1>1, <1>7, <2>1, <2>2, PropsKeepWire
  <2>3. CASE p # m.player
    <3>1. client'.known = client.known /\ client'.info[p] = client.info[p]
      BY <1>1, <1>2, <1>7, <2>1, <2>3, ApplyPropertiesKnows
    <3> QED BY <1>1, <2>1, <2>3, <3>1, SilentHeadKeepsWire DEF Owes
  <2> QED BY <2>2, <2>3
<1>8. CASE m.type \notin {"owner", "props"}
  <2>1. client' = client /\ missed' = missed /\ asked' = asked
    BY <1>4, <1>8, HearsLeaves
  <2> QED BY <1>1, <1>8, <2>1, SilentHeadKeepsWire DEF Owes
<1> QED BY <1>3, <1>5, <1>6, <1>7, <1>8

\* The client and what is known of the players, when nothing is heard of them.
LEMMA OthersKeepKnown ==
  ASSUME client \in Client, client.tracked \in Seq(Player), cfg \in Settings, scene \in Scenes,
         \/ \E url \in Urls, good \in BOOLEAN : ArtArrives(url, good)
         \/ \E p \in Player \cup {None} : FocusChanges(p)
         \/ VolumeChanges \/ MediaKey \/ HideTimesOut
         \/ MouseEnters \/ MouseLeaves
         \/ PressesEdge \/ PressesInterior \/ PressesBar \/ Releases \/ SeekInterrupted
         \/ LayoutKey \/ LayoutAction \/ DialogOpens \/ DialogPreviews
         \/ DialogCloses \/ ProgressToggles
  PROVE  /\ UNCHANGED <<owned, real, asked, inbox, missed>>
         /\ client'.known = client.known /\ client'.info = client.info
<1>1. UNCHANGED <<owned, real, asked, inbox, missed>>
  BY Zenon DEF ArtArrives, FocusChanges, VolumeChanges,
     MediaKey, HideTimesOut, MouseEnters, MouseLeaves, PressesEdge, PressesInterior, PressesBar,
     Releases, SeekInterrupted, LayoutKey, LayoutAction, DialogOpens, DialogPreviews, DialogCloses,
     ProgressToggles, Overlay, busVars
<1>2. CASE client' = client
  BY <1>1, <1>2
<1>3. ASSUME NEW p \in Player \cup {None}, FocusChanges(p)
      PROVE  client'.known = client.known /\ client'.info = client.info
  <2>1. client' = SetPreferredApp(client, p, cfg.progress).client /\ cfg.progress \in BOOLEAN
    BY <1>3, Zenon DEF FocusChanges, Tells, Settings
  <2> QED BY <2>1, ChoiceKnows
<1>4. ASSUME NEW o, NEW new \in Settings, NEW tracked \in Seq(Player), Reloads(o, new, tracked)
      PROVE  client'.known = client.known /\ client'.info = client.info
  <2>1. client' = Reload(client, tracked, new.progress).client /\ new.progress \in BOOLEAN
    BY <1>4 DEF Reloads, Tells, Settings
  <2> QED BY <2>1, ChoiceKnows
<1>5. CASE DialogCloses
  <2>1. PICK new \in scene.settings, tracked \in Tracked :
          Reloads(HidePreview(osd, new), new, tracked)
    BY <1>5 DEF DialogCloses
  <2>2. new \in Settings /\ tracked \in Seq(Player)
    BY <2>1, ScenesAreScenes, PanelAssumption
  <2> QED BY <1>1, <1>4, <2>1, <2>2
<1>6. CASE ProgressToggles
  <2>1. [cfg EXCEPT !.progress = ~@] \in Settings
    BY DEF Settings
  <2> QED BY <1>1, <1>4, <1>6, <2>1 DEF ProgressToggles
<1>7. (\E p \in Player \cup {None} : FocusChanges(p)) \/ DialogCloses \/ ProgressToggles \/ client' = client
  BY OthersLeaveTheClient
<1> QED BY <1>1, <1>2, <1>3, <1>5, <1>6, <1>7

LEMMA WireInit == Init => WireInv
<1> SUFFICES ASSUME Init PROVE WireInv
  OBVIOUS
<1>1. inbox = <<>> /\ owned = {} /\ client.known = {}
  BY DEF Init, BusInit, NewClient
<1>2. \A p \in scene.players : real[p].status # None
  <2>1. scene.players \subseteq Player
    BY ScenesAreScenes DEF Init
  <2> QED BY <2>1, BusAssumption DEF Init, BusInit, Status
<1>3. ASSUME NEW p \in Player PROVE Wire(p)
  <2>1. Comings(p)
    BY <1>1 DEF Comings, Leaves
  <2>2. ~Answered(p)
    BY <1>1 DEF Answered
  <2> QED BY <2>1, <2>2 DEF Wire
<1> QED BY <1>2, <1>3 DEF WireInv

LEMMA WireStep == TypeInv /\ WireInv /\ [Next /\ UNCHANGED scene]_vars => WireInv'
<1> SUFFICES ASSUME TypeInv, WireInv, [Next /\ UNCHANGED scene]_vars PROVE WireInv'
  OBVIOUS
<1>1. /\ BusTypes /\ WireTypes /\ client \in Client /\ client.tracked \in Seq(Player)
      /\ cfg \in Settings /\ scene \in Scenes
      /\ \A p \in Player : Wire(p)
  BY DEF TypeInv, ShownInv, PanelInv, FollowInv, Right, Client, BusTypes, WireInv
<1>2. ASSUME real' = real, scene' = scene, \A p \in Player : Wire(p)' PROVE WireInv'
  BY <1>2 DEF WireInv
<1>3. ASSUME UNCHANGED <<owned, real, asked, inbox, missed, scene>>,
             client'.known = client.known, client'.info = client.info
      PROVE  WireInv'
  <2>1. ASSUME NEW p \in Player PROVE Wire(p)'
    <3>1. Answered(p)' => Answered(p)
      BY <1>3, AnsweredSame DEF Owes
    <3> QED BY <1>1, <1>3, <3>1, SameKeepsWire
  <2> QED BY <1>2, <1>3, <2>1
<1>4. CASE UNCHANGED vars
  BY <1>3, <1>4 DEF vars, busVars, panelVars
<1>5. CASE Next /\ scene' = scene
  <2>1. ASSUME NEW q \in Player, PlayerStep(q) \/ PlayerSeeks(q) PROVE WireInv'
    BY <1>1, <1>5, <2>1, PlayersKeepWire
  <2>2. CASE Handles
    <3>1. real' = real
      BY <2>2 DEF Handles
    <3> QED BY <1>1, <1>2, <1>5, <2>2, <3>1, HandlingKeepsWire
  <2>3. CASE Throttles
    <3>1. /\ inbox # <<>> /\ inbox' = Tail(inbox) /\ Head(inbox).type = "pushed"
          /\ UNCHANGED <<owned, real, asked, client, missed>>
      BY <2>3 DEF Throttles, panelVars
    <3>2. ASSUME NEW p \in Player PROVE Wire(p)'
      BY <1>1, <3>1, SilentHeadKeepsWire DEF Owes
    <3> QED BY <1>2, <1>5, <3>1, <3>2
  <2>4. CASE PollTimeout
    <3> DEFINE q == client.active
    <3>1. /\ q \in Player /\ asked' = [asked EXCEPT ![q] = Append(@, "position")]
          /\ UNCHANGED <<owned, real, inbox, client, missed>>
      BY <1>1, <2>4 DEF PollTimeout, WireTypes, panelVars
    <3> HIDE DEF q
    <3>2. ASSUME NEW p \in Player PROVE Wire(p)'
      <4>1. CASE p = q
        <5>1. asked[p] \in Seq(Asked) /\ asked'[p] = Append(asked[p], "position")
          BY <1>1, <3>1, <4>1 DEF WireTypes
        <5>2. Owes(p) => Owes(p)'
          BY <3>1, <5>1, OwesWhenAsked DEF Asked
        <5>3. Answered(p)' => Answered(p)
          BY <3>1, <5>2, AnsweredSame
        <5> QED BY <1>1, <3>1, <5>3, SameKeepsWire
      <4>2. CASE p # q
        <5>1. asked'[p] = asked[p]
          BY <1>1, <3>1, <4>2 DEF WireTypes
        <5>2. Answered(p)' => Answered(p)
          BY <3>1, <5>1, AnsweredSame DEF Owes
        <5> QED BY <1>1, <3>1, <5>2, SameKeepsWire
      <4> QED BY <4>1, <4>2
    <3> QED BY <1>2, <1>5, <3>1, <3>2
  <2>5. CASE \/ \E url \in Urls, good \in BOOLEAN : ArtArrives(url, good)
             \/ \E p \in Player \cup {None} : FocusChanges(p)
             \/ VolumeChanges \/ MediaKey \/ HideTimesOut
             \/ MouseEnters \/ MouseLeaves
             \/ PressesEdge \/ PressesInterior \/ PressesBar \/ Releases \/ SeekInterrupted
             \/ LayoutKey \/ LayoutAction \/ DialogOpens \/ DialogPreviews
             \/ DialogCloses \/ ProgressToggles
    BY <1>1, <1>3, <1>5, <2>5, OthersKeepKnown
  <2> QED BY <1>5, <2>1, <2>2, <2>3, <2>4, <2>5 DEF Next
<1> QED BY <1>4, <1>5

LEMMA WireAlways == Spec => [](TypeInv /\ WireInv)
<1>1. Init => TypeInv /\ WireInv
  BY TypeInit, WireInit
<1>2. TypeInv /\ WireInv /\ [Next /\ UNCHANGED scene]_vars => (TypeInv /\ WireInv)'
  BY TypeStep, WireStep
<1> QED BY <1>1, <1>2, PTL DEF Spec

\* Once all that a player sent has been handled, the client knows whether it is
\* there and, if its answer to GetAll was not lost, what it plays: for any number
\* of players that come, go and are started anew in any order
\* (onNameOwnerChanged, addPlayer and applyProperties in mprisclient.cpp).
THEOREM TheSettledAreCurrent == Spec => []SettledIsCurrent
<1>1. TypeInv /\ WireInv => SettledIsCurrent
  <2> SUFFICES ASSUME TypeInv, WireInv, NEW p \in Player, About(p) = {}
               PROVE  /\ p \in client.known <=> p \in owned
                      /\ p \in owned \ missed /\ (\A i \in DOMAIN asked[p] : asked[p][i] # "all")
                           => client.info[p] = real[p]
    BY DEF SettledIsCurrent
  <2>1. /\ inbox \in Seq(Message) /\ client.info[p] \in Infos /\ real[p] \in Infos
        /\ Wire(p)
    BY DEF TypeInv, ShownInv, PanelInv, FollowInv, Right, Client, BusTypes, WireInv
  <2>2. \A i \in 1 .. Len(inbox) : /\ Presences(p)[i] = <<>> /\ Statuses(p)[i] = <<>>
                                   /\ TracksSaid(p)[i] = <<>>
    <3> SUFFICES ASSUME NEW i \in 1 .. Len(inbox)
                 PROVE  /\ Presences(p)[i] = <<>> /\ Statuses(p)[i] = <<>>
                        /\ TracksSaid(p)[i] = <<>>
      OBVIOUS
    <3>1. i \in DOMAIN inbox /\ inbox[i].player # p
      BY <2>1 DEF About, Messages
    <3> QED BY <3>1 DEF Presences, Statuses, TracksSaid, SaysPresent, SaysStatus, SaysTrack
  <2>3. Presence(p \in client.known) = Presence(p \in owned)
    BY <2>1, <2>2 DEF Wire, Comings, Leaves
  <2>4. p \in client.known <=> p \in owned
    BY <2>3 DEF Presence
  <2>5. ASSUME p \in owned \ missed, \A i \in DOMAIN asked[p] : asked[p][i] # "all"
        PROVE  client.info[p] = real[p]
    <3>1. Answered(p)
      BY <2>1, <2>2, <2>5 DEF Answered
    <3>2. client.info[p].track = real[p].track /\ client.info[p].status = real[p].status
      BY <2>1, <2>2, <3>1 DEF Wire, Truth, Leaves
    <3> QED BY <2>1, <3>2 DEF Infos
  <2> QED BY <2>4, <2>5
<1> QED BY <1>1, WireAlways, PTL

-----------------------------------------------------------------------------
(* The position shown.                                                     *)

\* What a step may do to the position: take it away, leave it with its title,
\* or set one of the title shown.
Fits ==
    \/ osd'.at = None
    \/ osd'.at = osd.at /\ osd'.title = osd.title
    \/ Title(osd'.at) = osd'.title
    \/ (client.active # None /\ Awaited(client.active))'

\* A position that is told belongs to the track that is then believed, unless
\* the player is still to answer.
LEMMA HeardPositionFits ==
  ASSUME TypeInv, WireInv, WireInv', ShownInv', Handles, NEW m, m = Head(inbox), Hears(m),
         NEW p, p = m.player
  PROVE  Fits
<1> DEFINE x == TracksSaid(p)
<1>1. /\ FollowInv /\ osd \in Osd /\ client \in Client /\ cfg.progress \in BOOLEAN
      /\ inbox \in Seq(Message) /\ inbox # <<>> /\ inbox' = Tail(inbox)
  BY DEF TypeInv, ShownInv, PanelInv, FollowInv, Right, Settings, Handles, BusTypes
<1>2. m \in Message /\ p \in Player /\ (m.type = "props" => m.info \in Infos)
      /\ (m.type # "owner" => m.at \in Track \cup {None})
  BY <1>1, HeadIsMessage DEF FollowInv
<1>3. PICK r : Sound(client, r) /\ Tells(osd, r) /\ Points(client, r, m)
  BY <1>1, <1>2, HearsTells
<1>4. \/ osd'.at = None
      \/ osd'.at = osd.at /\ osd'.title = osd.title
      \/ r.signals.position.emitted /\ osd'.at = r.signals.position.value
  BY <1>1, <1>3, TellsContent DEF Sound
<1>5. client' = r.client
  BY <1>3 DEF Tells
<1>6. SUFFICES ASSUME r.signals.position.emitted, osd'.at = m.at, m.at # None,
                      ~Awaited(p)'
               PROVE  Title(osd'.at) = osd'.title
  BY <1>2, <1>3, <1>4, <1>5, BusAssumption DEF Points, Fits
<1>7. m.type # "owner" /\ client.active = p /\ client'.active = p /\ p # None
  BY <1>2, <1>3, <1>5, <1>6, BusAssumption DEF Points
<1>8. /\ p \in client'.known
      /\ client'.shown = client'.info[p]
      /\ osd'.title = Title(client'.shown.track)
  BY <1>7 DEF ShownInv, PanelInv, FollowInv, Right, FollowsFirst, ComesFirst, Eligible, Candidates,
     Showing
<1>9. asked' = asked /\ owned' = owned /\ missed' = missed
  BY <1>7 DEF Hears, Handles
<1>10. /\ Len(inbox) \in Nat \ {0} /\ Len(inbox') = Len(inbox) - 1
       /\ DOMAIN inbox = 1 .. Len(inbox) /\ DOMAIN inbox' = 1 .. Len(inbox) - 1
       /\ \A i \in 1 .. Len(inbox) - 1 : inbox'[i] = inbox[i + 1]
       /\ x[1] = SaysTrack(m, p) /\ inbox[1] = m
  BY <1>1, SaidTail
<1>11. \A i \in DOMAIN inbox' : inbox'[i].player = p => inbox'[i].type # "owner" /\ ~Full(inbox'[i], p)
  BY <1>6, <1>7 DEF Awaited, About, Messages, Full
<1>12. Answered(p)'
  <2>1. \A i \in DOMAIN inbox' : Presences(p)'[i] = <<>>
    BY <1>11 DEF Presences, SaysPresent
  <2>2. Presence(p \in client'.known) = Presence(p \in owned')
    BY <1>2, <1>10, <2>1 DEF WireInv, Wire, Comings, Leaves
  <2>3. p \in owned'
    BY <1>8, <2>2 DEF Presence
  <2>4. p \notin missed' /\ \A i \in DOMAIN asked'[p] : asked'[p][i] # "all"
    BY <1>6 DEF Awaited
  <2> QED BY <2>1, <2>3, <2>4 DEF Answered
<1>13. Answered(p)
  <2>1. SaysPresent(m, p) = <<>>
    BY <1>7 DEF SaysPresent
  <2> QED BY <1>1, <1>9, <1>12, <2>1, AnsweredTail DEF Owes
<1>14. Leaves(x, client.info[p].track, 1, m.at)
  <2>1. \A j \in 1 + 1 .. Len(inbox) : ~Full(inbox[j], p)
    <3> SUFFICES ASSUME NEW j \in 1 + 1 .. Len(inbox) PROVE ~Full(inbox[j], p)
      OBVIOUS
    <3>1. j - 1 \in DOMAIN inbox' /\ inbox'[j - 1] = inbox[j]
      BY <1>10
    <3> QED BY <1>11, <3>1 DEF Full
  <2>2. 1 \in DOMAIN inbox /\ inbox[1].player = p /\ inbox[1].type # "owner" /\ inbox[1].at # None
    BY <1>6, <1>7, <1>10
  <2>3. Placed(p)
    BY <1>2, <1>13 DEF WireInv, Wire
  <2> QED BY <1>10, <2>1, <2>2, <2>3 DEF Placed
<1>15. SaysTrack(m, p) \in {<<>>, <<m.at>>} /\ (SaysTrack(m, p) = <<>> => client.info[p].track = m.at)
  <2>1. /\ x[1] # <<>> => x[1] = <<m.at>>
        /\ x[1] = <<>> => client.info[p].track = m.at
    BY <1>14 DEF Leaves
  <2> QED BY <1>10, <2>1
<1>16. client'.info[p].track = m.at
  <2>1. p \in client.known
    BY <1>1, <1>2, <1>13, AnsweredIsKnown DEF WireInv, Wire
  <2>2. CASE m.type = "props"
    <3>1. client' = ApplyProperties(client, m, cfg.progress).client
      BY <2>2, HearsLeaves
    <3>2. client'.info[p].track = IF m.info.track = None THEN client.info[p].track ELSE m.info.track
      BY <1>1, <1>2, <2>1, <2>2, <3>1, ApplyPropertiesKnows
    <3>3. SaysTrack(m, p) = IF m.info.track = None THEN <<>> ELSE <<m.info.track>>
      BY <2>2 DEF SaysTrack
    <3> QED BY <1>15, <3>2, <3>3
  <2>3. CASE m.type # "props"
    <3>1. client' = client
      BY <1>7, <2>3, HearsLeaves
    <3>2. SaysTrack(m, p) = <<>>
      BY <2>3 DEF SaysTrack
    <3> QED BY <1>15, <3>1, <3>2
  <2> QED BY <2>2, <2>3
<1> QED BY <1>6, <1>8, <1>16

LEMMA PositionFits ==
  ASSUME TypeInv, WireInv, WireInv', ShownInv', Next
  PROVE  Fits
<1>1. FollowInv /\ osd \in Osd
  BY DEF TypeInv, ShownInv, PanelInv
<1>2. CASE osd'.at = osd.at /\ osd'.title = osd.title
  BY <1>2 DEF Fits
<1>3. CASE Handles
  <2>1. CASE HearsOfPlayer(Head(inbox))
    BY <1>2, <2>1 DEF HearsOfPlayer
  <2>2. CASE Hears(Head(inbox))
    BY <1>3, <2>2, HeardPositionFits
  <2> QED BY <1>3, <2>1, <2>2 DEF Handles
<1>4. ASSUME NEW o \in Osd, Says(osd, o), NEW r, Sound(client, r), r.signals.position = Silence,
             Tells(o, r)
      PROVE  Fits
  <2>1. ~r.signals.position.emitted
    BY <1>4 DEF Silence, Signal
  <2>2. \/ osd'.at = None
        \/ osd'.at = o.at /\ osd'.title = o.title
    BY <1>4, <2>1, TellsContent DEF Sound
  <2> QED BY <1>4, <2>2 DEF Fits, Says
<1>5. ASSUME NEW p \in Player \cup {None}, FocusChanges(p) PROVE Fits
  <2>1. Says(osd, osd)
    BY DEF Says
  <2> QED BY <1>1, <1>4, <1>5, <2>1, FocusTells
<1>6. ASSUME NEW o \in Osd, Says(osd, o), NEW new \in Settings, NEW tracked \in Seq(Player),
             Reloads(o, new, tracked)
      PROVE  Fits
  <2>1. ReloadStyles(o, new) \in Osd /\ Says(osd, ReloadStyles(o, new))
    BY <1>6, TypeReloadStyles, KeptReloadStyles DEF Says
  <2> QED BY <1>1, <1>4, <1>6, <2>1, ReloadsTells
<1>7. CASE DialogCloses
  <2>1. PICK new \in scene.settings, tracked \in Tracked :
          Reloads(HidePreview(osd, new), new, tracked)
    BY <1>7 DEF DialogCloses
  <2>2. new \in Settings /\ tracked \in Seq(Player)
    BY <1>1, <2>1, ScenesAreScenes, PanelAssumption DEF FollowInv, BusTypes
  <2>3. HidePreview(osd, new) \in Osd /\ Says(osd, HidePreview(osd, new))
    BY <1>1, TypeHidePreview, KeptHideTimeout DEF Kept
  <2> QED BY <1>6, <2>1, <2>2, <2>3
<1>8. CASE ProgressToggles
  <2>1. [cfg EXCEPT !.progress = ~@] \in Settings /\ client.tracked \in Seq(Player)
    BY <1>1 DEF FollowInv, Settings, Right, Client
  <2>2. Says(osd, osd)
    BY DEF Says
  <2> QED BY <1>1, <1>6, <1>8, <2>1, <2>2 DEF ProgressToggles
<1>9. ASSUME NEW url \in Urls, NEW good \in BOOLEAN, ArtArrives(url, good) PROVE Fits
  <2>1. osd' = osd \/ \E v : osd' = SetAlbumArt(osd, v)
    BY <1>9 DEF ArtArrives, Ready
  <2> QED BY <1>1, <1>2, <2>1, KeptAlbumArt
<1>10. CASE LayoutKey \/ DialogOpens \/ Throttles \/ PollTimeout
            \/ \E p \in Player : PlayerStep(p) \/ PlayerSeeks(p)
  <2>1. osd' = osd
    BY <1>10, Zenon DEF LayoutKey, DialogOpens, Throttles, PollTimeout, PlayerStep, PlayerSeeks,
       panelVars
  <2> QED BY <1>2, <2>1
<1>11. CASE Kept(osd, osd')
  BY <1>2, <1>11 DEF Kept, Says
<1> QED BY <1>1, <1>3, <1>5, <1>7, <1>8, <1>9, <1>10, <1>11, OverlayStepKeeps DEF Next

\* What the overlay shows is the player followed, and a position never stands
\* beside the title of another track, whatever message came last - unless the
\* player was started anew and its answer is on its way (mprisclient.cpp's
\* signals, osdwindow.cpp's updateTrack and updatePosition).
THEOREM TheActiveIsShown == Spec => ShowsTheActive
<1>1. TypeInv /\ WireInv /\ [Next /\ UNCHANGED scene]_vars => [Showing' /\ Fits]_vars
  <2> SUFFICES ASSUME TypeInv, WireInv, Next /\ UNCHANGED scene PROVE Showing' /\ Fits
    BY DEF vars
  <2>1. ShownInv' /\ WireInv'
    BY ShownStep, WireStep DEF TypeInv
  <2>2. Fits
    BY <2>1, PositionFits
  <2> QED BY <2>1, <2>2 DEF ShownInv
<1>2. TypeInv /\ WireInv /\ [Next /\ UNCHANGED scene]_vars =>
        [/\ Showing'
         /\ \/ osd'.at = None
            \/ osd'.at = osd.at /\ osd'.title = osd.title
            \/ Title(osd'.at) = osd'.title
            \/ (client.active # None /\ Awaited(client.active))']_vars
  BY <1>1 DEF Fits
<1> QED BY <1>2, WireAlways, PTL DEF Spec, ShowsTheActive
=============================================================================
