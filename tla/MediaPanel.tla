---------------------------- MODULE MediaPanel ----------------------------
(***************************************************************************)
(* The media client, the overlay and the art cache wired together as in    *)
(* App::connectSignals (main.cpp), with the players, the user's mouse and  *)
(* keys, the settings dialog and D-Bus around them.  One action is one     *)
(* event of the main thread's loop, signals and all.                       *)
(***************************************************************************)
EXTENDS OsdWindow, AlbumArtCache

CONSTANTS
    Tracked,    \* the values of tracked_players: priorities, first is highest
    Scenes,     \* what the surroundings do: one of these in a behaviour
    MaxAsked    \* bound on the calls a player has not answered

\* The players that ever come, what else happens, the settings the user chooses
\* among, and the messages that wait at a time.
Everything == {"status", "track", "push", "poll", "fail", "quit", "focus", "art", "volume",
               "media key", "seek", "resize", "move", "layout key", "dialog", "toggle"}
Scene == [players : SUBSET Player, acts : SUBSET Everything,
          settings : SUBSET Settings, room : 1 .. MaxInbox]

ASSUME PanelAssumption ==
    /\ Tracked \subseteq Seq(Player) /\ Tracked # {}
    /\ Scenes \subseteq Scene

VARIABLES
    client, osd, art,
    cfg,        \* the saved configuration
    dialog,     \* the settings dialog is open (and blocks the mouse)
    posted,     \* a layout key is on its way from the keyboard thread
    sought,     \* the SetPosition call on its way, or None
    missed,     \* players whose GetAll failed
    scene       \* what the surroundings do in this behaviour

panelVars == <<client, osd, art, cfg>>
userVars == <<dialog, posted>>
vars == <<busVars, panelVars, userVars, sought, missed, scene>>

Happens(act) == act \in scene.acts

Messages == {inbox[i] : i \in DOMAIN inbox}

TypeOK ==
    /\ owned \subseteq Player
    /\ real \in [Player -> Infos]
    /\ \A p \in Player : asked[p] \in Seq({"all", "position"})
    /\ Len(inbox) <= MaxInbox /\ Messages \subseteq Message
    /\ client \in Client /\ osd \in Osd /\ cfg \in Settings
    /\ {art.memory[i].url : i \in DOMAIN art.memory} \cup art.pending \cup art.disk \subseteq Urls
    /\ Len(art.memory) <= MaxArt
    /\ dialog \in BOOLEAN /\ posted \in BOOLEAN
    /\ sought \in Track \cup {None} /\ missed \subseteq Player /\ scene \in Scenes

Init ==
    /\ scene \in Scenes
    /\ BusInit(scene.players)
    /\ cfg \in scene.settings
    /\ \E t \in Tracked : client = NewClient(t)
    /\ osd = NewOsd(cfg) /\ art = Art0
    /\ dialog = FALSE /\ posted = FALSE
    /\ sought = None /\ missed = {}

-----------------------------------------------------------------------------
(* The direct connections.                                                 *)

\* Mutant: any picture that is ready is shown.
ReadyAnyway(c, o, url, r) ==
    [osd |-> IF r.ready THEN SetAlbumArt(o, IF r.good THEN url ELSE None) ELSE o, art |-> r.art]

\* AlbumArtCache::ready: only the art of what is played now is shown.
Ready(c, o, url, r) ==
    [osd |-> IF r.ready /\ Art(c.shown.track) = url
             THEN SetAlbumArt(o, IF r.good THEN url ELSE None) ELSE o,
     art |-> r.art]

\* A picture asked for, or none.
ArtChanged(c, o, url) ==
    IF url = None THEN [osd |-> SetAlbumArt(o, None), art |-> art]
    ELSE Ready(c, o, url, Requested(art, url))

\* What a handler of the client leads to, the overlay being in state o.
Tells(o, r) ==
    LET told == r.signals
        panel == IF told.art.emitted THEN ArtChanged(r.client, o, told.art.value)
                 ELSE [osd |-> o, art |-> art]
        none == IF told.none.emitted THEN SetProgressVisible(panel.osd, FALSE) ELSE panel.osd
        track == IF told.track.emitted
                 THEN SetProgressVisible(UpdateTrack(none, told.track.value), TRUE) ELSE none
        status == IF told.status.emitted THEN UpdatePlaybackStatus(track, told.status.value)
                  ELSE track
        last == IF told.position.emitted THEN UpdatePosition(status, told.position.value)
                ELSE status
    IN  /\ client' = r.client /\ art' = panel.art
        /\ \/ osd' = last
           \/ (told.track.emitted \/ told.none.emitted) /\ osd' = OthersHidden(last)

-----------------------------------------------------------------------------
(* Messages and timers of the client.                                      *)

\* addPlayer sends a GetAll; it ends in an error if the player has gone.
HearsOfPlayer(m) ==
    /\ client' = AddPlayer(client, m.player)
    /\ asked' = IF m.player \in owned \ client.known
                THEN [asked EXCEPT ![m.player] = Append(@, "all")] ELSE asked
    /\ UNCHANGED <<osd, art, missed>>

Hears(m) ==
    /\ Tells(osd,
        CASE m.type = "owner" -> RemovePlayer(client, m.player, cfg.progress)
          [] m.type = "props" -> ApplyProperties(client, m, cfg.progress)
          [] m.type = "pushed" -> PositionOnly(client, m, osd.seeking, FALSE)
          [] OTHER -> TellPosition(client, m))
    /\ missed' = IF m.type = "owner" THEN missed \ {m.player} ELSE missed
    /\ UNCHANGED asked

Handles ==
    /\ inbox # <<>>
    /\ inbox' = Tail(inbox)
    /\ LET m == Head(inbox)
       IN  IF m.type = "owner" /\ m.present THEN HearsOfPlayer(m) ELSE Hears(m)
    /\ UNCHANGED <<owned, real, cfg, userVars, sought>>

\* A pushed position within the poll interval of another is dropped.
Throttles ==
    /\ inbox # <<>> /\ Head(inbox).type = "pushed"
    /\ inbox' = Tail(inbox)
    /\ UNCHANGED <<owned, real, asked, panelVars, userVars, sought, missed>>

PollTimeout ==
    /\ Happens("poll") /\ Polls(client, osd.seeking, cfg.progress)
    /\ client.active \in owned /\ Len(asked[client.active]) < MaxAsked
    /\ asked' = [asked EXCEPT ![client.active] = Append(@, "position")]
    /\ UNCHANGED <<owned, real, inbox, panelVars, userVars, sought, missed>>

ArtArrives(url, good) ==
    /\ Happens("art") /\ url \in art.pending
    /\ LET panel == Ready(client, osd, url, Finished(art, url, good))
       IN  osd' = panel.osd /\ art' = panel.art
    /\ UNCHANGED <<busVars, client, cfg, userVars, sought, missed>>

\* The application in focus, of automatic switching.
FocusChanges(p) ==
    /\ Happens("focus")
    /\ client.preferred # p
    /\ Tells(osd, SetPreferredApp(client, p, cfg.progress))
    /\ UNCHANGED <<busVars, cfg, userVars, sought, missed>>

-----------------------------------------------------------------------------
(* The players.                                                            *)

PlayerActs(p) ==
    \/ PlayerComes(p) /\ UNCHANGED missed
    \/ Happens("quit") /\ PlayerGoes(p) /\ UNCHANGED missed
    \/ \E s \in IF Happens("status") THEN Status ELSE {real[p].status},
          t \in IF Happens("track") THEN Track ELSE {real[p].track}, b \in BOOLEAN :
          PlayerChanges(p, client.known, s, t, b) /\ UNCHANGED missed
    \/ Happens("push") /\ PlayerTells(p, client.known, "pushed") /\ UNCHANGED missed
    \/ PlayerAnswers(p) /\ UNCHANGED missed
    \/ /\ Happens("fail") /\ PlayerFails(p)
       /\ missed' = IF Head(asked[p]) = "all" THEN missed \cup {p} ELSE missed

HasRoom == Len(inbox') <= scene.room
PlayerStep(p) ==
    /\ p \in scene.players /\ PlayerActs(p) /\ HasRoom
    /\ UNCHANGED <<panelVars, userVars, sought>>

\* A SetPosition call arrives: a track that is not played any more is ignored.
PlayerSeeks(p) ==
    /\ sought # None
    /\ sought' = None
    /\ IF p \in owned /\ real[p].track = sought
       THEN PlayerTells(p, client.known, "seeked") /\ HasRoom ELSE UNCHANGED busVars
    /\ UNCHANGED <<panelVars, userVars, missed>>

-----------------------------------------------------------------------------
(* The overlay's events.  While the settings dialog is open the mouse does *)
(* not reach the overlay.                                                  *)

Overlay(new) ==
    /\ osd' = new
    /\ UNCHANGED <<busVars, client, art, cfg, dialog, missed>>

VolumeChanges == Happens("volume") /\ Overlay(ShowVolume(osd, cfg)) /\ UNCHANGED <<posted, sought>>
MediaKey == Happens("media key") /\ Overlay(ShowMediaAction(osd, cfg)) /\ UNCHANGED <<posted, sought>>
HideTimesOut == osd.timer /\ Overlay(HideTimeout(osd, cfg)) /\ UNCHANGED <<posted, sought>>

MouseOver == osd.visible /\ osd.hover /\ ~dialog
MouseEnters ==
    /\ osd.visible /\ ~osd.hover /\ ~dialog
    /\ Overlay(Enter(osd)) /\ UNCHANGED <<posted, sought>>
MouseLeaves == osd.hover /\ Overlay(Leave(osd)) /\ UNCHANGED <<posted, sought>>

PressesEdge ==
    /\ Happens("resize") /\ MouseOver /\ ~osd.pressed
    /\ Overlay(PressEdge(osd)) /\ UNCHANGED <<posted, sought>>
PressesInterior ==
    /\ Happens("move") /\ MouseOver /\ ~osd.pressed
    /\ Overlay(PressInterior(osd)) /\ UNCHANGED <<posted, sought>>
PressesBar ==
    /\ Happens("seek") /\ MouseOver /\ ~osd.pressed /\ osd.row
    /\ Overlay(PressBar(osd, cfg)) /\ UNCHANGED <<posted, sought>>
Releases ==
    /\ osd.pressed
    /\ Overlay(Release(osd))
    /\ sought' = IF Commits(osd, cfg) /\ SetPosition(client) # None
                 THEN SetPosition(client) ELSE sought
    /\ UNCHANGED posted

\* The release went elsewhere: the pointer moves over the bar with no button
\* down, or the grab is lost.
SeekInterrupted ==
    /\ osd.seeking
    /\ Overlay([FinishSeeking(osd) EXCEPT !.pressed = FALSE]) /\ UNCHANGED <<posted, sought>>

\* A layout key: the keyboard thread takes it while it believes the overlay to
\* be there, and posts the action.
LayoutKey ==
    /\ Happens("layout key") /\ osd.keys /\ ~posted
    /\ posted' = TRUE
    /\ UNCHANGED <<busVars, panelVars, dialog, sought, missed>>
LayoutAction ==
    /\ posted /\ posted' = FALSE
    /\ \/ ~cfg.position /\ Overlay(osd)
       \/ cfg.position /\ Overlay(Snap(osd))
       \/ cfg.position /\ \E atLimit \in BOOLEAN : Overlay(StepScale(osd, atLimit))
    /\ UNCHANGED sought

-----------------------------------------------------------------------------
(* The settings.                                                           *)

DialogOpens ==
    /\ Happens("dialog") /\ ~dialog /\ ~osd.pressed
    /\ dialog' = TRUE
    /\ UNCHANGED <<busVars, panelVars, posted, sought, missed>>
DialogPreviews ==
    /\ dialog
    /\ \/ Overlay(ShowPreview(osd, cfg))
       \/ Overlay(ShowPreviewHeld(osd, cfg))
       \/ Overlay(ReleasePreview(osd))
    /\ UNCHANGED <<posted, sought>>

\* settingsChanged: reloadStyles, then MprisClient::reload.
Reloads(o, new, tracked) ==
    /\ cfg' = new
    /\ Tells(ReloadStyles(o, new), Reload(client, tracked, new.progress))

\* The dialog ends, accepted or not; the preview goes before the new settings
\* are applied.
DialogCloses ==
    /\ dialog /\ dialog' = FALSE
    /\ \E new \in scene.settings, tracked \in Tracked :
          Reloads(HidePreview(osd, new), new, tracked)
    /\ UNCHANGED <<busVars, posted, sought, missed>>

\* DbusInterface: progressEnabled is set over D-Bus, at any time.
ProgressToggles ==
    /\ Happens("toggle")
    /\ Reloads(osd, [cfg EXCEPT !.progress = ~@], client.tracked)
    /\ UNCHANGED <<busVars, userVars, sought, missed>>

-----------------------------------------------------------------------------
Next ==
    \/ Handles \/ Throttles \/ PollTimeout
    \/ \E url \in Urls, good \in BOOLEAN : ArtArrives(url, good)
    \/ \E p \in Player : PlayerStep(p) \/ PlayerSeeks(p)
    \/ \E p \in Player \cup {None} : FocusChanges(p)
    \/ VolumeChanges \/ MediaKey \/ HideTimesOut
    \/ MouseEnters \/ MouseLeaves
    \/ PressesEdge \/ PressesInterior \/ PressesBar \/ Releases \/ SeekInterrupted
    \/ LayoutKey \/ LayoutAction
    \/ DialogOpens \/ DialogPreviews \/ DialogCloses \/ ProgressToggles

Spec == Init /\ [][Next /\ UNCHANGED scene]_vars

-----------------------------------------------------------------------------
(* Properties.                                                             *)

About(p) == {m \in Messages : m.player = p}

\* Once everything a player sent has been handled, the client knows whether it
\* is there and what it plays: the reply to GetAll, changes signalled before
\* and after it and a restart in between never leave an older state behind.
\* (A player whose GetAll failed is only known by its changes.)
SettledIsCurrent ==
    \A p \in Player :
       About(p) = {} =>
          /\ p \in client.known <=> p \in owned
          /\ p \in owned \ missed /\ (\A i \in DOMAIN asked[p] : asked[p][i] # "all")
                => client.info[p] = real[p]

\* The player followed is the one the documentation orders first: the focused
\* application's if it plays or is paused, else one that plays before one that
\* is paused, by priority; and its position is polled exactly while it plays
\* and progress is wanted.  A player, a priority, a focus or a setting that
\* changes leaves no other player followed.
Class(p) ==
    (IF p = client.preferred THEN 0 ELSE 2)
    + (IF client.info[p].status = "Playing" THEN 0 ELSE 1)
FollowsTheFirst ==
    LET eligible == {p \in Candidates(client) : client.info[p].status \in {"Playing", "Paused"}}
        first == client.active
    IN  /\ first = None <=> eligible = {}
        /\ first # None =>
              /\ first \in eligible
              /\ \A p \in eligible \ {first} :
                    \/ Class(first) < Class(p)
                    \/ /\ Class(first) = Class(p)
                       /\ PriorityOf(client, first) < PriorityOf(client, p)
        /\ client.shown = IF first = None THEN NoInfo ELSE client.info[first]
        /\ client.poll <=> /\ first # None /\ cfg.progress
                           /\ client.shown.status = "Playing"

\* What may still correct what the client believes of a player: it has not
\* answered everything it was asked, or the answer, or the news that it went or
\* came, waits.  (A player whose GetAll failed may never be corrected.)
Awaited(p) ==
    \/ p \in missed
    \/ \E i \in DOMAIN asked[p] : asked[p][i] = "all"
    \/ \E m \in About(p) :
          \/ m.type = "owner"
          \/ m.type = "props" /\ m.info.status # None /\ m.info.track # None

Showing ==
    /\ osd.enabled = cfg.progress
    /\ osd.wanted <=> cfg.progress /\ client.active # None
    /\ client.active # None =>
          /\ osd.title = Title(client.shown.track)
          /\ osd.playing = client.shown.status

\* What the overlay shows is the player followed: its row is wanted exactly
\* while there is one, the title and the button are that player's, and no step
\* puts the position of one title beside another, whichever of a poll's answer,
\* a pushed position, a seek, a change of track or of player came last - unless
\* the player was started anew and is still to be asked what it plays.
ShowsTheActive ==
    [][/\ Showing'
       /\ \/ osd'.at = None
          \/ osd'.at = osd.at /\ osd'.title = osd.title
          \/ Title(osd'.at) = osd'.title
          \/ (client.active # None /\ Awaited(client.active))']_vars

\* A seek is asked of the title that was under the pointer when the drag
\* began, though players and tracks change while it lasts.
SeekHitsWhatWasSeen ==
    [][sought' \notin {None, sought} => Title(sought') = osd.grip]_vars

\* The picture is that of the track followed, or that track's picture is being
\* downloaded: an answer that comes late never replaces a newer picture, and
\* no picture stays for good beside another track.
ArtIsCurrentOrComing ==
    LET url == Art(client.shown.track)
    IN  osd.picture \in {None, url} \/ url \in art.pending

\* A drag ends with whatever takes its ground away: the overlay hidden, the
\* row gone, the setting switched off.  There is at most one, of a visible
\* overlay and a pressed button, and a seek needs its bar.
DragsEnd ==
    /\ osd.resizing \/ osd.moving \/ osd.seeking => osd.visible /\ osd.pressed
    /\ ~(osd.resizing /\ osd.moving) /\ ~(osd.seeking /\ (osd.resizing \/ osd.moving))
    /\ osd.seeking => osd.row /\ osd.timed /\ osd.canSeek /\ cfg.progress /\ cfg.interactive
    /\ osd.moving => cfg.position /\ ~osd.preview

\* An overlay that stays has a cause that will end: the timer, the pointer, a
\* drag, or the settings' preview.  (A resize cancelled while the pointer is
\* outside leaves none: osd.dropped.)
LingersForACause ==
    osd.visible =>
       \/ osd.timer \/ osd.hover \/ osd.resizing \/ osd.moving
       \/ osd.preview /\ osd.held /\ dialog
       \/ osd.dropped

\* The keyboard thread is told to take layout keys only while there is an
\* overlay to lay out, and a full overlay has its bar and exactly the row it
\* should have.  (osd.stray: shown again by a key that was on its way when it
\* went.)
LayoutKeysNeedOverlay ==
    /\ osd.keys => osd.visible /\ ~osd.preview
    /\ osd.visible /\ ~osd.action /\ ~osd.stray =>
          osd.bar /\ (osd.row <=> osd.enabled /\ osd.wanted)
=============================================================================
