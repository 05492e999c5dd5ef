---------------------------- MODULE OsdWindow ----------------------------
(***************************************************************************)
(* osdwindow.cpp: the overlay's control state, as functions from a record  *)
(* to a record.  Geometry, fonts, colours and texts are left out; a        *)
(* position in a track is known by its track (see SessionBus).             *)
(***************************************************************************)
EXTENDS MprisClient

CONSTANT TitleOf    \* track -> title and artist, all the overlay sees of it

ASSUME OsdAssumption == DOMAIN TitleOf = Track /\ None \notin {TitleOf[t] : t \in Track}

Title(track) == IF track = None THEN None ELSE TitleOf[track]
Titles == {TitleOf[t] : t \in Track} \cup {None}
Urls == {ArtOf[t] : t \in Track} \cup {None}

\* What of OsdConfig decides anything here.  position is positionControlsEnabled
\* and positionDragEnabled in one: without the latter no move begins.
Settings == [progress : BOOLEAN, interactive : BOOLEAN, position : BOOLEAN,
             keyboard : BOOLEAN]

\* Ghosts: grip is the title under the pointer when a seek began; dropped says
\* that a resize was cancelled with the pointer already outside; stray that
\* the window was shown by a layout key alone.
Osd == [visible : BOOLEAN, hover : BOOLEAN, pressed : BOOLEAN, timer : BOOLEAN,
        action : BOOLEAN, preview : BOOLEAN, held : BOOLEAN,
        resizing : BOOLEAN, moving : BOOLEAN, seeking : BOOLEAN,
        enabled : BOOLEAN, wanted : BOOLEAN, row : BOOLEAN, bar : BOOLEAN,
        title : Titles, timed : BOOLEAN, canSeek : BOOLEAN,
        at : Track \cup {None}, playing : Status \cup {None},
        position : BOOLEAN, keys : BOOLEAN, picture : Urls,
        grip : Titles, dropped : BOOLEAN, stray : BOOLEAN]

NewOsd(cfg) ==
    [visible |-> FALSE, hover |-> FALSE, pressed |-> FALSE, timer |-> FALSE,
     action |-> FALSE, preview |-> FALSE, held |-> FALSE,
     resizing |-> FALSE, moving |-> FALSE, seeking |-> FALSE,
     enabled |-> cfg.progress, wanted |-> FALSE, row |-> FALSE, bar |-> TRUE,
     title |-> None, timed |-> FALSE, canSeek |-> FALSE, at |-> None, playing |-> None,
     position |-> cfg.position, keys |-> FALSE, picture |-> None,
     grip |-> None, dropped |-> FALSE, stray |-> FALSE]

-----------------------------------------------------------------------------
(* Ends of drags.  finishSeeking and restartHideTimerAfterResize are called *)
(* from everywhere.                                                        *)

FinishSeeking(o) == [o EXCEPT !.seeking = FALSE, !.grip = None]

RestartHideTimer(o) ==
    IF o.visible /\ ~(o.preview /\ o.held)
    THEN [o EXCEPT !.timer = TRUE, !.dropped = FALSE] ELSE o

\* Mutant: the hide timer that the move stopped is not started again.
FinishMoveOnly(o) == [o EXCEPT !.moving = FALSE]

FinishMove(o) ==
    IF o.moving THEN RestartHideTimer([o EXCEPT !.moving = FALSE]) ELSE o

FinishResize(o, persist) ==
    IF ~o.resizing THEN o
    ELSE IF persist THEN RestartHideTimer([o EXCEPT !.resizing = FALSE])
    ELSE [o EXCEPT !.resizing = FALSE,
                   !.dropped = @ \/ (o.visible /\ ~o.hover /\ ~o.timer)]

\* What the event filter does when a widget of the overlay is hidden, and
\* when that widget (or its row) is the progress bar's.
ChildHidden(o) == FinishMove(FinishResize(o, FALSE))
RowHidden(o) ==
    IF o.row /\ o.visible THEN ChildHidden(FinishSeeking([o EXCEPT !.row = FALSE]))
    ELSE [o EXCEPT !.row = FALSE]

\* A label, the controls or the picture, none of which is modelled, may be hidden
\* when another track or none is told: that too ends a move or a resize.
OthersHidden(o) == IF o.visible THEN ChildHidden(o) ELSE o

\* Mutant: a preview counts as an overlay.
UpdateLayoutKeysVisible(o, cfg) ==
    [o EXCEPT !.keys = o.visible /\ cfg.position /\ cfg.keyboard]

\* updateLayoutKeysActive: what the keyboard thread is told.
UpdateLayoutKeys(o, cfg) ==
    [o EXCEPT !.keys = o.visible /\ ~o.preview /\ cfg.position /\ cfg.keyboard]

\* Mutant: drags go on.
HideOnly(o, cfg) ==
    IF ~o.visible THEN o
    ELSE UpdateLayoutKeys([o EXCEPT !.visible = FALSE, !.hover = FALSE, !.action = FALSE,
                                    !.dropped = FALSE, !.stray = FALSE], cfg)

\* hide(), hideEvent, and the Hide events of the widgets.
Hide(o, cfg) ==
    IF ~o.visible THEN o
    ELSE LET hidden == [o EXCEPT !.visible = FALSE, !.hover = FALSE, !.action = FALSE,
                                 !.dropped = FALSE, !.stray = FALSE]
             told == UpdateLayoutKeys(FinishMove(hidden), cfg)
         IN  FinishResize(IF o.row THEN FinishSeeking(told) ELSE told, FALSE)

-----------------------------------------------------------------------------
(* The progress row.                                                       *)

SetProgressEnabled(o, on) ==
    IF on THEN [o EXCEPT !.enabled = TRUE]
    ELSE RowHidden([FinishSeeking(o) EXCEPT !.enabled = FALSE, !.wanted = FALSE])

SetProgressVisible(o, on) ==
    IF ~o.enabled \/ o.wanted = on THEN o
    ELSE IF on
         THEN [o EXCEPT !.wanted = TRUE, !.row = IF o.action THEN @ ELSE TRUE]
         ELSE LET unwanted == [FinishSeeking(o) EXCEPT !.wanted = FALSE]
              IN  IF o.action THEN unwanted ELSE RowHidden(unwanted)

\* setAlbumArt: None is the empty picture.
SetAlbumArt(o, url) == [o EXCEPT !.picture = url]

\* updatePlaybackStatus.
UpdatePlaybackStatus(o, status) == [o EXCEPT !.playing = status]

\* Mutant: another track of the same kind is the same track.
OtherLength(o, new) == o.timed # new.timed \/ o.canSeek # new.canSeek

OtherTrack(o, new) == o.title # new.title \/ o.timed # new.timed \/ o.canSeek # new.canSeek

\* updateTrack.  A missing length of the track already shown is ignored.
UpdateTrack(o, track) ==
    LET same == o.title = Title(track)
        missing == same /\ o.timed /\ track \notin Timed
        timed == missing \/ track \in Timed
        canSeek == IF missing THEN o.canSeek ELSE track \in Seekable \cap Timed
        new == [o EXCEPT !.title = Title(track), !.timed = timed, !.canSeek = canSeek,
                         !.at = IF same THEN @ ELSE None]
    IN  IF OtherTrack(o, new) \/ ~canSeek \/ ~timed THEN FinishSeeking(new) ELSE new

UpdatePosition(o, at) == IF o.timed /\ ~o.seeking THEN [o EXCEPT !.at = at] ELSE o

-----------------------------------------------------------------------------
(* What shows and hides the overlay.  positionWindow() shows the window    *)
(* unless it is being resized.                                             *)

PositionWindow(o) == [o EXCEPT !.visible = @ \/ ~o.resizing]

ShowVolume(o, cfg) ==
    LET full == [o EXCEPT !.action = FALSE, !.preview = FALSE, !.held = FALSE,
                          !.bar = TRUE, !.row = @ \/ (o.enabled /\ o.wanted)]
    IN  UpdateLayoutKeys([PositionWindow(full) EXCEPT
            !.timer = TRUE, !.dropped = FALSE, !.stray = FALSE], cfg)

ShowMediaAction(o, cfg) ==
    LET begun == [o EXCEPT !.action = TRUE, !.preview = FALSE, !.held = FALSE]
        noBar == IF o.bar /\ o.visible THEN ChildHidden([begun EXCEPT !.bar = FALSE])
                 ELSE [begun EXCEPT !.bar = FALSE]
    IN  UpdateLayoutKeys([PositionWindow(RowHidden(noBar)) EXCEPT
            !.timer = TRUE, !.dropped = FALSE, !.stray = FALSE], cfg)

ShowPreview(o, cfg) ==
    LET full == [o EXCEPT !.action = FALSE, !.preview = TRUE, !.held = FALSE,
                          !.bar = TRUE, !.row = @ \/ (o.enabled /\ o.wanted)]
    IN  UpdateLayoutKeys([PositionWindow(full) EXCEPT
            !.timer = TRUE, !.dropped = FALSE, !.stray = FALSE], cfg)

ShowPreviewHeld(o, cfg) == [ShowPreview(o, cfg) EXCEPT !.held = TRUE, !.timer = FALSE]

ReleasePreview(o) ==
    [o EXCEPT !.held = FALSE, !.timer = @ \/ (o.visible /\ o.preview)]

HidePreview(o, cfg) ==
    IF o.preview THEN Hide([o EXCEPT !.preview = FALSE, !.held = FALSE], cfg) ELSE o

HideTimeout(o, cfg) == Hide([o EXCEPT !.timer = FALSE, !.action = FALSE], cfg)

\* reloadStyles, after the configuration changed.
ReloadStyles(o, cfg) ==
    LET enabled == SetProgressEnabled(o, cfg.progress)
        positioned == [enabled EXCEPT !.position = cfg.position]
        settled == IF cfg.position THEN positioned ELSE FinishMove(positioned)
    IN  IF cfg.interactive THEN settled ELSE FinishSeeking(settled)

-----------------------------------------------------------------------------
(* The mouse.  A press lands on the edge, on the progress bar or in the    *)
(* interior; what the overlay does not take itself is no drag.             *)

Enter(o) == [o EXCEPT !.hover = TRUE, !.timer = FALSE, !.dropped = FALSE]

Leave(o) ==
    LET gone == [o EXCEPT !.hover = FALSE]
    IN  IF o.resizing \/ o.moving THEN gone ELSE RestartHideTimer(gone)

PressEdge(o) == [FinishSeeking(o) EXCEPT !.pressed = TRUE, !.resizing = TRUE, !.timer = FALSE]

CanMove(o) == o.position /\ ~o.preview
PressInterior(o) ==
    IF CanMove(o) THEN [FinishSeeking(o) EXCEPT !.pressed = TRUE, !.moving = TRUE, !.timer = FALSE]
    ELSE [o EXCEPT !.pressed = TRUE]

CanSeekNow(o, cfg) == o.canSeek /\ o.timed /\ cfg.interactive
PressBar(o, cfg) ==
    IF CanSeekNow(o, cfg) THEN [o EXCEPT !.pressed = TRUE, !.seeking = TRUE, !.grip = o.title]
    ELSE PressInterior(o)

\* The button comes up: a move is looked at first, then a resize, then a
\* seek, which is committed if it still can be (Commits).
Release(o) ==
    LET up == [o EXCEPT !.pressed = FALSE]
    IN  IF o.moving /\ CanMove(o) THEN FinishMove(up)
        ELSE IF o.resizing THEN FinishResize(up, TRUE)
        ELSE FinishSeeking(up)

Commits(o, cfg) ==
    o.seeking /\ ~(o.moving /\ CanMove(o)) /\ ~o.resizing /\ CanSeekNow(o, cfg)

-----------------------------------------------------------------------------
\* snapToScreenEdge, on a layout key; stepScale differs in not showing a
\* hidden window, and does nothing when the scale is at its limit.
Snap(o) ==
    IF ~o.position \/ o.preview THEN o
    ELSE RestartHideTimer([PositionWindow(o) EXCEPT !.stray = @ \/ ~o.visible])

StepScale(o, atLimit) ==
    IF ~o.position \/ o.preview \/ atLimit THEN o ELSE RestartHideTimer(o)
=============================================================================
