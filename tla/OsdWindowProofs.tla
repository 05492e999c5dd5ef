-------------------------- MODULE OsdWindowProofs --------------------------
(***************************************************************************)
(* The overlay's state stays well formed: lemmas about the operators of    *)
(* OsdWindow, first their types, then what MediaPanel's theorems rest on.  *)
(***************************************************************************)
EXTENDS OsdWindow, TLAPS

LEMMA NoneIsATitle == None \in Titles /\ None \in Urls /\ (\A t \in Track \cup {None} : Title(t) \in Titles)
  BY DEF Titles, Urls, Title

-----------------------------------------------------------------------------
(* Types.                                                                  *)

LEMMA TypeFinishSeeking == ASSUME NEW o \in Osd PROVE FinishSeeking(o) \in Osd
  BY NoneIsATitle, Zenon DEF FinishSeeking, Osd

LEMMA TypeRestartHideTimer == ASSUME NEW o \in Osd PROVE RestartHideTimer(o) \in Osd
<1>1. [o EXCEPT !.timer = TRUE, !.dropped = FALSE] \in Osd
  BY ZenonT(60) DEF Osd
<1> QED BY <1>1, Zenon DEF RestartHideTimer

LEMMA TypeFinishMove == ASSUME NEW o \in Osd PROVE FinishMove(o) \in Osd
<1>1. [o EXCEPT !.moving = FALSE] \in Osd
  BY ZenonT(60) DEF Osd
<1> QED BY <1>1, TypeRestartHideTimer, Zenon DEF FinishMove

LEMMA TypeFinishResize ==
  ASSUME NEW o \in Osd, NEW persist \in BOOLEAN PROVE FinishResize(o, persist) \in Osd
<1> DEFINE dropped == o.dropped \/ (o.visible /\ ~o.hover /\ ~o.timer)
<1>1. dropped \in BOOLEAN
  BY DEF Osd
<1> HIDE DEF dropped
<1>2. [o EXCEPT !.resizing = FALSE] \in Osd /\ [o EXCEPT !.resizing = FALSE, !.dropped = dropped] \in Osd
  BY <1>1, ZenonT(60) DEF Osd
<1>3. RestartHideTimer([o EXCEPT !.resizing = FALSE]) \in Osd
  BY <1>2, TypeRestartHideTimer
<1>4. FinishResize(o, persist) \in
        {o, RestartHideTimer([o EXCEPT !.resizing = FALSE]),
         [o EXCEPT !.resizing = FALSE, !.dropped = dropped]}
  BY Zenon DEF FinishResize, dropped
<1> QED BY <1>2, <1>3, <1>4

LEMMA TypeRowHidden == ASSUME NEW o \in Osd PROVE RowHidden(o) \in Osd
<1>1. [o EXCEPT !.row = FALSE] \in Osd
  BY ZenonT(60) DEF Osd
<1> QED BY <1>1, TypeFinishSeeking, TypeFinishMove, TypeFinishResize DEF RowHidden, ChildHidden

LEMMA TypeUpdateLayoutKeys == ASSUME NEW o \in Osd, NEW s PROVE UpdateLayoutKeys(o, s) \in Osd
  BY ZenonT(60) DEF UpdateLayoutKeys, Osd

LEMMA TypePositionWindow == ASSUME NEW o \in Osd PROVE PositionWindow(o) \in Osd
<1> DEFINE visible == o.visible \/ ~o.resizing
<1>1. visible \in BOOLEAN
  BY DEF Osd
<1> HIDE DEF visible
<1>2. [o EXCEPT !.visible = visible] \in Osd
  BY <1>1, ZenonT(60) DEF Osd
<1> QED BY <1>2 DEF PositionWindow, visible

LEMMA TypeHide == ASSUME NEW o \in Osd, NEW s PROVE Hide(o, s) \in Osd
<1>1. [o EXCEPT !.visible = FALSE, !.hover = FALSE, !.action = FALSE,
                !.dropped = FALSE, !.stray = FALSE] \in Osd
  BY ZenonT(60) DEF Osd
<1> QED BY <1>1, TypeFinishMove, TypeUpdateLayoutKeys, TypeFinishSeeking, TypeFinishResize DEF Hide

LEMMA TypeSetProgressEnabled == ASSUME NEW o \in Osd, NEW on \in BOOLEAN PROVE SetProgressEnabled(o, on) \in Osd
<1>1. [o EXCEPT !.enabled = TRUE] \in Osd
  BY ZenonT(60) DEF Osd
<1>2. ASSUME NEW f \in Osd PROVE [f EXCEPT !.enabled = FALSE, !.wanted = FALSE] \in Osd
  BY ZenonT(60) DEF Osd
<1> QED BY <1>1, <1>2, TypeFinishSeeking, TypeRowHidden, Zenon DEF SetProgressEnabled

LEMMA TypeSetProgressVisible == ASSUME NEW o \in Osd, NEW on \in BOOLEAN PROVE SetProgressVisible(o, on) \in Osd
<1> DEFINE row == IF o.action THEN o.row ELSE TRUE
           unwanted == [FinishSeeking(o) EXCEPT !.wanted = FALSE]
<1>1. row \in BOOLEAN
  BY DEF Osd
<1> HIDE DEF row
<1>2. [o EXCEPT !.wanted = TRUE, !.row = row] \in Osd
  BY <1>1, ZenonT(60) DEF Osd
<1>3. unwanted \in Osd
  <2>1. ASSUME NEW f \in Osd PROVE [f EXCEPT !.wanted = FALSE] \in Osd
    BY ZenonT(60) DEF Osd
  <2> QED BY <2>1, TypeFinishSeeking
<1> HIDE DEF unwanted
<1>4. SetProgressVisible(o, on) \in
        {o, [o EXCEPT !.wanted = TRUE, !.row = row], unwanted, RowHidden(unwanted)}
  BY Zenon DEF SetProgressVisible, row, unwanted
<1> QED BY <1>2, <1>3, <1>4, TypeRowHidden

LEMMA TypeSetAlbumArt == ASSUME NEW o \in Osd, NEW url \in Urls PROVE SetAlbumArt(o, url) \in Osd
  BY Zenon DEF SetAlbumArt, Osd

LEMMA TypeUpdatePlaybackStatus ==
  ASSUME NEW o \in Osd, NEW status \in Status \cup {None} PROVE UpdatePlaybackStatus(o, status) \in Osd
  BY Zenon DEF UpdatePlaybackStatus, Osd

LEMMA TypeUpdatePosition ==
  ASSUME NEW o \in Osd, NEW at \in Track \cup {None} PROVE UpdatePosition(o, at) \in Osd
<1>1. [o EXCEPT !.at = at] \in Osd
  BY ZenonT(60) DEF Osd
<1> QED BY <1>1, Zenon DEF UpdatePosition

LEMMA TypeUpdateTrack ==
  ASSUME NEW o \in Osd, NEW track \in Track \cup {None} PROVE UpdateTrack(o, track) \in Osd
<1> DEFINE same == o.title = Title(track)
           missing == same /\ o.timed /\ track \notin Timed
           seekable == track \in Seekable \cap Timed
           timed == missing \/ track \in Timed
           canSeek == IF missing THEN o.canSeek ELSE seekable
           at == IF same THEN o.at ELSE None
           new == [o EXCEPT !.title = Title(track), !.timed = timed, !.canSeek = canSeek, !.at = at]
<1>1. o.timed \in BOOLEAN /\ o.canSeek \in BOOLEAN /\ o.at \in Track \cup {None}
  BY DEF Osd
<1>2. UpdateTrack(o, track) \in {new, FinishSeeking(new)}
  BY Zenon DEF UpdateTrack
<1>3. at \in Track \cup {None}
  BY <1>1
<1>4. seekable \in BOOLEAN
  OBVIOUS
<1> HIDE DEF missing, seekable
<1>5. canSeek \in BOOLEAN
  BY <1>1, <1>4
<1>6. timed \in BOOLEAN
  <2>1. CASE missing
    BY <2>1
  <2>2. CASE ~missing
    BY <2>2
  <2> QED BY <2>1, <2>2
<1> HIDE DEF timed, canSeek, at
<1>7. new \in Osd
  BY <1>3, <1>5, <1>6, NoneIsATitle, ZenonT(60) DEF Osd
<1> QED BY <1>2, <1>7, TypeFinishSeeking

LEMMA TypeShowVolume == ASSUME NEW o \in Osd, NEW s PROVE ShowVolume(o, s) \in Osd
<1> DEFINE row == o.row \/ (o.enabled /\ o.wanted)
           full == [o EXCEPT !.action = FALSE, !.preview = FALSE, !.held = FALSE,
                             !.bar = TRUE, !.row = row]
<1>1. row \in BOOLEAN
  BY DEF Osd
<1> HIDE DEF row
<1>2. full \in Osd
  BY <1>1, ZenonT(60) DEF Osd
<1> HIDE DEF full
<1>3. ASSUME NEW f \in Osd PROVE [f EXCEPT !.timer = TRUE, !.dropped = FALSE, !.stray = FALSE] \in Osd
  BY ZenonT(60) DEF Osd
<1> QED BY <1>2, <1>3, TypePositionWindow, TypeUpdateLayoutKeys DEF ShowVolume, full, row

LEMMA TypeShowMediaAction == ASSUME NEW o \in Osd, NEW s PROVE ShowMediaAction(o, s) \in Osd
<1> DEFINE begun == [o EXCEPT !.action = TRUE, !.preview = FALSE, !.held = FALSE]
           bare == [begun EXCEPT !.bar = FALSE]
           noBar == IF o.bar /\ o.visible THEN ChildHidden(bare) ELSE bare
<1>1. begun \in Osd
  BY ZenonT(60) DEF Osd
<1> HIDE DEF begun
<1>2. bare \in Osd
  BY <1>1, ZenonT(60) DEF Osd
<1> HIDE DEF bare
<1>3. noBar \in Osd
  BY <1>2, TypeFinishMove, TypeFinishResize DEF ChildHidden
<1> HIDE DEF noBar
<1>4. ASSUME NEW f \in Osd PROVE [f EXCEPT !.timer = TRUE, !.dropped = FALSE, !.stray = FALSE] \in Osd
  BY ZenonT(60) DEF Osd
<1> QED BY <1>3, <1>4, TypeRowHidden, TypePositionWindow, TypeUpdateLayoutKeys
        DEF ShowMediaAction, noBar, bare, begun

LEMMA TypeShowPreview ==
  ASSUME NEW o \in Osd, NEW s
  PROVE  ShowPreview(o, s) \in Osd /\ ShowPreviewHeld(o, s) \in Osd
<1> DEFINE row == o.row \/ (o.enabled /\ o.wanted)
           full == [o EXCEPT !.action = FALSE, !.preview = TRUE, !.held = FALSE,
                             !.bar = TRUE, !.row = row]
<1>1. row \in BOOLEAN
  BY DEF Osd
<1> HIDE DEF row
<1>2. full \in Osd
  BY <1>1, ZenonT(60) DEF Osd
<1> HIDE DEF full
<1>3. ASSUME NEW f \in Osd PROVE [f EXCEPT !.timer = TRUE, !.dropped = FALSE, !.stray = FALSE] \in Osd
  BY ZenonT(60) DEF Osd
<1>4. ShowPreview(o, s) \in Osd
  BY <1>2, <1>3, TypePositionWindow, TypeUpdateLayoutKeys DEF ShowPreview, full, row
<1>5. ASSUME NEW f \in Osd PROVE [f EXCEPT !.held = TRUE, !.timer = FALSE] \in Osd
  BY ZenonT(60) DEF Osd
<1> QED BY <1>4, <1>5 DEF ShowPreviewHeld

LEMMA TypeReleasePreview == ASSUME NEW o \in Osd PROVE ReleasePreview(o) \in Osd
<1> DEFINE timer == o.timer \/ (o.visible /\ o.preview)
<1>1. timer \in BOOLEAN
  BY DEF Osd
<1> HIDE DEF timer
<1>2. [o EXCEPT !.held = FALSE, !.timer = timer] \in Osd
  BY <1>1, ZenonT(60) DEF Osd
<1> QED BY <1>2 DEF ReleasePreview, timer

LEMMA TypeHidePreview == ASSUME NEW o \in Osd, NEW s PROVE HidePreview(o, s) \in Osd
<1>1. [o EXCEPT !.preview = FALSE, !.held = FALSE] \in Osd
  BY ZenonT(60) DEF Osd
<1> QED BY <1>1, TypeHide DEF HidePreview

LEMMA TypeHideTimeout == ASSUME NEW o \in Osd, NEW s PROVE HideTimeout(o, s) \in Osd
<1>1. [o EXCEPT !.timer = FALSE, !.action = FALSE] \in Osd
  BY ZenonT(60) DEF Osd
<1> QED BY <1>1, TypeHide DEF HideTimeout

LEMMA TypeReloadStyles == ASSUME NEW o \in Osd, NEW s \in Settings PROVE ReloadStyles(o, s) \in Osd
<1>1. s.progress \in BOOLEAN /\ s.position \in BOOLEAN
  BY DEF Settings
<1>2. ASSUME NEW f \in Osd PROVE [f EXCEPT !.position = s.position] \in Osd
  BY <1>1, ZenonT(60) DEF Osd
<1> QED BY <1>1, <1>2, TypeSetProgressEnabled, TypeFinishMove, TypeFinishSeeking DEF ReloadStyles

LEMMA TypeEnter == ASSUME NEW o \in Osd PROVE Enter(o) \in Osd
  BY Zenon DEF Enter, Osd

LEMMA TypeLeave == ASSUME NEW o \in Osd PROVE Leave(o) \in Osd
<1>1. [o EXCEPT !.hover = FALSE] \in Osd
  BY ZenonT(60) DEF Osd
<1> QED BY <1>1, TypeRestartHideTimer, Zenon DEF Leave

LEMMA TypePress ==
  ASSUME NEW o \in Osd, NEW s
  PROVE  PressEdge(o) \in Osd /\ PressInterior(o) \in Osd /\ PressBar(o, s) \in Osd
<1>1. ASSUME NEW f \in Osd PROVE [f EXCEPT !.pressed = TRUE, !.resizing = TRUE, !.timer = FALSE] \in Osd
  BY ZenonT(60) DEF Osd
<1>2. ASSUME NEW f \in Osd PROVE [f EXCEPT !.pressed = TRUE, !.moving = TRUE, !.timer = FALSE] \in Osd
  BY ZenonT(60) DEF Osd
<1>3. [o EXCEPT !.pressed = TRUE] \in Osd
  BY ZenonT(60) DEF Osd
<1>4. [o EXCEPT !.pressed = TRUE, !.seeking = TRUE, !.grip = o.title] \in Osd
  <2>1. o.title \in Titles
    BY DEF Osd
  <2> QED BY <2>1, ZenonT(60) DEF Osd
<1>5. PressEdge(o) \in Osd
  BY <1>1, TypeFinishSeeking DEF PressEdge
<1>6. PressInterior(o) \in Osd
  BY <1>2, <1>3, TypeFinishSeeking DEF PressInterior
<1> QED BY <1>4, <1>5, <1>6, Zenon DEF PressBar

LEMMA TypeRelease ==
  ASSUME NEW o \in Osd
  PROVE  Release(o) \in Osd /\ [FinishSeeking(o) EXCEPT !.pressed = FALSE] \in Osd
<1>1. ASSUME NEW f \in Osd PROVE [f EXCEPT !.pressed = FALSE] \in Osd
  BY ZenonT(60) DEF Osd
<1> QED BY <1>1, TypeFinishMove, TypeFinishResize, TypeFinishSeeking DEF Release

LEMMA TypeLayout ==
  ASSUME NEW o \in Osd, NEW atLimit \in BOOLEAN
  PROVE  Snap(o) \in Osd /\ StepScale(o, atLimit) \in Osd
<1> DEFINE f == PositionWindow(o)
           stray == f.stray \/ ~o.visible
<1>1. f \in Osd
  BY TypePositionWindow
<1> HIDE DEF f
<1>2. stray \in BOOLEAN
  BY <1>1 DEF Osd
<1> HIDE DEF stray
<1>3. [f EXCEPT !.stray = stray] \in Osd
  BY <1>1, <1>2, ZenonT(60) DEF Osd
<1> QED BY <1>3, TypeRestartHideTimer, Zenon DEF Snap, StepScale, f, stray

-----------------------------------------------------------------------------
(* What is kept of the overlay by everything that happens.                 *)

\* A drag has its ground, and there is one at most.
Drag(o) ==
    /\ o.resizing \/ o.moving \/ o.seeking => o.visible /\ o.pressed
    /\ ~(o.resizing /\ o.moving) /\ ~(o.seeking /\ (o.resizing \/ o.moving))
    /\ o.seeking => o.row /\ o.timed /\ o.canSeek /\ o.grip = o.title
    /\ o.moving => o.position /\ ~o.preview

\* The row and the bar are there when they should be, layout keys never
\* without an overlay.
Row(o) ==
    /\ o.wanted => o.enabled
    /\ o.row => o.enabled /\ o.wanted /\ ~o.action
    /\ o.keys => o.visible /\ ~o.preview
    /\ o.visible /\ ~o.action /\ ~o.stray => o.bar /\ (o.row <=> o.enabled /\ o.wanted)

\* What is visible has a cause that will end.
Cause(o) ==
    o.visible =>
       \/ o.timer \/ o.hover \/ o.resizing \/ o.moving \/ o.dropped
       \/ o.preview /\ o.held

Upkept(o) == Drag(o) /\ Row(o) /\ Cause(o)

-----------------------------------------------------------------------------
(* What the ends of drags change.                                          *)

Same(o, r, fields) == \A f \in fields : r[f] = o[f]

\* No end of a drag touches these.
Frame == {"visible", "hover", "pressed", "action", "preview", "held", "enabled", "wanted",
          "bar", "title", "timed", "canSeek", "position", "keys", "stray"}

LEMMA EffectFinishSeeking ==
  ASSUME NEW o \in Osd
  PROVE  LET r == FinishSeeking(o)
         IN  /\ Same(o, r, Frame \cup {"row", "moving", "resizing", "timer", "dropped"})
             /\ r.seeking = FALSE /\ (Cause(o) => Cause(r))
  BY DEF FinishSeeking, Osd, Same, Frame, Cause

LEMMA EffectFinishMove ==
  ASSUME NEW o \in Osd
  PROVE  LET r == FinishMove(o)
         IN  /\ Same(o, r, Frame \cup {"row", "seeking", "resizing", "grip"})
             /\ r.moving = FALSE /\ (Cause(o) => Cause(r))
  BY DEF FinishMove, RestartHideTimer, Osd, Same, Frame, Cause

LEMMA EffectFinishResize ==
  ASSUME NEW o \in Osd
  PROVE  LET r == FinishResize(o, FALSE)
         IN  /\ Same(o, r, Frame \cup {"row", "seeking", "moving", "grip"})
             /\ r.resizing = FALSE /\ (Cause(o) => Cause(r))
  BY DEF FinishResize, Osd, Same, Frame, Cause

LEMMA EffectChildHidden ==
  ASSUME NEW o \in Osd
  PROVE  LET r == ChildHidden(o)
         IN  /\ r \in Osd /\ Same(o, r, Frame \cup {"row", "seeking", "grip"})
             /\ r.moving = FALSE /\ r.resizing = FALSE /\ (Cause(o) => Cause(r))
<1> DEFINE a == FinishResize(o, FALSE)
           r == FinishMove(a)
<1>1. a \in Osd /\ r \in Osd
  BY TypeFinishResize, TypeFinishMove
<1>2. Same(o, a, Frame \cup {"row", "seeking", "moving", "grip"}) /\ a.resizing = FALSE /\ (Cause(o) => Cause(a))
  BY EffectFinishResize
<1>3. Same(a, r, Frame \cup {"row", "seeking", "resizing", "grip"}) /\ r.moving = FALSE /\ (Cause(a) => Cause(r))
  BY <1>1, EffectFinishMove
<1> HIDE DEF a, r
<1>4. Same(o, r, Frame \cup {"row", "seeking", "grip"}) /\ r.resizing = FALSE
  BY <1>2, <1>3 DEF Same
<1> QED BY <1>1, <1>2, <1>3, <1>4 DEF ChildHidden, a, r

\* A row that was shown takes every drag with it.
LEMMA EffectRowHidden ==
  ASSUME NEW o \in Osd
  PROVE  LET r == RowHidden(o)
         IN  /\ r \in Osd /\ Same(o, r, Frame) /\ r.row = FALSE /\ (Cause(o) => Cause(r))
             /\ \/ Same(o, r, {"moving", "resizing", "seeking", "grip"}) /\ ~(o.row /\ o.visible)
                \/ r.moving = FALSE /\ r.resizing = FALSE /\ r.seeking = FALSE
<1> DEFINE a == [o EXCEPT !.row = FALSE]
           b == FinishSeeking(a)
           r == ChildHidden(b)
<1>1. a \in Osd
  BY ZenonT(60) DEF Osd
<1>2. Same(o, a, Frame \cup {"moving", "resizing", "seeking", "grip"}) /\ a.row = FALSE /\ (Cause(o) => Cause(a))
  BY DEF Osd, Same, Frame, Cause
<1> HIDE DEF a
<1>3. CASE o.row /\ o.visible
  <2>1. b \in Osd /\ Same(a, b, Frame \cup {"row"}) /\ b.seeking = FALSE /\ (Cause(a) => Cause(b))
    BY <1>1, TypeFinishSeeking, EffectFinishSeeking DEF Same
  <2> HIDE DEF b
  <2>2. /\ r \in Osd /\ Same(b, r, Frame \cup {"row", "seeking"})
        /\ r.moving = FALSE /\ r.resizing = FALSE /\ (Cause(b) => Cause(r))
    BY <2>1, EffectChildHidden DEF Same
  <2> HIDE DEF r
  <2>3. Same(o, r, Frame) /\ r.row = FALSE /\ r.seeking = FALSE
    BY <1>2, <2>1, <2>2 DEF Same
  <2>4. RowHidden(o) = r
    BY <1>3 DEF RowHidden, r, b, a
  <2> QED BY <1>2, <2>1, <2>2, <2>3, <2>4
<1>4. CASE ~(o.row /\ o.visible)
  <2>1. RowHidden(o) = a
    BY <1>4 DEF RowHidden, a
  <2> QED BY <1>1, <1>2, <1>4, <2>1 DEF Same
<1> QED BY <1>3, <1>4

LEMMA TypeHidden ==
  ASSUME NEW o \in Osd
  PROVE  [o EXCEPT !.visible = FALSE, !.hover = FALSE, !.action = FALSE,
                   !.dropped = FALSE, !.stray = FALSE] \in Osd
  BY ZenonT(60) DEF Osd

\* Hiding the overlay ends every drag and takes the layout keys back.
LEMMA EffectHide ==
  ASSUME NEW o \in Osd, NEW s \in Settings, o.visible, o.seeking => o.row
  PROVE  LET r == Hide(o, s)
         IN  /\ r \in Osd /\ ~r.visible /\ ~r.action /\ ~r.keys
             /\ ~r.moving /\ ~r.resizing /\ ~r.seeking
             /\ Same(o, r, {"row", "enabled", "wanted", "pressed", "preview", "position"})
<1> DEFINE a == [o EXCEPT !.visible = FALSE, !.hover = FALSE, !.action = FALSE,
                          !.dropped = FALSE, !.stray = FALSE]
           b == FinishMove(a)
           c == UpdateLayoutKeys(b, s)
           d == IF o.row THEN FinishSeeking(c) ELSE c
           r == FinishResize(d, FALSE)
           kept == {"row", "enabled", "wanted", "pressed", "preview", "position"}
<1>1. a \in Osd
  BY TypeHidden
<1>2. ~a.visible /\ ~a.action /\ Same(o, a, kept \cup {"seeking"})
  BY DEF Osd, Same
<1> HIDE DEF a
<1>3. b \in Osd /\ ~b.visible /\ ~b.action /\ ~b.moving /\ Same(a, b, kept \cup {"seeking"})
  BY <1>1, <1>2, TypeFinishMove, EffectFinishMove DEF Same, Frame
<1> HIDE DEF b
<1>4. c \in Osd
  BY <1>3, TypeUpdateLayoutKeys
<1>5. ~c.visible /\ ~c.action /\ ~c.moving /\ ~c.keys /\ Same(b, c, kept \cup {"seeking"})
  BY <1>3 DEF UpdateLayoutKeys, Osd, Same
<1> HIDE DEF c
<1>6. d \in Osd /\ ~d.visible /\ ~d.action /\ ~d.moving /\ ~d.keys /\ Same(c, d, kept)
      /\ (o.row \/ Same(c, d, {"seeking"})) /\ (o.row => ~d.seeking)
  BY <1>4, <1>5, TypeFinishSeeking, EffectFinishSeeking DEF Same, Frame
<1> HIDE DEF d
<1>7. ~d.seeking
  BY <1>2, <1>3, <1>5, <1>6 DEF Same
<1>8. r \in Osd /\ Same(d, r, Frame \cup {"row", "seeking", "moving", "grip"}) /\ r.resizing = FALSE
  BY <1>6, TypeFinishResize, EffectFinishResize
<1> HIDE DEF r
<1>9. /\ r \in Osd /\ ~r.visible /\ ~r.action /\ ~r.moving /\ ~r.keys /\ ~r.seeking
      /\ ~r.resizing /\ Same(d, r, kept)
  BY <1>6, <1>7, <1>8 DEF Same, Frame
<1>10. Same(o, r, kept)
  BY <1>2, <1>3, <1>5, <1>6, <1>9 DEF Same
<1>11. Hide(o, s) = r
  BY DEF Hide, r, d, c, b, a
<1> QED BY <1>9, <1>10, <1>11

-----------------------------------------------------------------------------
(* What happens to the overlay keeps it good.                              *)

\* It begins nothing: no drag, no press, no preview, no change of settings.
Tame(o, r) ==
    /\ r.enabled = o.enabled /\ r.position = o.position
    /\ (r.preview => o.preview) /\ (r.seeking => o.seeking) /\ (r.pressed => o.pressed)

LEMMA GoodHideTimeout ==
  ASSUME NEW o \in Osd, Upkept(o), NEW s \in Settings
  PROVE  Upkept(HideTimeout(o, s)) /\ Tame(o, HideTimeout(o, s))
<1> DEFINE a == [o EXCEPT !.timer = FALSE, !.action = FALSE]
<1>1. a \in Osd
  BY ZenonT(60) DEF Osd
<1>2. /\ Same(o, a, {"visible", "seeking", "resizing", "moving", "row", "enabled", "wanted", "pressed",
                     "preview", "position", "keys"})
      /\ ~a.action
  BY DEF Osd, Same
<1> HIDE DEF a
<1>3. CASE o.visible
  <2> DEFINE r == Hide(a, s)
  <2>1. /\ ~r.visible /\ ~r.action /\ ~r.keys /\ ~r.moving /\ ~r.resizing /\ ~r.seeking
        /\ Same(a, r, {"row", "enabled", "wanted", "pressed", "preview", "position"})
    BY <1>1, <1>2, <1>3, EffectHide DEF Upkept, Drag, Same
  <2>2. HideTimeout(o, s) = r
    BY DEF HideTimeout, a
  <2> HIDE DEF r
  <2> QED BY <1>2, <2>1, <2>2 DEF Upkept, Drag, Row, Cause, Same, Tame
<1>4. CASE ~o.visible
  BY <1>1, <1>2, <1>4 DEF HideTimeout, Hide, Upkept, Drag, Row, Cause, Same, Tame, a
<1> QED BY <1>3, <1>4

LEMMA GoodHidePreview ==
  ASSUME NEW o \in Osd, Upkept(o), NEW s \in Settings
  PROVE  LET r == HidePreview(o, s)
         IN  Upkept(r) /\ Tame(o, r) /\ ~r.preview
<1> DEFINE a == [o EXCEPT !.preview = FALSE, !.held = FALSE]
<1>1. a \in Osd
  BY ZenonT(60) DEF Osd
<1>2. /\ Same(o, a, {"visible", "seeking", "resizing", "moving", "row", "enabled", "wanted", "pressed",
                     "action", "position", "keys", "stray", "bar"})
      /\ ~a.preview
  BY DEF Osd, Same
<1> HIDE DEF a
<1>3. CASE o.preview /\ o.visible
  <2>1. HidePreview(o, s) = Hide(a, s)
    BY <1>3 DEF HidePreview, a
  <2> QED BY <1>1, <1>2, <1>3, <2>1, EffectHide DEF Upkept, Drag, Row, Cause, Same, Tame
<1>4. CASE o.preview /\ ~o.visible
  <2>1. HidePreview(o, s) = a
    BY <1>2, <1>4 DEF HidePreview, Hide, Same, a
  <2> QED BY <1>1, <1>2, <1>4, <2>1 DEF Upkept, Drag, Row, Cause, Same, Tame
<1>5. CASE ~o.preview
  BY <1>5 DEF HidePreview, Tame
<1> QED BY <1>3, <1>4, <1>5

LEMMA GoodSetProgressEnabled ==
  ASSUME NEW o \in Osd, Upkept(o), NEW on \in BOOLEAN
  PROVE  LET r == SetProgressEnabled(o, on)
         IN  Upkept(r) /\ r.enabled = on /\ Tame([o EXCEPT !.enabled = on], r)
<1> DEFINE a == FinishSeeking(o)
           b == [a EXCEPT !.enabled = FALSE, !.wanted = FALSE]
<1>1. CASE on = TRUE
  <2>1. SetProgressEnabled(o, on) = [o EXCEPT !.enabled = TRUE]
    BY <1>1 DEF SetProgressEnabled
  <2> QED BY <1>1, <2>1 DEF Upkept, Drag, Row, Cause, Osd, Tame
<1>2. CASE on = FALSE
  <2>1. a \in Osd /\ Same(o, a, Frame \cup {"row", "moving", "resizing", "timer", "dropped"})
        /\ a.seeking = FALSE /\ (Cause(o) => Cause(a))
    BY TypeFinishSeeking, EffectFinishSeeking
  <2> HIDE DEF a
  <2>2. b \in Osd
    BY <2>1, ZenonT(60) DEF Osd
  <2>3. /\ Same(a, b, {"visible", "hover", "pressed", "action", "preview", "held", "bar", "title",
                       "timed", "canSeek", "position", "keys", "stray", "row", "moving",
                       "resizing", "seeking"})
        /\ ~b.wanted /\ b.enabled = FALSE /\ (Cause(a) => Cause(b))
    BY <2>1 DEF Osd, Same, Cause
  <2> HIDE DEF b
  <2> DEFINE r == RowHidden(b)
  <2>4. /\ Same(b, r, Frame) /\ r.row = FALSE /\ (Cause(b) => Cause(r))
        /\ \/ Same(b, r, {"moving", "resizing", "seeking", "grip"})
           \/ r.moving = FALSE /\ r.resizing = FALSE /\ r.seeking = FALSE
    BY <2>2, EffectRowHidden
  <2> HIDE DEF r
  <2>5. Upkept(r) /\ r.enabled = FALSE /\ Tame([o EXCEPT !.enabled = FALSE], r)
    <3>1. /\ Same(o, r, Frame \ {"enabled", "wanted"})
          /\ r.enabled = FALSE /\ ~r.wanted /\ r.row = FALSE /\ r.seeking = FALSE
      BY <2>1, <2>3, <2>4 DEF Same, Frame
    <3>2. \/ r.moving = o.moving /\ r.resizing = o.resizing
          \/ r.moving = FALSE /\ r.resizing = FALSE
      <4>1. b.moving = o.moving /\ b.resizing = o.resizing
        BY <2>1, <2>3 DEF Same
      <4>2. CASE Same(b, r, {"moving", "resizing", "seeking", "grip"})
        BY <4>1, <4>2 DEF Same
      <4> QED
        BY <2>4, <4>2
    <3>3. Drag(r)
      BY <3>1, <3>2 DEF Upkept, Drag, Same, Frame
    <3>4. Row(r)
      BY <3>1 DEF Upkept, Row, Same, Frame
    <3>5. Cause(r)
      BY <2>1, <2>3, <2>4 DEF Upkept
    <3>6. Tame([o EXCEPT !.enabled = FALSE], r)
      BY <3>1 DEF Same, Frame, Tame, Osd
    <3> QED
      BY <3>1, <3>3, <3>4, <3>5, <3>6 DEF Upkept
  <2>6. SetProgressEnabled(o, on) = r
    BY <1>2 DEF SetProgressEnabled, r, b, a
  <2> QED BY <1>2, <2>5, <2>6
<1> QED BY <1>1, <1>2

LEMMA GoodSetProgressVisible ==
  ASSUME NEW o \in Osd, Upkept(o), NEW on \in BOOLEAN
  PROVE  LET r == SetProgressVisible(o, on)
         IN  Upkept(r) /\ Tame(o, r) /\ (o.enabled => r.wanted = on)
<1> DEFINE a == FinishSeeking(o)
           b == [a EXCEPT !.wanted = FALSE]
<1>1. CASE ~o.enabled \/ o.wanted = on
  BY <1>1 DEF SetProgressVisible, Tame
<1>2. CASE o.enabled /\ o.wanted # on /\ on = TRUE
  <2>1. SetProgressVisible(o, on) = [o EXCEPT !.wanted = TRUE, !.row = IF o.action THEN o.row ELSE TRUE]
    BY <1>2, Zenon DEF SetProgressVisible
  <2> QED BY <1>2, <2>1, ZenonT(60) DEF Upkept, Drag, Row, Cause, Osd, Tame
<1>3. CASE o.enabled /\ o.wanted # on /\ on = FALSE
  <2>1. a \in Osd /\ Same(o, a, Frame \cup {"row", "moving", "resizing", "timer", "dropped"})
        /\ a.seeking = FALSE /\ (Cause(o) => Cause(a))
    BY TypeFinishSeeking, EffectFinishSeeking
  <2> HIDE DEF a
  <2>2. b \in Osd
    BY <2>1, ZenonT(60) DEF Osd
  <2>3. /\ Same(a, b, (Frame \ {"wanted"}) \cup {"row", "moving", "resizing", "seeking"})
        /\ b.wanted = FALSE /\ (Cause(a) => Cause(b))
    BY <2>1 DEF Osd, Same, Cause, Frame
  <2> HIDE DEF b
  <2>4. CASE o.action
    <3>1. SetProgressVisible(o, on) = b
      BY <1>3, <2>4 DEF SetProgressVisible, b, a
    <3> QED BY <1>3, <2>1, <2>3, <2>4, <3>1 DEF Upkept, Drag, Row, Same, Frame, Tame
  <2>5. CASE ~o.action
    <3> DEFINE r == RowHidden(b)
    <3>1. /\ Same(b, r, Frame) /\ r.row = FALSE /\ (Cause(b) => Cause(r))
          /\ \/ Same(b, r, {"moving", "resizing", "seeking", "grip"})
             \/ r.moving = FALSE /\ r.resizing = FALSE /\ r.seeking = FALSE
      BY <2>2, EffectRowHidden
    <3>2. SetProgressVisible(o, on) = r
      BY <1>3, <2>5 DEF SetProgressVisible, b, a
    <3> HIDE DEF r
    <3>3. /\ Same(o, r, Frame \ {"wanted"}) /\ r.wanted = FALSE /\ r.row = FALSE /\ r.seeking = FALSE
          /\ (r.moving => o.moving) /\ (r.resizing => o.resizing)
      BY <2>1, <2>3, <3>1 DEF Same, Frame
    <3>4. Cause(r)
      BY <2>1, <2>3, <3>1 DEF Upkept
    <3> QED BY <1>3, <3>2, <3>3, <3>4 DEF Upkept, Drag, Row, Same, Frame, Tame
  <2> QED BY <2>4, <2>5
<1> QED BY <1>1, <1>2, <1>3

LEMMA GoodShowMediaAction ==
  ASSUME NEW o \in Osd, Upkept(o), NEW s \in Settings
  PROVE  Upkept(ShowMediaAction(o, s)) /\ Tame(o, ShowMediaAction(o, s))
<1> DEFINE a == [o EXCEPT !.action = TRUE, !.preview = FALSE, !.held = FALSE]
           b == [a EXCEPT !.bar = FALSE]
           c == IF o.bar /\ o.visible THEN ChildHidden(b) ELSE b
           d == RowHidden(c)
           e == PositionWindow(d)
           f == [e EXCEPT !.timer = TRUE, !.dropped = FALSE, !.stray = FALSE]
           r == UpdateLayoutKeys(f, s)
           fields == {"pressed", "enabled", "wanted", "title", "timed", "canSeek", "position"}
<1>1. a \in Osd
  BY ZenonT(60) DEF Osd
<1> HIDE DEF a
<1>2. b \in Osd
  BY <1>1, ZenonT(60) DEF Osd
<1>3. /\ Same(o, b, fields \cup {"visible", "row", "resizing", "moving", "seeking", "grip"})
      /\ b.action = TRUE /\ b.preview = FALSE
  BY DEF Osd, Same, a
<1> HIDE DEF b
<1>4. /\ c \in Osd /\ Same(b, c, fields \cup {"visible", "row", "seeking", "grip", "action", "preview"})
      /\ (c.moving = b.moving \/ c.moving = FALSE) /\ (c.resizing = b.resizing \/ c.resizing = FALSE)
  BY <1>2, EffectChildHidden DEF Same, Frame
<1> HIDE DEF c
<1>5. /\ d \in Osd /\ Same(c, d, fields \cup {"visible", "action", "preview"}) /\ d.row = FALSE
      /\ \/ Same(c, d, {"moving", "resizing", "seeking", "grip"}) /\ ~(c.row /\ c.visible)
         \/ d.moving = FALSE /\ d.resizing = FALSE /\ d.seeking = FALSE
  <2>1. /\ d \in Osd /\ Same(c, d, Frame) /\ d.row = FALSE
        /\ \/ Same(c, d, {"moving", "resizing", "seeking", "grip"}) /\ ~(c.row /\ c.visible)
           \/ d.moving = FALSE /\ d.resizing = FALSE /\ d.seeking = FALSE
    BY <1>4, EffectRowHidden
  <2> HIDE DEF d
  <2> QED BY <2>1 DEF Same, Frame
<1> HIDE DEF d
<1>6. /\ Same(o, d, fields \cup {"visible"}) /\ d.action = TRUE /\ d.preview = FALSE /\ d.row = FALSE
      /\ (d.moving => o.moving) /\ (d.resizing => o.resizing) /\ d.seeking = FALSE
  BY <1>3, <1>4, <1>5 DEF Same, Upkept, Drag, Osd
<1>7. Upkept(r) /\ Tame(o, r)
  BY <1>5, <1>6 DEF PositionWindow, UpdateLayoutKeys, Upkept, Drag, Row, Cause, Tame, Osd, Same
<1>8. ShowMediaAction(o, s) = r
  BY DEF ShowMediaAction, d, c, b, a
<1> QED BY <1>7, <1>8

LEMMA GoodReloadStyles ==
  ASSUME NEW o \in Osd, Upkept(o), NEW s \in Settings
  PROVE  LET r == ReloadStyles(o, s)
         IN  /\ Upkept(r) /\ r.enabled = s.progress /\ r.position = s.position
             /\ (r.preview => o.preview) /\ (r.pressed => o.pressed)
             /\ (r.seeking => o.seeking /\ s.interactive)
<1> DEFINE a == SetProgressEnabled(o, s.progress)
           b == [a EXCEPT !.position = s.position]
           c == IF s.position THEN b ELSE FinishMove(b)
           d == IF s.interactive THEN c ELSE FinishSeeking(c)
           rest == {"enabled", "position", "preview", "pressed"}
<1>1. s.progress \in BOOLEAN /\ s.position \in BOOLEAN
  BY DEF Settings
<1>2. a \in Osd /\ Upkept(a) /\ a.enabled = s.progress /\ Tame([o EXCEPT !.enabled = s.progress], a)
  BY <1>1, TypeSetProgressEnabled, GoodSetProgressEnabled
<1>3. (a.preview => o.preview) /\ (a.pressed => o.pressed) /\ (a.seeking => o.seeking)
  BY <1>2 DEF Tame, Osd
<1> HIDE DEF a
<1>4. b \in Osd
  BY <1>1, <1>2, ZenonT(60) DEF Osd
<1>5. Same(a, b, (Frame \ {"position"}) \cup {"row", "moving", "resizing", "seeking", "grip"})
      /\ b.position = s.position /\ (Cause(a) => Cause(b))
  BY <1>2 DEF Osd, Same, Frame, Cause
<1> HIDE DEF b
<1>7. c \in Osd /\ Upkept(c) /\ Same(b, c, rest \cup {"seeking"})
  <2>1. CASE s.position
    BY <1>2, <1>4, <1>5, <2>1 DEF Upkept, Drag, Row, Same, Frame
  <2>2. CASE ~s.position
    <3>1. /\ c \in Osd /\ Same(b, c, Frame \cup {"row", "seeking", "resizing", "grip"})
          /\ c.moving = FALSE /\ (Cause(b) => Cause(c))
      BY <1>4, <2>2, TypeFinishMove, EffectFinishMove
    <3> HIDE DEF c
    <3> QED BY <1>2, <1>5, <3>1 DEF Upkept, Drag, Row, Same, Frame
  <2> QED BY <2>1, <2>2
<1> HIDE DEF c
<1>8. Upkept(d) /\ Same(c, d, rest) /\ (d.seeking => c.seeking /\ s.interactive)
  <2>1. CASE s.interactive
    BY <1>7, <2>1 DEF Same
  <2>2. CASE ~s.interactive
    <3>1. /\ Same(c, d, Frame \cup {"row", "moving", "resizing", "timer", "dropped"})
          /\ d.seeking = FALSE /\ (Cause(c) => Cause(d))
      BY <1>7, <2>2, EffectFinishSeeking
    <3> HIDE DEF d
    <3> QED BY <1>7, <3>1 DEF Upkept, Drag, Row, Same, Frame
  <2> QED BY <2>1, <2>2
<1> HIDE DEF d
<1>9. ReloadStyles(o, s) = d
  BY DEF ReloadStyles, d, c, b, a
<1> QED BY <1>2, <1>3, <1>5, <1>7, <1>8, <1>9 DEF Same, Frame

LEMMA GoodSeekInterrupted ==
  ASSUME NEW o \in Osd, Upkept(o)
  PROVE  LET r == [FinishSeeking(o) EXCEPT !.pressed = FALSE]
         IN  o.seeking => Upkept(r) /\ Tame(o, r)
  BY DEF FinishSeeking, Osd, Upkept, Drag, Row, Cause, Tame

LEMMA GoodUpdates ==
  ASSUME NEW o \in Osd, Upkept(o), NEW v
  PROVE  /\ Upkept(SetAlbumArt(o, v)) /\ Tame(o, SetAlbumArt(o, v))
         /\ Upkept(UpdatePlaybackStatus(o, v)) /\ Tame(o, UpdatePlaybackStatus(o, v))
         /\ Upkept(UpdatePosition(o, v)) /\ Tame(o, UpdatePosition(o, v))
  BY DEF SetAlbumArt, UpdatePlaybackStatus, UpdatePosition, Osd, Upkept, Drag, Row, Cause, Tame

LEMMA GoodUpdateTrack ==
  ASSUME NEW o \in Osd, Upkept(o), NEW track
  PROVE  Upkept(UpdateTrack(o, track)) /\ Tame(o, UpdateTrack(o, track))
  BY SMTT(30) DEF UpdateTrack, OtherTrack, FinishSeeking, Osd, Upkept, Drag, Row, Cause, Tame

LEMMA GoodShowVolume ==
  ASSUME NEW o \in Osd, Upkept(o), NEW s \in Settings
  PROVE  Upkept(ShowVolume(o, s)) /\ Tame(o, ShowVolume(o, s))
  BY SMTT(30) DEF ShowVolume, UpdateLayoutKeys, PositionWindow, Osd, Settings, Upkept, Drag, Row, Cause, Tame

LEMMA GoodShowPreview ==
  ASSUME NEW o \in Osd, Upkept(o), NEW s \in Settings, ~o.pressed
  PROVE  \A r \in {ShowPreview(o, s), ShowPreviewHeld(o, s)} :
            Upkept(r) /\ Same(o, r, {"enabled", "position", "seeking", "pressed"})
<1>1. LET r == ShowPreview(o, s)
      IN  Upkept(r) /\ Same(o, r, {"enabled", "position", "seeking", "pressed"}) /\ r.preview
  BY SMTT(30) DEF ShowPreview, UpdateLayoutKeys, PositionWindow, Osd, Settings, Upkept, Drag, Row,
     Cause, Same
<1> DEFINE a == ShowPreview(o, s)
<1>2. a \in Osd
  BY TypeShowPreview
<1> HIDE DEF a
<1>3. LET r == [a EXCEPT !.held = TRUE, !.timer = FALSE]
      IN  Upkept(r) /\ Same(o, r, {"enabled", "position", "seeking", "pressed"})
  BY <1>1, <1>2 DEF Osd, Upkept, Drag, Row, Cause, Same, a
<1> QED BY <1>1, <1>3 DEF ShowPreviewHeld, a

LEMMA GoodReleasePreview ==
  ASSUME NEW o \in Osd, Upkept(o)
  PROVE  Upkept(ReleasePreview(o)) /\ Tame(o, ReleasePreview(o))
  BY DEF ReleasePreview, Osd, Upkept, Drag, Row, Cause, Tame

LEMMA GoodPointer ==
  ASSUME NEW o \in Osd, Upkept(o)
  PROVE  /\ Upkept(Enter(o)) /\ Tame(o, Enter(o))
         /\ Upkept(Leave(o)) /\ Tame(o, Leave(o))
  BY SMTT(30) DEF Enter, Leave, RestartHideTimer, Osd, Upkept, Drag, Row, Cause, Tame

\* The button goes down over a visible overlay.
LEMMA GoodPress ==
  ASSUME NEW o \in Osd, Upkept(o), o.visible, ~o.pressed, NEW s \in Settings
  PROVE  /\ \A r \in {PressEdge(o), PressInterior(o)} :
               Upkept(r) /\ Same(o, r, {"enabled", "position", "preview"}) /\ ~r.seeking
         /\ o.row =>
               LET r == PressBar(o, s)
               IN  Upkept(r) /\ Same(o, r, {"enabled", "position", "preview"})
                   /\ (r.seeking => s.interactive)
<1>1. Upkept(PressEdge(o)) /\ Same(o, PressEdge(o), {"enabled", "position", "preview"}) /\ ~PressEdge(o).seeking
  BY SMTT(30) DEF PressEdge, FinishSeeking, Osd, Upkept, Drag, Row, Cause, Same
<1>2. Upkept(PressInterior(o)) /\ Same(o, PressInterior(o), {"enabled", "position", "preview"}) /\ ~PressInterior(o).seeking
  BY SMTT(30) DEF PressInterior, CanMove, FinishSeeking, Osd, Upkept, Drag, Row, Cause, Same
<1>3. CASE CanSeekNow(o, s) /\ o.row
  <2> DEFINE r == [o EXCEPT !.pressed = TRUE, !.seeking = TRUE, !.grip = o.title]
  <2>1. PressBar(o, s) = r
    BY <1>3 DEF PressBar
  <2>2. Upkept(r) /\ Same(o, r, {"enabled", "position", "preview"}) /\ s.interactive
    BY <1>3 DEF CanSeekNow, Osd, Upkept, Drag, Row, Cause, Same
  <2> QED BY <1>1, <1>2, <2>1, <2>2
<1>4. CASE ~CanSeekNow(o, s)
  BY <1>1, <1>2, <1>4 DEF PressBar
<1> QED BY <1>1, <1>2, <1>3, <1>4

LEMMA GoodRelease ==
  ASSUME NEW o \in Osd, Upkept(o)
  PROVE  Upkept(Release(o)) /\ Tame(o, Release(o))
  BY SMTT(30) DEF Release, CanMove, FinishSeeking, FinishMove, FinishResize, RestartHideTimer, Osd,
     Upkept, Drag, Row, Cause, Tame

LEMMA GoodLayout ==
  ASSUME NEW o \in Osd, Upkept(o), NEW atLimit \in BOOLEAN
  PROVE  /\ Upkept(Snap(o)) /\ Tame(o, Snap(o))
         /\ Upkept(StepScale(o, atLimit)) /\ Tame(o, StepScale(o, atLimit))
<1>1. Upkept(Snap(o)) /\ Tame(o, Snap(o))
  BY SMTT(30) DEF Snap, PositionWindow, RestartHideTimer, Osd, Upkept, Drag, Row, Cause, Tame
<1>2. Upkept(StepScale(o, atLimit)) /\ Tame(o, StepScale(o, atLimit))
  BY SMTT(30) DEF StepScale, RestartHideTimer, Osd, Upkept, Drag, Row, Cause, Tame
<1> QED BY <1>1, <1>2

\* Another widget that is hidden only ends moves and resizes.
LEMMA GoodOthersHidden ==
  ASSUME NEW o \in Osd, Upkept(o)
  PROVE  OthersHidden(o) \in Osd /\ Upkept(OthersHidden(o)) /\ Tame(o, OthersHidden(o))
<1> DEFINE r == ChildHidden(o)
<1>1. /\ r \in Osd /\ Same(o, r, Frame \cup {"row", "seeking", "grip"})
      /\ r.moving = FALSE /\ r.resizing = FALSE /\ (Cause(o) => Cause(r))
  BY EffectChildHidden
<1> HIDE DEF r
<1>2. Upkept(r) /\ Tame(o, r)
  BY <1>1 DEF Same, Frame, Upkept, Drag, Row, Tame
<1>3. Tame(o, o)
  BY DEF Tame
<1> QED BY <1>1, <1>2, <1>3 DEF OthersHidden, r

-----------------------------------------------------------------------------
(* Only the client's signals change what the overlay says of a track.      *)

Says(o, r) ==
    r.title = o.title /\ r.picture = o.picture /\ r.playing = o.playing /\ r.at = o.at
Kept(o, r) == Says(o, r) /\ r.wanted = o.wanted /\ r.enabled = o.enabled

LEMMA KeptFinishMove == ASSUME NEW o \in Osd PROVE Kept(o, FinishMove(o))
  BY DEF FinishMove, RestartHideTimer, Osd, Kept, Says
LEMMA KeptFinishSeeking == ASSUME NEW o \in Osd PROVE Kept(o, FinishSeeking(o))
  BY DEF FinishSeeking, Osd, Kept, Says
LEMMA KeptFinishResize == ASSUME NEW o \in Osd, NEW persist \in BOOLEAN PROVE Kept(o, FinishResize(o, persist))
  BY DEF FinishResize, RestartHideTimer, Osd, Kept, Says
LEMMA KeptOthersHidden == ASSUME NEW o \in Osd PROVE Kept(o, OthersHidden(o))
  BY SMTT(30) DEF OthersHidden, ChildHidden, FinishMove, FinishResize, RestartHideTimer, Osd, Kept, Says
LEMMA KeptRowHidden == ASSUME NEW o \in Osd PROVE Kept(o, RowHidden(o))
  BY SMTT(30) DEF RowHidden, ChildHidden, FinishMove, FinishSeeking, FinishResize, RestartHideTimer, Osd, Kept, Says
LEMMA KeptSetProgressEnabled ==
  ASSUME NEW o \in Osd, NEW on \in BOOLEAN
  PROVE  LET r == SetProgressEnabled(o, on)
         IN  Says(o, r) /\ r.enabled = on /\ r.wanted = (on /\ o.wanted)
<1> DEFINE a == FinishSeeking(o)
           b == [a EXCEPT !.enabled = FALSE, !.wanted = FALSE]
<1>1. CASE on = TRUE
  BY <1>1 DEF SetProgressEnabled, Osd, Says
<1>2. CASE on = FALSE
  <2>1. a \in Osd /\ Kept(o, a)
    BY TypeFinishSeeking, KeptFinishSeeking
  <2> HIDE DEF a
  <2>2. b \in Osd
    BY <2>1, ZenonT(60) DEF Osd
  <2>3. Says(a, b) /\ b.enabled = FALSE /\ b.wanted = FALSE
    BY <2>1 DEF Osd, Says
  <2> HIDE DEF b
  <2>4. Kept(b, RowHidden(b))
    BY <2>2, KeptRowHidden
  <2>5. SetProgressEnabled(o, on) = RowHidden(b)
    BY <1>2 DEF SetProgressEnabled, a, b
  <2> QED BY <1>2, <2>1, <2>3, <2>4, <2>5 DEF Kept, Says
<1> QED BY <1>1, <1>2
LEMMA KeptHide == ASSUME NEW o \in Osd, NEW s PROVE Kept(o, Hide(o, s))
  BY SMTT(30) DEF Hide, UpdateLayoutKeys, FinishMove, FinishSeeking, FinishResize, RestartHideTimer, Osd, Kept, Says
LEMMA KeptShow == ASSUME NEW o \in Osd, NEW s PROVE
   /\ Kept(o, ShowVolume(o, s)) /\ Kept(o, ShowPreview(o, s)) /\ Kept(o, ShowPreviewHeld(o, s))
   /\ Kept(o, ReleasePreview(o))
  BY SMTT(30) DEF ShowVolume, ShowPreview, ShowPreviewHeld, ReleasePreview, PositionWindow, UpdateLayoutKeys, Osd, Kept, Says
LEMMA KeptShowMediaAction ==
  ASSUME NEW o \in Osd, NEW s PROVE Kept(o, ShowMediaAction(o, s))
<1> DEFINE a == [o EXCEPT !.action = TRUE, !.preview = FALSE, !.held = FALSE]
           b == [a EXCEPT !.bar = FALSE]
           c == IF o.bar /\ o.visible THEN ChildHidden(b) ELSE b
           d == RowHidden(c)
<1>1. a \in Osd
  BY ZenonT(60) DEF Osd
<1> HIDE DEF a
<1>2. b \in Osd
  BY <1>1, ZenonT(60) DEF Osd
<1>3. Kept(o, b)
  BY DEF Osd, Kept, Says, a
<1> HIDE DEF b
<1>4. c \in Osd /\ Kept(b, c)
  <2>1. ChildHidden(b) \in Osd /\ Kept(b, ChildHidden(b))
    <3> DEFINE e == FinishResize(b, FALSE)
    <3>1. e \in Osd /\ Kept(b, e)
      BY <1>2, TypeFinishResize, KeptFinishResize
    <3> HIDE DEF e
    <3>2. FinishMove(e) \in Osd /\ Kept(e, FinishMove(e))
      BY <3>1, TypeFinishMove, KeptFinishMove
    <3>3. ChildHidden(b) = FinishMove(e)
      BY DEF ChildHidden, e
    <3> QED BY <3>1, <3>2, <3>3 DEF Kept, Says
  <2>2. Kept(b, b)
    BY DEF Kept, Says
  <2> QED BY <1>2, <2>1, <2>2
<1> HIDE DEF c
<1>5. d \in Osd /\ Kept(c, d)
  BY <1>4, TypeRowHidden, KeptRowHidden
<1> HIDE DEF d
<1>6. Kept(d, ShowMediaAction(o, s))
  BY <1>5 DEF ShowMediaAction, PositionWindow, UpdateLayoutKeys, Osd, Kept, Says, d, c, b, a
<1> QED BY <1>3, <1>4, <1>5, <1>6 DEF Kept, Says

LEMMA KeptHideTimeout ==
  ASSUME NEW o \in Osd, NEW s PROVE Kept(o, HideTimeout(o, s)) /\ Kept(o, HidePreview(o, s))
<1> DEFINE a == [o EXCEPT !.timer = FALSE, !.action = FALSE]
           b == [o EXCEPT !.preview = FALSE, !.held = FALSE]
<1>1. a \in Osd
  BY ZenonT(60) DEF Osd
<1>2. b \in Osd
  BY ZenonT(60) DEF Osd
<1>3. Kept(o, a) /\ Kept(o, b)
  BY DEF Osd, Kept, Says
<1>4. Kept(a, Hide(a, s)) /\ Kept(b, Hide(b, s))
  BY <1>1, <1>2, KeptHide
<1> QED BY <1>3, <1>4 DEF HideTimeout, HidePreview, Kept, Says

LEMMA KeptReloadStyles ==
  ASSUME NEW o \in Osd, NEW s \in Settings
  PROVE  LET r == ReloadStyles(o, s)
         IN  Says(o, r) /\ r.enabled = s.progress /\ r.wanted = (s.progress /\ o.wanted)
<1> DEFINE a == SetProgressEnabled(o, s.progress)
           b == [a EXCEPT !.position = s.position]
           c == IF s.position THEN b ELSE FinishMove(b)
           d == IF s.interactive THEN c ELSE FinishSeeking(c)
<1>1. s.progress \in BOOLEAN /\ s.position \in BOOLEAN
  BY DEF Settings
<1>2. a \in Osd /\ Says(o, a) /\ a.enabled = s.progress /\ a.wanted = (s.progress /\ o.wanted)
  BY <1>1, TypeSetProgressEnabled, KeptSetProgressEnabled
<1> HIDE DEF a
<1>3. b \in Osd
  BY <1>1, <1>2, ZenonT(60) DEF Osd
<1>4. Kept(a, b)
  BY <1>2 DEF Osd, Kept, Says
<1> HIDE DEF b
<1>5. c \in Osd /\ Kept(b, c)
  BY <1>3, TypeFinishMove, KeptFinishMove DEF Kept, Says
<1> HIDE DEF c
<1>6. Kept(c, d)
  BY <1>5, KeptFinishSeeking DEF Kept, Says
<1> HIDE DEF d
<1>7. ReloadStyles(o, s) = d
  BY DEF ReloadStyles, d, c, b, a
<1> QED BY <1>2, <1>4, <1>5, <1>6, <1>7 DEF Kept, Says

LEMMA KeptSetProgressVisible ==
  ASSUME NEW o \in Osd, NEW on \in BOOLEAN
  PROVE  LET r == SetProgressVisible(o, on)
         IN  Says(o, r) /\ r.enabled = o.enabled /\ r.wanted = IF o.enabled THEN on ELSE o.wanted
<1> DEFINE a == FinishSeeking(o)
           b == [a EXCEPT !.wanted = FALSE]
           c == [o EXCEPT !.wanted = TRUE, !.row = IF o.action THEN @ ELSE TRUE]
<1>1. a \in Osd /\ Kept(o, a)
  BY TypeFinishSeeking, KeptFinishSeeking
<1> HIDE DEF a
<1>2. b \in Osd
  BY <1>1, ZenonT(60) DEF Osd
<1>3. /\ Says(a, b) /\ b.enabled = a.enabled /\ b.wanted = FALSE
      /\ Says(o, c) /\ c.enabled = o.enabled /\ c.wanted = TRUE
  BY <1>1 DEF Osd, Says
<1>4. /\ ~o.enabled \/ o.wanted = on => SetProgressVisible(o, on) = o
      /\ o.enabled /\ o.wanted # on /\ on => SetProgressVisible(o, on) = c
      /\ o.enabled /\ o.wanted # on /\ ~on => SetProgressVisible(o, on) \in {b, RowHidden(b)}
  BY Zenon DEF SetProgressVisible, a, b, c
<1> HIDE DEF b, c
<1>5. Kept(b, RowHidden(b))
  BY <1>2, KeptRowHidden
<1> QED BY <1>1, <1>3, <1>4, <1>5 DEF Kept, Says

LEMMA KeptMouse == ASSUME NEW o \in Osd, NEW s, NEW atLimit PROVE
   /\ Kept(o, Enter(o)) /\ Kept(o, Leave(o)) /\ Kept(o, PressEdge(o)) /\ Kept(o, PressInterior(o))
   /\ Kept(o, PressBar(o, s)) /\ Kept(o, Snap(o)) /\ Kept(o, StepScale(o, atLimit)) /\ Kept(o, [FinishSeeking(o) EXCEPT !.pressed = FALSE])
  BY SMTT(30) DEF Enter, Leave, PressEdge, PressInterior, PressBar, Snap, StepScale, PositionWindow, RestartHideTimer, FinishSeeking, Osd, Kept, Says
LEMMA KeptRelease == ASSUME NEW o \in Osd PROVE Kept(o, Release(o))
  BY SMTT(30) DEF Release, FinishMove, FinishSeeking, FinishResize, RestartHideTimer, Osd, Kept, Says

\* updateTrack is the one that sets the title, setAlbumArt the picture.
LEMMA KeptStatus ==
  ASSUME NEW o \in Osd, NEW v
  PROVE  LET r == UpdatePlaybackStatus(o, v)
         IN  /\ r.playing = v /\ r.title = o.title /\ r.picture = o.picture /\ r.at = o.at
             /\ r.wanted = o.wanted /\ r.enabled = o.enabled
  BY DEF UpdatePlaybackStatus, Osd

LEMMA KeptPosition ==
  ASSUME NEW o \in Osd, NEW v
  PROVE  LET r == UpdatePosition(o, v)
         IN  /\ r.at \in {o.at, v} /\ r.title = o.title /\ r.picture = o.picture
             /\ r.playing = o.playing /\ r.wanted = o.wanted /\ r.enabled = o.enabled
  BY DEF UpdatePosition, Osd

LEMMA KeptAlbumArt ==
  ASSUME NEW o \in Osd, NEW v
  PROVE  LET r == SetAlbumArt(o, v)
         IN  /\ r.picture = v /\ r.title = o.title /\ r.playing = o.playing /\ r.at = o.at
             /\ r.wanted = o.wanted /\ r.enabled = o.enabled
  BY DEF SetAlbumArt, Osd

\* A position does not outlive its title.
LEMMA KeptUpdateTrack ==
  ASSUME NEW o \in Osd, NEW track
  PROVE  LET r == UpdateTrack(o, track)
         IN  /\ r.title = Title(track) /\ r.at = IF o.title = r.title THEN o.at ELSE None
             /\ r.picture = o.picture /\ r.playing = o.playing
             /\ r.wanted = o.wanted /\ r.enabled = o.enabled
  BY SMTT(30) DEF UpdateTrack, OtherTrack, FinishSeeking, Osd
=============================================================================
