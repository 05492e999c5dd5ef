---------------------------- MODULE FocusAndRouteProofs ----------------------------
(***************************************************************************)
(* That the target follows the focus, for every desktop, every backend and *)
(* every order in which the compositor tells of it; that the routes made   *)
(* for profiles are in the books and are withdrawn; the types.             *)
(*                                                                         *)
(* What is on the wire between the compositor and the tracker's thread is  *)
(* read against a picture of the desktop: whatever is still unread leads   *)
(* from what the thread believes to what is so.  What the thread has told  *)
(* last is still to be handled, or is what the target was resolved from.   *)
(***************************************************************************)
EXTENDS ApplicationProofs

-----------------------------------------------------------------------------
(* The wire.                                                               *)

AnyWindow == Window \cup {NoWindow}

\* What the wire carries, and what one of it makes of the tracker's picture of
\* the desktop: which windows are activated, which has the focus.
Events == [type : {"activated", "deactivated", "done", "closed"}, window : AnyWindow]

Turned(s, e) ==
    [activated |-> IF e.type = "activated" THEN s.activated \cup {e.window}
                   ELSE IF e.type \in {"deactivated", "closed"} THEN s.activated \ {e.window}
                   ELSE s.activated,
     focused |-> IF e.type = "done" /\ e.window \in s.activated THEN e.window
                 ELSE IF e.type \in {"done", "closed"} /\ e.window = s.focused THEN NoWindow
                 ELSE s.focused]

\* The picture of a desktop on which w has the focus.
Shown(w) == [activated |-> {w} \ {NoWindow}, focused |-> w]

\* Reading all of x turns the picture s into t.
LeadsTo(s, x, t) ==
    \E h : /\ h[0] = s /\ h[Len(x)] = t
           /\ \A i \in 1 .. Len(x) : h[i] = Turned(h[i - 1], x[i])

\* Reading nothing changes nothing.
LEMMA ReadingNothing == ASSUME NEW s PROVE LeadsTo(s, <<>>, s)
<1> DEFINE h == [i \in {0} |-> s]
<1>1. h[0] = s /\ h[Len(<<>>)] = s
  OBVIOUS
<1>2. \A i \in 1 .. Len(<<>>) : h[i] = Turned(h[i - 1], <<>>[i])
  OBVIOUS
<1> QED
  BY <1>1, <1>2 DEF LeadsTo

\* Reading one event turns the picture once.
LEMMA ReadingEvent == ASSUME NEW s, NEW e \in Events PROVE LeadsTo(s, <<e>>, Turned(s, e))
<1> DEFINE h == [i \in 0 .. 1 |-> IF i = 0 THEN s ELSE Turned(s, e)]
<1>1. h[0] = s /\ h[Len(<<e>>)] = Turned(s, e)
  OBVIOUS
<1>2. \A i \in 1 .. Len(<<e>>) : i = 1 /\ h[i - 1] = s /\ h[i] = Turned(s, e) /\ <<e>>[i] = e
  OBVIOUS
<1> QED
  BY <1>1, <1>2 DEF LeadsTo

\* Reading on: two readings make one.
LEMMA ReadingOn ==
  ASSUME NEW s, NEW v, NEW w, NEW x \in Seq(Events), NEW y \in Seq(Events),
         LeadsTo(s, x, v), LeadsTo(v, y, w)
  PROVE  LeadsTo(s, x \o y, w)
<1>1. PICK f : /\ f[0] = s /\ f[Len(x)] = v
               /\ \A i \in 1 .. Len(x) : f[i] = Turned(f[i - 1], x[i])
  BY DEF LeadsTo
<1>2. PICK g : /\ g[0] = v /\ g[Len(y)] = w
               /\ \A i \in 1 .. Len(y) : g[i] = Turned(g[i - 1], y[i])
  BY DEF LeadsTo
<1> DEFINE h == [i \in 0 .. Len(x) + Len(y) |-> IF i <= Len(x) THEN f[i] ELSE g[i - Len(x)]]
<1>3. Len(x) \in Nat /\ Len(y) \in Nat /\ Len(x \o y) = Len(x) + Len(y)
  OBVIOUS
<1>4. h[0] = s /\ h[Len(x \o y)] = w
  BY <1>1, <1>2, <1>3
<1>5. ASSUME NEW i \in 1 .. Len(x \o y) PROVE h[i] = Turned(h[i - 1], (x \o y)[i])
  <2>1. CASE i <= Len(x)
    <3>1. (x \o y)[i] = x[i]
      BY <2>1, <1>3
    <3>2. h[i] = f[i] /\ h[i - 1] = f[i - 1]
      BY <2>1, <1>3
    <3> QED
      BY <2>1, <3>1, <3>2, <1>1, <1>3
  <2>2. CASE i > Len(x)
    <3> DEFINE j == i - Len(x)
    <3>1. j \in 1 .. Len(y) /\ (x \o y)[i] = y[j]
      BY <2>2, <1>3
    <3>2. h[i] = g[j] /\ h[i - 1] = g[j - 1]
      BY <2>2, <1>1, <1>2, <1>3
    <3> QED
      BY <3>1, <3>2, <1>2
  <2> QED
    BY <2>1, <2>2, <1>3
<1> QED
  BY <1>4, <1>5 DEF LeadsTo

\* What is left after the first event leads on from what that one gave.
LEMMA ReadingOne ==
  ASSUME NEW s, NEW w, NEW x \in Seq(Events), x # <<>>, LeadsTo(s, x, w)
  PROVE  LeadsTo(Turned(s, Head(x)), Tail(x), w)
<1>1. PICK f : /\ f[0] = s /\ f[Len(x)] = w
               /\ \A i \in 1 .. Len(x) : f[i] = Turned(f[i - 1], x[i])
  BY DEF LeadsTo
<1> DEFINE h == [i \in 0 .. Len(x) - 1 |-> f[i + 1]]
<1>2. Len(x) \in Nat /\ Len(x) > 0 /\ Len(Tail(x)) = Len(x) - 1 /\ Head(x) = x[1]
  OBVIOUS
<1>3. h[0] = Turned(s, Head(x)) /\ h[Len(Tail(x))] = w
  BY <1>1, <1>2
<1>4. ASSUME NEW i \in 1 .. Len(Tail(x)) PROVE h[i] = Turned(h[i - 1], Tail(x)[i])
  <2>1. Tail(x)[i] = x[i + 1] /\ h[i] = f[i + 1] /\ h[i - 1] = f[i]
    BY <1>2
  <2> QED
    BY <2>1, <1>1, <1>2
<1> QED
  BY <1>3, <1>4 DEF LeadsTo


\* Whatever the compositor tells of a move of the focus from v to w, in
\* whatever order, read on the picture of v it gives that of w.
LEMMA ToldLeadsOn ==
  ASSUME NEW v \in AnyWindow, NEW w \in AnyWindow, v # w, NEW closes \in BOOLEAN,
         closes => v # NoWindow, NEW told \in Told(v, w, closes)
  PROVE  told \in Seq(Events) /\ LeadsTo(Shown(v), told, Shown(w))
<1> DEFINE Reads(s, x, t) == x \in Seq(Events) /\ LeadsTo(s, x, t)
           After == {w} \ {NoWindow}
           Between == After \cup (IF closes THEN {v} ELSE {})
           m == [activated |-> Between, focused |-> v]
           n == [activated |-> After, focused |-> NoWindow]
           o == [activated |-> Between, focused |-> IF w = NoWindow THEN v ELSE w]
           old == IF v = NoWindow THEN <<>>
                  ELSE IF closes THEN <<Event("closed", v)>> ELSE <<Event("done", v)>>
           new == IF w = NoWindow THEN <<>> ELSE <<Event("done", w)>>
           drop == IF v = NoWindow \/ closes THEN <<>> ELSE <<Event("deactivated", v)>>
           got == IF w = NoWindow THEN <<>> ELSE <<Event("activated", w)>>
<1>1. \A e \in Events : <<e>> \in Seq(Events)
  OBVIOUS
<1>2. \A t \in {"activated", "deactivated", "done", "closed"}, u \in AnyWindow :
        /\ Event(t, u) \in Events
        /\ \A s : Reads(s, <<Event(t, u)>>, Turned(s, Event(t, u)))
  BY <1>1, ReadingEvent DEF Event, Events
<1>3. \A s : Reads(s, <<>>, s)
  BY ReadingNothing
<1>4. Reads(Shown(v), drop, [activated |-> IF closes THEN {v} ELSE {}, focused |-> v])
  <2>1. CASE v = NoWindow \/ closes
    <3>1. Shown(v) = [activated |-> IF closes THEN {v} ELSE {}, focused |-> v]
      BY <2>1 DEF Shown
    <3> QED
      BY <2>1, <3>1, <1>3
  <2>2. CASE ~(v = NoWindow \/ closes)
    <3>1. Turned(Shown(v), Event("deactivated", v))
            = [activated |-> IF closes THEN {v} ELSE {}, focused |-> v]
      BY <2>2 DEF Turned, Shown, Event
    <3> QED
      BY <2>2, <3>1, <1>2
  <2> QED
    BY <2>1, <2>2
<1>5. Reads([activated |-> IF closes THEN {v} ELSE {}, focused |-> v], got, m)
  <2>1. CASE w = NoWindow
    BY <2>1, <1>3
  <2>2. CASE w # NoWindow
    <3>1. Turned([activated |-> IF closes THEN {v} ELSE {}, focused |-> v], Event("activated", w)) = m
      BY <2>2 DEF Turned, Event
    <3> QED
      BY <2>2, <3>1, <1>2
  <2> QED
    BY <2>1, <2>2
<1>6. Reads(m, old, n)
  <2>1. CASE v = NoWindow
    <3>1. m = n
      BY <2>1
    <3> QED
      BY <2>1, <3>1, <1>3
  <2>2. CASE v # NoWindow /\ closes
    <3>1. Turned(m, Event("closed", v)) = n
      BY <2>2 DEF Turned, Event
    <3> QED
      BY <2>2, <3>1, <1>2
  <2>3. CASE v # NoWindow /\ ~closes
    <3>1. Turned(m, Event("done", v)) = n
      BY <2>3 DEF Turned, Event
    <3> QED
      BY <2>3, <3>1, <1>2
  <2> QED
    BY <2>1, <2>2, <2>3
<1>7. Reads(n, new, Shown(w))
  <2>1. CASE w = NoWindow
    BY <2>1, <1>3 DEF Shown
  <2>2. CASE w # NoWindow
    <3>1. Turned(n, Event("done", w)) = Shown(w)
      BY <2>2 DEF Turned, Event, Shown
    <3> QED
      BY <2>2, <3>1, <1>2
  <2> QED
    BY <2>1, <2>2
<1>8. Reads(m, new, o)
  <2>1. CASE w = NoWindow
    BY <2>1, <1>3
  <2>2. CASE w # NoWindow
    <3>1. Turned(m, Event("done", w)) = o
      BY <2>2 DEF Turned, Event
    <3> QED
      BY <2>2, <3>1, <1>2
  <2> QED
    BY <2>1, <2>2
<1>9. Reads(o, old, Shown(w))
  <2>1. CASE v = NoWindow
    <3>1. o = Shown(w)
      BY <2>1 DEF Shown
    <3> QED
      BY <2>1, <3>1, <1>3
  <2>2. CASE v # NoWindow /\ closes
    <3>1. Turned(o, Event("closed", v)) = Shown(w)
      BY <2>2 DEF Turned, Event, Shown
    <3> QED
      BY <2>2, <3>1, <1>2
  <2>3. CASE v # NoWindow /\ ~closes
    <3>1. Turned(o, Event("done", v)) = Shown(w)
      BY <2>3 DEF Turned, Event, Shown
    <3> QED
      BY <2>3, <3>1, <1>2
  <2> QED
    BY <2>1, <2>2, <2>3
<1>10. \A s, t, u, x, y : Reads(s, x, t) /\ Reads(t, y, u) => Reads(s, x \o y, u)
  BY ReadingOn
<1>11. told = drop \o got \o old \o new \/ told = drop \o got \o new \o old
  BY DEF Told
<1> HIDE DEF Reads, m, n, o, old, new, drop, got
<1>12. Reads(Shown(v), told, Shown(w))
  <2>1. Reads(Shown(v), drop \o got, m)
    BY <1>4, <1>5, <1>10
  <2>2. Reads(Shown(v), drop \o got \o old, n) /\ Reads(Shown(v), drop \o got \o new, o)
    BY <2>1, <1>6, <1>8, <1>10
  <2> QED
    BY <2>2, <1>7, <1>9, <1>10, <1>11
<1> QED
  BY <1>12 DEF Reads

-----------------------------------------------------------------------------
(* The tracker.                                                            *)

\* The tracker's picture, and what it has told last of all.
Picture == [activated |-> seen.activated, focused |-> seen.focused]
LastTold == IF loop = "kwin" THEN IdOf(active) ELSE seen.last

\* What the thread knows, and what the events on the wire will make of it.
TrackerInv ==
    /\ active \in AnyWindow /\ loop \in Backends \cup {"off"}
    /\ seen \in [activated : SUBSET AnyWindow, focused : AnyWindow, last : App \cup {NoApp}]
    /\ seen.last = IdOf(seen.focused)
    /\ wire \in Seq(Events) /\ reports \in Seq(App \cup {NoApp})
    /\ loop = "wayland" => LeadsTo(Picture, wire, Shown(active))

\* A window stands for an application or for none.
LEMMA IdOfType == \A w \in AnyWindow : IdOf(w) \in App \cup {NoApp}
BY WindowAssumption DEF AnyWindow, IdOf

\* What a thread that has just been started knows is of the right kind.
LEMMA UnseenInv ==
  /\ Unseen \in [activated : SUBSET AnyWindow, focused : AnyWindow, last : App \cup {NoApp}]
  /\ Unseen.last = IdOf(Unseen.focused)
BY DEF Unseen, AnyWindow, IdOf

\* A move of the focus puts on the wire what leads to it.
LEMMA MovesKeepTracker ==
  ASSUME TrackerInv, NEW w \in AnyWindow, NEW closes \in BOOLEAN, FocusMoves(w, closes)
  PROVE  TrackerInv'
<1> USE DEF FocusMoves
<1>1. active' \in AnyWindow /\ loop' \in Backends \cup {"off"}
  BY DEF TrackerInv
<1>2. /\ seen' \in [activated : SUBSET AnyWindow, focused : AnyWindow, last : App \cup {NoApp}]
      /\ seen'.last = IdOf(seen'.focused)
  BY DEF TrackerInv
<1>3. reports' \in Seq(App \cup {NoApp})
  BY IdOfType DEF TrackerInv
<1>4. CASE loop = "wayland"
  <2>1. PICK told \in Told(active, w, closes) : wire' = wire \o told
    BY <1>4
  <2>2. told \in Seq(Events) /\ LeadsTo(Shown(active), told, Shown(w))
    BY ToldLeadsOn DEF TrackerInv
  <2>3. wire' \in Seq(Events) /\ LeadsTo(Picture, wire', Shown(w))
    BY <2>1, <2>2, <1>4, ReadingOn DEF TrackerInv
  <2> QED
    BY <2>3, <1>1, <1>2, <1>3 DEF TrackerInv, Picture
<1>5. CASE loop # "wayland"
  <2>1. wire' = wire /\ loop' = loop
    BY <1>5
  <2> QED
    BY <2>1, <1>1, <1>2, <1>3, <1>5 DEF TrackerInv
<1> QED
  BY <1>4, <1>5

\* emitFocusedApp, told of window w.
LEMMA EmittedKeeps ==
  ASSUME TrackerInv, NEW s \in [activated : SUBSET AnyWindow, focused : AnyWindow, last : App \cup {NoApp}],
         NEW w \in AnyWindow, EmitFocusedApp([s EXCEPT !.focused = w], IdOf(w))
  PROVE  /\ seen' = [activated |-> s.activated, focused |-> w, last |-> IdOf(w)]
         /\ seen' \in [activated : SUBSET AnyWindow, focused : AnyWindow, last : App \cup {NoApp}]
         /\ seen'.last = IdOf(seen'.focused)
         /\ reports' \in Seq(App \cup {NoApp})
<1> DEFINE S == [activated : SUBSET AnyWindow, focused : AnyWindow, last : App \cup {NoApp}]
           t == [s EXCEPT !.focused = w]
<1>1. IdOf(w) \in App \cup {NoApp} /\ reports \in Seq(App \cup {NoApp})
  BY IdOfType DEF TrackerInv
<1>2. t \in S /\ t.activated = s.activated /\ t.focused = w
  OBVIOUS
<1>3. seen' = [t EXCEPT !.last = IdOf(w)] /\ reports' \in {reports, Append(reports, IdOf(w))}
  BY DEF EmitFocusedApp
<1>4. seen' = [activated |-> s.activated, focused |-> w, last |-> IdOf(w)] /\ seen' \in S
  BY <1>1, <1>2, <1>3
<1>5. seen'.last = IdOf(w) /\ seen'.focused = w
  BY <1>4
<1>6. reports' \in Seq(App \cup {NoApp})
  BY <1>1, <1>3
<1> HIDE DEF S
<1> QED
  BY <1>4, <1>5, <1>6 DEF S

\* The event at the head of the wire is read as `Turned` has it.
LEMMA DispatchTurns ==
  ASSUME TrackerInv, Dispatch
  PROVE  /\ Picture' = Turned(Picture, Head(wire))
         /\ seen' \in [activated : SUBSET AnyWindow, focused : AnyWindow, last : App \cup {NoApp}]
         /\ seen'.last = IdOf(seen'.focused)
         /\ reports' \in Seq(App \cup {NoApp})
<1> DEFINE e == Head(wire)
           w == e.window
           S == [activated : SUBSET AnyWindow, focused : AnyWindow, last : App \cup {NoApp}]
<1>1. e \in Events /\ w \in AnyWindow /\ seen \in S
  <2>1. wire \in Seq(Events) /\ wire # <<>> /\ seen \in S
    BY DEF Dispatch, TrackerInv
  <2>2. e \in Events
    BY <2>1
  <2> QED
    BY <2>1, <2>2 DEF Events
<1>2. NoWindow \in AnyWindow /\ IdOf(NoWindow) = NoApp
  BY DEF AnyWindow, IdOf
<1>3. CASE e.type = "activated"
  <2>1. HandleState(w, TRUE)
    BY <1>3 DEF Dispatch
  <2> QED
    BY <2>1, <1>1, <1>3 DEF HandleState, Picture, Turned, TrackerInv
<1>4. CASE e.type = "deactivated"
  <2>1. HandleState(w, FALSE)
    BY <1>4 DEF Dispatch
  <2> QED
    BY <2>1, <1>1, <1>4 DEF HandleState, Picture, Turned, TrackerInv
<1>5. CASE e.type = "done"
  <2>1. HandleDone(w)
    BY <1>5 DEF Dispatch
  <2>2. CASE w \in seen.activated
    <3>1. EmitFocusedApp([seen EXCEPT !.focused = w], IdOf(w))
      BY <2>1, <2>2 DEF HandleDone
    <3> QED
      BY <3>1, <2>2, <1>1, <1>5, EmittedKeeps DEF Picture, Turned
  <2>3. CASE w \notin seen.activated /\ seen.focused = w
    <3>1. EmitFocusedApp([seen EXCEPT !.focused = NoWindow], IdOf(NoWindow))
      BY <2>1, <2>3, <1>2 DEF HandleDone
    <3> QED
      BY <3>1, <2>3, <1>1, <1>2, <1>5, EmittedKeeps DEF Picture, Turned
  <2>4. CASE w \notin seen.activated /\ seen.focused # w
    BY <2>1, <2>4, <1>1, <1>5 DEF HandleDone, Picture, Turned, TrackerInv
  <2> QED
    BY <2>2, <2>3, <2>4
<1>6. CASE e.type = "closed"
  <2> DEFINE gone == [seen EXCEPT !.activated = @ \ {w}]
  <2>1. HandleClosed(w)
    BY <1>6 DEF Dispatch
  <2>2. gone \in S /\ gone.activated = seen.activated \ {w} /\ gone.focused = seen.focused
        /\ gone.last = seen.last
    BY <1>1
  <2>3. CASE seen.focused = w
    <3>1. EmitFocusedApp([gone EXCEPT !.focused = NoWindow], IdOf(NoWindow))
      BY <2>1, <2>3, <1>2 DEF HandleClosed
    <3>2. /\ seen' = [activated |-> gone.activated, focused |-> NoWindow, last |-> IdOf(NoWindow)]
          /\ seen' \in S /\ seen'.last = IdOf(seen'.focused) /\ reports' \in Seq(App \cup {NoApp})
      BY <3>1, <2>2, <1>2, EmittedKeeps
    <3> QED
      BY <3>2, <2>2, <2>3, <1>6 DEF Picture, Turned
  <2>4. CASE seen.focused # w
    <3>1. seen' = gone /\ reports' = reports
      BY <2>1, <2>4 DEF HandleClosed
    <3> QED
      BY <3>1, <2>2, <2>4, <1>6 DEF Picture, Turned, TrackerInv
  <2> QED
    BY <2>3, <2>4
<1> QED
  BY <1>1, <1>3, <1>4, <1>5, <1>6 DEF Events

\* So the rest of the wire still leads to what is so.
LEMMA DispatchKeepsTracker == ASSUME TrackerInv, Dispatch PROVE TrackerInv'
<1>1. wire \in Seq(Events) /\ wire # <<>> /\ wire' = Tail(wire) /\ loop = "wayland"
      /\ active' = active /\ loop' = loop
  BY DEF TrackerInv, Dispatch
<1>2. wire' \in Seq(Events) /\ LeadsTo(Turned(Picture, Head(wire)), wire', Shown(active))
  BY <1>1, ReadingOne DEF TrackerInv
<1> QED
  BY <1>1, <1>2, DispatchTurns DEF TrackerInv

\* A thread that starts is told of the focused window from nothing.
LEMMA StartKeepsTracker ==
  ASSUME TrackerInv, NEW backend \in Backends, StartTracker(backend) PROVE TrackerInv'
<1>1. CASE loop # "off"
  BY <1>1 DEF StartTracker, trackerVars, TrackerInv, Picture
<1>2. CASE loop = "off"
  <2>1. /\ loop' = backend /\ seen' = Unseen /\ active' = active
        /\ wire' = IF backend # "wayland" \/ active = NoWindow THEN <<>>
                   ELSE <<Event("activated", active), Event("done", active)>>
        /\ reports' = IF backend = "kwin" THEN Append(reports, IdOf(active)) ELSE reports
    BY <1>2 DEF StartTracker
  <2>2. Picture' = Shown(NoWindow)
    BY <2>1 DEF Picture, Unseen, Shown
  <2>3. reports' \in Seq(App \cup {NoApp})
    BY <2>1, IdOfType DEF TrackerInv
  <2>4. wire' \in Seq(Events) /\ (loop' = "wayland" => LeadsTo(Shown(NoWindow), wire', Shown(active)))
    <3>1. CASE wire' = <<>>
      <4>1. loop' = "wayland" => active = NoWindow
        BY <2>1, <3>1
      <4> QED
        BY <3>1, <4>1, ReadingNothing
    <3>2. CASE wire' # <<>>
      <4> DEFINE a == Event("activated", active)
                 b == Event("done", active)
      <4>1. active # NoWindow /\ wire' = <<a, b>>
        BY <3>2, <2>1
      <4>2. a \in Events /\ b \in Events
        BY DEF Event, Events, TrackerInv
      <4>3. Turned(Turned(Shown(NoWindow), a), b) = Shown(active)
        BY <4>1 DEF Turned, Shown, Event
      <4> HIDE DEF a, b
      <4>4. <<a, b>> \in Seq(Events) /\ LeadsTo(Shown(NoWindow), <<a, b>>, Shown(active))
        <5> DEFINE h == [i \in 0 .. 2 |-> IF i = 0 THEN Shown(NoWindow)
                                          ELSE IF i = 1 THEN Turned(Shown(NoWindow), a)
                                          ELSE Shown(active)]
        <5>1. h[0] = Shown(NoWindow) /\ h[Len(<<a, b>>)] = Shown(active)
          OBVIOUS
        <5>2. ASSUME NEW i \in 1 .. Len(<<a, b>>) PROVE h[i] = Turned(h[i - 1], <<a, b>>[i])
          <6>1. h[1] = Turned(Shown(NoWindow), a) /\ h[2] = Shown(active) /\ h[0] = Shown(NoWindow)
            OBVIOUS
          <6>2. Len(<<a, b>>) = 2 /\ <<a, b>>[1] = a /\ <<a, b>>[2] = b
            OBVIOUS
          <6> HIDE DEF h
          <6> QED
            BY <6>1, <6>2, <4>3, i = 1 \/ i = 2
        <5> HIDE DEF h
        <5> QED
          BY <5>1, <5>2, <4>2 DEF LeadsTo
      <4> QED
        BY <4>1, <4>4
    <3> QED
      BY <3>1, <3>2
  <2> QED
    BY <2>1, <2>2, <2>3, <2>4, UnseenInv DEF TrackerInv
<1> QED
  BY <1>1, <1>2

\* Polling, a broken connection and stopping do not disturb it.
LEMMA OthersKeepTracker ==
  /\ TrackerInv /\ Poll => TrackerInv'
  /\ TrackerInv /\ Breaks => TrackerInv'
  /\ TrackerInv /\ StopTracker => TrackerInv'
  /\ TrackerInv /\ UNCHANGED trackerVars => TrackerInv'
<1>1. ASSUME TrackerInv, Poll PROVE TrackerInv'
  BY <1>1, EmittedKeeps DEF Poll, TrackerInv
<1>2. ASSUME TrackerInv, Breaks PROVE TrackerInv'
  BY <1>2 DEF Breaks, TrackerInv
<1>3. ASSUME TrackerInv, StopTracker PROVE TrackerInv'
  BY <1>3, UnseenInv DEF StopTracker, TrackerInv
<1>4. ASSUME TrackerInv, UNCHANGED trackerVars PROVE TrackerInv'
  BY <1>4 DEF trackerVars, TrackerInv, Picture
<1> QED
  BY <1>1, <1>2, <1>3, <1>4

-----------------------------------------------------------------------------
(* The operators on targets.                                               *)

\* What a report stands for does not depend on the target it replaces.
LEMMA Resolution ==
  ASSUME NEW b, NEW c, NEW p, NEW t, NEW al,
         FindAutoSwitchProfileForApp(ResolveStickyAutoProfileTarget(b, c, p, NoApp, al), p, al) # <<>>
  PROVE  ResolveStickyAutoProfileTarget(b, c, p, t, al) = ResolveStickyAutoProfileTarget(b, c, p, NoApp, al)
<1>1. FindAutoSwitchProfileForApp(NoApp, p, al) = <<>>
  BY DEF FindAutoSwitchProfileForApp
<1>2. ResolveStickyAutoProfileTarget(b, c, p, NoApp, al) # NoApp
  BY <1>1
<1> QED
  BY <1>2 DEF ResolveStickyAutoProfileTarget

\* No window stands for no target.
LEMMA NothingResolved ==
  ASSUME NEW c, NEW p, NEW al
  PROVE  FindAutoSwitchProfileForApp(ResolveStickyAutoProfileTarget(NoApp, c, p, NoApp, al), p, al) = <<>>
<1>1. ResolveStickyAutoProfileTarget(NoApp, c, p, NoApp, al) = NoApp
  BY DEF ResolveStickyAutoProfileTarget
<1> QED
  BY <1>1 DEF FindAutoSwitchProfileForApp

-----------------------------------------------------------------------------
(* The application behind it.                                              *)

\* The focus is not followed.
Off == m_autoActiveApp = NoApp /\ loop = "off" /\ seen = Unseen

\* The settings are those of an imported file, and the program is about to end.
Imported == task.kind \in {"import", "imported", "quit"} /\ phase # "importing"

\* When the switch can be off and something still be followed: while the save
\* that turned it off is under way, and after an import.
SwitchInv ==
    /\ "kind" \in DOMAIN task
    /\ phase = "stopped" => task = NoTask /\ Off
    /\ task.kind = "init" => Off
    /\ phase = "importing" => task.kind = "import"
    /\ phase # "stopped" /\ (task.kind \in {"none", "save switch"} \/ phase = "importing")
         => AutoSwitch \/ Off

\* b was resolved to the target there is.
Followed(b) ==
    LET target == ResolveStickyAutoProfileTarget(b, m_appCache, profiles, NoApp, Aliases)
    IN  FindAutoSwitchProfileForApp(target, profiles, Aliases) # <<>> => m_autoActiveApp = target

\* What the tracker told last is still to be handled, or is what the target is.
FollowInv ==
    \/ LastTold = NoApp
    \/ reports # <<>> /\ reports[Len(reports)] = LastTold
    \/ reports = <<>> /\ (fresh /\ ~Imported => Followed(LastTold))

FocusInv ==
    story \in Stories /\ HasKeys(m_data) /\ TrackerInv /\ SwitchInv /\ FollowInv

\* What a handler that has nothing to do with the focus does to it: nothing, or
\* it takes note that the settings or the list are not those of the last report.
Aside ==
    /\ UNCHANGED <<trackerVars, m_autoActiveApp>>
    /\ \/ ~fresh' \/ Imported' \/ Off
       \/ /\ UNCHANGED <<fresh, m_appCache>> /\ m_data'.profiles = m_data.profiles
          /\ Imported => Imported'

\* Such a handler keeps what follows the focus.
LEMMA AsideKeepsFollowing == FocusInv /\ Aside => TrackerInv' /\ FollowInv'
<1> SUFFICES ASSUME FocusInv, Aside PROVE TrackerInv' /\ FollowInv'
  OBVIOUS
<1>1. TrackerInv' /\ FollowInv
  BY OthersKeepTracker DEF Aside, FocusInv
<1>2. LastTold' = LastTold /\ reports' = reports /\ m_autoActiveApp' = m_autoActiveApp
  BY DEF Aside, trackerVars, LastTold, IdOf
<1>3. CASE Off
  <2>1. LastTold = NoApp
    BY <1>3 DEF Off, LastTold, Unseen
  <2>2. LastTold' = NoApp
    BY <2>1, <1>2
  <2> QED
    BY <2>2, <1>1 DEF FollowInv
<1>4. CASE ~fresh' \/ Imported'
  BY <1>1, <1>2, <1>4 DEF FollowInv
<1>5. CASE /\ UNCHANGED <<fresh, m_appCache>> /\ m_data'.profiles = m_data.profiles
           /\ Imported => Imported'
  <2>1. profiles' = profiles
    BY <1>5 DEF profiles, Profiles
  <2>2. Followed(LastTold)' = Followed(LastTold)
    BY <2>1, <1>2, <1>5 DEF Followed
  <2> QED
    BY <2>2, <1>1, <1>2, <1>5 DEF FollowInv
<1> QED
  BY <1>1, <1>3, <1>4, <1>5 DEF Aside

\* The tracker's own steps.
LEMMA EmittedFollows ==
  ASSUME TrackerInv, FollowInv, loop # "kwin", loop' # "kwin", NEW s, NEW app \in App \cup {NoApp},
         s.last = seen.last, "last" \in DOMAIN s, EmitFocusedApp(s, app),
         UNCHANGED <<configVars, mainVars>>
  PROVE  FollowInv'
<1>1. LastTold = seen.last /\ LastTold' = seen'.last /\ seen'.last = app
  BY DEF LastTold, EmitFocusedApp
<1>2. Followed(LastTold)' = Followed(LastTold') /\ fresh' = fresh /\ Imported' = Imported
  BY DEF Followed, configVars, mainVars, dataVars, profiles, Imported
<1>3. CASE s.last = app
  <2>1. reports' = reports /\ LastTold' = LastTold
    BY <1>1, <1>3 DEF EmitFocusedApp
  <2> QED
    BY <2>1, <1>2 DEF FollowInv, Followed, configVars, mainVars, dataVars, profiles
<1>4. CASE s.last # app
  <2>1. reports' = Append(reports, app) /\ reports \in Seq(App \cup {NoApp})
    BY <1>4 DEF EmitFocusedApp, TrackerInv
  <2>2. reports' # <<>> /\ reports'[Len(reports')] = app
    BY <2>1
  <2> QED
    BY <2>2, <1>1 DEF FollowInv
<1> QED
  BY <1>3, <1>4

\* Nothing new was told.
LEMMA SameFollows ==
  ASSUME FollowInv, LastTold' = LastTold, reports' = reports, UNCHANGED <<configVars, mainVars>>
  PROVE  FollowInv'
BY DEF FollowInv, Followed, configVars, mainVars, dataVars, profiles, Imported

\* Every step of the desktop and of the thread.
LEMMA TrackingFollows == FocusInv /\ Tracking => TrackerInv' /\ FollowInv'
<1> SUFFICES ASSUME FocusInv, Tracking PROVE TrackerInv' /\ FollowInv'
  OBVIOUS
<1>1. UNCHANGED <<configVars, mainVars>>
  BY DEF Tracking
<1>2. TrackerInv /\ FollowInv /\ seen \in [activated : SUBSET AnyWindow, focused : AnyWindow,
                                           last : App \cup {NoApp}]
  BY DEF FocusInv, TrackerInv
<1>3. NoApp \in App \cup {NoApp}
  OBVIOUS
<1>4. ASSUME NEW w \in AnyWindow, NEW closes \in BOOLEAN, FocusMoves(w, closes)
      PROVE  TrackerInv' /\ FollowInv'
  <2>1. TrackerInv'
    BY <1>2, <1>4, MovesKeepTracker
  <2>2. CASE loop = "kwin"
    <3>1. LastTold' = IdOf(w) /\ reports' = Append(reports, IdOf(w)) /\ reports \in Seq(App \cup {NoApp})
          /\ IdOf(w) \in App \cup {NoApp}
      BY <2>2, <1>2, <1>4, IdOfType DEF FocusMoves, LastTold, TrackerInv, IdOf
    <3>2. reports' # <<>> /\ reports'[Len(reports')] = IdOf(w)
      BY <3>1
    <3> QED
      BY <2>1, <3>1, <3>2 DEF FollowInv
  <2>3. CASE loop # "kwin"
    <3>1. LastTold' = LastTold /\ reports' = reports
      BY <2>3, <1>4 DEF FocusMoves, LastTold
    <3> QED
      BY <2>1, <3>1, <1>1, <1>2, SameFollows
  <2> QED
    BY <2>2, <2>3
<1>5. CASE Breaks
  <2>1. LastTold' = LastTold /\ reports' = reports
    BY <1>5 DEF Breaks, LastTold
  <2> QED
    BY <2>1, <1>1, <1>2, <1>5, SameFollows, OthersKeepTracker
<1>6. CASE Poll
  <2>1. /\ loop # "kwin" /\ loop' # "kwin" /\ active \in AnyWindow
        /\ EmitFocusedApp([seen EXCEPT !.focused = active], IdOf(active))
    BY <1>2, <1>6 DEF Poll, TrackerInv
  <2>2. /\ [seen EXCEPT !.focused = active].last = seen.last
        /\ "last" \in DOMAIN [seen EXCEPT !.focused = active]
    BY <1>2
  <2> QED
    BY <2>1, <2>2, <1>1, <1>2, <1>6, IdOfType, EmittedFollows, OthersKeepTracker
<1>7. CASE Dispatch
  <2> DEFINE e == Head(wire)
             w == e.window
  <2>1. /\ loop # "kwin" /\ loop' # "kwin" /\ wire \in Seq(Events) /\ wire # <<>>
    BY <1>2, <1>7 DEF Dispatch, TrackerInv
  <2>2. e \in Events /\ w \in AnyWindow
    <3>1. e \in Events
      BY <2>1
    <3> QED
      BY <3>1 DEF Events
  <2>3. CASE \E on \in BOOLEAN : HandleState(w, on)
    <3>1. LastTold' = LastTold /\ reports' = reports
      BY <2>1, <2>3, <1>2 DEF HandleState, LastTold
    <3> QED
      BY <3>1, <1>1, <1>2, <1>7, SameFollows, DispatchKeepsTracker
  <2>4. CASE HandleDone(w)
    <3>1. CASE \E v \in AnyWindow, app \in App \cup {NoApp} :
                 EmitFocusedApp([seen EXCEPT !.focused = v], app)
      <4>1. PICK v \in AnyWindow, app \in App \cup {NoApp} :
                   EmitFocusedApp([seen EXCEPT !.focused = v], app)
        BY <3>1
      <4>2. /\ [seen EXCEPT !.focused = v].last = seen.last
            /\ "last" \in DOMAIN [seen EXCEPT !.focused = v]
        BY <1>2
      <4> QED
        BY <4>1, <4>2, <2>1, <1>1, <1>2, <1>7, EmittedFollows, DispatchKeepsTracker
    <3>2. CASE UNCHANGED <<seen, reports>>
      <4>1. LastTold' = LastTold /\ reports' = reports
        BY <2>1, <3>2 DEF LastTold
      <4> QED
        BY <4>1, <1>1, <1>2, <1>7, SameFollows, DispatchKeepsTracker
    <3>3. NoWindow \in AnyWindow
      BY DEF AnyWindow
    <3> QED
      BY <2>2, <2>4, <3>1, <3>2, <3>3, <1>3, IdOfType DEF HandleDone
  <2>5. CASE HandleClosed(w)
    <3> DEFINE gone == [seen EXCEPT !.activated = @ \ {w}]
    <3>1. gone.last = seen.last /\ "focused" \in DOMAIN gone /\ "last" \in DOMAIN gone
          /\ [gone EXCEPT !.focused = NoWindow].last = seen.last
          /\ "last" \in DOMAIN [gone EXCEPT !.focused = NoWindow]
      BY <1>2
    <3>2. CASE EmitFocusedApp([gone EXCEPT !.focused = NoWindow], NoApp)
      BY <3>1, <3>2, <2>1, <1>1, <1>2, <1>3, <1>7, EmittedFollows, DispatchKeepsTracker
    <3>3. CASE seen' = gone /\ UNCHANGED reports
      <4>1. LastTold' = LastTold /\ reports' = reports
        BY <2>1, <3>1, <3>3 DEF LastTold
      <4> QED
        BY <4>1, <1>1, <1>2, <1>7, SameFollows, DispatchKeepsTracker
    <3> QED
      BY <2>5, <3>2, <3>3 DEF HandleClosed
  <2> QED
    BY <2>2, <2>3, <2>4, <2>5, <1>7 DEF Dispatch, Events
<1> QED
  BY <1>4, <1>5, <1>6, <1>7 DEF Tracking, TrackerSteps, AnyWindow

\* App::onFocusedBinaryChanged catches up by one report.
LEMMA HandledFollows ==
  ASSUME FocusInv, OnFocusedBinaryChanged
  PROVE  TrackerInv' /\ FollowInv'
<1>1. /\ TrackerInv /\ FollowInv /\ SwitchInv /\ MainIdle /\ reports # <<>>
      /\ reports \in Seq(App \cup {NoApp})
      /\ reports' = Tail(reports) /\ UNCHANGED <<active, wire, loop, seen, m_appCache, configVars>>
      /\ phase = "idle" /\ task = NoTask
  BY DEF OnFocusedBinaryChanged, FocusInv, TrackerInv, MainIdle
<1>2. reports' \in Seq(App \cup {NoApp})
  BY <1>1
<1>3. TrackerInv'
  BY <1>1, <1>2 DEF TrackerInv, Picture
<1>4. LastTold' = LastTold
  BY <1>1 DEF LastTold, IdOf
<1>5. CASE LastTold = NoApp
  BY <1>3, <1>4, <1>5 DEF FollowInv
<1>6. CASE LastTold # NoApp
  <2>1. reports[Len(reports)] = LastTold
    BY <1>1, <1>6 DEF FollowInv
  <2>2. CASE Len(reports) # 1
    <3>0. Len(reports) \in Nat /\ Len(reports) > 1
      <4>1. reports \in Seq(App \cup {NoApp}) /\ reports # <<>>
        BY <1>1
      <4>2. Len(reports) \in Nat /\ Len(reports) # 0
        BY <4>1
      <4>3. \A n \in Nat : n # 0 /\ n # 1 => n > 1
        OBVIOUS
      <4> QED
        BY <4>2, <4>3, <2>2, Zenon
    <3>1. Len(reports') = Len(reports) - 1 /\ \A k \in 1 .. Len(reports) - 1 : reports'[k] = reports[k + 1]
      BY <1>1, <3>0
    <3>2. reports' # <<>> /\ reports'[Len(reports')] = LastTold
      BY <2>1, <3>0, <3>1
    <3> QED
      BY <3>2, <1>3, <1>4 DEF FollowInv
  <2>3. CASE Len(reports) = 1
    <3>1. reports' = <<>> /\ Head(reports) = LastTold
      BY <1>1, <2>1, <2>3
    <3>2. AutoSwitch
      <4>1. task.kind = "none"
        BY <1>1 DEF NoTask
      <4> QED
        BY <4>1, <1>1, <1>6 DEF SwitchInv, Off, LastTold, Unseen
    <3>3. m_autoActiveApp' = ResolveStickyAutoProfileTarget(LastTold, m_appCache, profiles,
                                                            m_autoActiveApp, Aliases)
      BY <3>1, <3>2 DEF OnFocusedBinaryChanged
    <3>4. profiles' = profiles
      BY <1>1 DEF profiles, configVars, dataVars
    <3>5. Followed(LastTold)'
      BY <3>3, <3>4, <1>1, <1>4, Resolution DEF Followed
    <3> QED
      BY <3>1, <3>5, <1>3 DEF FollowInv
  <2> QED
    BY <2>2, <2>3
<1> QED
  BY <1>5, <1>6

\* Starting the tracker: it has told nothing, or it tells at once.
LEMMA StartFollows ==
  ASSUME FocusInv, StartTracker(story.backend), UNCHANGED <<configVars, m_appCache, fresh>>,
         Imported => Imported',
         \A b : Followed(b) => \/ m_autoActiveApp' = m_autoActiveApp
                               \/ Followed(b)'
  PROVE  TrackerInv' /\ FollowInv'
<1>1. story.backend \in Backends /\ TrackerInv /\ FollowInv
  BY StoriesAssumption DEF FocusInv
<1>2. TrackerInv'
  BY <1>1, StartKeepsTracker
<1>3. CASE loop # "off"
  <2>1. LastTold' = LastTold /\ reports' = reports
    BY <1>3 DEF StartTracker, trackerVars, LastTold, IdOf
  <2>2. profiles' = profiles /\ m_appCache' = m_appCache
    BY DEF profiles, configVars, dataVars
  <2>3. Followed(LastTold) => Followed(LastTold)'
    BY <2>1, <2>2 DEF Followed
  <2> QED
    BY <2>1, <2>3, <1>1, <1>2 DEF FollowInv
<1>4. CASE loop = "off"
  <2>1. /\ loop' = story.backend /\ seen' = Unseen /\ active' = active
        /\ reports' = IF story.backend = "kwin" THEN Append(reports, IdOf(active)) ELSE reports
    BY <1>4 DEF StartTracker
  <2>2. CASE story.backend = "kwin"
    <3>1. /\ LastTold' = IdOf(active) /\ reports' = Append(reports, IdOf(active))
          /\ reports \in Seq(App \cup {NoApp}) /\ IdOf(active) \in App \cup {NoApp}
      BY <2>1, <2>2, <1>1, IdOfType DEF LastTold, IdOf, TrackerInv
    <3>2. reports' # <<>> /\ reports'[Len(reports')] = IdOf(active)
      BY <3>1
    <3> QED
      BY <3>1, <3>2, <1>2 DEF FollowInv
  <2>3. CASE story.backend # "kwin"
    <3>1. LastTold' = NoApp
      BY <2>1, <2>3 DEF LastTold, Unseen
    <3> QED
      BY <3>1, <1>2 DEF FollowInv
  <2> QED
    BY <2>2, <2>3
<1> QED
  BY <1>3, <1>4

\* Revalidating the target when settings have been saved.
LEMMA RevalidatedFollows ==
  ASSUME FocusInv, OnAutoSwitchMaybeChanged, UNCHANGED <<configVars, m_appCache, fresh>>,
         Imported => Imported'
  PROVE  TrackerInv' /\ FollowInv' /\ (AutoSwitch' \/ Off')
<1>1. AutoSwitch' = AutoSwitch /\ profiles' = profiles
  BY DEF configVars, dataVars, profiles, AutoSwitch
<1>2. CASE AutoSwitch
  <2>1. /\ StartTracker(story.backend)
        /\ m_autoActiveApp' = ValidateStickyAutoProfileTarget(m_autoActiveApp, profiles, Aliases)
    BY <1>2 DEF OnAutoSwitchMaybeChanged
  <2>2. ASSUME NEW b, Followed(b)
        PROVE  m_autoActiveApp' = m_autoActiveApp \/ Followed(b)'
    BY <2>1, <2>2, <1>1 DEF Followed, ValidateStickyAutoProfileTarget
  <2> QED
    BY <2>1, <2>2, <1>1, <1>2, StartFollows
<1>3. CASE ~AutoSwitch
  <2>1. m_autoActiveApp' = NoApp /\ StopTracker
    BY <1>3 DEF OnAutoSwitchMaybeChanged
  <2>2. Off'
    BY <2>1 DEF StopTracker, Off, Unseen
  <2>3. LastTold' = NoApp
    BY <2>2 DEF Off, LastTold, Unseen
  <2> QED
    BY <2>1, <2>2, <2>3, OthersKeepTracker DEF FollowInv, FocusInv
<1> QED
  BY <1>2, <1>3

-----------------------------------------------------------------------------
(* The handlers.                                                           *)

USE DEF NoTask

\* The handlers that have nothing to do with the focus.
LEMMA HandlersKeepFocus ==
  ASSUME FocusInv,
         \/ \E id : KeyPressed(id)
         \/ SinksReady \/ OpenSettings \/ UnnamedRouting
         \/ \E apps : AppsReady(apps)
  PROVE  FocusInv'
<1>1. /\ UNCHANGED <<configVars, trackerVars, m_autoActiveApp, task, story>>
      /\ ~fresh' \/ UNCHANGED <<fresh, m_appCache>>
  BY UnnamedRoutingLeaves DEF KeyPressed, SinksReady, OpenSettings, AppsReady, Happens
<1>2. m_data' = m_data /\ phase' = phase
  BY <1>1 DEF configVars, dataVars
<1>3. Aside
  BY <1>1, <1>2 DEF Aside, Imported
<1>4. SwitchInv'
  BY <1>1, <1>2 DEF FocusInv, SwitchInv, Off, trackerVars, AutoSwitch
<1> QED
  BY <1>1, <1>2, <1>3, <1>4, AsideKeepsFollowing DEF FocusInv

\* The handlers that save.
LEMMA SettersKeepFocus ==
  ASSUME FocusInv,
         \/ \E app : SetActiveApp(app) \/ OnAppSelected(app)
         \/ \E on : SetAutoProfileSwitch(on)
         \/ \E entered, list : Accept(entered, list)
         \/ SaveSwitch \/ SaveProfiles \/ ClearRoutesAndSaveScenes \/ HideEvent
  PROVE  FocusInv'
<1>1. /\ UNCHANGED <<trackerVars, m_autoActiveApp, m_appCache, story>>
      /\ phase = "idle" /\ phase' = "saving"
  BY DEF SetActiveApp, OnAppSelected, SetAutoProfileSwitch, Accept, SaveSwitch, SaveProfiles,
         ClearRoutesAndSaveScenes, HideEvent, Happens, ByItself, Sets
<1>2. CASE \E app : SetActiveApp(app) \/ OnAppSelected(app)
  <2>1. /\ task' = task /\ ~fresh'
        /\ \E x : m_data' = WithSelectedApp(m_data, x) \/ m_data' = WithDefaultProfileApp(m_data, x)
    BY <1>2 DEF SetActiveApp, OnAppSelected, Sets
  <2>2. HasKeys(m_data') /\ AutoSwitch' = AutoSwitch
    BY <2>1, SettersKeep DEF FocusInv, AutoSwitch
  <2>3. Aside
    BY <1>1, <2>1 DEF Aside
  <2>4. SwitchInv'
    BY <1>1, <2>1, <2>2 DEF FocusInv, SwitchInv, Off, trackerVars
  <2> QED
    BY <1>1, <2>2, <2>3, <2>4, AsideKeepsFollowing DEF FocusInv
<1>3. CASE \E on : SetAutoProfileSwitch(on)
  <2>1. /\ task = NoTask /\ task' = [kind |-> "auto switch"] /\ fresh' = fresh
        /\ \E x : m_data' = WithAutoProfileSwitch(m_data, x)
    BY <1>3 DEF SetAutoProfileSwitch, Sets, MainIdle
  <2>2. HasKeys(m_data') /\ m_data'.profiles = m_data.profiles
    BY <2>1, SettersKeep DEF FocusInv
  <2>3. Aside
    BY <1>1, <2>1, <2>2 DEF Aside, Imported
  <2>4. SwitchInv'
    BY <1>1, <2>1 DEF FocusInv, SwitchInv, Off, trackerVars
  <2> QED
    BY <1>1, <2>2, <2>3, <2>4, AsideKeepsFollowing DEF FocusInv
<1>4. CASE \E entered, list : Accept(entered, list)
  <2> PICK entered, list : Accept(entered, list)
    BY <1>4
  <2>1. /\ task = NoTask /\ "kind" \in DOMAIN task' /\ task'.kind = "save switch" /\ fresh' = fresh
        /\ m_data' = WithOsd(m_data, entered.label, entered.media)
    BY DEF Accept, Sets, MainIdle
  <2>2. HasKeys(m_data') /\ m_data'.profiles = m_data.profiles /\ AutoSwitch' = AutoSwitch
    <3>1. HasKeys(m_data)
      BY DEF FocusInv
    <3> QED
      BY <2>1, <3>1, OsdKeeps DEF AutoSwitch
  <2>3. Aside
    BY <1>1, <2>1, <2>2 DEF Aside, Imported
  <2>4. SwitchInv'
    BY <1>1, <2>1, <2>2 DEF FocusInv, SwitchInv, Off, trackerVars
  <2> QED
    BY <1>1, <2>2, <2>3, <2>4, AsideKeepsFollowing DEF FocusInv
<1>5. CASE SaveSwitch
  <2>1. /\ task.kind = "save switch" /\ task' = [task EXCEPT !.kind = "save profiles"] /\ fresh' = fresh
        /\ \E x : m_data' = WithAutoProfileSwitch(m_data, x)
    BY <1>5 DEF SaveSwitch, Sets
  <2>2. HasKeys(m_data') /\ m_data'.profiles = m_data.profiles
    BY <2>1, SettersKeep DEF FocusInv
  <2>3. "kind" \in DOMAIN task' /\ task'.kind = "save profiles"
    BY <2>1 DEF FocusInv, SwitchInv
  <2>4. Aside
    BY <1>1, <2>1, <2>2, <2>3 DEF Aside, Imported
  <2>5. SwitchInv'
    BY <1>1, <2>3 DEF SwitchInv, Off, trackerVars
  <2> QED
    BY <1>1, <2>2, <2>4, <2>5, AsideKeepsFollowing DEF FocusInv
<1>6. CASE SaveProfiles
  <2>1. /\ "kind" \in DOMAIN task' /\ task'.kind = "clear routes" /\ ~fresh'
        /\ \E x : m_data' = WithProfiles(m_data, x)
    BY <1>6 DEF SaveProfiles, Sets
  <2>2. HasKeys(m_data')
    BY <2>1, SettersKeep DEF FocusInv
  <2>3. Aside
    BY <1>1, <2>1 DEF Aside
  <2>4. SwitchInv'
    BY <1>1, <2>1 DEF SwitchInv, Off, trackerVars
  <2> QED
    BY <1>1, <2>2, <2>3, <2>4, AsideKeepsFollowing DEF FocusInv
<1>7. CASE ClearRoutesAndSaveScenes
  <2>1. /\ task.kind = "clear routes" /\ "kind" \in DOMAIN task' /\ task'.kind = "hide" /\ fresh' = fresh
        /\ m_data' = WithScenes(m_data, task.scenes)
    BY <1>7 DEF ClearRoutesAndSaveScenes, Sets
  <2>2. HasKeys(m_data') /\ m_data'.profiles = m_data.profiles
    <3>1. HasKeys(m_data)
      BY DEF FocusInv
    <3> QED
      BY <2>1, <3>1, SettersKeep
  <2>3. Aside
    BY <1>1, <2>1, <2>2 DEF Aside, Imported
  <2>4. SwitchInv'
    BY <1>1, <2>1 DEF SwitchInv, Off, trackerVars
  <2> QED
    BY <1>1, <2>2, <2>3, <2>4, AsideKeepsFollowing DEF FocusInv
<1>8. CASE HideEvent
  <2>1. /\ m_data' = m_data /\ fresh' = fresh
        /\ \/ task.kind = "hide" /\ task' = [task EXCEPT !.kind = "changed"]
           \/ task.kind = "import" /\ task' = [kind |-> "imported"]
           \/ task = NoTask /\ task' = [kind |-> "changed", previous |-> <<>>]
    BY <1>8 DEF HideEvent, Sets
  <2>2. "kind" \in DOMAIN task' /\ task'.kind \in {"changed", "imported"}
        /\ task.kind \notin {"imported", "quit"}
        /\ (task.kind = "import" => task'.kind = "imported")
    <3>1. "kind" \in DOMAIN task
      BY DEF FocusInv, SwitchInv
    <3>2. CASE task.kind = "hide" /\ task' = [task EXCEPT !.kind = "changed"]
      BY <3>1, <3>2
    <3>3. CASE task.kind = "import" /\ task' = [kind |-> "imported"]
      BY <3>3
    <3>4. CASE task = NoTask /\ task' = [kind |-> "changed", previous |-> <<>>]
      BY <3>4
    <3> QED
      BY <2>1, <3>2, <3>3, <3>4
  <2>3. Aside
    BY <1>1, <2>1, <2>2 DEF Aside, Imported
  <2>4. SwitchInv'
    BY <1>1, <2>2 DEF SwitchInv, Off, trackerVars
  <2> QED
    BY <1>1, <2>1, <2>3, <2>4, AsideKeepsFollowing DEF FocusInv
<1> QED
  BY <1>2, <1>3, <1>4, <1>5, <1>6, <1>7, <1>8

\* The steps that follow the focus.
LEMMA FollowingKeepsFocus ==
  ASSUME FocusInv, Tracking \/ OnFocusedBinaryChanged \/ AutoSwitchChanged \/ SettingsChanged \/ AppInit
  PROVE  FocusInv'
<1>1. /\ UNCHANGED configVars /\ story' = story
      /\ m_data' = m_data /\ phase' = phase
  BY DEF Tracking, OnFocusedBinaryChanged, AutoSwitchChanged, SettingsChanged, AppInit, Happens,
         ByItself, configVars, dataVars
<1>2. AutoSwitch' = AutoSwitch /\ SwitchInv /\ "kind" \in DOMAIN task
  BY <1>1 DEF AutoSwitch, FocusInv, SwitchInv
<1>3. CASE Tracking
  <2>1. task' = task /\ (Off => Off')
    <3>1. UNCHANGED mainVars
      BY <1>3 DEF Tracking
    <3>2. ASSUME Off PROVE Off'
      BY <1>3, <3>1, <3>2 DEF Tracking, TrackerSteps, Dispatch, Poll, Breaks, FocusMoves, Off, mainVars
    <3> QED
      BY <3>1, <3>2 DEF mainVars
  <2>2. SwitchInv'
    BY <1>1, <1>2, <2>1 DEF SwitchInv
  <2> QED
    BY <1>1, <1>3, <2>2, TrackingFollows DEF FocusInv
<1>4. CASE OnFocusedBinaryChanged
  <2>1. phase = "idle" /\ task = NoTask /\ task' = task /\ UNCHANGED <<loop, seen>>
        /\ (~AutoSwitch => m_autoActiveApp' = NoApp)
    BY <1>4 DEF OnFocusedBinaryChanged, MainIdle
  <2>2. SwitchInv'
    BY <1>1, <1>2, <2>1 DEF SwitchInv, Off
  <2> QED
    BY <1>1, <1>4, <2>2, HandledFollows DEF FocusInv
<1>5. CASE AutoSwitchChanged \/ SettingsChanged
  <2>1. /\ OnAutoSwitchMaybeChanged /\ UNCHANGED <<m_appCache, fresh>>
        /\ phase = "idle"
        /\ \/ task.kind \in {"auto switch", "changed"} /\ task' = NoTask
           \/ "kind" \in DOMAIN task' /\ task'.kind = "quit"
    <3>1. ASSUME task' = [kind |-> "quit"] PROVE "kind" \in DOMAIN task' /\ task'.kind = "quit"
      BY <3>1
    <3> QED
      BY <1>5, <3>1 DEF AutoSwitchChanged, SettingsChanged
  <2>2. Imported => Imported'
    BY <1>1, <2>1 DEF Imported
  <2>3. TrackerInv' /\ FollowInv' /\ (AutoSwitch' \/ Off')
    BY <1>1, <2>1, <2>2, RevalidatedFollows
  <2>4. "kind" \in DOMAIN task' /\ task'.kind \in {"none", "quit"}
    <3>1. CASE task' = NoTask
      BY <3>1
    <3> QED
      BY <2>1, <3>1
  <2>5. SwitchInv'
    BY <1>1, <2>1, <2>3, <2>4 DEF SwitchInv
  <2> QED
    BY <1>1, <2>3, <2>5 DEF FocusInv
<1>6. CASE AppInit
  <2>1. phase = "idle" /\ task.kind = "init" /\ task' = NoTask /\ Off
        /\ UNCHANGED <<m_autoActiveApp, m_appCache, fresh>>
    BY <1>2, <1>6 DEF AppInit, SwitchInv
  <2>2. ~Imported
    BY <2>1 DEF Imported
  <2>3. CASE AutoSwitch
    <3>1. StartTracker(story.backend)
      BY <1>6, <2>3 DEF AppInit
    <3>2. TrackerInv' /\ FollowInv'
      BY <3>1, <1>1, <2>1, <2>2, StartFollows
    <3>3. SwitchInv'
      BY <1>1, <1>2, <2>1, <2>3 DEF SwitchInv
    <3> QED
      BY <1>1, <3>2, <3>3 DEF FocusInv
  <2>4. CASE ~AutoSwitch
    <3>1. UNCHANGED trackerVars
      BY <1>6, <2>4 DEF AppInit
    <3>2. Aside /\ Off'
      BY <3>1, <2>1 DEF Aside, Off, trackerVars
    <3>3. SwitchInv'
      BY <1>1, <2>1, <3>2 DEF SwitchInv
    <3> QED
      BY <1>1, <3>2, <3>3, AsideKeepsFollowing DEF FocusInv
  <2> QED
    BY <2>3, <2>4
<1> QED
  BY <1>3, <1>4, <1>5, <1>6

\* The process and its files.
LEMMA ProcessKeepsFocus ==
  ASSUME FocusInv, Starts \/ Proceeding \/ Stops \/ Files \/ Export \/ Import \/ ImportFails
  PROVE  FocusInv'
<1>1. SwitchInv /\ "kind" \in DOMAIN task /\ story' = story /\ HasKeys(m_data)
  BY DEF FocusInv, SwitchInv, Starts, Proceeding, Stops, Files, Export, Import, ImportFails, Happens,
         ByItself
<1>2. CASE Starts
  <2>1. Load /\ task' = [kind |-> "init"] /\ UNCHANGED <<trackerVars, m_autoActiveApp>>
    BY <1>2 DEF Starts
  <2>2. HasKeys(m_data') /\ phase = "stopped" /\ phase' \in {"idle", "saving"}
    BY <2>1, <1>1, LoadKeepsKeys
  <2>3. Off /\ Off' /\ Aside
    BY <1>1, <2>1, <2>2 DEF SwitchInv, Off, Aside, trackerVars
  <2>4. SwitchInv'
    BY <2>1, <2>2, <2>3 DEF SwitchInv
  <2> QED
    BY <1>1, <2>2, <2>3, <2>4, AsideKeepsFollowing DEF FocusInv
<1>3. CASE Proceeding
  <2>1. Proceeds /\ UNCHANGED <<trackerVars, mainVars>>
    BY <1>3 DEF Proceeding
  <2>2. /\ HasKeys(m_data') /\ phase' \in {"saving", "idle"}
        /\ \/ phase # "importing" /\ m_data' = m_data
           \/ phase = "importing"
    BY <1>1, <2>1, ProceedingKeepsKeys
  <2>3. task' = task /\ fresh' = fresh /\ m_appCache' = m_appCache /\ m_autoActiveApp' = m_autoActiveApp
        /\ (Off => Off')
    BY <2>1 DEF mainVars, trackerVars, Off
  <2>4. Aside
    BY <1>1, <2>1, <2>2, <2>3 DEF Aside, Imported, SwitchInv
  <2>5. phase # "stopped"
    BY <2>1 DEF Proceeds, Save, Write, SaveNothing, Commit, FinishExport, FinishImport
  <2>6. SwitchInv'
    BY <1>1, <2>2, <2>3, <2>5 DEF SwitchInv, AutoSwitch
  <2> QED
    BY <1>1, <2>2, <2>4, <2>6, AsideKeepsFollowing DEF FocusInv
<1>4. CASE Stops
  <2>1. /\ loop' = "off" /\ wire' = <<>> /\ seen' = Unseen /\ reports' = <<>> /\ active' = active
        /\ m_autoActiveApp' = NoApp /\ task' = NoTask /\ phase' = "stopped" /\ m_data' = DefaultJson
    BY <1>4 DEF Stops, Ends
  <2>2. Off' /\ LastTold' = NoApp
    BY <2>1 DEF Off, LastTold, Unseen
  <2>3. TrackerInv'
    BY <2>1, UnseenInv DEF TrackerInv, FocusInv
  <2>4. SwitchInv'
    BY <2>1, <2>2 DEF SwitchInv
  <2> QED
    BY <1>1, <2>1, <2>2, <2>3, <2>4, DefaultHasKeys DEF FocusInv, FollowInv
<1>5. CASE Files
  <2>1. UNCHANGED <<trackerVars, mainVars>> /\ m_data' = m_data /\ phase' = phase
    BY <1>5 DEF Files, EditFile, GetOther, dataVars
  <2>2. /\ UNCHANGED <<task, fresh, m_appCache, m_autoActiveApp>> /\ AutoSwitch' = AutoSwitch
        /\ (Off => Off')
    BY <2>1 DEF mainVars, trackerVars, Off, AutoSwitch
  <2>3. Aside
    BY <2>1, <2>2 DEF Aside, Imported
  <2>4. SwitchInv'
    BY <1>1, <2>1, <2>2 DEF SwitchInv
  <2> QED
    BY <1>1, <2>1, <2>3, <2>4, AsideKeepsFollowing DEF FocusInv
<1>6. CASE Export \/ Import \/ ImportFails
  <2>1. /\ UNCHANGED <<trackerVars, m_autoActiveApp, m_appCache, fresh>> /\ m_data' = m_data
        /\ \/ task' = NoTask /\ task = NoTask /\ phase = "idle" /\ phase' = "exporting"
           \/ task = NoTask /\ task' = [kind |-> "import"] /\ phase = "idle" /\ phase' = "importing"
           \/ task' = NoTask /\ phase = "importing" /\ phase' = "idle"
    BY <1>6 DEF Export, Import, ImportFails, ExportToFile, ImportFromFile, ImportRefused, dataVars,
                mainVars, MainIdle
  <2>2. AutoSwitch' = AutoSwitch /\ (Off => Off')
    BY <2>1 DEF AutoSwitch, Off, trackerVars
  <2>3. Aside
    BY <2>1 DEF Aside, Imported
  <2>4. SwitchInv'
    <3>1. AutoSwitch \/ Off
      <4>1. phase # "stopped" /\ (task.kind = "none" \/ phase = "importing")
        BY <2>1
      <4> QED
        BY <1>1, <4>1 DEF SwitchInv
    <3>2. AutoSwitch' \/ Off'
      BY <2>2, <3>1
    <3>3. /\ "kind" \in DOMAIN task' /\ task'.kind # "init" /\ phase' # "stopped"
          /\ phase' = "importing" => task'.kind = "import"
      BY <2>1
    <3> QED
      BY <3>2, <3>3 DEF SwitchInv
  <2> QED
    BY <1>1, <2>1, <2>3, <2>4, AsideKeepsFollowing DEF FocusInv
<1> QED
  BY <1>2, <1>3, <1>4, <1>5, <1>6

\* Once the tracker has told all, the last it told is the window with the focus.
LEMMA InSyncToldActive == ASSUME TrackerInv, InSync PROVE LastTold = IdOf(active)
<1>1. CASE loop = "kwin"
  BY <1>1 DEF LastTold
<1>2. CASE loop = "xcb"
  BY <1>2 DEF LastTold, InSync, TrackerInv
<1>3. CASE loop = "wayland"
  <2>1. LeadsTo(Picture, <<>>, Shown(active))
    BY <1>3 DEF InSync, TrackerInv
  <2>2. Picture = Shown(active)
    BY <2>1 DEF LeadsTo
  <2>3. seen.focused = active
    BY <2>2 DEF Picture, Shown
  <2> QED
    BY <1>3, <2>3 DEF LastTold, TrackerInv
<1> QED
  BY <1>1, <1>2, <1>3 DEF InSync, TrackerInv, Backends

\* Through every step of the program.
LEMMA FocusAlways == Spec => []FocusInv
<1>1. Init => FocusInv
  <2> SUFFICES ASSUME Init PROVE FocusInv
    OBVIOUS
  <2>1. /\ story \in Stories /\ m_data = DefaultJson /\ phase = "stopped" /\ task = NoTask
        /\ active = NoWindow /\ wire = <<>> /\ reports = <<>> /\ loop = "off" /\ seen = Unseen
        /\ m_autoActiveApp = NoApp
    BY DEF Init, ConfigInit, TrackerInit
  <2>2. LastTold = NoApp
    BY <2>1 DEF LastTold, Unseen
  <2> QED
    BY <2>1, <2>2, DefaultHasKeys, UnseenInv
    DEF FocusInv, TrackerInv, SwitchInv, FollowInv, Off, AnyWindow
<1>2. FocusInv /\ [Next]_vars => FocusInv'
  <2> SUFFICES ASSUME FocusInv, [Next]_vars PROVE FocusInv'
    OBVIOUS
  <2>1. CASE UNCHANGED vars
    <3>1. UNCHANGED <<configVars, trackerVars, m_autoActiveApp, m_appCache, fresh, task, story>>
      BY <2>1 DEF vars, mainVars
    <3>2. m_data' = m_data /\ phase' = phase
      BY <3>1 DEF configVars, dataVars
    <3>3. Aside /\ SwitchInv'
      BY <3>1, <3>2 DEF Aside, Imported, FocusInv, SwitchInv, Off, trackerVars, AutoSwitch
    <3> QED
      BY <3>1, <3>2, <3>3, AsideKeepsFollowing DEF FocusInv
  <2>2. CASE \/ (\E i \in DOMAIN profiles : KeyPressed(profiles[i].id)) \/ UnnamedRouting
             \/ SinksReady \/ \E apps \in story.caches : AppsReady(apps)
             \/ OpenSettings
    BY <2>2, HandlersKeepFocus
  <2>3. CASE \/ \E app \in story.apps : SetActiveApp(app) \/ OnAppSelected(app)
             \/ \E on \in BOOLEAN : SetAutoProfileSwitch(on)
             \/ HideEvent \/ SaveSwitch \/ SaveProfiles \/ ClearRoutesAndSaveScenes
             \/ \E entered \in story.entered, list \in story.lists \cup {dialog.profiles} :
                   Accept(entered, list)
    BY <2>3, SettersKeepFocus
  <2>4. CASE Tracking \/ OnFocusedBinaryChanged \/ AutoSwitchChanged \/ SettingsChanged \/ AppInit
    BY <2>4, FollowingKeepsFocus
  <2>5. CASE Starts \/ Proceeding \/ Stops \/ Files \/ Export \/ Import \/ ImportFails
    BY <2>5, ProcessKeepsFocus
  <2> QED
    BY <2>1, <2>2, <2>3, <2>4, <2>5 DEF Next
<1> QED
  BY <1>1, <1>2, PTL DEF Spec

\* The target is that of the focused window when the tracker has told everything
\* and the settings and the list have stayed, over every backend and through
\* every save, restart, broken connection and import (windowtracker.cpp,
\* onFocusedBinaryChanged, onAutoSwitchMaybeChanged); with the switch off there
\* is none.
THEOREM FocusFollowed == Spec => []FocusIsFollowed
<1>1. FocusInv => FocusIsFollowed
  <2> SUFFICES ASSUME FocusInv, MainIdle PROVE FocusIsFollowed
    BY DEF FocusIsFollowed
  <2>1. TrackerInv /\ FollowInv /\ SwitchInv /\ task.kind = "none" /\ phase = "idle"
    BY DEF FocusInv, MainIdle
  <2>2. CASE ~AutoSwitch
    BY <2>1, <2>2 DEF SwitchInv, Off, FocusIsFollowed
  <2>3. ASSUME AutoSwitch, InSync, reports = <<>>, fresh PROVE Followed(IdOf(active))
    <3>1. LastTold = IdOf(active)
      BY <2>1, <2>3, InSyncToldActive
    <3>2. CASE LastTold = NoApp
      BY <3>1, <3>2, NothingResolved DEF Followed
    <3>3. CASE LastTold # NoApp
      BY <2>1, <2>3, <3>1, <3>3 DEF FollowInv, Imported
    <3> QED
      BY <3>2, <3>3
  <2> QED
    BY <2>2, <2>3 DEF FocusIsFollowed, Followed
<1> QED
  BY <1>1, FocusAlways, PTL

-----------------------------------------------------------------------------
(* Names, routes and the books.                                            *)

\* What is found in a sequence is of it.
LEMMA FoundIn ==
  ASSUME NEW n \in Nat, NEW s, DOMAIN s = 1 .. n, NEW at \in SUBSET DOMAIN s
  PROVE  FirstOf(s, at) = <<>> \/ \E k \in DOMAIN s : FirstOf(s, at)[1] = s[k]
<1>1. at \in SUBSET Nat
  OBVIOUS
<1> QED
  BY <1>1, FirstOfSome

\* What a binary stands for is a name (matchBinaryToApp).
LEMMA MatchedIsAName ==
  ASSUME NEW binary \in Names, NEW cache \in Seq(AudioApp)
  PROVE  MatchBinaryToApp(binary, cache, Aliases) \in Names
<1> DEFINE Fits(a) == \E n \in {a.name, a.binary}
                           \cup AppMatchCandidates(Control(a), Aliases)
                           \cup AppMatchCandidates(a.name, Aliases) : AppIdMatches(n, binary)
           live == FirstOf(cache, {i \in DOMAIN cache : Fits(cache[i])})
           Stands(alias) == (AppIdMatches(alias.match, binary) \/ AppIdMatches(alias.display, binary))
                            /\ {alias.target, alias.display} # {NoApp}
           named == FirstOf(Aliases, {i \in DOMAIN Aliases : Stands(Aliases[i])})
<1>1. MatchBinaryToApp(binary, cache, Aliases)
        = IF binary = NoApp THEN NoApp
          ELSE IF live # <<>> THEN Control(live[1])
          ELSE IF named = <<>> THEN NoApp
          ELSE IF named[1].target # NoApp THEN named[1].target ELSE named[1].display
  BY DEF MatchBinaryToApp
<1>2. live = <<>> \/ \E k \in DOMAIN cache : live[1] = cache[k]
  <2> DEFINE at == {i \in DOMAIN cache : Fits(cache[i])}
  <2>1. at \in SUBSET DOMAIN cache
    OBVIOUS
  <2> HIDE DEF at
  <2>2. Len(cache) \in Nat /\ DOMAIN cache = 1 .. Len(cache)
    OBVIOUS
  <2>3. FirstOf(cache, at) = <<>> \/ \E k \in DOMAIN cache : FirstOf(cache, at)[1] = cache[k]
    BY <2>1, <2>2, FoundIn
  <2> QED
    BY <2>3 DEF at
<1>3. named = <<>> \/ \E k \in DOMAIN Aliases : named[1] = Aliases[k]
  <2> DEFINE at == {i \in DOMAIN Aliases : Stands(Aliases[i])}
  <2>1. at \in SUBSET DOMAIN Aliases
    OBVIOUS
  <2> HIDE DEF at
  <2>2. Len(Aliases) \in Nat /\ DOMAIN Aliases = 1 .. Len(Aliases)
    BY AliasesAssumption
  <2>3. FirstOf(Aliases, at) = <<>> \/ \E k \in DOMAIN Aliases : FirstOf(Aliases, at)[1] = Aliases[k]
    BY <2>1, <2>2, FoundIn
  <2> QED
    BY <2>3 DEF at
<1> HIDE DEF live, named
<1>4. ASSUME live # <<>> PROVE Control(live[1]) \in Names
  <2>1. live[1] \in AudioApp
    BY <1>2, <1>4
  <2> QED
    BY <2>1 DEF AudioApp, Control, Names
<1>5. ASSUME named # <<>> PROVE named[1].target \in Names /\ named[1].display \in Names
  <2>1. named[1] \in Alias
    BY <1>3, <1>5, AliasesAssumption
  <2> QED
    BY <2>1 DEF Alias, Names
<1>6. NoApp \in Names
  BY DEF Names
<1> QED
  BY <1>1, <1>4, <1>5, <1>6

\* So is the target (resolveStickyAutoProfileTarget).
LEMMA ResolvedIsAName ==
  ASSUME NEW binary \in Names, NEW cache \in Seq(AudioApp), NEW ps, NEW target \in Names
  PROVE  ResolveStickyAutoProfileTarget(binary, cache, ps, target, Aliases) \in Names
<1>1. MatchBinaryToApp(binary, cache, Aliases) \in Names
  BY MatchedIsAName
<1> DEFINE app == MatchBinaryToApp(binary, cache, Aliases)
           tried == AppMatchCandidates(IF app = NoApp THEN binary ELSE app, Aliases)
                      \cup AppMatchCandidates(binary, Aliases)
<1>2. ResolveStickyAutoProfileTarget(binary, cache, ps, target, Aliases)
        \in {app, binary, target}
  BY DEF ResolveStickyAutoProfileTarget
<1> QED
  BY <1>1, <1>2

-----------------------------------------------------------------------------
(* Routes and the books. *)

\* Who is routed is an application; a route in force that was made in the name
\* of a profile is in the books under its id.
RouteInv ==
    /\ DOMAIN route = App /\ \A a \in App : DOMAIN route[a] = {"sink", "by", "now"}
    /\ \A id \in DOMAIN routedApps : routedApps[id] \subseteq App /\ routedApps[id] # {}
    /\ \A a \in App : route[a].now /\ route[a].by # <<>> =>
          route[a].by \in DOMAIN routedApps /\ a \in routedApps[route[a].by]

\* Routing in the name of a profile enters it into the books.
LEMMA SinksAreBooked ==
  ASSUME RouteInv, NEW p, NEW apps \in SUBSET App, SetProfileAppSink(p, apps)
  PROVE  RouteInv'
<1>1. route' = [a \in App |-> IF a \in apps THEN [sink |-> p.sink, by |-> p.id, now |-> TRUE]
                              ELSE route[a]]
  BY DEF SetProfileAppSink
<1>2. routedApps' = IF apps = {} THEN routedApps
                    ELSE Override([id \in {p.id} |-> Get(routedApps, id, {}) \cup apps], routedApps)
  BY DEF SetProfileAppSink
<1>3. CASE apps = {}
  BY <1>1, <1>2, <1>3 DEF RouteInv
<1>4. CASE apps # {}
  <2>1. /\ DOMAIN routedApps' = DOMAIN routedApps \cup {p.id}
        /\ routedApps'[p.id] = Get(routedApps, p.id, {}) \cup apps
        /\ \A id \in DOMAIN routedApps : id # p.id => routedApps'[id] = routedApps[id]
    BY <1>2, <1>4 DEF Override
  <2>2. Get(routedApps, p.id, {}) \subseteq App
    BY DEF Get, RouteInv
  <2>3. \A id \in DOMAIN routedApps' : routedApps'[id] \subseteq App /\ routedApps'[id] # {}
    BY <1>4, <2>1, <2>2 DEF RouteInv
  <2>4. \A id \in DOMAIN routedApps : routedApps[id] \subseteq routedApps'[id]
    BY <2>1 DEF Get
  <2>5. ASSUME NEW a \in App, route'[a].now, route'[a].by # <<>>
        PROVE  route'[a].by \in DOMAIN routedApps' /\ a \in routedApps'[route'[a].by]
    <3>1. CASE a \in apps
      BY <1>1, <2>1, <3>1
    <3>2. CASE a \notin apps
      <4>1. route'[a] = route[a]
        BY <1>1, <3>2
      <4>2. route[a].by \in DOMAIN routedApps /\ a \in routedApps[route[a].by]
        BY <2>5, <4>1 DEF RouteInv
      <4> QED
        BY <2>1, <2>4, <4>1, <4>2
    <3> QED
      BY <3>1, <3>2
  <2>6. DOMAIN route' = App /\ \A a \in App : DOMAIN route'[a] = {"sink", "by", "now"}
    BY <1>1 DEF RouteInv
  <2> QED
    BY <2>3, <2>5, <2>6 DEF RouteInv
<1> QED
  BY <1>3, <1>4

\* Withdrawing routes takes them out of the books.
LEMMA ClearedIsUnbooked ==
  ASSUME RouteInv, NEW apps, ClearAppSinkOverride(apps)
  PROVE  RouteInv'
<1> DEFINE still == {id \in DOMAIN routedApps : ~(routedApps[id] \subseteq apps)}
<1>1. /\ routedApps' = [id \in still |-> routedApps[id] \ apps]
      /\ route' = [a \in App |-> IF a \in apps THEN Unrouted ELSE route[a]]
  BY DEF ClearAppSinkOverride
<1>2. \A id \in DOMAIN routedApps' : routedApps'[id] \subseteq App /\ routedApps'[id] # {}
  BY <1>1 DEF RouteInv
<1>3. ASSUME NEW a \in App, route'[a].now, route'[a].by # <<>>
      PROVE  route'[a].by \in DOMAIN routedApps' /\ a \in routedApps'[route'[a].by]
  <2>1. CASE a \in apps
    BY <1>1, <1>3, <2>1 DEF Unrouted
  <2>2. CASE a \notin apps
    <3>1. route'[a] = route[a]
      BY <1>1, <2>2
    <3>2. route[a].by \in DOMAIN routedApps /\ a \in routedApps[route[a].by]
      BY <1>3, <3>1 DEF RouteInv
    <3> QED
      BY <1>1, <2>2, <3>1, <3>2
  <2> QED
    BY <2>1, <2>2
<1>4. DOMAIN route' = App /\ \A a \in App : DOMAIN route'[a] = {"sink", "by", "now"}
  BY <1>1 DEF RouteInv, Unrouted
<1> QED
  BY <1>2, <1>3, <1>4 DEF RouteInv

\* An activation routes applications.
LEMMA ActivationIsBooked ==
  ASSUME RouteInv, NEW p, NEW app, ActivateProfile(p, app),
         p # <<>> => app \in App /\ Profile(p[1])
  PROVE  RouteInv'
<1>1. CASE UNCHANGED <<guard, route, routedApps>>
  BY <1>1 DEF RouteInv
<1>2. CASE p # <<>> /\ SetProfileAppSink(p[1], ToRoute(p[1], app))
  <2>1. p[1].apps \in Seq(App) /\ app \in App
    BY <1>2 DEF Profile
  <2>2. ToRoute(p[1], app) \subseteq App
    BY <2>1 DEF ToRoute, Range
  <2> QED
    BY <1>2, <2>2, SinksAreBooked
<1> QED
  BY <1>1, <1>2 DEF ActivateProfile

-----------------------------------------------------------------------------
(* The types of the state.                                                 *)

\* The kinds of values the state has, beside what the settings and the tracker
\* need.
StateInv ==
    /\ phase \in Phases
    /\ phase = "stopped" => ~dialog.open
    /\ m_autoActiveApp \in Names /\ m_activeApp \in Names /\ m_appCache \in Seq(AudioApp)
    /\ RouteInv

\* One of the profiles in use.
InUse(p) == \E k \in DOMAIN profiles : p = profiles[k]

LEMMA FoundIsAProfile ==
  ASSUME SettledInv, NEW at \in SUBSET DOMAIN profiles, FirstOf(profiles, at) # <<>>
  PROVE  Profile(FirstOf(profiles, at)[1]) /\ InUse(FirstOf(profiles, at)[1])
<1>1. /\ ProfileList(profiles) /\ \A i \in DOMAIN profiles : Profile(profiles[i])
  BY ProfilesAreAList DEF SettledInv, SettingsInv, profiles
<1>2. Len(profiles) \in Nat /\ DOMAIN profiles = 1 .. Len(profiles)
  BY <1>1, SequenceDomain DEF ProfileList
<1>3. \E k \in DOMAIN profiles : FirstOf(profiles, at)[1] = profiles[k]
  BY <1>2, FoundIn
<1> QED
  BY <1>1, <1>3 DEF InUse

\* App::effectiveApp and effectiveProfile.
LEMMA EffectiveTypes ==
  ASSUME SettledInv, StateInv, NEW id
  PROVE  /\ EffectiveApp(id) \in Names
         /\ EffectiveProfile(id) # <<>> =>
               Profile(EffectiveProfile(id)[1]) /\ InUse(EffectiveProfile(id)[1])
<1>1. FindProfile(id) # <<>> => Profile(FindProfile(id)[1]) /\ InUse(FindProfile(id)[1])
  <2> DEFINE at == {i \in DOMAIN profiles : profiles[i].id = id}
  <2>1. at \in SUBSET DOMAIN profiles /\ FindProfile(id) = FirstOf(profiles, at)
    BY DEF FindProfile
  <2> HIDE DEF at
  <2> QED
    BY <2>1, FoundIsAProfile
<1>2. EffectiveApp(id) \in Names
  <2>1. FindProfile(id) # <<>> => FindProfile(id)[1].apps \in Seq(Names)
    BY <1>1 DEF Profile, Names
  <2>2. FindProfile(id) # <<>> => PrimaryApp(FindProfile(id)[1].apps) \in Names
    BY <2>1, PrimaryAppIsNamed
  <2> QED
    BY <2>2 DEF EffectiveApp, StateInv, Names
<1>3. \A app : LET f == FindAutoSwitchProfileForApp(app, profiles, Aliases)
               IN  f # <<>> => Profile(f[1]) /\ InUse(f[1])
  <2> TAKE app
  <2> DEFINE at == {i \in DOMAIN profiles : profiles[i].auto_switch
                                            /\ ProfileMatchesApp(profiles[i], app, Aliases)}
             f == FindAutoSwitchProfileForApp(app, profiles, Aliases)
  <2>1. at \in SUBSET DOMAIN profiles /\ f \in {<<>>, FirstOf(profiles, at)}
    BY DEF FindAutoSwitchProfileForApp
  <2> HIDE DEF at, f
  <2>2. f # <<>> => Profile(f[1]) /\ InUse(f[1])
    BY <2>1, FoundIsAProfile
  <2> QED
    BY <2>2 DEF f
<1> QED
  BY <1>1, <1>2, <1>3 DEF EffectiveProfile

\* The profile that fits a target, and what it is not.
LEMMA FittingProfile ==
  ASSUME SettledInv, NEW app
  PROVE  LET f == FindAutoSwitchProfileForApp(app, profiles, Aliases)
         IN  f # <<>> => app # NoApp /\ Profile(f[1]) /\ InUse(f[1])
<1> DEFINE at == {i \in DOMAIN profiles : profiles[i].auto_switch
                                          /\ ProfileMatchesApp(profiles[i], app, Aliases)}
           f == FindAutoSwitchProfileForApp(app, profiles, Aliases)
<1>1. /\ at \in SUBSET DOMAIN profiles /\ f \in {<<>>, FirstOf(profiles, at)}
      /\ f # <<>> => app # NoApp
  BY DEF FindAutoSwitchProfileForApp
<1> HIDE DEF at, f
<1>2. f # <<>> => app # NoApp /\ Profile(f[1]) /\ InUse(f[1])
  BY <1>1, FoundIsAProfile
<1> QED
  BY <1>2 DEF f

\* The phases, and when the program can be stopped.
LEMMA PhaseSteps ==
  ASSUME StateInv, SettledStep
  PROVE  phase' \in Phases /\ (phase' = "stopped" => phase = "stopped" \/ Ends)
BY DEF SettledStep, Load, LoadBlocked, LoadDocument, LoadDamaged, LoadAbsent, Save, Write,
       SaveNothing, Commit, ExportToFile, FinishExport, ImportFromFile, FinishImport,
       ImportRefused, Ends, EditFile, GetOther, Sets, configVars, Phases, StateInv

\* Routing on a key press, for a target, or in nobody's name.
LEMMA RoutersKeepRoutes ==
  ASSUME SettledInv, FocusInv, StateInv,
         \/ \E id : KeyPressed(id)
         \/ UnnamedRouting
         \/ OnFocusedBinaryChanged
  PROVE  RouteInv' /\ m_autoActiveApp' \in Names
<1>0. RouteInv /\ m_autoActiveApp \in Names
  BY DEF StateInv
<1>1. ASSUME NEW id, KeyPressed(id) PROVE RouteInv' /\ m_autoActiveApp' \in Names
  <2>1. /\ EffectiveApp(id) # NoApp /\ ActivateProfile(EffectiveProfile(id), EffectiveApp(id))
        /\ m_autoActiveApp' = m_autoActiveApp
    BY <1>1 DEF KeyPressed
  <2>2. EffectiveApp(id) \in App
    BY <2>1, EffectiveTypes DEF Names
  <2> QED
    BY <1>0, <2>1, <2>2, EffectiveTypes, ActivationIsBooked
<1>2. CASE UnnamedRouting
  <2>1. /\ DOMAIN route' = App
        /\ \A a \in App : \/ route'[a] = route[a]
                          \/ \E sink : route'[a] = [sink |-> sink, by |-> <<>>, now |-> TRUE]
        /\ routedApps' = routedApps /\ m_autoActiveApp' = m_autoActiveApp
    BY <1>2, UnnamedRoutingLeaves
  <2> QED
    BY <1>0, <2>1 DEF RouteInv
<1>3. CASE OnFocusedBinaryChanged
  <2>1. reports # <<>> /\ reports \in Seq(Names) /\ m_appCache \in Seq(AudioApp)
    BY <1>3 DEF OnFocusedBinaryChanged, FocusInv, TrackerInv, StateInv, Names
  <2>2. Head(reports) \in Names
    BY <2>1
  <2> DEFINE target == ResolveStickyAutoProfileTarget(Head(reports), m_appCache, profiles,
                                                     m_autoActiveApp, Aliases)
  <2>3. target \in Names
    BY <1>0, <2>1, <2>2, ResolvedIsAName
  <2>4. m_autoActiveApp' = IF AutoSwitch THEN target ELSE NoApp
    BY <1>3 DEF OnFocusedBinaryChanged
  <2>5. m_autoActiveApp' \in Names
    BY <2>3, <2>4 DEF Names
  <2> DEFINE p == FindAutoSwitchProfileForApp(m_autoActiveApp', profiles, Aliases)
  <2>6. ActivateProfile(p, m_autoActiveApp')
    BY <1>3 DEF OnFocusedBinaryChanged
  <2>7. p # <<>> => m_autoActiveApp' \in App /\ Profile(p[1])
    BY <2>5, FittingProfile DEF Names
  <2> HIDE DEF p
  <2> QED
    BY <1>0, <2>5, <2>6, <2>7, ActivationIsBooked
<1> QED
  BY <1>1, <1>2, <1>3

\* Every step keeps the routes and the books.
LEMMA RoutesAreKept ==
  ASSUME SettledInv, FocusInv, StateInv, [Next]_vars
  PROVE  RouteInv'
<1>1. CASE \/ (\E i \in DOMAIN profiles : KeyPressed(profiles[i].id)) \/ UnnamedRouting
           \/ OnFocusedBinaryChanged
  BY <1>1, RoutersKeepRoutes
<1>2. CASE ClearRoutesAndSaveScenes
  BY <1>2, ClearedIsUnbooked DEF ClearRoutesAndSaveScenes, StateInv
<1>3. CASE Stops
  <2>1. route' = [a \in App |-> [route[a] EXCEPT !.now = FALSE]] /\ routedApps' = NoKeys
    BY <1>3 DEF Stops
  <2>2. \A a \in App : ~route'[a].now /\ DOMAIN route'[a] = {"sink", "by", "now"}
    BY <2>1 DEF StateInv, RouteInv
  <2>3. DOMAIN route' = App /\ DOMAIN routedApps' = {}
    BY <2>1 DEF NoKeys
  <2> QED
    BY <2>2, <2>3 DEF RouteInv
<1>4. CASE UNCHANGED <<route, routedApps>>
  BY <1>4 DEF StateInv, RouteInv
<1>5. CASE \/ Starts \/ AppInit \/ Proceeding \/ Files \/ Tracking
           \/ SinksReady \/ \E apps \in story.caches : AppsReady(apps)
           \/ \E app \in story.apps : SetActiveApp(app) \/ OnAppSelected(app)
           \/ \E on \in BOOLEAN : SetAutoProfileSwitch(on)
           \/ AutoSwitchChanged
           \/ OpenSettings \/ HideEvent \/ SaveSwitch \/ SaveProfiles
           \/ \E entered \in story.entered, list \in story.lists \cup {dialog.profiles} :
                 Accept(entered, list)
           \/ SettingsChanged \/ Export \/ Import \/ ImportFails
           \/ UNCHANGED vars
  BY <1>4, <1>5 DEF Starts, AppInit, Proceeding, Files, Tracking, SinksReady, AppsReady,
     SetActiveApp, OnAppSelected, SetAutoProfileSwitch, AutoSwitchChanged, OpenSettings,
     HideEvent, SaveSwitch, SaveProfiles, Accept, SettingsChanged, Export, Import, ImportFails,
     vars, mainVars
<1> QED
  BY <1>1, <1>2, <1>3, <1>5 DEF Next

\* The other types.
LEMMA NamesAreKept ==
  ASSUME SettledInv, FocusInv, StateInv, [Next]_vars
  PROVE  m_autoActiveApp' \in Names /\ m_activeApp' \in Names /\ m_appCache' \in Seq(AudioApp)
<1>0. m_autoActiveApp \in Names /\ m_activeApp \in Names /\ m_appCache \in Seq(AudioApp)
      /\ NoApp \in Names
  BY DEF StateInv, Names
<1>1. CASE UNCHANGED <<m_autoActiveApp, m_activeApp, m_appCache>>
  BY <1>0, <1>1
<1>2. CASE \/ (\E i \in DOMAIN profiles : KeyPressed(profiles[i].id)) \/ UnnamedRouting
           \/ Starts \/ Proceeding \/ Files \/ Tracking \/ SinksReady
           \/ \E on \in BOOLEAN : SetAutoProfileSwitch(on)
           \/ OpenSettings \/ HideEvent \/ SaveSwitch \/ SaveProfiles \/ ClearRoutesAndSaveScenes
           \/ \E entered \in story.entered, list \in story.lists \cup {dialog.profiles} :
                 Accept(entered, list)
           \/ Export \/ Import \/ ImportFails
           \/ UNCHANGED vars
  BY <1>1, <1>2, UnnamedRoutingLeaves DEF KeyPressed, Starts, Proceeding, Files, Tracking, SinksReady,
     SetAutoProfileSwitch, OpenSettings, HideEvent, SaveSwitch, SaveProfiles,
     ClearRoutesAndSaveScenes, Accept, Export, Import, ImportFails, vars, mainVars
<1>3. CASE OnFocusedBinaryChanged
  <2>1. m_activeApp' = m_activeApp /\ m_appCache' = m_appCache
    BY <1>3 DEF OnFocusedBinaryChanged
  <2> QED
    BY <1>0, <1>3, <2>1, RoutersKeepRoutes
<1>4. CASE AppInit
  <2>1. /\ m_autoActiveApp' = m_autoActiveApp /\ m_appCache' = m_appCache
        /\ m_activeApp' = PrimaryApp(profiles[1].apps)
    BY <1>4 DEF AppInit
  <2>2. profiles[1].apps \in Seq(Names)
    <3>1. /\ ProfileList(profiles) /\ \A i \in DOMAIN profiles : Profile(profiles[i])
      BY ProfilesAreAList DEF SettledInv, SettingsInv, profiles
    <3>2. Len(profiles) \in Nat /\ DOMAIN profiles = 1 .. Len(profiles) /\ profiles # <<>>
      BY <3>1, SequenceDomain DEF ProfileList
    <3>3. 1 \in DOMAIN profiles
      <4>1. Len(profiles) # 0
        BY <3>1, <3>2 DEF ProfileList, IsSequence
      <4> QED
        BY <3>2, <4>1
    <3>4. profiles[1].apps \in Seq(App)
      BY <3>1, <3>3 DEF Profile
    <3> QED
      BY <3>4 DEF Names
  <2> QED
    BY <1>0, <2>1, <2>2, PrimaryAppIsNamed
<1>5. CASE \E apps \in story.caches : AppsReady(apps)
  BY <1>0, <1>5, StoriesAssumption DEF AppsReady, FocusInv
<1>6. CASE \E app \in story.apps : SetActiveApp(app) \/ OnAppSelected(app)
  <2>1. story.apps \subseteq Names
    BY StoriesAssumption DEF FocusInv, Names
  <2> QED
    BY <1>0, <1>6, <2>1 DEF SetActiveApp, OnAppSelected
<1>7. CASE AutoSwitchChanged \/ SettingsChanged
  <2>1. m_activeApp' = m_activeApp /\ m_appCache' = m_appCache /\ OnAutoSwitchMaybeChanged
    BY <1>7 DEF AutoSwitchChanged, SettingsChanged
  <2>2. m_autoActiveApp' \in {NoApp, m_autoActiveApp}
    BY <2>1 DEF OnAutoSwitchMaybeChanged, ValidateStickyAutoProfileTarget
  <2> QED
    BY <1>0, <2>1, <2>2
<1>8. CASE Stops
  <2>1. m_autoActiveApp' = NoApp /\ m_activeApp' = NoApp /\ m_appCache' = <<>>
    BY <1>8 DEF Stops
  <2> QED
    BY <1>0, <2>1
<1> QED
  BY <1>2, <1>3, <1>4, <1>5, <1>6, <1>7, <1>8 DEF Next

\* A stopped program has no dialog.
LEMMA StoppedIsClosed ==
  ASSUME SettledInv, FocusInv, StateInv, [Next]_vars
  PROVE  phase' \in Phases /\ (phase' = "stopped" => ~dialog'.open)
<1>1. SettledStep
  BY EveryStepIsSettled DEF SettledInv
<1>2. phase' \in Phases /\ (phase' = "stopped" => phase = "stopped" \/ Ends)
  BY <1>1, PhaseSteps
<1>3. SUFFICES ASSUME phase' = "stopped" PROVE ~dialog'.open
  BY <1>2
<1>4. CASE dialog' = NoDialog
  BY <1>4, ClosedIsClosed, Zenon
<1>5. CASE Stops
  BY <1>4, <1>5 DEF Stops
<1>6. CASE Starts
  BY <1>3, <1>6 DEF Starts, Load, LoadBlocked, LoadDocument, LoadDamaged, LoadAbsent
<1>7. CASE dialog' = dialog /\ phase = "stopped"
  BY <1>7, Zenon DEF StateInv
<1>8. CASE Files \/ Tracking \/ UNCHANGED vars
  <2>1. dialog' = dialog /\ phase' = phase
    BY <1>8 DEF Files, EditFile, GetOther, Tracking, vars, configVars, mainVars
  <2> QED
    BY <1>3, <1>7, <2>1
<1>9. CASE Proceeding \/ Export \/ Import \/ ImportFails
  BY <1>3, <1>9 DEF Proceeding, Proceeds, Save, Write, SaveNothing, Commit, FinishExport,
     FinishImport, Export, ExportToFile, Import, ImportFromFile, ImportFails, ImportRefused
<1>10. CASE \/ HideEvent \/ SaveSwitch \/ SaveProfiles \/ ClearRoutesAndSaveScenes
            \/ \E app \in story.apps : SetActiveApp(app) \/ OnAppSelected(app)
            \/ \E on \in BOOLEAN : SetAutoProfileSwitch(on)
            \/ \E entered \in story.entered, list \in story.lists \cup {dialog.profiles} :
                  Accept(entered, list)
  BY <1>3, <1>10 DEF HideEvent, SaveSwitch, SaveProfiles, ClearRoutesAndSaveScenes, SetActiveApp,
     OnAppSelected, SetAutoProfileSwitch, Accept, Sets
<1>11. CASE \/ AppInit \/ OnFocusedBinaryChanged \/ SinksReady \/ AutoSwitchChanged
            \/ OpenSettings \/ SettingsChanged
            \/ (\E i \in DOMAIN profiles : KeyPressed(profiles[i].id)) \/ UnnamedRouting
            \/ \E apps \in story.caches : AppsReady(apps)
  BY <1>3, <1>11, UnnamedRoutingLeaves
     DEF AppInit, OnFocusedBinaryChanged, SinksReady, AutoSwitchChanged, OpenSettings,
         SettingsChanged, KeyPressed, AppsReady, MainIdle, configVars
<1> QED
  BY <1>5, <1>6, <1>8, <1>9, <1>10, <1>11 DEF Next

\* Through every step of the program.
LEMMA StateAlways == Spec => []StateInv
<1>1. Init => StateInv
  <2> SUFFICES ASSUME Init PROVE StateInv
    OBVIOUS
  <2>1. /\ phase = "stopped" /\ dialog = NoDialog /\ m_autoActiveApp = NoApp
        /\ m_activeApp = NoApp /\ m_appCache = <<>> /\ routedApps = NoKeys
        /\ route = [a \in App |-> Unrouted]
    BY DEF Init, ConfigInit
  <2>2. ~dialog.open
    BY <2>1, ClosedIsClosed, Zenon
  <2>3. RouteInv
    <3>1. /\ DOMAIN route = App /\ DOMAIN routedApps = {}
          /\ \A a \in App : route[a].by = <<>> /\ DOMAIN route[a] = {"sink", "by", "now"}
      BY <2>1 DEF NoKeys, Unrouted
    <3> QED
      BY <3>1 DEF RouteInv
  <2> QED
    BY <2>1, <2>2, <2>3 DEF StateInv, Phases, Names
<1>2. SettledInv /\ FocusInv /\ StateInv /\ [Next]_vars => StateInv'
  <2> SUFFICES ASSUME SettledInv, FocusInv, StateInv, [Next]_vars PROVE StateInv'
    OBVIOUS
  <2>1. RouteInv'
    BY RoutesAreKept
  <2>2. m_autoActiveApp' \in Names /\ m_activeApp' \in Names /\ m_appCache' \in Seq(AudioApp)
    BY NamesAreKept
  <2>3. phase' \in Phases /\ (phase' = "stopped" => ~dialog'.open)
    BY StoppedIsClosed
  <2> QED
    BY <2>1, <2>2, <2>3, Zenon DEF StateInv
<1> QED
  BY <1>1, <1>2, SettledAlways, FocusAlways, PTL DEF Spec

\* The state keeps its types whatever is loaded, entered, reported or asked for:
\* every name is one of the application's, what is routed is in the books as
\* applications, and a stopped program has nothing left to do (main.cpp,
\* config.cpp, setProfileAppSink).
THEOREM TypesHold == Spec => []TypeOK
<1>1. SettledInv /\ FocusInv /\ StateInv => TypeOK
  <2> SUFFICES ASSUME SettledInv, FocusInv, StateInv PROVE TypeOK
    OBVIOUS
  <2>1. phase \in Phases /\ (temp # NoFile => phase \in {"saving", "importing", "exporting"})
    BY DEF SettledInv, StoreInv, StateInv, Phases
  <2>2. m_autoActiveApp \in App \cup {NoApp} /\ m_activeApp \in App \cup {NoApp}
    BY DEF StateInv, Names
  <2>3. \A i \in DOMAIN m_appCache : m_appCache[i] \in AudioApp
    BY DEF StateInv
  <2>4. /\ \A id \in DOMAIN routedApps : routedApps[id] \subseteq App /\ routedApps[id] # {}
        /\ DOMAIN route = App
    BY DEF StateInv, RouteInv
  <2>5. loop \in Backends \cup {"off"} /\ task.kind \in TaskKinds
    BY DEF FocusInv, TrackerInv, SettledInv, DialogInv
  <2>6. phase = "stopped" => task = NoTask /\ loop = "off"
    BY DEF FocusInv, SwitchInv, Off
  <2>7. phase = "stopped" => ~dialog.open
    BY DEF StateInv
  <2> QED
    BY <2>1, <2>2, <2>3, <2>4, <2>5, <2>6, <2>7 DEF TypeOK, TaskKinds
<1> QED
  BY <1>1, SettledAlways, FocusAlways, StateAlways, PTL

-----------------------------------------------------------------------------
(* Saved settings clear routes.                                            *)

\* No route in force was made in the name of one of these profiles with a sink,
\* unless a profile in use still routes the application.
Withdrawn(previous) ==
    \A a \in App, i \in DOMAIN previous :
        previous[i].id = route[a].by /\ previous[i].sink # NoSink /\ route[a].now
            => StillRouted(a, profiles, Aliases)

\* From the moment the profiles are saved: the profiles there were have ids, what
\* the entered list routes the saved one does, and in the end all is withdrawn.
ClearedInv ==
    /\ task.kind \in {"clear routes", "hide", "changed"} =>
          \A i \in DOMAIN task.previous : task.previous[i].id # <<>>
    /\ task.kind = "clear routes" =>
          \A a \in App : StillRouted(a, task.profiles, Aliases) => StillRouted(a, profiles, Aliases)
    /\ task.kind \in {"hide", "changed"} => Withdrawn(task.previous)

\* Handlers that have no part in it.
LEMMA OthersKeepCleared ==
  /\ task'.kind \notin {"clear routes", "hide", "changed"} => ClearedInv'
  /\ ClearedInv /\ UNCHANGED <<task, route>> /\ profiles' = profiles => ClearedInv'
<1>1. ASSUME task'.kind \notin {"clear routes", "hide", "changed"} PROVE ClearedInv'
  BY <1>1 DEF ClearedInv
<1>2. ASSUME ClearedInv, UNCHANGED <<task, route>>, profiles' = profiles PROVE ClearedInv'
  <2>1. task' = task /\ route' = route /\ profiles' = profiles
    BY <1>2
  <2> QED
    BY <1>2, <2>1 DEF ClearedInv, Withdrawn
<1> QED
  BY <1>1, <1>2

\* Saving the profiles.
LEMMA SavingKeepsCleared ==
  ASSUME SettledInv, SaveProfiles PROVE ClearedInv'
<1>1. /\ m_data' = WithProfiles(m_data, task.profiles)
      /\ task' = [kind |-> "clear routes", scenes |-> task.scenes, profiles |-> task.profiles,
                  previous |-> profiles]
      /\ task.kind = "save profiles"
  BY DEF SaveProfiles, Sets
<1>2. Settled(m_data) /\ ProfileList(task.profiles)
  BY <1>1 DEF SettledInv, SettingsInv, DialogInv
<1>3. task'.kind = "clear routes" /\ task'.profiles = task.profiles /\ task'.previous = profiles
  BY <1>1
<1>4. \A i \in DOMAIN profiles : profiles[i].id # <<>>
  BY <1>2, ProfilesAreAList DEF profiles
<1>5. profiles' = Profiles(WithProfiles(m_data, task.profiles))
  BY <1>1 DEF profiles
<1>6. ASSUME NEW a \in App, StillRouted(a, task.profiles, Aliases)
      PROVE  StillRouted(a, profiles', Aliases)
  BY <1>2, <1>5, <1>6, SavedKeepsRoutes
<1> QED
  BY <1>3, <1>4, <1>6 DEF ClearedInv

\* Clearing the routes: what is not cleared the entered list still routes, since
\* whatever was routed in a profile's name is in the books.
LEMMA ClearingWithdraws ==
  ASSUME SettledInv, StateInv, ClearedInv, ClearRoutesAndSaveScenes PROVE ClearedInv'
<1> DEFINE previous == task.previous
           gone == ProfileSinkCleanupTargets(previous, task.profiles, routedApps, Aliases)
<1>1. /\ task.kind = "clear routes" /\ ClearAppSinkOverride(gone)
      /\ m_data' = WithScenes(m_data, task.scenes)
      /\ task' = [kind |-> "hide", previous |-> previous]
  BY DEF ClearRoutesAndSaveScenes, Sets
<1>2. task'.kind = "hide" /\ task'.previous = previous
  BY <1>1
<1>3. profiles' = profiles
  <2>1. HasKeys(m_data)
    BY DEF SettledInv, SettingsInv, Settled
  <2>2. m_data'.profiles = m_data.profiles
    BY <1>1, <2>1, SettersKeep
  <2> QED
    BY <2>2 DEF profiles, Profiles
<1>4. route' = [a \in App |-> IF a \in gone THEN Unrouted ELSE route[a]]
  BY <1>1 DEF ClearAppSinkOverride
<1>5. ASSUME NEW a \in App, NEW i \in DOMAIN previous,
             previous[i].id = route'[a].by, previous[i].sink # NoSink, route'[a].now
      PROVE  StillRouted(a, profiles, Aliases)
  <2>1. a \notin gone
    BY <1>4, <1>5 DEF Unrouted
  <2>2. route'[a] = route[a]
    BY <1>4, <2>1
  <2>3. previous[i].id # <<>>
    BY <1>1, <1>5 DEF ClearedInv
  <2>4. previous[i].id \in DOMAIN routedApps /\ a \in routedApps[previous[i].id]
    BY <1>5, <2>2, <2>3 DEF StateInv, RouteInv
  <2>5. a \in Get(routedApps, previous[i].id, {})
    BY <2>4 DEF Get
  <2>6. StillRouted(a, task.profiles, Aliases)
    <3> DEFINE held(j) == Range(previous[j].apps) \cup Get(routedApps, previous[j].id, {})
               routing == {j \in DOMAIN previous : previous[j].sink # NoSink}
    <3>1. gone = {x \in UNION {held(j) : j \in routing} : ~StillRouted(x, task.profiles, Aliases)}
      BY DEF ProfileSinkCleanupTargets
    <3>2. i \in routing /\ a \in held(i)
      BY <1>5, <2>5
    <3> HIDE DEF gone, held, routing
    <3>3. a \in UNION {held(j) : j \in routing}
      BY <3>2
    <3> QED
      BY <2>1, <3>1, <3>3
  <2> QED
    BY <1>1, <2>6 DEF ClearedInv
<1>6. \A i \in DOMAIN previous : previous[i].id # <<>>
  BY <1>1 DEF ClearedInv
<1> HIDE DEF previous
<1> QED
  BY <1>2, <1>3, <1>5, <1>6 DEF ClearedInv, Withdrawn

\* Leaving the dialog.
LEMMA HidingKeepsCleared ==
  ASSUME SettledInv, ClearedInv, HideEvent PROVE ClearedInv'
<1>1. route' = route /\ m_data' = m_data
  BY DEF HideEvent, Sets
<1>2. profiles' = profiles
  BY <1>1 DEF profiles
<1>3. CASE task.kind = "hide" /\ task' = [task EXCEPT !.kind = "changed"]
  <2>1. task'.previous = task.previous /\ task'.kind = "changed"
    BY <1>3 DEF SettledInv, DialogInv
  <2> QED
    BY <1>1, <1>2, <1>3, <2>1 DEF ClearedInv, Withdrawn
<1>4. CASE task' = [kind |-> "imported"]
  BY <1>4, OthersKeepCleared
<1>5. CASE task' = [kind |-> "changed", previous |-> <<>>]
  <2>1. task'.kind = "changed" /\ DOMAIN task'.previous = {}
    BY <1>5
  <2> QED
    BY <2>1 DEF ClearedInv, Withdrawn
<1> QED
  BY <1>3, <1>4, <1>5 DEF HideEvent

\* Every step.
LEMMA EveryStepKeepsCleared ==
  ASSUME SettledInv, FocusInv, StateInv, ClearedInv, [Next]_vars
  PROVE  ClearedInv'
<1>1. CASE SaveProfiles
  BY <1>1, SavingKeepsCleared
<1>2. CASE ClearRoutesAndSaveScenes
  BY <1>2, ClearingWithdraws
<1>3. CASE HideEvent
  BY <1>3, HidingKeepsCleared
<1>4. CASE \/ (\E i \in DOMAIN profiles : KeyPressed(profiles[i].id)) \/ UnnamedRouting
           \/ OnFocusedBinaryChanged \/ SinksReady \/ OpenSettings
           \/ \E apps \in story.caches : AppsReady(apps)
           \/ \E app \in story.apps : SetActiveApp(app) \/ OnAppSelected(app)
  <2>1. task = NoTask /\ task' = task
    BY <1>4, UnnamedRoutingLeaves
       DEF KeyPressed, OnFocusedBinaryChanged, SinksReady, OpenSettings, AppsReady,
           SetActiveApp, OnAppSelected, MainIdle
  <2> QED
    BY <2>1, OthersKeepCleared DEF NoTask
<1>5. CASE \/ Starts \/ AppInit \/ Stops \/ AutoSwitchChanged \/ SettingsChanged \/ Import
           \/ ImportFails \/ \E on \in BOOLEAN : SetAutoProfileSwitch(on)
  <2>1. \/ task' = [kind |-> "init"] \/ task' = NoTask \/ task' = [kind |-> "import"]
        \/ task' = [kind |-> "auto switch"] \/ task' = [kind |-> "quit"]
    BY <1>5 DEF Starts, AppInit, Stops, AutoSwitchChanged, SettingsChanged, Import, ImportFails,
                SetAutoProfileSwitch
  <2>2. task'.kind \in {"init", "none", "import", "auto switch", "quit"}
    <3>1. CASE task' = NoTask
      BY <3>1 DEF NoTask
    <3>2. CASE task' = [kind |-> "init"]
      BY <3>2
    <3>3. CASE task' = [kind |-> "import"]
      BY <3>3
    <3>4. CASE task' = [kind |-> "auto switch"]
      BY <3>4
    <3>5. CASE task' = [kind |-> "quit"]
      BY <3>5
    <3> QED
      BY <2>1, <3>1, <3>2, <3>3, <3>4, <3>5
  <2> QED
    BY <2>2, OthersKeepCleared
<1>6. CASE SaveSwitch
  <2>1. task'.kind = "save profiles"
    BY <1>6 DEF SaveSwitch, SettledInv, DialogInv
  <2> QED
    BY <2>1, OthersKeepCleared
<1>7. CASE \E entered \in story.entered, list \in story.lists \cup {dialog.profiles} :
              Accept(entered, list)
  <2>1. PICK entered, list : Accept(entered, list)
    BY <1>7
  <2>2. task' = [kind |-> "save switch", auto |-> entered.auto, scenes |-> entered.scenes,
                profiles |-> list]
    BY <2>1 DEF Accept
  <2>3. task'.kind = "save switch"
    BY <2>2
  <2> QED
    BY <2>3, OthersKeepCleared
<1>8. CASE Proceeding
  <2>1. UNCHANGED <<task, route>> /\ Proceeds
    BY <1>8 DEF Proceeding, mainVars
  <2>2. CASE phase = "importing"
    <3>1. task'.kind = "import"
      BY <2>1, <2>2 DEF FocusInv, SwitchInv
    <3> QED
      BY <3>1, OthersKeepCleared
  <2>3. CASE phase # "importing"
    <3>1. HasKeys(m_data)
      BY DEF FocusInv
    <3>2. profiles' = profiles
      BY <2>1, <2>3, <3>1, ProceedingKeepsKeys DEF profiles
    <3> QED
      BY <2>1, <3>2, OthersKeepCleared
  <2> QED
    BY <2>2, <2>3
<1>9. CASE Files \/ Tracking \/ Export \/ UNCHANGED vars
  <2>1. UNCHANGED <<task, route>> /\ m_data' = m_data
    BY <1>9 DEF Files, EditFile, GetOther, Tracking, Export, ExportToFile, vars, mainVars,
                configVars, dataVars
  <2>2. profiles' = profiles
    BY <2>1 DEF profiles
  <2> QED
    BY <2>1, <2>2, OthersKeepCleared
<1> QED
  BY <1>1, <1>2, <1>3, <1>4, <1>5, <1>6, <1>7, <1>8, <1>9 DEF Next

\* When the dialog has saved, nothing stays routed that this process routed in the
\* name of a profile which had a sink until then, unless a profile in use with a
\* sink matches it: saveAndAccept, profileSinkCleanupTargets and the books that
\* setProfileAppSink keeps, over every list of profiles.
THEOREM RoutesAreCleared == Spec => []SavedSettingsClearRoutes
<1>1. Init => ClearedInv
  BY DEF Init, ClearedInv, NoTask
<1>2. SettledInv /\ FocusInv /\ StateInv /\ ClearedInv /\ [Next]_vars => ClearedInv'
  BY EveryStepKeepsCleared
<1>3. ClearedInv => SavedSettingsClearRoutes
  BY DEF ClearedInv, Withdrawn, SavedSettingsClearRoutes
<1> QED
  BY <1>1, <1>2, <1>3, SettledAlways, FocusAlways, StateAlways, PTL DEF Spec

-----------------------------------------------------------------------------
(* The guard.                                                              *)

\* What two sequences have at the same indices.
LEMMA SiftedAlike ==
  ASSUME NEW s, NEW t, NEW at \in SUBSET Nat, IsFiniteSet(at), NEW n \in 1 .. Cardinality(at)
  PROVE  \E i \in at : Sifted(s, at)[n] = s[i] /\ Sifted(t, at)[n] = t[i]
<1> DEFINE rank == [i \in at |-> Cardinality({j \in at : j <= i})]
           c == CHOOSE i \in at : Cardinality({j \in at : j <= i}) = n
<1>1. \E i \in at : rank[i] = n
  BY Ranks
<1>2. \A i \in at : rank[i] = Cardinality({j \in at : j <= i})
  OBVIOUS
<1> HIDE DEF rank
<1>3. c \in at
  BY <1>1, <1>2
<1>4. Sifted(s, at)[n] = s[c] /\ Sifted(t, at)[n] = t[c]
  BY DEF Sifted
<1> HIDE DEF c
<1> QED
  BY <1>3, <1>4

\* The id and the sink of an entry.
IdOfEntry(o) == Get(o, "id", <<>>)
SinkOfEntry(o) == Get(o, "sink", NoSink)

\* Documents whose entries have the same ids and sinks give profiles that have.
LEMMA SameIdsAndSinks ==
  ASSUME NEW d, Settled(d), NEW m, Settled(m), DOMAIN m.profiles = DOMAIN d.profiles,
         \A i \in DOMAIN d.profiles : /\ IdOfEntry(m.profiles[i]) = IdOfEntry(d.profiles[i])
                                      /\ SinkOfEntry(m.profiles[i]) = SinkOfEntry(d.profiles[i])
  PROVE  /\ DOMAIN Profiles(m) = DOMAIN Profiles(d)
         /\ \A n \in DOMAIN Profiles(d) : /\ Profiles(m)[n].id = Profiles(d)[n].id
                                          /\ Profiles(m)[n].sink = Profiles(d)[n].sink
<1> DEFINE rd == [i \in DOMAIN d.profiles |-> ProfileFromJson(d.profiles[i])]
           rm == [i \in DOMAIN m.profiles |-> ProfileFromJson(m.profiles[i])]
           ad == {i \in DOMAIN rd : rd[i].id # <<>>}
           am == {i \in DOMAIN rm : rm[i].id # <<>>}
<1>1. /\ \A i \in DOMAIN d.profiles : ProfileObject(d.profiles[i])
      /\ \A i \in DOMAIN m.profiles : ProfileObject(m.profiles[i])
      /\ Len(d.profiles) \in Nat /\ DOMAIN d.profiles = 1 .. Len(d.profiles)
  BY SequenceDomain DEF Settled, WellTyped, HasKeys, Get
<1>2. Profiles(d) = Sifted(rd, ad) /\ Profiles(m) = Sifted(rm, am)
  BY DEF Profiles, ProfilesFromJson
<1>3. ASSUME NEW i \in DOMAIN d.profiles
      PROVE  /\ i \in DOMAIN rd /\ i \in DOMAIN rm
             /\ rd[i].id = IdOfEntry(d.profiles[i]) /\ rm[i].id = rd[i].id
             /\ rm[i].sink = rd[i].sink
  <2>1. ProfileObject(d.profiles[i]) /\ ProfileObject(m.profiles[i])
    BY <1>1
  <2>2. /\ ProfileFromJson(d.profiles[i]).id = IdOfEntry(d.profiles[i])
        /\ ProfileFromJson(d.profiles[i]).sink = SinkOfEntry(d.profiles[i])
        /\ ProfileFromJson(m.profiles[i]).id = IdOfEntry(m.profiles[i])
        /\ ProfileFromJson(m.profiles[i]).sink = SinkOfEntry(m.profiles[i])
    BY <2>1, ProfileIsRead DEF IdOfEntry, SinkOfEntry
  <2> QED
    BY <2>2
<1>4. am = ad /\ ad \in SUBSET DOMAIN d.profiles
  <2>1. \A i \in DOMAIN d.profiles : i \in ad <=> i \in am
    BY <1>3
  <2> QED
    BY <2>1
<1> HIDE DEF rd, rm, ad, am
<1>5. ad \in SUBSET Nat /\ IsFiniteSet(ad)
  BY <1>1, <1>4, SomeIndices
<1>6. DOMAIN Sifted(rd, ad) = 1 .. Cardinality(ad) /\ DOMAIN Sifted(rm, ad) = 1 .. Cardinality(ad)
  BY DEF Sifted
<1>7. ASSUME NEW n \in 1 .. Cardinality(ad)
      PROVE  /\ Sifted(rm, ad)[n].id = Sifted(rd, ad)[n].id
             /\ Sifted(rm, ad)[n].sink = Sifted(rd, ad)[n].sink
  <2>1. PICK i \in ad : Sifted(rd, ad)[n] = rd[i] /\ Sifted(rm, ad)[n] = rm[i]
    BY <1>5, SiftedAlike
  <2> QED
    BY <1>3, <1>4, <2>1
<1> QED
  BY <1>2, <1>4, <1>6, <1>7

\* Config::setDefaultProfileApp and setSelectedApp keep ids and sinks.
LEMMA DefaultAppKeepsIds ==
  ASSUME NEW d, Settled(d), NEW app \in Names, NEW m,
         m = WithDefaultProfileApp(d, app) \/ m = WithSelectedApp(d, app)
  PROVE  /\ DOMAIN Profiles(m) = DOMAIN Profiles(d)
         /\ \A n \in DOMAIN Profiles(d) : /\ Profiles(m)[n].id = Profiles(d)[n].id
                                          /\ Profiles(m)[n].sink = Profiles(d)[n].sink
<1> DEFINE first == Head(d.profiles)
           apps == AppsWithPrimary(first, app)
           over == [app |-> app, apps |-> apps]
           new == Override(over, first)
           list == [d.profiles EXCEPT ![1] = new]
<1>1. Settled(m)
  BY DefaultAppSettles
<1>2. /\ HasKeys(d) /\ IsSequence(d.profiles) /\ DOMAIN d.profiles # {}
  BY DEF Settled, WellTyped, HasKeys, Get, HasProfile
<1>3. Len(d.profiles) \in Nat /\ DOMAIN d.profiles = 1 .. Len(d.profiles) /\ d.profiles # <<>>
  BY <1>2, SequenceDomain
<1>4. 1 \in DOMAIN d.profiles /\ first = d.profiles[1]
  BY <1>2, <1>3
<1>5. m = [d EXCEPT !.profiles = list, !.selected_app = app]
  BY <1>3 DEF WithDefaultProfileApp, WithSelectedApp
<1>6. /\ Get(new, "id", <<>>) = Get(first, "id", <<>>)
      /\ Get(new, "sink", NoSink) = Get(first, "sink", NoSink)
  <2>1. DOMAIN over = {"app", "apps"}
    OBVIOUS
  <2> HIDE DEF over, first
  <2> QED
    BY <2>1 DEF Override, Get
<1> HIDE DEF new, first
<1>7. /\ DOMAIN list = DOMAIN d.profiles /\ list[1] = new
      /\ \A i \in DOMAIN list : i # 1 => list[i] = d.profiles[i]
  BY <1>4
<1> HIDE DEF list
<1>8. m.profiles = list
  BY <1>2, <1>5 DEF HasKeys
<1>9. \A i \in DOMAIN d.profiles : /\ IdOfEntry(m.profiles[i]) = IdOfEntry(d.profiles[i])
                                   /\ SinkOfEntry(m.profiles[i]) = SinkOfEntry(d.profiles[i])
  BY <1>4, <1>6, <1>7, <1>8 DEF IdOfEntry, SinkOfEntry
<1> QED
  BY <1>1, <1>7, <1>8, <1>9, SameIdsAndSinks

\* The route of the target, or of a name like it, is what profile p says.
Stands(p) ==
    \E a \in App :
        /\ AppIdMatches(a, guard.app) /\ route[a].now
        /\ route[a].by = <<>> \/ route[a] = [sink |-> p.sink, by |-> p.id, now |-> TRUE]

InForce ==
    (\A i, j \in DOMAIN profiles : profiles[i].id = profiles[j].id => i = j) =>
        \A i \in DOMAIN profiles :
            profiles[i].id = guard.profile /\ profiles[i].sink # NoSink => Stands(profiles[i])

\* The guard stands for a route except while the dialog saves, after which it is
\* cleared; a program that starts has none.
GuardInv ==
    /\ phase = "stopped" \/ task.kind = "init" => guard = NoGuard
    /\ task.kind \in {"none", "auto switch"} \/ phase = "importing" => InForce

LEMMA NoGuardIsInForce == ASSUME SettledInv, guard = NoGuard PROVE InForce
<1>1. \A i \in DOMAIN profiles : profiles[i].id # <<>>
  BY ProfilesAreAList DEF SettledInv, SettingsInv, profiles
<1> QED
  BY <1>1 DEF InForce, NoGuard

\* An activation sets the guard for what it routes.
LEMMA ActivationIsInForce ==
  ASSUME InForce, NEW p, NEW app, ActivateProfile(p, app), profiles' = profiles,
         p # <<>> => app \in App /\ Profile(p[1]) /\ InUse(p[1])
  PROVE  InForce'
<1>1. CASE UNCHANGED <<guard, route, routedApps>>
  <2>1. guard' = guard /\ route' = route
    BY <1>1
  <2> QED
    BY <2>1 DEF InForce, Stands
<1>2. CASE /\ p # <<>> /\ guard' = [profile |-> p[1].id, app |-> app]
           /\ SetProfileAppSink(p[1], ToRoute(p[1], app))
  <2> DEFINE q == p[1]
  <2>1. app \in App /\ q.apps \in Seq(App) /\ InUse(q)
    BY <1>2 DEF Profile
  <2>2. guard'.profile = q.id /\ guard'.app = app
    BY <1>2
  <2>3. \A a \in ToRoute(q, app) \cap App : route'[a] = [sink |-> q.sink, by |-> q.id, now |-> TRUE]
    BY <1>2 DEF SetProfileAppSink
  <2>4. ASSUME q.sink # NoSink PROVE \E a \in ToRoute(q, app) \cap App : AppIdMatches(a, app)
    <3>1. CASE app \in ToRoute(q, app)
      BY <2>1, <3>1, SimilarAssumption DEF AppIdMatches
    <3>2. CASE app \notin ToRoute(q, app)
      <4>1. PICK j \in DOMAIN q.apps : AppIdMatches(q.apps[j], app)
        BY <2>4, <3>2 DEF ToRoute
      <4>2. q.apps[j] \in ToRoute(q, app)
        BY <2>4, <3>2, <4>1 DEF ToRoute, Range
      <4>3. q.apps[j] \in App
        BY <2>1
      <4> QED
        BY <4>1, <4>2, <4>3
    <3> QED
      BY <3>1, <3>2
  <2> HIDE DEF q
  <2>5. ASSUME \A i, j \in DOMAIN profiles : profiles[i].id = profiles[j].id => i = j,
               NEW i \in DOMAIN profiles, profiles[i].id = q.id, profiles[i].sink # NoSink
        PROVE  Stands(profiles[i])'
    <3>1. PICK k \in DOMAIN profiles : q = profiles[k]
      BY <2>1 DEF InUse
    <3>2. profiles[i] = q
      BY <2>5, <3>1
    <3>3. PICK a \in ToRoute(q, app) \cap App : AppIdMatches(a, app)
      BY <2>4, <2>5, <3>2
    <3>4. route'[a] = [sink |-> q.sink, by |-> q.id, now |-> TRUE]
      BY <2>3, <3>3
    <3>5. route'[a].now
      <4>1. [sink |-> q.sink, by |-> q.id, now |-> TRUE].now
        OBVIOUS
      <4> QED
        BY <3>4, <4>1
    <3> QED
      BY <2>2, <3>2, <3>3, <3>4, <3>5 DEF Stands
  <2> QED
    BY <2>2, <2>5 DEF InForce
<1> QED
  BY <1>1, <1>2 DEF ActivateProfile

\* Handlers that have no part in it, and those that clear the guard.
LEMMA SameInForce ==
  ASSUME InForce, UNCHANGED <<guard, route>>, profiles' = profiles PROVE InForce'
<1>1. guard' = guard /\ route' = route /\ profiles' = profiles
  OBVIOUS
<1> QED
  BY <1>1 DEF InForce, Stands

LEMMA ClearedGuardIsInForce == ASSUME SettledInv', guard' = NoGuard PROVE InForce'
<1>1. Settled(m_data')
  BY DEF SettledInv, SettingsInv
<1>2. \A i \in DOMAIN Profiles(m_data') : Profiles(m_data')[i].id # <<>>
  BY <1>1, ProfilesAreAList
<1>3. \A i \in DOMAIN profiles' : profiles'[i].id # <<>>
  BY <1>2 DEF profiles
<1>4. guard'.profile = <<>>
  BY DEF NoGuard
<1> QED
  BY <1>3, <1>4 DEF InForce

\* What is left to do while the dialog saves.
LEMMA SavingTasks ==
  ASSUME SettledInv,
         \/ HideEvent \/ SaveSwitch \/ SaveProfiles \/ ClearRoutesAndSaveScenes
         \/ \E entered \in story.entered, list \in story.lists \cup {dialog.profiles} :
               Accept(entered, list)
  PROVE  /\ phase' = "saving"
         /\ task'.kind \in {"changed", "imported", "save switch", "save profiles", "clear routes",
                          "hide"}
<1>1. phase' = "saving"
  BY DEF HideEvent, SaveSwitch, SaveProfiles, ClearRoutesAndSaveScenes, Accept, Sets
<1>2. CASE HideEvent
  <2>1. CASE task.kind = "hide" /\ task' = [task EXCEPT !.kind = "changed"]
    <3>1. task'.kind = "changed"
      BY <2>1 DEF SettledInv, DialogInv
    <3> QED
      BY <1>1, <3>1
  <2>2. CASE task' = [kind |-> "imported"]
    BY <1>1, <2>2
  <2>3. CASE task' = [kind |-> "changed", previous |-> <<>>]
    BY <1>1, <2>3
  <2> QED
    BY <1>2, <2>1, <2>2, <2>3 DEF HideEvent
<1>3. CASE SaveSwitch
  <2>1. task'.kind = "save profiles"
    BY <1>3 DEF SaveSwitch, SettledInv, DialogInv
  <2> QED
    BY <1>1, <2>1
<1>4. CASE SaveProfiles
  BY <1>1, <1>4 DEF SaveProfiles
<1>5. CASE ClearRoutesAndSaveScenes
  BY <1>1, <1>5 DEF ClearRoutesAndSaveScenes
<1>6. CASE \E entered \in story.entered, list \in story.lists \cup {dialog.profiles} :
              Accept(entered, list)
  <2>1. PICK entered, list : Accept(entered, list)
    BY <1>6
  <2>2. task' = [kind |-> "save switch", auto |-> entered.auto, scenes |-> entered.scenes,
                profiles |-> list]
    BY <2>1 DEF Accept
  <2> QED
    BY <1>1, <2>2
<1> QED
  BY <1>2, <1>3, <1>4, <1>5, <1>6

\* Only a start has a task of that kind, and only its end stops the program.
LEMMA StartsAndEnds ==
  ASSUME SettledInv, FocusInv, StateInv, [Next]_vars
  PROVE  \/ Starts
         \/ guard' = NoGuard
         \/ /\ phase' = "stopped" => phase = "stopped" /\ UNCHANGED guard
            /\ task'.kind = "init" => task.kind = "init" /\ UNCHANGED guard
<1>1. CASE Starts
  BY <1>1
<1>2. CASE SinksReady \/ SettingsChanged \/ Stops
  BY <1>2 DEF SinksReady, SettingsChanged, Stops
<1>3. CASE Files \/ Tracking \/ UNCHANGED vars
  <2>1. UNCHANGED <<guard, task, phase>>
    BY <1>3 DEF Files, EditFile, GetOther, Tracking, vars, configVars, mainVars
  <2> QED
    BY <2>1
<1>4. CASE Proceeding \/ Export
  <2>1. UNCHANGED <<guard, task>>
    BY <1>4 DEF Proceeding, Export, mainVars
  <2>2. phase' # "stopped"
    BY <1>4 DEF Proceeding, Proceeds, Save, Write, SaveNothing, Commit, FinishExport,
       FinishImport, Export, ExportToFile
  <2> QED
    BY <2>1, <2>2
<1>5. CASE \/ (\E i \in DOMAIN profiles : KeyPressed(profiles[i].id)) \/ UnnamedRouting
           \/ OnFocusedBinaryChanged \/ OpenSettings
           \/ \E apps \in story.caches : AppsReady(apps)
  <2>1. phase' = phase /\ phase = "idle" /\ task' = task /\ task = NoTask
    BY <1>5, UnnamedRoutingLeaves
       DEF KeyPressed, OnFocusedBinaryChanged, OpenSettings, AppsReady, MainIdle, configVars
  <2>2. task.kind = "none"
    BY <2>1 DEF NoTask
  <2> QED
    BY <2>1, <2>2
<1>6. CASE \E app \in story.apps : SetActiveApp(app) \/ OnAppSelected(app)
  <2>1. phase' = "saving" /\ task' = NoTask
    BY <1>6 DEF SetActiveApp, OnAppSelected, MainIdle, Sets
  <2> QED
    BY <2>1 DEF NoTask
<1>7. CASE AppInit \/ AutoSwitchChanged \/ ImportFails
  <2>1. phase' = "idle" /\ task' = NoTask
    BY <1>7 DEF AppInit, AutoSwitchChanged, ImportFails, ImportRefused, configVars
  <2> QED
    BY <2>1 DEF NoTask
<1>8. CASE Import \/ \E on \in BOOLEAN : SetAutoProfileSwitch(on)
  <2>1. phase' # "stopped"
    BY <1>8 DEF Import, ImportFromFile, SetAutoProfileSwitch, Sets
  <2>2. task' = [kind |-> "import"] \/ task' = [kind |-> "auto switch"]
    BY <1>8 DEF Import, SetAutoProfileSwitch
  <2>3. CASE task' = [kind |-> "import"]
    BY <2>1, <2>3
  <2>4. CASE task' = [kind |-> "auto switch"]
    BY <2>1, <2>4
  <2> QED
    BY <2>2, <2>3, <2>4
<1>9. CASE \/ HideEvent \/ SaveSwitch \/ SaveProfiles \/ ClearRoutesAndSaveScenes
           \/ \E entered \in story.entered, list \in story.lists \cup {dialog.profiles} :
                 Accept(entered, list)
  <2>1. /\ phase' = "saving"
        /\ task'.kind \in {"changed", "imported", "save switch", "save profiles", "clear routes",
                         "hide"}
    BY <1>9, SavingTasks
  <2> QED
    BY <2>1
<1> QED
  BY <1>1, <1>2, <1>3, <1>4, <1>5, <1>6, <1>7, <1>8, <1>9 DEF Next

\* A press of a key, a report of the focus, a request to route.
LEMMA RoutingIsInForce ==
  ASSUME SettledInv, FocusInv, StateInv, GuardInv,
         \/ (\E i \in DOMAIN profiles : KeyPressed(profiles[i].id)) \/ UnnamedRouting
         \/ OnFocusedBinaryChanged
  PROVE  InForce'
<1>1. InForce
  <2>1. task = NoTask
    BY UnnamedRoutingLeaves DEF KeyPressed, OnFocusedBinaryChanged, MainIdle
  <2> QED
    BY <2>1 DEF GuardInv, NoTask
<1>2. profiles' = profiles
  <2>1. m_data' = m_data
    BY UnnamedRoutingLeaves DEF KeyPressed, OnFocusedBinaryChanged, configVars, dataVars
  <2> QED
    BY <2>1 DEF profiles
<1>3. ASSUME NEW id, KeyPressed(id) PROVE InForce'
  <2>1. EffectiveApp(id) # NoApp /\ ActivateProfile(EffectiveProfile(id), EffectiveApp(id))
    BY <1>3 DEF KeyPressed
  <2>2. EffectiveApp(id) \in App
    BY <2>1, EffectiveTypes DEF Names
  <2>3. EffectiveProfile(id) # <<>> =>
            Profile(EffectiveProfile(id)[1]) /\ InUse(EffectiveProfile(id)[1])
    BY EffectiveTypes
  <2> QED
    BY <1>1, <1>2, <2>1, <2>2, <2>3, ActivationIsInForce
<1>4. CASE UnnamedRouting
  <2>1. /\ guard' = guard
        /\ \A a \in App : \/ route'[a] = route[a]
                          \/ \E sink : route'[a] = [sink |-> sink, by |-> <<>>, now |-> TRUE]
    BY <1>4, UnnamedRoutingLeaves
  <2>2. \A sink : LET asked == [sink |-> sink, by |-> <<>>, now |-> TRUE] IN asked.by = <<>>
    OBVIOUS
  <2>3. \A sink : LET asked == [sink |-> sink, by |-> <<>>, now |-> TRUE] IN asked.now
    OBVIOUS
  <2>4. ASSUME NEW p, Stands(p) PROVE Stands(p)'
    <3>1. PICK a \in App : /\ AppIdMatches(a, guard.app) /\ route[a].now
                           /\ \/ route[a].by = <<>>
                              \/ route[a] = [sink |-> p.sink, by |-> p.id, now |-> TRUE]
      BY <2>4 DEF Stands
    <3>2. CASE route'[a] = route[a]
      BY <2>1, <3>1, <3>2 DEF Stands
    <3>3. ASSUME NEW sink, route'[a] = [sink |-> sink, by |-> <<>>, now |-> TRUE] PROVE Stands(p)'
      <4>1. route'[a].by = <<>>
        BY <2>2, <3>3
      <4>2. route'[a].now
        BY <2>3, <3>3
      <4> QED
        BY <2>1, <3>1, <4>1, <4>2 DEF Stands
    <3> QED
      BY <2>1, <3>2, <3>3
  <2> QED
    BY <1>1, <1>2, <2>1, <2>4 DEF InForce
<1>5. CASE OnFocusedBinaryChanged
  <2> DEFINE p == FindAutoSwitchProfileForApp(m_autoActiveApp', profiles, Aliases)
  <2>1. ActivateProfile(p, m_autoActiveApp')
    BY <1>5 DEF OnFocusedBinaryChanged
  <2>2. m_autoActiveApp' \in Names
    BY <1>5, RoutersKeepRoutes
  <2>3. p # <<>> => m_autoActiveApp' \in App /\ Profile(p[1]) /\ InUse(p[1])
    BY <2>2, FittingProfile DEF Names
  <2> HIDE DEF p
  <2> QED
    BY <1>1, <1>2, <2>1, <2>3, ActivationIsInForce
<1> QED
  BY <1>3, <1>4, <1>5

\* Another application for the default profile.
LEMMA AnotherAppIsInForce ==
  ASSUME SettledInv, FocusInv, GuardInv, \E app \in story.apps : SetActiveApp(app) \/ OnAppSelected(app)
  PROVE  InForce'
<1>1. PICK app \in story.apps : SetActiveApp(app) \/ OnAppSelected(app)
  OBVIOUS
<1>2. /\ m_data' = WithDefaultProfileApp(m_data, app) \/ m_data' = WithSelectedApp(m_data, app)
      /\ task = NoTask /\ guard' = guard /\ route' = route
  BY <1>1 DEF SetActiveApp, OnAppSelected, Sets, MainIdle
<1>3. app \in Names /\ Settled(m_data)
  BY StoriesAssumption DEF FocusInv, Names, SettledInv, SettingsInv
<1>4. /\ DOMAIN Profiles(m_data') = DOMAIN Profiles(m_data)
      /\ \A n \in DOMAIN Profiles(m_data) :
            /\ Profiles(m_data')[n].id = Profiles(m_data)[n].id
            /\ Profiles(m_data')[n].sink = Profiles(m_data)[n].sink
  BY <1>2, <1>3, DefaultAppKeepsIds
<1>5. /\ DOMAIN profiles' = DOMAIN profiles
      /\ \A n \in DOMAIN profiles : profiles'[n].id = profiles[n].id /\ profiles'[n].sink = profiles[n].sink
  BY <1>4 DEF profiles
<1>6. InForce
  BY <1>2 DEF GuardInv, NoTask
<1>7. \A n \in DOMAIN profiles : Stands(profiles[n]) => Stands(profiles[n])'
  <2> TAKE n \in DOMAIN profiles
  <2> QED
    BY <1>2, <1>5 DEF Stands
<1>8. ASSUME \A i, j \in DOMAIN profiles' : profiles'[i].id = profiles'[j].id => i = j,
             NEW n \in DOMAIN profiles', profiles'[n].id = guard'.profile, profiles'[n].sink # NoSink
      PROVE  Stands(profiles[n])'
  <2>1. \A i, j \in DOMAIN profiles : profiles[i].id = profiles[j].id => i = j
    BY <1>5, <1>8
  <2>2. n \in DOMAIN profiles /\ profiles[n].id = guard.profile /\ profiles[n].sink # NoSink
    BY <1>2, <1>5, <1>8
  <2> QED
    BY <1>6, <1>7, <2>1, <2>2 DEF InForce
<1> QED
  BY <1>8 DEF InForce

\* Handlers that change neither the guard, nor the routes, nor the profiles.
LEMMA StandingAside ==
  ASSUME SettledInv, FocusInv, GuardInv, UNCHANGED <<guard, route>>,
         \/ Proceeding \/ Files \/ Tracking \/ OpenSettings \/ Export \/ Import \/ ImportFails
         \/ AutoSwitchChanged \/ UNCHANGED vars
         \/ \E apps \in story.caches : AppsReady(apps)
         \/ \E on \in BOOLEAN : SetAutoProfileSwitch(on)
  PROVE  task'.kind \in {"none", "auto switch"} \/ phase' = "importing" => InForce'
<1>1. HasKeys(m_data)
  BY DEF FocusInv
<1>2. CASE Proceeding /\ phase = "importing"
  <2>1. task' = task /\ task.kind = "import" /\ phase' # "importing"
    BY <1>1, <1>2, ProceedingKeepsKeys DEF Proceeding, mainVars, FocusInv, SwitchInv
  <2> QED
    BY <2>1
<1>3. CASE Proceeding /\ phase # "importing"
  <2>1. task' = task /\ profiles' = profiles /\ phase' # "importing"
    BY <1>1, <1>3, ProceedingKeepsKeys DEF Proceeding, mainVars, profiles
  <2> QED
    BY <2>1, SameInForce DEF GuardInv
<1>4. CASE Files \/ Tracking \/ UNCHANGED vars
  <2>1. task' = task /\ phase' = phase /\ profiles' = profiles
    BY <1>4 DEF Files, EditFile, GetOther, Tracking, vars, configVars, dataVars, mainVars, profiles
  <2> QED
    BY <2>1, SameInForce DEF GuardInv
<1>5. CASE OpenSettings \/ Export \/ Import \/ AutoSwitchChanged \/ ImportFails
           \/ \E apps \in story.caches : AppsReady(apps)
  <2>1. profiles' = profiles
    BY <1>5 DEF OpenSettings, Export, ExportToFile, Import, ImportFromFile, ImportFails,
       ImportRefused, AutoSwitchChanged, AppsReady, configVars, dataVars, profiles
  <2>2. task.kind \in {"none", "auto switch"} \/ phase = "importing"
    <3>1. task = NoTask \/ task.kind = "auto switch" \/ phase = "importing"
      BY <1>5 DEF OpenSettings, Export, Import, ImportFails, ImportRefused, AutoSwitchChanged,
         AppsReady, MainIdle
    <3>2. NoTask.kind = "none"
      BY DEF NoTask
    <3> QED
      BY <3>1, <3>2, Zenon
  <2> QED
    BY <2>1, <2>2, SameInForce DEF GuardInv
<1>6. CASE \E on \in BOOLEAN : SetAutoProfileSwitch(on)
  <2>1. PICK on \in BOOLEAN : SetAutoProfileSwitch(on)
    BY <1>6
  <2>2. m_data' = WithAutoProfileSwitch(m_data, on) /\ task = NoTask
    BY <2>1 DEF SetAutoProfileSwitch, Sets, MainIdle
  <2>3. m_data'.profiles = m_data.profiles
    BY <1>1, <2>2, SettersKeep
  <2>4. profiles' = profiles
    BY <2>3 DEF profiles, Profiles
  <2> QED
    BY <2>2, <2>4, SameInForce DEF GuardInv, NoTask
<1> QED
  BY <1>2, <1>3, <1>4, <1>5, <1>6

\* Every step.
LEMMA EveryStepKeepsGuard ==
  ASSUME SettledInv, SettledInv', FocusInv, StateInv, GuardInv, [Next]_vars
  PROVE  GuardInv'
<1>1. phase' = "stopped" \/ task'.kind = "init" => guard' = NoGuard
  <2>1. CASE Starts
    BY <2>1 DEF Starts, Load, LoadBlocked, LoadDocument, LoadDamaged, LoadAbsent, GuardInv
  <2> QED
    BY <2>1, StartsAndEnds DEF GuardInv
<1>2. task'.kind \in {"none", "auto switch"} \/ phase' = "importing" => InForce'
  <2>1. CASE \/ (\E i \in DOMAIN profiles : KeyPressed(profiles[i].id)) \/ UnnamedRouting
             \/ OnFocusedBinaryChanged
    BY <2>1, RoutingIsInForce
  <2>2. CASE \E app \in story.apps : SetActiveApp(app) \/ OnAppSelected(app)
    BY <2>2, AnotherAppIsInForce
  <2>3. CASE SinksReady \/ SettingsChanged \/ Stops
    BY <2>3, ClearedGuardIsInForce DEF SinksReady, SettingsChanged, Stops
  <2>4. CASE Starts \/ AppInit
    <3>1. guard' = NoGuard
      BY <2>4 DEF Starts, Load, LoadBlocked, LoadDocument, LoadDamaged, LoadAbsent, AppInit, GuardInv
    <3> QED
      BY <3>1, ClearedGuardIsInForce
  <2>5. CASE \/ Proceeding \/ Files \/ Tracking \/ OpenSettings \/ Export \/ Import \/ ImportFails
             \/ AutoSwitchChanged \/ UNCHANGED vars
             \/ \E apps \in story.caches : AppsReady(apps)
             \/ \E on \in BOOLEAN : SetAutoProfileSwitch(on)
    <3>1. UNCHANGED <<guard, route>>
      BY <2>5 DEF Proceeding, Files, Tracking, OpenSettings, Export, Import, ImportFails,
         AutoSwitchChanged, AppsReady, SetAutoProfileSwitch, vars, mainVars
    <3> QED
      BY <2>5, <3>1, StandingAside
  <2>6. CASE \/ HideEvent \/ SaveSwitch \/ SaveProfiles \/ ClearRoutesAndSaveScenes
             \/ \E entered \in story.entered, list \in story.lists \cup {dialog.profiles} :
                   Accept(entered, list)
    BY <2>6, SavingTasks
  <2> QED
    BY <2>1, <2>2, <2>3, <2>4, <2>5, <2>6 DEF Next
<1> QED
  BY <1>1, <1>2 DEF GuardInv

\* The guard that spares a key press the routing stands for a route in force:
\* activateProfile, the handlers that clear the guard, and those that do not.
THEOREM GuardsMeanRoutes == Spec => []GuardMeansRouted
<1>1. Init => GuardInv
  <2> SUFFICES ASSUME Init PROVE GuardInv
    OBVIOUS
  <2>1. guard = NoGuard /\ m_data = DefaultJson
    BY DEF Init, ConfigInit
  <2>2. \A i \in DOMAIN profiles : profiles[i].id # <<>>
    BY <2>1, DefaultIsSettled, ProfilesAreAList DEF profiles
  <2> QED
    BY <2>1, <2>2 DEF GuardInv, InForce, NoGuard
<1>2. SettledInv /\ SettledInv' /\ FocusInv /\ StateInv /\ GuardInv /\ [Next]_vars => GuardInv'
  BY EveryStepKeepsGuard
<1>3. GuardInv => GuardMeansRouted
  <2>1. ASSUME GuardInv, task = NoTask PROVE InForce
    BY <2>1 DEF GuardInv, NoTask
  <2> QED
    BY <2>1 DEF InForce, Stands, GuardMeansRouted
<1> QED
  BY <1>1, <1>2, <1>3, SettledAlways, FocusAlways, StateAlways, PTL DEF Spec
=============================================================================
