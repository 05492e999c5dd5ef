--------------------------- MODULE WindowTracker ---------------------------
(***************************************************************************)
(* The thread that tells which application has the focus                   *)
(* (windowtracker.cpp), by one of three backends: the events of a Wayland  *)
(* compositor, a script inside KWin, or polling an X server.  What it      *)
(* tells is posted to the main thread.                                     *)
(***************************************************************************)
EXTENDS AppMatcher

CONSTANTS Window, NoWindow,
          AppIdOf       \* the application id or binary a window gives, or NoApp

ASSUME WindowAssumption ==
    NoWindow \notin Window /\ AppIdOf \in [Window -> App \cup {NoApp}]

Backends == {"wayland", "kwin", "xcb"}

VARIABLES
    active,     \* the window that has the focus
    wire,       \* the events the compositor has sent and nobody has read
    loop,       \* the backend the thread runs, or "off"
    seen,       \* the thread's own state, new in each run
    reports     \* focusedBinaryChanged, posted to the main thread

trackerVars == <<active, wire, loop, seen, reports>>

IdOf(w) == IF w = NoWindow THEN NoApp ELSE AppIdOf[w]

\* WaylandState and WaylandToplevel; lastWindow and lastBinary of runXcb.
Unseen == [activated |-> {}, focused |-> NoWindow, last |-> NoApp]

Event(type, w) == [type |-> type, window |-> w]

TrackerInit ==
    /\ active = NoWindow /\ wire = <<>> /\ reports = <<>>
    /\ loop = "off" /\ seen = Unseen

-----------------------------------------------------------------------------
(* The desktop.                                                            *)

\* The compositor tells of both windows' new states, then that it is done with
\* each, in some order; a window that is closed is told of as closed.
Told(before, after, closes) ==
    LET old == IF before = NoWindow THEN <<>>
               ELSE IF closes THEN <<Event("closed", before)>>
               ELSE <<Event("done", before)>>
        new == IF after = NoWindow THEN <<>> ELSE <<Event("done", after)>>
        states == (IF before = NoWindow \/ closes THEN <<>> ELSE <<Event("deactivated", before)>>)
                  \o (IF after = NoWindow THEN <<>> ELSE <<Event("activated", after)>>)
    IN  {states \o old \o new, states \o new \o old}

\* The focus moves, because the user moves it or closes the window that has it.
\* KWin's script reports every activation.
FocusMoves(w, closes) ==
    /\ w # active
    /\ closes => active # NoWindow
    /\ active' = w
    /\ IF loop = "wayland" THEN \E told \in Told(active, w, closes) : wire' = wire \o told
       ELSE wire' = wire
    /\ reports' = IF loop = "kwin" THEN Append(reports, IdOf(w)) ELSE reports
    /\ UNCHANGED <<loop, seen>>

-----------------------------------------------------------------------------
(* The Wayland backend.                                                    *)

\* emitFocusedApp.
EmitFocusedApp(s, app) ==
    /\ seen' = [s EXCEPT !.last = app]
    /\ reports' = IF s.last = app THEN reports ELSE Append(reports, app)

\* Mutant: any window that is done and not activated takes the focus away.
DoneOfAny(w) ==
    IF w \in seen.activated
    THEN EmitFocusedApp([seen EXCEPT !.focused = w], IdOf(w))
    ELSE EmitFocusedApp([seen EXCEPT !.focused = NoWindow], NoApp)

\* handleToplevelDone.
HandleDone(w) ==
    IF w \in seen.activated
    THEN EmitFocusedApp([seen EXCEPT !.focused = w], IdOf(w))
    ELSE IF seen.focused = w
    THEN EmitFocusedApp([seen EXCEPT !.focused = NoWindow], NoApp)
    ELSE UNCHANGED <<seen, reports>>

\* handleToplevelClosed.
HandleClosed(w) ==
    LET gone == [seen EXCEPT !.activated = @ \ {w}]
    IN  IF seen.focused = w
        THEN EmitFocusedApp([gone EXCEPT !.focused = NoWindow], NoApp)
        ELSE seen' = gone /\ UNCHANGED reports

\* handleToplevelState.
HandleState(w, on) ==
    /\ seen' = [seen EXCEPT !.activated = IF on THEN @ \cup {w} ELSE @ \ {w}]
    /\ UNCHANGED reports

\* One event of runWayland's loop.
Dispatch ==
    /\ loop = "wayland" /\ wire # <<>>
    /\ LET e == Head(wire)
       IN  CASE e.type = "activated" -> HandleState(e.window, TRUE)
             [] e.type = "deactivated" -> HandleState(e.window, FALSE)
             [] e.type = "done" -> HandleDone(e.window)
             [] e.type = "closed" -> HandleClosed(e.window)
    /\ wire' = Tail(wire)
    /\ UNCHANGED <<active, loop>>

-----------------------------------------------------------------------------
(* The X backend, and the thread.                                          *)

\* One turn of runXcb's loop; a window without a process id has no name.
Poll ==
    /\ loop = "xcb" /\ active # seen.focused
    /\ EmitFocusedApp([seen EXCEPT !.focused = active], IdOf(active))
    /\ UNCHANGED <<active, wire, loop>>

\* The connection breaks or the compositor ends the protocol: run() returns.
Breaks ==
    /\ loop = "wayland"
    /\ loop' = "off" /\ wire' = <<>>
    /\ UNCHANGED <<active, seen, reports>>

\* WindowTracker::start and run: the backend the session has; a new connection
\* is told of the windows there are, a new script reports the active one.
StartTracker(backend) ==
    IF loop # "off" THEN UNCHANGED trackerVars
    ELSE /\ loop' = backend /\ seen' = Unseen
         /\ wire' = IF backend # "wayland" \/ active = NoWindow THEN <<>>
                    ELSE <<Event("activated", active), Event("done", active)>>
         /\ reports' = IF backend = "kwin" THEN Append(reports, IdOf(active)) ELSE reports
         /\ UNCHANGED active

\* WindowTracker::stop: the thread is waited for.  What it has posted stays;
\* what KWin has sent to the object that is unregistered does not.
StopTracker ==
    /\ loop' = "off" /\ wire' = <<>> /\ seen' = Unseen
    /\ reports' = IF loop = "kwin" THEN <<>> ELSE reports
    /\ UNCHANGED active

TrackerSteps == Dispatch \/ Poll

\* Nothing that the tracker has to look at is left.
InSync == loop # "off" /\ wire = <<>> /\ (loop = "xcb" => seen.focused = active)
=============================================================================
