---------------------------- MODULE InputHandler ----------------------------
(***************************************************************************)
(* InputHandler of cpp/src/inputhandler.cpp: the thread that grabs the     *)
(* keyboards, consumes hotkeys and passes every other key on through a     *)
(* virtual mirror of the node (uinput), and the main thread that stops and *)
(* restarts it whenever the configuration changes.                         *)
(*                                                                         *)
(* A mirror is prepared first and the node is grabbed later, when the      *)
(* desktop has had time to find the mirror and no key is held.  Reading an *)
(* event, retiring a node and each step of that handover are actions; the  *)
(* kernel, the keyboards and the main thread interleave with them.         *)
(*                                                                         *)
(* Only keys are modelled: a wheel event has no state to lose.  What a     *)
(* hotkey triggers, and its debouncing, do not decide whether the event is *)
(* consumed.  LEDs are left out.                                           *)
(*                                                                         *)
(* A definition whose comment starts with "Mutant" is a wrong variant of   *)
(* the one below it, used only to see that a property notices the mistake. *)
(***************************************************************************)
EXTENDS Keyboards

CONSTANTS
  ModifierOf, \* the modifier of a key that isTrackedModifierCode accepts
  Config,     \* configurations the settings can hold, see Hotkeys
  FirstConfig,
  Siblings,   \* nodes of the chosen keyboard, useful even without a hotkey
  SlowStop,   \* whether the thread may take longer than stop() waits
  None        \* "no node"

ModifierKeys == DOMAIN ModifierOf

ASSUME HandlerAssumption ==
  /\ ModifierKeys \subseteq Key
  /\ FirstConfig \in Config
  /\ \A c \in Config :
       /\ \A p \in c.profiles : p.keys \subseteq Key
       /\ c.scenes \cup c.media \cup c.layout \subseteq Key
  /\ Siblings \subseteq Node
  /\ SlowStop \in BOOLEAN
  /\ None \notin Node

VARIABLES
  main,      \* main thread: "idle", or the call it is in, see Restart
  goal,      \* the configuration it is about to set
  config,    \* m_profiles, m_mediaHotkeys, m_scenes, m_osdLayoutInput
  running,   \* m_running
  thread,    \* "off", "started", "opening", "loop", "settling"
  snapshot,  \* the configuration this run works with
  todo,      \* candidate nodes not prepared yet
  mirror,    \* nodes with a uinput mirror
  warming,   \* mirrorReadyAfter: mirrors whose node is not grabbed yet
  asked,     \* the node whose handover is under way
  quiet,     \* it has been seen without a waiting event
  known,     \* per node: keys down according to libevdev
  held,      \* heldModifiers
  layoutActive, \* m_osdLayoutKeysActive: the OSD is visible
  \* History, for the properties only:
  raced,     \* per node: keys that are in desk since they were pressed during its handover
  resynced,  \* per node: keys that are in mirrored since a resynchronisation
  lost       \* modifiers whose last event was dropped unread

mainVars == <<main, goal, config>>
runVars == <<thread, snapshot, todo>>
nodeVars == <<mirror, warming, asked, quiet, known, held>>
historyVars == <<raced, resynced, lost>>
vars == <<keyboardVars, mainVars, running, runVars, nodeVars, layoutActive, historyVars>>

TypeOK ==
  /\ KeyboardsTypeOK
  /\ main \in {"idle", "stop", "start", "halt", "halted"}
  /\ goal \in Config /\ config \in Config
  /\ running \in BOOLEAN
  /\ thread \in {"off", "started", "opening", "loop", "settling"}
  /\ snapshot \in Config
  /\ todo \in SUBSET Node
  /\ mirror \in SUBSET Node
  /\ warming \in SUBSET Node
  /\ asked \in Node \cup {None}
  /\ quiet \in BOOLEAN
  /\ known \in [Node -> SUBSET Key]
  /\ held \in SUBSET ModifierKeys
  /\ layoutActive \in BOOLEAN
  /\ raced \in [Node -> SUBSET Key]
  /\ resynced \in [Node -> SUBSET Key]
  /\ lost \in SUBSET ModifierKeys

Init ==
  /\ KeyboardsInit
  /\ main = "idle" /\ goal = FirstConfig /\ config = FirstConfig
  /\ running = FALSE
  /\ thread = "off" /\ snapshot = FirstConfig /\ todo = {}
  /\ mirror = {} /\ warming = {} /\ asked = None /\ quiet = FALSE
  /\ known = [n \in Node |-> {}]
  /\ held = {} /\ layoutActive = FALSE
  /\ raced = [n \in Node |-> {}]
  /\ resynced = [n \in Node |-> {}]
  /\ lost = {}

-----------------------------------------------------------------------------
(* Resolving a key.  A configuration holds the profiles' hotkeys with the  *)
(* modifiers each profile requires, and the keys bound to scenes, media    *)
(* actions and (if the keyboard may move the OSD) layout actions.          *)

\* The union of all bindings: a key outside it is never looked up.
Hotkeys(c) ==
  (UNION {p.keys : p \in c.profiles}) \cup c.scenes \cup c.media \cup c.layout

\* normalizeHeldModifiers
Modifiers(keys) == {ModifierOf[k] : k \in keys}

\* resolveProfileHotkey finds a profile.
InProfile(c, k, keys) ==
  \E p \in c.profiles : k \in p.keys /\ p.modifiers \subseteq Modifiers(keys)

\* A press or a repeat is consumed by the OSD layout, a profile, a scene or a
\* media action, in this order.
PressConsumed(c, k) ==
  \/ layoutActive /\ k \in c.layout
  \/ InProfile(c, k, held)
  \/ k \in c.scenes \cup c.media

\* Mutant: the release of a profile's hotkey is consumed as well.
ReleaseConsumedAlways(c, k) == k \in Hotkeys(c)

ReleaseConsumed(c, k) ==
  \/ layoutActive /\ k \in c.layout
  \/ k \in c.scenes \cup c.media

Consumed(c, e) ==
  /\ e.key \in Hotkeys(c)
  /\ IF e.value = 0 THEN ReleaseConsumed(c, e.key) ELSE PressConsumed(c, e.key)

-----------------------------------------------------------------------------
(* The thread: preparing the nodes.                                        *)

\* The configuration is read once for the whole run.
RunBegins ==
  /\ thread = "started"
  /\ snapshot' = config
  /\ IF Hotkeys(config) = {}
     THEN thread' = "off" /\ todo' = {}
     ELSE /\ thread' = "opening"
          /\ todo' = {n \in plugged : n \in Siblings \/ KeysOf[n] \cap Hotkeys(config) # {}}
  /\ UNCHANGED <<keyboardVars, mainVars, running, nodeVars, layoutActive, historyVars>>

\* A node with a hotkey gets a mirror, or is left alone when that fails; a
\* sibling without one is only listened to.  libevdev reads the keys that are
\* down; what happens from now on is queued.
OpenNode(n) ==
  LET exclusive == KeysOf[n] \cap Hotkeys(snapshot) # {} IN
  /\ thread = "opening" /\ running /\ n \in todo
  /\ todo' = todo \ {n}
  /\ \/ /\ n \in plugged
        /\ open' = open \cup {n}
        /\ known' = [known EXCEPT ![n] = down[n]]
        /\ mirror' = IF exclusive THEN mirror \cup {n} ELSE mirror
        /\ warming' = IF exclusive THEN warming \cup {n} ELSE warming
     \/ UNCHANGED <<open, known, mirror, warming>>
  /\ UNCHANGED <<plugged, down, desk, grabbed, broken, queue, dropped, mirrored, mainVars,
                 running, thread, snapshot, asked, quiet, held, layoutActive, historyVars>>

\* Mutant: every key that is down counts as a modifier.
SeedEveryKey == UNION {known[n] : n \in open}

\* Held modifiers start from what libevdev knows.
Seed == (UNION {known[n] : n \in open}) \cap ModifierKeys

\* Mutant: an interrupted preparation waits for the other nodes.
PreparedAll ==
  /\ thread = "opening" /\ todo = {}
  /\ thread' = IF open = {} THEN "off" ELSE "loop"
  /\ held' = Seed
  /\ running' = running
  /\ lost' = {}
  /\ UNCHANGED <<keyboardVars, mainVars, snapshot, todo, mirror, warming, asked, quiet, known,
                 layoutActive, raced, resynced>>

\* polling: epoll works, else the loop ends at once.
Prepared ==
  /\ thread = "opening" /\ (todo = {} \/ ~running)
  /\ thread' = IF open = {} THEN "off" ELSE "loop"
  /\ held' = Seed
  /\ \E polling \in BOOLEAN : running' = (running /\ (polling \/ open = {}))
  /\ lost' = {}
  /\ UNCHANGED <<keyboardVars, mainVars, snapshot, todo, mirror, warming, asked, quiet, known,
                 layoutActive, raced, resynced>>

-----------------------------------------------------------------------------
(* The thread: its loop.                                                   *)

InLoop == thread = "loop" /\ asked = None

\* forwardUinputEvent: what a mirror reports, if the node is grabbed.
Forward(n, e) ==
  mirrored' = IF n \in grabbed \cap mirror THEN [mirrored EXCEPT ![n] = Moved(@, e)]
              ELSE mirrored

TracksModifier(e) ==
  held' = CASE e.value = 1 -> held \cup {e.key}
            [] e.value = 0 -> held \ {e.key}
            [] OTHER -> held

\* History: what no mirror reports down any more, and the events read.
Forgets(keys) ==
  /\ resynced' = [n \in Node |-> resynced[n] \cap mirrored'[n]]
  /\ lost' = lost \ keys

\* The next event of a node.  Modifiers are tracked on every node; any other
\* key of a node that is not grabbed already reaches the desktop.
ReadEvent(n) ==
  LET e == Head(queue[n]) IN
  /\ InLoop /\ n \in open \ (dropped \cup broken) /\ queue[n] # <<>>
  /\ queue' = [queue EXCEPT ![n] = Tail(@)]
  /\ known' = [known EXCEPT ![n] = Moved(@, e)]
  /\ IF e.key \in ModifierKeys
     THEN TracksModifier(e) /\ Forward(n, e)
     ELSE /\ held' = held
          /\ IF Consumed(snapshot, e) THEN mirrored' = mirrored ELSE Forward(n, e)
  /\ Forgets({e.key})
  /\ UNCHANGED <<plugged, down, desk, open, grabbed, broken, dropped, mainVars, running,
                 runVars, mirror, warming, asked, quiet, layoutActive, raced>>

\* After SYN_DROPPED libevdev compares what it knows with what the kernel
\* says; the differences are forwarded, and nothing else is done with them.
Resync(n) ==
  LET up == known[n] \ down[n]
      fresh == down[n] \ known[n]
  IN
  /\ InLoop /\ n \in open \ broken /\ n \in dropped
  /\ dropped' = dropped \ {n}
  /\ queue' = [queue EXCEPT ![n] = <<>>]
  /\ known' = [known EXCEPT ![n] = down[n]]
  /\ mirrored' = IF n \in grabbed \cap mirror
                 THEN [mirrored EXCEPT ![n] = (@ \ up) \cup fresh] ELSE mirrored
  /\ resynced' = [resynced EXCEPT ![n] = (@ \cup fresh) \cap mirrored'[n]]
  /\ lost' = lost \cup (up \cap ModifierKeys)
  /\ UNCHANGED <<plugged, down, desk, open, grabbed, broken, mainVars, running, runVars,
                 mirror, warming, asked, quiet, held, layoutActive, raced>>

\* Mutant: modifiers stay held.
RetireNodeOnly(n) ==
  /\ InLoop /\ n \in broken \cap open
  /\ open' = open \ {n} /\ grabbed' = grabbed \ {n} /\ broken' = broken \ {n}
  /\ dropped' = dropped \ {n}
  /\ mirror' = mirror \ {n}
  /\ queue' = [queue EXCEPT ![n] = <<>>]
  /\ mirrored' = [mirrored EXCEPT ![n] = {}]
  /\ Forgets({})
  /\ UNCHANGED <<plugged, down, desk, mainVars, running, runVars, warming, asked, quiet, known,
                 held, layoutActive, raced>>

\* A node that hangs up or cannot be read is closed, with its mirror and its
\* grab; its releases will not be seen, so no modifier counts as held.
RetireNode(n) ==
  /\ InLoop /\ n \in broken \cap open
  /\ open' = open \ {n} /\ grabbed' = grabbed \ {n} /\ broken' = broken \ {n}
  /\ dropped' = dropped \ {n}
  /\ mirror' = mirror \ {n}
  /\ queue' = [queue EXCEPT ![n] = <<>>]
  /\ mirrored' = [mirrored EXCEPT ![n] = {}]
  /\ held' = {}
  /\ Forgets({})
  /\ UNCHANGED <<plugged, down, desk, mainVars, running, runVars, warming, asked, quiet, known,
                 layoutActive, raced>>

\* The output side of a mirror fails.
MirrorFails(n) ==
  /\ n \in Fragile /\ n \in mirror \cap open /\ thread = "loop"
  /\ broken' = broken \cup {n}
  /\ UNCHANGED <<plugged, down, desk, open, grabbed, queue, dropped, mirrored, mainVars,
                 running, runVars, nodeVars, layoutActive, historyVars>>

-----------------------------------------------------------------------------
(* The thread: handing a node over to its mirror, once 500 ms have passed. *)

\* Mutant: held keys do not matter.
AskAnyway(n) ==
  /\ InLoop /\ running
  /\ n \in (warming \cap open) \ broken
  /\ queue' = [queue EXCEPT ![n] = <<>>]
  /\ asked' = n
  /\ lost' = lost \cup ({queue[n][i].key : i \in DOMAIN queue[n]} \cap ModifierKeys)
  /\ UNCHANGED <<plugged, down, desk, open, grabbed, broken, dropped, mirrored, mainVars,
                 running, runVars, mirror, warming, quiet, known, held, layoutActive,
                 raced, resynced>>

\* EVIOCGKEY: no key may be held.  The kernel drops the key events waiting at
\* a node when it is asked for its keys.
AskForKeys(n) ==
  /\ InLoop /\ running
  /\ n \in (warming \cap open) \ broken
  /\ queue' = [queue EXCEPT ![n] = <<>>]
  /\ asked' = IF down[n] = {} THEN n ELSE None
  /\ lost' = lost \cup ({queue[n][i].key : i \in DOMAIN queue[n]} \cap ModifierKeys)
  /\ UNCHANGED <<plugged, down, desk, open, grabbed, broken, dropped, mirrored, mainVars,
                 running, runVars, mirror, warming, quiet, known, held, layoutActive,
                 raced, resynced>>

\* Mutant: it waits here until the node is quiet.
WaitForQuiet ==
  /\ asked # None /\ ~quiet
  /\ quiet' = (queue[asked] = <<>> /\ asked \notin dropped)
  /\ UNCHANGED <<keyboardVars, mainVars, running, runVars, mirror, warming, asked, known, held,
                 layoutActive, historyVars>>

\* libevdev_has_event_pending: with an event waiting, try again later.
LookForEvents ==
  /\ asked # None /\ ~quiet
  /\ LET empty == queue[asked] = <<>> /\ asked \notin dropped
     IN quiet' = empty /\ asked' = IF empty THEN asked ELSE None
  /\ UNCHANGED <<keyboardVars, mainVars, running, runVars, mirror, warming, known, held,
                 layoutActive, historyVars>>

\* The grab; when it fails the mirror goes and the node is only listened to.
Grab ==
  /\ asked # None /\ quiet
  /\ warming' = warming \ {asked}
  /\ \/ /\ asked \in plugged
        /\ grabbed' = grabbed \cup {asked}
        /\ mirror' = mirror
     \/ /\ mirror' = mirror \ {asked}
        /\ grabbed' = grabbed
  /\ asked' = None /\ quiet' = FALSE
  /\ UNCHANGED <<plugged, down, desk, open, broken, queue, dropped, mirrored, mainVars,
                 running, runVars, known, held, layoutActive, historyVars>>

-----------------------------------------------------------------------------
(* The thread: its end.                                                    *)

PollFails ==
  /\ InLoop /\ running
  /\ running' = FALSE
  /\ UNCHANGED <<keyboardVars, mainVars, runVars, nodeVars, layoutActive, historyVars>>

\* All mirrors go, then all grabs; then the thread sleeps 750 ms.
ReleaseNodes ==
  /\ InLoop /\ ~running
  /\ thread' = "settling"
  /\ mirror' = {} /\ warming' = {}
  /\ open' = {} /\ grabbed' = {} /\ broken' = {} /\ dropped' = {}
  /\ mirrored' = [n \in Node |-> {}]
  /\ queue' = [n \in Node |-> <<>>]
  /\ Forgets({})
  /\ UNCHANGED <<plugged, down, desk, mainVars, running, snapshot, todo, asked, quiet, known,
                 held, layoutActive, raced>>

RunEnds ==
  /\ thread = "settling"
  /\ thread' = "off"
  /\ UNCHANGED <<keyboardVars, mainVars, running, snapshot, todo, nodeVars, layoutActive,
                 historyVars>>

-----------------------------------------------------------------------------
(* The main thread.  stop() clears m_running and waits for the thread, at  *)
(* most 2 s; its result is not looked at.                                  *)

Stopped == thread = "off" \/ SlowStop

\* stop(), then what is left of the call named by main.
Stop(rest) ==
  /\ running' = FALSE
  /\ main' = rest
  /\ UNCHANGED <<keyboardVars, runVars, nodeVars, layoutActive, historyVars>>

\* onHotkeysMaybeChanged: stop, set what changed, startDevice.
ChangeHotkeys(c) ==
  /\ main = "idle" /\ c # config
  /\ goal' = c
  /\ Stop("stop")
  /\ UNCHANGED config

\* startDevice and restart: another node was chosen, or a capture has ended.
Restart ==
  /\ main \in {"idle", "halted"}
  /\ Stop("start")
  /\ UNCHANGED <<goal, config>>

\* HotkeyCapture stops the thread for as long as its dialog is open.
Halt ==
  /\ main = "idle"
  /\ Stop("halt")
  /\ UNCHANGED <<goal, config>>

\* Mutant: the configuration is set without waiting.
SetsAtOnce ==
  /\ main = "stop"
  /\ config' = goal
  /\ main' = "idle"
  /\ running' = TRUE
  /\ UNCHANGED <<keyboardVars, goal, runVars, nodeVars, layoutActive, historyVars>>

\* stop() has returned: set the configuration, and startDevice stops again.
Sets ==
  /\ main = "stop" /\ Stopped
  /\ config' = goal
  /\ main' = "start"
  /\ running' = FALSE
  /\ UNCHANGED <<keyboardVars, goal, runVars, nodeVars, layoutActive, historyVars>>

Halted ==
  /\ main = "halt" /\ Stopped
  /\ main' = "halted"
  /\ UNCHANGED <<keyboardVars, goal, config, running, runVars, nodeVars, layoutActive,
                 historyVars>>

\* QThread::start does nothing while the thread runs.
Starts ==
  /\ main = "start" /\ Stopped
  /\ main' = "idle"
  /\ running' = TRUE
  /\ thread' = IF thread = "off" THEN "started" ELSE thread
  /\ UNCHANGED <<keyboardVars, goal, config, snapshot, todo, nodeVars, layoutActive, historyVars>>

\* The OSD is shown or hidden (layoutKeysActiveChanged).
SetOsdLayoutKeysActive ==
  /\ layoutActive' = ~layoutActive
  /\ UNCHANGED <<keyboardVars, mainVars, running, runVars, nodeVars, historyVars>>

-----------------------------------------------------------------------------
\* Typing, remembering the keys pressed during a handover.
Types ==
  /\ Typing
  /\ raced' = [n \in Node |-> desk'[n] \cap
                 (raced[n] \cup (IF n = asked THEN down'[n] \ down[n] ELSE {}))]
  /\ UNCHANGED <<mainVars, running, runVars, nodeVars, layoutActive, resynced, lost>>

Main ==
  \/ \E c \in Config : ChangeHotkeys(c)
  \/ Restart \/ Halt \/ Sets \/ Halted \/ Starts
  \/ (\E c \in Config : c.layout # {}) /\ SetOsdLayoutKeysActive

Run ==
  \/ RunBegins \/ Prepared
  \/ \E n \in Node : \/ OpenNode(n) \/ ReadEvent(n) \/ Resync(n) \/ RetireNode(n)
                     \/ AskForKeys(n)
  \/ LookForEvents \/ Grab
  \/ PollFails \/ ReleaseNodes \/ RunEnds

Next == Main \/ Run \/ Types \/ \E n \in Node : MirrorFails(n)

Spec == Init /\ [][Next]_vars

\* The thread runs, and the main thread finishes the call it is in.  Every
\* turn of the loop reads each node that has events before it looks at each
\* mirror that waits, hence strong fairness.  Nothing is assumed of the user.
Fairness ==
  /\ WF_vars(RunBegins) /\ WF_vars(Prepared)
  /\ \A n \in Node : /\ WF_vars(OpenNode(n))
                     /\ SF_vars(ReadEvent(n) \/ Resync(n) \/ RetireNode(n))
                     /\ SF_vars(AskForKeys(n))
  /\ WF_vars(LookForEvents) /\ WF_vars(Grab)
  /\ WF_vars(ReleaseNodes) /\ WF_vars(RunEnds)
  /\ WF_vars(Sets) /\ WF_vars(Halted) /\ WF_vars(Starts)

FairSpec == Spec /\ Fairness

-----------------------------------------------------------------------------
(* Properties.                                                             *)

\* A release of k is still to be read, or the node is still to be compared
\* or closed.
ReleasePending(n, k) ==
  \/ \E i \in DOMAIN queue[n] : queue[n][i] = [key |-> k, value |-> 0]
  \/ n \in dropped \cup broken

\* A key the desktop sees held on a mirror is held on the keyboard, or its
\* release is on the way: whatever modifiers, profiles and configurations do
\* between its press and its release.  Keys of the OSD layout are excepted
\* (ReleaseReachesItsMirror of InputHandlerClaims is about those), and so are
\* scene and media keys whose press was forwarded by a resynchronisation.
NoStuckKey ==
  \A n \in Node : \A k \in mirrored[n] \ down[n] :
    \/ ReleasePending(n, k)
    \/ k \in snapshot.layout
    \/ k \in resynced[n] \cap (snapshot.scenes \cup snapshot.media)

\* A key the desktop saw go down on the node itself goes up there: a held key
\* postpones the grab.  Only a key pressed during the handover is missed.
NoKeyLeftBehind ==
  \A n \in Node : desk[n] \ down[n] \subseteq raced[n]

\* A modifier counts as held only while one of the open nodes has it down or
\* has not told otherwise, except where its event was dropped unread.
NoGhostModifier ==
  thread = "loop" =>
    \A k \in held \ lost :
      \/ broken # {}
      \/ \E n \in open : k \in down[n] \/ ReleasePending(n, k)

\* Once stop() has returned the keyboards are the desktop's again, and what
\* is started next works with the configuration then set.
RunsFreshConfig ==
  /\ thread \in {"opening", "loop"} /\ running => snapshot = config
  /\ main = "halted" \/ thread = "off" => grabbed = {} /\ mirror = {}

\* A node with a mirror is taken over if its keys are let go, or its mirror
\* is given up.
HandoverCompletes ==
  \A n \in Node :
    <>[](thread = "loop" /\ running /\ down[n] = {}) => <>[](n \notin warming \cap open)

\* The main thread never waits for ever.
CallsReturn == main # "idle" ~> main \in {"idle", "halted"}
=============================================================================
