# keyboard-volume-app in TLA+

A verification project for the C++ application under `cpp/src`: a Qt desktop
program that grabs keyboards through evdev, turns hotkeys into volume, mute,
routing, ducking ("Focus Audio"), media and OSD actions, and shows an overlay.
The modules model the parts whose correctness depends on ordering, failure and
concurrency; TLC checks them on small instances, TLAPS proves the main safety
properties for every value of the constants.

## 1. Inventory

| Component | State it keeps | Operations | Interacts with |
|---|---|---|---|
| **Audio worker** `PaWorker`, `PaWatcherThread` (volumecontroller.cpp) | libpulse context, reconnect timer, parked volumes / channel volumes / mutes / routes / route clears, caches, ducking snapshot, stopping flag | relative and absolute volume, mute, query, duck and restore, route and un-route, replay, reconnect, context lost, stop, cleanup | PulseAudio or pipewire-pulse (callbacks), PipeWire nodes, subscription thread (queued signal), `VolumeController` (queued calls) |
| **PipeWire helpers** (pwutils.cpp) | persistent session, registry | list nodes and clients, read and write node volume and mute | worker (synchronous calls) |
| **VolumeController** facade | worker thread | requests, `close()` with timeouts | main thread, worker |
| **Keyboard capture** `InputHandler`, `EvdevDevice` | snapshot of the bindings, open nodes, mirrors, grabs, held modifiers, debounce times | open and mirror nodes, hand over, read, consume or forward, resynchronise, retire, stop, restart | kernel (evdev, uinput), main thread (mutex, atomics, signals) |
| **MPRIS consumer** `MprisClient` | players, active player, track, position and poll | service came/went, properties changed, select, seek, poll | D-Bus replies (asynchronous), `OSDWindow` |
| **OSD window** `OSDWindow` | visibility, hide timer, hover, drag, resize, preview, seek | show, hide, move, resize, seek, snap | `MprisClient`, `Config`, `InputHandler` (layout keys active) |
| **Configuration** `Config` | document, file, backup | load, migrate, save, import, setters | every other part |
| **Application wiring** `App` (main.cpp) | active profile, last routed pair, automatic target | activate profile, hotkeys changed, focus changed | all of the above |
| **Window tracker** | focused window per backend | X11 and Wayland events | `App` |
| **Application matching** (appmatcher.h) | none | pure functions on names, aliases, regular expressions | worker, `App`, `Config` |
| **D-Bus interface, MPRIS endpoint** | none of their own | adaptors | `VolumeController`, `MprisClient` |
| **Album art cache** | cache, pending download | fetch, cancel | network, OSD |
| **kvctl, tray, dialogs, translations** | widgets, strings | user interface | `Config` |

What is hard here, and what the properties are aimed at:

* **Audio worker.** Every operation on the daemon can fail, time out without
  effect, time out and still take effect, or complete on a stream that has just
  ended. The connection goes and comes while requests are under way, so a
  value may have to be parked and replayed later, by whoever notices that the
  application is there: a reconnect, or a one-shot timer started by another
  thread with a connection of its own. Correct means: nothing parked is
  dropped before a stream or the database has it, a replay touches nothing else,
  Focus Audio can always undo what it did, and the worker never gives up on
  its connection nor comes back after it was stopped.
* **Keyboard thread.** The desktop sees a key either on the node or on its
  mirror, never on both. Presses and releases of one key are separate events
  between which the node may be handed over, lost, resynchronised or released, the
  modifiers, the OSD and the configuration may change. Correct means: no key
  stays stuck on either side, no modifier is imagined, the bindings in force are
  the configured ones.
* **MPRIS and OSD.** Replies arrive after what they were asked about has gone, the
  player followed changes with every event of every player, a download ends after
  its track; a drag can be interrupted in many ways, and each of them has to end it
  and to let the overlay hide. Correct means: what is shown and what is sought in
  is one player and one track.
* **Configuration.** The process may be killed while a file is replaced, the disk
  may refuse any step; a file that could not be read must not be overwritten by
  defaults, and files of older versions or edited by hand must load into settings
  that the next start reads the same way.
* **Application wiring and window tracker.** Routes, the guard that spares their
  repetition, the books that say what has to be withdrawn, and the settings are
  four pieces of state that every key, focus change, D-Bus request and saved
  dialog changes in a different way; compositors report focus changes in any order.

`PROJECT.json` lists each hazard at its line with the properties that cover it.

## 2. Modules

```
AudioServer ── PaWorker ──┬── PaWorkerTypes ── PaWorkerProofs      (theorems)
                          └── PaWorkerClaims ── MCPaWorker         (TLC)
Keyboards ─── InputHandler ──┬── InputHandlerProofs                (theorems)
                             └── InputHandlerClaims ── MCInputHandler (TLC)
SessionBus ─┬─ MprisClient ─── MprisClientProofs ──────────────┐
            ├─ OsdWindow ───── OsdWindowProofs ────────────────┤
            └─ all of them and AlbumArtCache ── MediaPanel ──┬─┴─ MediaPanelProofs (theorems)
                                                             └── MCMediaPanel      (TLC)
Settings ──┬── AppMatcher ── WindowTracker ──┬── Application ──┬── ApplicationProofs ── FocusAndRouteProofs
           └── Config ───────────────────────┘                 └── MCApplication             (TLC)
DurableSettings   (abstract; Config instantiates it)
```

| Module | Models |
|---|---|
| `AudioServer` | external: streams, the daemon, the stream-restore database, the PipeWire registry, other mixers |
| `PaWorker` | `PaWorker` and `PaWatcherThread`, one action per slot, timer and callback |
| `PaWorkerClaims` | statements of ARCHITECTURE.md the worker does not keep |
| `Keyboards` | external: nodes, keys, the kernel's queues, grabs, what the desktop believes to be down |
| `InputHandler` | the capture thread and the main thread's stop, set, start |
| `InputHandlerClaims` | a comment of inputhandler.cpp the thread does not keep |
| `SessionBus` | external: media players and what the session bus delivers of them |
| `MprisClient` | mprisclient.cpp, as functions from the client to the client and the signals it emits |
| `OsdWindow` | osdwindow.cpp, as functions on the overlay's control state |
| `AlbumArtCache` | albumartcache.cpp, likewise |
| `MediaPanel` | the three composed as main.cpp connects them, with the user, the players and the settings |
| `Settings` | the JSON document of config.cpp: defaults, migration, merging, the getters and setters |
| `Config` | the object `Config` and its file, step by step |
| `DurableSettings` | what the configuration promises: an abstract specification |
| `AppMatcher` | the pure functions of appmatcher.h |
| `WindowTracker` | windowtracker.cpp with its three backends |
| `Application` | class `App` of main.cpp with the dialog, the tray, D-Bus and the routing books |
| `MC...` | values of constants that a `.cfg` cannot write |
| `PaWorkerTypes`, `PaWorkerProofs`, `InputHandlerProofs`, `MediaPanelProofs` | theorems and proofs |
| `ApplicationProofs`, `FocusAndRouteProofs` | the same of `Application`: what is stored; and which target and which routes are in force |
| `MprisClientProofs`, `OsdWindowProofs` | lemmas about the operators of those modules, for `MediaPanelProofs` |

### AudioServer and PaWorker

Variables carry the names of the members where there are such
(`pendingVolumes` for `m_pendingVolumes`, ...); `ctx`, `lossPosted`,
`reconnectTimer`, `watcher` and `due` stand for the context, the posted
`handleContextLost`, `m_reconnectTimer`, the subscription thread and the
one-shot `doApplyPending` timers. Volumes are multiples of one step.

*Granularity.* The worker lives on one event loop. A handler is one action that
includes everything it does (cache updates, parking, database writes), and an
operation in it is a choice among outcomes (`Outcome`, `Reads`). Two handlers
are split because they call or loop across state that others change meanwhile:
`attemptReconnect` (`ConnectContext`, `ReconnectApplies`, `ReconnectFlushes`)
and the restoring half of `doToggleDucking` (`StopDucking`, one `RestoreNext`
per entry, `RestoreEnds`). Between these parts streams, the daemon, the
subscription thread and `requestStop` interleave.

*Abstractions.* `PipeWire` is a constant: the detection of pipewire-pulse is not
modelled. `Denotes` stands for the name matching of appmatcher.h. The cascade
keeps its order of levels; back-off delays, the list caches of `doListApps` and
`doListSinks`, the hidden PipeWire multiplier, channel layouts (an exact channel
volume is one number, in a map of its own) and the `volumeChanged` signals are left
out. An application has one database entry. `apply_immediately` is modelled:
native PulseAudio gives a written entry to the running streams, and has
overwritten the entry with whichever stream it saved last. A node that is gone
makes `setNodeProps` fail, a sink input that is gone does not. A write to the database
that was sent is taken to take effect; the code neither waits for it nor looks at its
result (volumecontroller.cpp:1863, 1873, 2048, 2218, 2264), so what the server then refuses is
outside the model. Stopping in the
middle of a request is explored in the restoring loop only, the longest one.
`MaxDue` bounds the timers counted. The subscription thread's reconnects are
`WatcherConnects`; it does not replay.

### Keyboards and InputHandler

A node that is grabbed is seen by the desktop only through the mirror
(`mirrored`), any other node directly (`desk`). `down` is what the fingers do,
`known` what libevdev believes, `queue` what the kernel holds back.

*Granularity.* `ReadEvent` handles one event; the handover is three actions
because the keyboard goes on between them: `AskForKeys` (EVIOCGKEY, which also
makes the kernel drop the queued key events), `LookForEvents`
(`libevdev_has_event_pending`), `Grab`. The main thread's calls are split where
it waits: `ChangeHotkeys` / `Sets` / `Starts`, `Restart` / `Starts`, `Halt` /
`Halted`.

*Abstractions.* Keys only: wheel events carry no state. What a hotkey triggers
and its debouncing do not decide whether an event is consumed; which of several
matching profiles wins does not either. LEDs, the discovery of candidates by
name and capability, the grabs of `KeyCaptureThread` (its dialog is modal, and
`Halt` stops the modelled thread meanwhile) and the warm-up delays are left out.
The desktop sees a written event at once. `raced`, `resynced` and `lost` are history
variables the actions never read. They name what goes wrong and is excepted: `raced` the
keys pressed during the handover itself (`NoKeyLeftBehind`), `lost` those whose release
the kernel dropped, whose modifier stays (`NoGhostModifier`), `resynced` the scene and media
keys whose press a resynchronisation forwarded (`NoStuckKey`). Of the OSD's layout keys only
`doc_layout` speaks.

### SessionBus, MprisClient, OsdWindow, AlbumArtCache and MediaPanel

*State.* `client` is the `MprisClient`: `known` and `info` are `m_players`, `active`
and `shown` are `m_hasActive` and `m_active`, `poll` the poll timer, `preferred` the
application in focus, `tracked` the priorities. `osd` holds the members of
`OSDWindow` that decide something. `art` is the cache with its downloads. `owned` and
`real` are what the players are and play, `asked` the questions on their way to a
player, `inbox` what is on its way to the client: signals and replies of one player
stay in order, as on the bus.

*Granularity.* All of it runs on the main thread with direct connections, so a
message or an event is one action: the client's handler returns its new state and
the signals in the order of the `emit`s, and `Tells` lets the overlay and the cache
receive them in that order. A layout key is two actions (`LayoutKey`,
`LayoutAction`): the keyboard thread reads an atomic and posts the action.

*Abstractions.* Geometry, painting, texts and formats; a position in a track is known by the track it
was measured in, which is what can go wrong with it. The throttling of pushed
positions is a choice. The client's and the overlay's seek flags are one,
because the overlay sets the client's with its own. Opening the settings dialog, which
is modal for the application, keeps the mouse from the overlay. The two settings that
allow the position buttons and moving by dragging are one, `position`. Labels, controls row
and picture are not modelled, but that one of them is hidden, which ends a move or a resize,
may happen whenever another track or none is told (`OthersHidden`). A picture without a
download stands for one on the disk. The special treatment of one player's wrong
lengths, a name that changes hands without being released, and errors of calls
other than GetAll are left out.

*History variables.* The properties exempt three things the code does, each named by
a flag no action reads: `dropped`, a resize cancelled with the pointer already outside
leaves the overlay without a timer (osdwindow.cpp:1080 and 522); `stray`, a layout
key handled after the overlay has gone shows it again (1722); `missed`, a player whose
GetAll failed is known only by what it changes later. `grip` is the title under the
pointer when a seek began.

### Settings, Config and DurableSettings

A JSON object is a function on the keys it has, so a document of an older version lacks
some; `Get`, `DeepMerge`, `ApplyLoadedJson` and the setters are config.cpp's. One
volume key stands for three, four label modes for seven; a regular expression is the
set of names it matches.

`Config` has the file, its backups, the file of export and import, and `phase`. A save
is `Write` (QSaveFile's temporary file) and `Commit` (the rename); the
process may end before, between and after, which loses the temporary file and
the settings in memory, and the disk may refuse (`disk`) to let the file be read,
copied or written. An import is three steps: the copy of the file it replaces, the
replacement, and the load. The file is edited from outside only while the program is
not running, since the program never looks at it again.

`DurableSettings` promises that the settings in use are whole at any moment (they load
back as they are and have a profile), and that what the next start will find changes only into them or
into an imported document. `Store` in `Config` is the mapping: the file is what the
next start finds, `m_data` the settings in use, `m_saveBlocked` the seal.

### AppMatcher, WindowTracker and Application

`Similar` stands for appIdMatches: an arbitrary reflexive, symmetric relation. Aliases
are a constant, the list of what a user may configure (`AliasesAssumption`). `StoriesAssumption`
types what the stories enter: files that parse, lists the dialog may save, which it
refuses when they are empty (settingsdialog.cpp:1124 and 1284; `Config` at :1159).

`WindowTracker` has the window that has the focus (`active`), the compositor's events
not yet read (`wire`), the thread's state and `reports`, the signals posted to the main
thread. A Wayland compositor announces the states and the `done` events of the two
windows in either order, or that one was closed; KWin's script reports each
activation; X is polled.

`Application` has the members of `App` (`m_autoActiveApp`, `m_appCache`, and `guard` for the
two last-activated ones), the books `routedApps` of `VolumeController`, and `route`:
what was last asked of the worker for each application, in whose name, and
whether by this process, since the sound server's table outlives it. The handlers of the main thread
are atomic, except that a handler that saves may be cut by the end of the
process: `task` says what it has still to do. Leaving the settings dialog therefore is `Accept`,
`SaveSwitch`, `SaveProfiles`, `ClearRoutesAndSaveScenes`, `HideEvent`,
`SettingsChanged`, with `Write` and `Commit` after each; the dialog works on the profiles
it read when it was opened.

Routing in no profile's name (`UnnamedRouting`: a volume request or SetAppSink over D-Bus, a
scene from a key, the tray, the dialog or D-Bus) changes `route` alone. A scene's volumes
and mutes are the worker's. What else the main thread has queued runs between the
handlers, where `MainIdle` holds: not between the saves of one handler, nor between the
dialog's hiding and `settingsChanged`, which follow each other without a return to the event
loop. The tray could open a second settings dialog over the first; `OpenSettings` has one,
whose saves are the same.

Left out: the first-run wizard, the 2 s after which a tracker that does not stop is
terminated, resource limits of D-Bus. The ordered end of the program saves nothing more
and is the same as its end at that point.

## 3. Runs

`CHECK_DEADLOCK FALSE` everywhere: a stopped worker, or a keyboard nobody
touches, may stay as it is; liveness properties say where it may not.

| Run | Instance | What it shows |
|---|---|---|
| `volume` | two applications, one stream, native PulseAudio; steps of -1 and +1, limits given the wrong way round, another mixer, two timers; operations lost, late, unread | `TypeOK`, `NeverStranded`, `ParkedWithinLimits`, `ParkedVolumeIsHandedOver`, `ReplayWritesOnlyParked` |
| `routing` | a name and an alias, two devices, pipewire-pulse with idle nodes; routes and, where no route waits (`OneKind`), mutes | `ClearsWaitOnlyForContext`, `RouteOrClear`, `RouteKeptUntilStored`, `ParkedMuteIsHandedOver` |
| `focus_native` | two streams of one application, native PulseAudio, a stop at any moment | `DuckingHasSnapshot`, `RestoreKeepsToItsStream` |
| `focus_pipewire` | Focus Audio together with volume requests, pipewire-pulse, failing operations, registry up and down | `OneParkedVolume`, `ParkedVolumeIsHandedOver`, `DuckedIsRemembered` |
| `live` | one application, fairness, stop; volumes, mutes, queries | `Reconnects`, `AnnouncedStreamIsServed`, `StaysDown`, `StopCompletes` |
| `input` | a keyboard with the hotkey (buffer may overflow) and a pad with Ctrl, both may be unplugged; the key changes from a profile's hotkey that needs Ctrl to a scene and layout key | `TypeOK`, `NoStuckKey`, `NoKeyLeftBehind`, `NoGhostModifier`, `RunsFreshConfig`, `HandoverCompletes`, `CallsReturn` |
| `media` | five scenes: one player that changes, pushes positions, fails, goes and comes back with two messages under way; one that is started anew and changes with three; two players among which focus and priority choose; two players sought in while tracks and focus change; every gesture, key, preview and setting on the overlay | `TypeOK`, `SettledIsCurrent`, `FollowsTheFirst`, `ShowsTheActive`, `ArtIsCurrentOrComing`, `DragsEnd`, `LingersForACause`, `LayoutKeysNeedOverlay`, `SeekHitsWhatWasSeen` |
| `settings` | six stories: files of other versions, edited by hand, damaged or absent, with a faulty disk and the end at any step; keys, D-Bus, focus and dialog among profiles that list and profiles that match; the same with scenes and routes made over D-Bus; the focus followed over X, KWin and Wayland | `TypeOK`, `GuardMeansRouted`, `SavedSettingsClearRoutes`, `FocusIsFollowed`, `StoreSpec` (the refinement), `NothingLost` |
| `doc_overwrite` | two streams of one application | refutes `RestoredStreamKeepsItsVolume` |
| `doc_late_watcher` | one stream, fairness | refutes `ParkedVolumeReachesItsStream` |
| `doc_layout` | one keyboard, one layout key | refutes `ReleaseReachesItsMirror` |
| `doc_sink` | the routing story of `settings` | refutes `RoutesFollowSettings` |

**Why the bounds are enough.** Interference between names needs two names, either
of one application (replay order, aliases) or of two (isolation): both occur.
Interference between streams needs two of one application: `focus_native`. Three
volumes suffice for "below, inside, above" the limits. A stream number is handed
out again after a daemon restart, so numbers are confused with two of them. In
`input`, two nodes are needed for a modifier held on one node and a hotkey on
another, two keys for hotkey and modifier, and a queue of one event is the
shortest that separates a key's position from what the thread has read; the proofs
remove these bounds for everything but liveness.

`media` and `settings` are too wide for everything to happen with everything; a scene or
story names what happens together, and each pair of events that meet in shared
state is in one of them. In `media` the inbox bound of two (`room`) is what a stale reply
needs: one message before it and one after; one download under way, and one picture kept, let a
late one meet a newer one. Three messages are what a restart needs: between the client's handling
of "gone" and of "there" the new player changes unheard, then sends a partial
`PropertiesChanged` and a position; the first makes it active with a title it no longer
plays, the second belongs to the new track, and only the reply to GetAll puts that right.
`ShowsTheActive` exempts exactly that wait (`Awaited`). The two tracks, each with its own
picture, are alike: no constant, guard or choice prefers one, so TLC counts the states that
differ only by swapping both tracks together with their pictures as one (`Alike`; sound, as
every property of the run is a safety property). The players are not alike: one comes first.
In `settings`
`limit` bounds what the user, the desktop and the end of the process do (four or five in
all; what the program does by itself is not counted): the longest known
counterexample, of `doc_sink`, takes four. Two profiles, one that lists and one that
matches, are the least that share an application; three windows the least in
which the late news of an old window can meet a third.

**Fairness.** `PaWorker`: weak fairness of what the event loop has been given
(posted losses, timers, the rest of a running handler, cleanup), of a connection
attempt that can succeed and of the subscription thread's retries. Not of users,
applications, or the daemon. `InputHandler`: weak fairness of the thread's
sequential steps and of the main thread's pending call; strong fairness of
reading a node and of asking for its keys, because every turn of the loop reads
each node with events and then looks at each waiting mirror, although other
steps (an event arriving, another node's handover) disable either for a moment.
`HandoverCompletes` assumes that the keys are let go from some time on and nothing
else of the keyboards. `MediaPanel` and `Application` state safety only: that a timer
which runs fires and that a posted signal is delivered is Qt's matter, and
`LingersForACause` and `FocusIsFollowed` say what must be running or pending instead.

### What the runs that fail show

* `doc_overwrite` (volumecontroller.cpp:785). ARCHITECTURE.md says snapshot
  identity prevents two streams of one application from overwriting each
  other. Two streams with different volumes are ducked; the second one closes; on the
  second toggle the first gets its volume back, the entry of the second finds no
  stream, and falls back to `setAppVolume`, which sets every stream of the
  application to the second one's volume.
* `doc_late_watcher` (volumecontroller.cpp:1617). A parked value "applies when
  app reconnects". The worker has reconnected and replayed; the subscription
  thread is still connecting; the application starts to play: no NEW event is
  heard and the value stays parked, until some other stream appears.
  `AnnouncedStreamIsServed` is the part that does hold.
* `doc_layout` (inputhandler.cpp:1112). The comment at line 1230 demands
  that a release reach the device that sent the press. A key bound to an OSD layout
  action is pressed while the OSD is hidden, hence forwarded; the OSD appears; the
  release is swallowed, and the desktop repeats the key until it is pressed
  again with the OSD hidden.

* `doc_sink` (settingsdialog.cpp:1122). The dialog's comment says that the routes of
  a profile which loses its sink are cleared, because else the old device "keeps
  re-routing the app on next launch"; ARCHITECTURE.md:339 says that the targets of
  regular expressions are included. Which those are is kept in memory only: a key press
  routes an application that the profile matches, the program is started again, the dialog takes the
  sink away, and the application's entry in the stream-restore table stays.
  `SavedSettingsClearRoutes` is the part that does hold.

Disagreements seen while modelling that have no run of their own:

* An application with an active and an idle stream counts as handled after the
  active one: the idle node is not ducked (volumecontroller.cpp:852,
  ARCHITECTURE.md:330).
* The kept application is compared by its listed name for idle nodes and by all
  its names for active inputs: under an alias it is ducked while idle (:851).
* On native PulseAudio routing an application also rewrites the volumes of its
  running streams to the one in the database (:2216, ARCHITECTURE.md:339).
* Writing to a stream that ends meanwhile counts as done (:1568): the parked
  value is forgotten though nobody has it. This is the hypothesis
  `"gone" \notin Trouble` below.
* `stop()` ignores the result of `wait(2000)` (inputhandler.cpp:747): with
  `SlowStop = TRUE` the old run continues with its old snapshot while the new
  configuration is set and `start()` does nothing, so `RunsFreshConfig` fails. The
  runs take `SlowStop = FALSE`.
* osdwindow.h:133 has layout actions ignored while the overlay is hidden; one posted
  before it went shows it again.
* ARCHITECTURE.md:430 has a drag keep the geometry; `showVolume` during a
  move lays the window out anew (osdwindow.cpp:1942).
* ARCHITECTURE.md:442 and osdwindow.h:125 describe seeking by dragging; a position is
  asked for on release only (osdwindow.cpp:1429).
* `DbusInterface::m_activeApp` is set at the start, by D-Bus and by the tray, not when the dialog
  changes the default profile: the bare D-Bus methods then act on the old
  application (dbusinterface.cpp:186, ARCHITECTURE.md:516).
* The dialog writes back the profiles it read when it was opened: what D-Bus
  changed meanwhile is lost. It saves each group on its own, so an end in
  between leaves some old and some new.
* The legacy copies follow the first entry of `profiles` even if it is malformed and skipped; ids that
  occur twice in a file are made unique only when profiles are saved; `setHotkeys` loses the `show` key (nobody calls it).
* `effectiveProfile` matches the sticky target alone, the tracker's resolution also what the
  focused binary goes by: a key may act on the target with the limits of its own
  profile (main.cpp:707).
* `activateProfile` does not route the target when the profile lists a merely similar
  name, while the worker compares exactly; `GuardMeansRouted` exempts this.
* Routes made through D-Bus or by a scene enter no books and leave the guard alone, so that
  the next key press does not route again; an import clears no routes.
* Stopping while Focus Audio has lowered others raises them no more: `cleanup`
  (volumecontroller.cpp:306) does not restore from the snapshot, and nothing promises that it does.
* `startWindowTracker` does nothing while a thread that is ending still counts as running.

## 4. Proofs

TLAPS checks every leaf with Z3, Zenon and LS4. Every safety property of a passing run is a
theorem. The constants are arbitrary but for the named assumptions in the modules that
declare them (`ServerAssumption`, `WorkerAssumption`; `KeyboardAssumption`,
`HandlerAssumption`; `BusAssumption`, `ClientAssumption`, `OsdAssumption`, `ArtAssumption`,
`PanelAssumption`; `SimilarAssumption`, `WindowAssumption`, `AliasesAssumption`,
`StoriesAssumption`), which TLC evaluates in the runs of the modules that declare
them. They say that a set is finite, that a bound is a number, that `None` is no member, or
that a list or a document is well typed. In particular the bounds of the runs are not
among them: players, windows, profiles, documents, messages under way and acts of the user
are as many as one likes.

**The audio worker and the keyboard thread**

| Theorem | Says | Argument |
|---|---|---|
| `TypeCorrect` | `[]TypeOK` of the worker | inductive; the first and last element of a set of stream numbers exist by well-foundedness; no volume leaves the range because `Clamp` and every cascade level keep it |
| `ConnectionIsNeverGivenUp` | `[]NeverStranded` | inductive |
| `WorkerStaysDown` | `StaysDown` | each action that connects tests `stopping` |
| `ClearsAreFlushed` | `[]ClearsWaitOnlyForContext` | `ClearsInv`: the clears are gone also while volumes are restored |
| `DuckingKeepsItsSnapshot` | `[]DuckingHasSnapshot` | inductive; removing identities keeps a snapshot nonempty |
| `RoutesDoNotConflict` | `[]RouteOrClear` | inductive with types |
| `ParkedVolumesAreUnique` | `[]OneParkedVolume` | inductive; every way to park withdraws the other |
| `ParkedVolumesAreHandedOver` | `ParkedVolumeIsHandedOver`, if `"gone" \notin Trouble` and (`PipeWire` or no routes) | per action; a reported write is a write that took effect |
| `ParkedMutesAreHandedOver` | `ParkedMuteIsHandedOver`, under the same hypotheses | per action, as for the volumes; an answered `set-mute` reaches every live stream of the name |
| `ParkedVolumesAreLimited` | `[]ParkedWithinLimits`, if `Ducks = {}` | `LimitsInv`: a parked volume lies between limits that were given, in whichever order. Focus Audio parks what it lowers to, and knows no limits, hence the hypothesis; without requests of it there is no snapshot to park from either |
| `LoweredStreamsAreRemembered` | `DuckedIsRemembered`, if `"late" \notin Trouble` | a stream's volume changes in `doToggleDucking` only by a write that is reported, and what is reported is snapshotted; a write that timed out and takes effect later escapes the snapshot |
| `RestoresKeepToTheirStreams` | `RestoreKeepsToItsStream`, if neither `"lost"` nor `"late"` is in `Trouble` | `IdentityInv` (theorem `SnapshotsIdentifyStreams`): a snapshot tells its streams apart, and no entry still to come names one that has been restored. If a write fails or times out, the database or a plain request takes over, and that one goes to every stream of the application |
| `ReplaysWriteOnlyParked` | `ReplayWritesOnlyParked`, if `PipeWire` or no routes | the replay's writes, name by name |
| `RoutesAreKept` | `RouteKeptUntilStored` | only routed and stored names are forgotten |
| `InputTypeCorrect` | `[]TypeOK` of the thread | inductive |
| `KeysAreNotLeftBehind` | `[]NoKeyLeftBehind` | `HandedOver`: on a node that is grabbed or asked, *everything* the desktop believes down was pressed during the handover. Without it the step after a grab, when releases no longer reach the desktop, is not inductive |
| `RunsAreFresh` | `[]RunsFreshConfig`, if `~SlowStop` | `RestartInv`: a main thread inside a call keeps `running` false; `ThreadInv`: grabs and mirrors live no longer than the loop |
| `NoGhostModifiers` | `[]NoGhostModifier` | `GhostInv`: the witness is a node libevdev *knows* to have the key down, so that a resynchronisation moves it to `lost`; needs `EventsEnd` |
| `NoStuckKeys` | `[]NoStuckKey` | `MirrorInv`: a key on a mirror is known to libevdev (so a resynchronisation lifts it), accounted for by the keyboard or the queue, and not a scene or media key; needs `ThreadInv` and `EventsEnd` |

**Settings, focus and routes**

| Theorem | Says | Argument |
|---|---|---|
| `NothingIsLost` | `NothingLost` of the configuration | `StoreInv`: while saves are not blocked, what is in the file is known to this process, copied or absent; during an import it is copied; a temporary file exists only inside an operation. The invariant needs the block: after a failed read or copy the file is neither known nor copied. `EveryStepIsAStoreStep` reduces every handler of the program to one step of `Config` |
| `StoreIsDurable` | `StoreSpec`, the refinement of `DurableSettings` | `SettledInv` is `StoreInv` with the invariants of the settings in use and of the dialog: `m_data` is `Settled`, that is, has every key with its type, a profile, and the legacy copies of the first one; loading it again changes nothing. Loading settles every document (`DeepMerge` over the defaults, migration), and every setter keeps it so. That the recursive function in `UniqueIds` exists follows from a least length at which it would not (`UniqueIdsAreUnique`). Then each step is one of `Store` or a stutter |
| `TypesHold` | `[]TypeOK` of the application | `StateInv` types what the main thread holds: its task, the dialog's copies, the guard and the D-Bus interface's application; `RouteInv` says that every route of this process in the name of a profile is in the books `routedApps` |
| `FocusFollowed` | `[]FocusIsFollowed` | `FocusInv`: `TrackerInv` says where the tracker will be when it has read what is on the wire, backend by backend (`LeadsTo`: what the remaining events add up to is the window in focus, in whatever order the compositor sends the two halves); `FollowInv` that the last report posted, or else the target, is that window's; `SwitchInv` that a program that does not follow has no tracker |
| `RoutesAreCleared` | `[]SavedSettingsClearRoutes` | `ClearedInv`, with the books of `RouteInv`: before `ClearRoutesAndSaveScenes` the profiles in use route at least what the dialog's list does, since cleaning the list loses no name; after it what has to go is withdrawn, and stays so through the writing of scenes and switch |
| `GuardsMeanRoutes` | `[]GuardMeansRouted` | `GuardInv`: whatever ends the route the guard stands for resets it, except between the dialog's saves, after which it is reset. The proof found what the property says now: it supposes that no two profiles share an id, as they may in a file edited by hand, and speaks of the guard's application and not of the profile's list, which a D-Bus request to set no application empties |

Leaving the settings dialog drops a target that no profile knows any more
(`validateStickyAutoProfileTarget`, appmatcher.h:247, main.cpp:400), until the next focus
change: `FocusIsFollowed` therefore speaks of a target that a profile knows.

**The media panel**

| Theorem | Says | Argument |
|---|---|---|
| `PanelTypeCorrect` | `[]TypeOK` of the panel | `TypeInv`; that the cache keeps no more pictures than it may follows from `m_lruOrder` listing each once: storing one takes its old place out and drops the first if there are too many |
| `TheSettledAreCurrent` | `[]SettledIsCurrent` | `WireInv`, over everything under way. `Comings`: what the bus says of a player alternates between there and gone, and the last of it is so. `Answered` implies `Truth`: once GetAll is answered, what the messages still under way will leave the client believing is what the player plays. `Placed`: a position under way belongs to the track believed when it arrives, unless the answer to GetAll comes later. Without the last two the handling of one message is not inductive: it must be known what the following ones say. Lemmas on the inbox (`LeavesTail`, `LeavesSame`, `LeavesSilence`, `LeavesLast`) say how an appended or handled message changes what the rest leaves |
| `TheActiveIsShown` | `ShowsTheActive` | `ShownInv` for what is shown; that the position fits the title is `Placed` at the message that brings it |
| `TheFirstIsFollowed` | `[]FollowsTheFirst` | `FollowInv`: the client's books are well typed and `Right`, that is, the player followed is what the four passes of `reevaluateActive` would choose. `ChosenComesFirst` shows the passes choose the least of the documented order; that the first nonempty pass and the smallest priority exist follows from well-foundedness (`LeastExists`); one lemma per handler of mprisclient.cpp |
| `EveryDragEnds`, `TheOverlayGoes`, `LayoutKeysHaveAnOverlay` | `[]DragsEnd`, `[]LingersForACause`, `[]LayoutKeysNeedOverlay` | one invariant, `PanelInv`: the overlay is `Upkept` (`Drag`: a drag has its ground; `Row`: the row is the one the settings ask for; `Cause`: what keeps the overlay shown ends) and agrees with the settings and the dialog. `Cause` alone is not inductive: a drag holds the timer, so that its end must be known to restart it. For every operator of `OsdWindow` one lemma on types, one on effects, one on goodness |
| `PictureIsOfTheTrack`, `SeeksHitWhatWasSeen` | `[]ArtIsCurrentOrComing`, `SeekHitsWhatWasSeen` | `ShownInv`, on top of the two others: the title shown is that of the track of the player followed, and so is the picture, or its download is pending. Every handler that changes the followed track tells the overlay (`Sound`), and `updateTrack` ends the drag of another title |

`EventsEnd` (theorem `QueuesEndWithTheKeys`) says that each press waiting in a
queue is followed by a release or its key is down; it rests on lemmas about
`Append` and `Tail` and holds for queues of any length.

The hypotheses on the theorems are exactly the disagreements of section 3 and the
limits Focus Audio does not know: without each of them TLC finds a counterexample.
`WireInv` was checked on every state of `media` before it was proved.

**Only model-checked:** the liveness properties `Reconnects`, `AnnouncedStreamIsServed`,
`StopCompletes`, `HandoverCompletes` and `CallsReturn`. They follow from fairness, which
rests on ENABLED, and that is beyond the prover. The claims of the four runs that fail are
false, and TLC's counterexamples are all there is to say.

## 5. Not modelled, and the plan

1. *Done*: the audio worker, the keyboard thread, the media panel, the configuration with its
   abstract specification, the application wiring with the window tracker.
2. `VolumeController::close()` with its two timeouts and the worker's back-off delays.
3. `Delivery`, an abstract specification of the worker ("the last request for an
   application is what its streams get"), and the refinement; `route` of `Application`
   composed with the worker's routing through it.
4. `resolveProfileHotkey` against a reference definition; the grabs of
   `KeyCaptureThread`.

Not planned: painting and layout, the other dialogs, the MPRIS endpoint, kvctl,
translations, the X11, Wayland, PipeWire and D-Bus protocols themselves: no state of the
program's own, or code outside the repository.
