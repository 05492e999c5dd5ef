----------------------------- MODULE Application -----------------------------
(***************************************************************************)
(* The object that ties the parts together (class App of main.cpp), with   *)
(* what drives it: the settings (Config), the window tracker, the volume   *)
(* keys, the D-Bus interface, the tray and the settings dialog.  The parts *)
(* share the main thread: a handler runs to its end, but each of its saves *)
(* may be cut short by the end of the process, so a handler that saves     *)
(* leaves what it has still to do in `task`.                               *)
(*                                                                         *)
(* What the volume controller is asked to route is kept per application as *)
(* the last request; PaWorker says what becomes of it.  The request        *)
(* outlives the process, as the sound server's stream-restore table does.  *)
(*                                                                         *)
(* A story says which settings there are at first, what the user may       *)
(* enter, what may happen, and how often in all.                           *)
(***************************************************************************)
EXTENDS Config, WindowTracker

CONSTANTS Aliases, Stories

IsSequence(s) == s \in Seq(Range(s))

\* The JSON object of a profile, as far as it has these keys: a value of another
\* type is read as one that is missing.
ProfileObject(o) ==
    /\ IsSequence(Get(o, "id", <<>>))
    /\ Get(o, "apps", <<>>) \in Seq(App \cup {NoApp}) /\ Get(o, "app", NoApp) \in App \cup {NoApp}
    /\ Get(o, "app_regex", {}) \subseteq App

\* A document that is not of the wrong types.
WellTyped(d) ==
    LET list == Get(d, "profiles", <<>>)
    IN  /\ IsSequence(list) /\ \A i \in DOMAIN list : ProfileObject(list[i])
        /\ Get(d, "selected_app", NoApp) \in App \cup {NoApp}

\* A list of profiles as the dialog has it; it does not let the last one go.
ProfileList(list) ==
    /\ IsSequence(list) /\ list # <<>>
    /\ \A i \in DOMAIN list :
          /\ {"id", "apps", "app_regex", "vol_min", "vol_max", "sink"} \subseteq DOMAIN list[i]
          /\ ProfileObject(list[i])

ASSUME AliasesAssumption == Aliases \in Seq(Alias)

ASSUME StoriesAssumption ==
    \A s \in Stories :
        /\ s.backend \in Backends /\ s.apps \subseteq App \cup {NoApp}
        /\ \A d \in s.documents : WellTyped(d)
        /\ \A list \in s.lists : ProfileList(list)
        /\ \A apps \in s.caches : apps \in Seq(AudioApp)

VARIABLES
    m_autoActiveApp,    \* the target that follows the focus
    m_appCache,         \* the applications of the last appsReady
    guard,              \* m_lastActivatedProfileId and m_lastActivatedRouteApp
    routedApps,         \* VolumeController's m_profileRoutedApps
    route,              \* what was last asked of the worker for each application
    m_activeApp,        \* the D-Bus interface's own
    dialog,             \* the settings dialog: what it read when it was opened
    task,               \* what the handler at hand does when its save is over
    fresh,              \* the last report of the focus was handled with the
                        \* settings and the list of applications of now
    story, left         \* the bound: what may happen, and how many times yet

mainVars == <<m_autoActiveApp, m_appCache, guard, routedApps, route, m_activeApp,
              dialog, task, fresh>>
vars == <<configVars, trackerVars, mainVars, story, left>>

NoGuard == [profile |-> <<>>, app |-> NoApp]
Unrouted == [sink |-> NoSink, by |-> <<>>, now |-> FALSE]
NoDialog == [open |-> FALSE, profiles |-> <<>>]
NoTask == [kind |-> "none"]

profiles == Profiles(m_data)
AutoSwitch == m_data.auto_profile_switch

MainIdle == phase = "idle" /\ task = NoTask

\* Something that nobody in the program causes happens.
Happens(what) == what \in story.acts /\ left > 0 /\ left' = left - 1 /\ UNCHANGED story

ByItself == UNCHANGED <<story, left>>

Init ==
    /\ story \in Stories /\ left = story.limit
    /\ ConfigInit(story.documents) /\ disk \in story.faults
    /\ TrackerInit
    /\ m_autoActiveApp = NoApp /\ m_appCache = <<>> /\ guard = NoGuard
    /\ routedApps = NoKeys /\ route = [a \in App |-> Unrouted]
    /\ m_activeApp = NoApp /\ dialog = NoDialog /\ task = NoTask /\ fresh = FALSE

-----------------------------------------------------------------------------
(* Routing in the name of a profile.                                       *)

\* VolumeController::setProfileAppSink, for several applications.
SetProfileAppSink(p, apps) ==
    /\ route' = [a \in App |-> IF a \in apps THEN [sink |-> p.sink, by |-> p.id, now |-> TRUE]
                               ELSE route[a]]
    /\ routedApps' = IF apps = {} THEN routedApps
                     ELSE Override([id \in {p.id} |-> Get(routedApps, id, {}) \cup apps], routedApps)

\* What an activation routes: all of a profile that was not the last one, else
\* the target alone.
ToRoute(p, app) ==
    IF p.sink = NoSink THEN {}
    ELSE IF p.id = guard.profile THEN {app}
    ELSE Range(p.apps) \cup
            (IF \E i \in DOMAIN p.apps : AppIdMatches(p.apps[i], app) THEN {} ELSE {app})

\* App::activateProfile; p as a sequence of none or one.
ActivateProfile(p, app) ==
    IF p = <<>> \/ guard = [profile |-> p[1].id, app |-> app]
    THEN UNCHANGED <<guard, route, routedApps>>
    ELSE /\ guard' = [profile |-> p[1].id, app |-> app]
         /\ SetProfileAppSink(p[1], ToRoute(p[1], app))

\* App::findProfile.
FindProfile(id) == FirstOf(profiles, {i \in DOMAIN profiles : profiles[i].id = id})

EffectiveApp(id) ==
    IF AutoSwitch /\ m_autoActiveApp # NoApp THEN m_autoActiveApp
    ELSE IF FindProfile(id) = <<>> THEN NoApp ELSE PrimaryApp(FindProfile(id)[1].apps)

EffectiveProfile(id) ==
    LET matched == FindAutoSwitchProfileForApp(m_autoActiveApp, profiles, Aliases)
    IN  IF AutoSwitch /\ matched # <<>> THEN matched ELSE FindProfile(id)

\* changeVolume, onMute, onShowVolume and onDuckingToggle.
KeyPressed(id) ==
    /\ Happens("key") /\ MainIdle
    /\ EffectiveApp(id) # NoApp
    /\ ActivateProfile(EffectiveProfile(id), EffectiveApp(id))
    /\ UNCHANGED <<configVars, trackerVars, m_autoActiveApp, m_appCache, m_activeApp,
                   dialog, task, fresh>>

\* sinksReady: the guard is cleared.
SinksReady ==
    /\ Happens("sinks") /\ MainIdle
    /\ guard # NoGuard /\ guard' = NoGuard
    /\ UNCHANGED <<configVars, trackerVars, m_autoActiveApp, m_appCache, routedApps, route,
                   m_activeApp, dialog, task, fresh>>

\* appsReady.
AppsReady(apps) ==
    /\ Happens("apps") /\ MainIdle
    /\ apps # m_appCache
    /\ m_appCache' = apps /\ fresh' = FALSE
    /\ UNCHANGED <<configVars, trackerVars, m_autoActiveApp, guard, routedApps, route,
                   m_activeApp, dialog, task>>

-----------------------------------------------------------------------------
(* Following the focus.                                                    *)

\* App::onFocusedBinaryChanged.
OnFocusedBinaryChanged ==
    /\ MainIdle /\ reports # <<>> /\ ByItself
    /\ reports' = Tail(reports) /\ fresh' = TRUE
    /\ m_autoActiveApp' = IF AutoSwitch
                          THEN ResolveStickyAutoProfileTarget(Head(reports), m_appCache, profiles,
                                                              m_autoActiveApp, Aliases)
                          ELSE NoApp
    /\ ActivateProfile(FindAutoSwitchProfileForApp(m_autoActiveApp', profiles, Aliases),
                       m_autoActiveApp')
    /\ UNCHANGED <<configVars, active, wire, loop, seen, m_appCache, m_activeApp, dialog, task>>

\* App::onAutoSwitchMaybeChanged, startWindowTracker and stopWindowTracker.
OnAutoSwitchMaybeChanged ==
    IF AutoSwitch
    THEN /\ m_autoActiveApp' =
                ValidateStickyAutoProfileTarget(m_autoActiveApp, profiles, Aliases)
         /\ StartTracker(story.backend)
    ELSE /\ m_autoActiveApp' = NoApp
         /\ StopTracker

Tracking ==
    /\ \/ ByItself /\ TrackerSteps
       \/ /\ Happens("focus")
          /\ \E w \in Window \cup {NoWindow}, closes \in BOOLEAN : FocusMoves(w, closes)
       \/ Happens("break") /\ Breaks
    /\ UNCHANGED <<configVars, mainVars>>

-----------------------------------------------------------------------------
(* D-Bus and the tray.                                                     *)

\* VolumeController::setAppSink, which neither the books nor the guard know of:
\* targets gives some applications a sink.
RouteUnnamed(targets) ==
    /\ MainIdle
    /\ route' = [a \in App |-> IF a \in DOMAIN targets
                               THEN [sink |-> targets[a], by |-> <<>>, now |-> TRUE] ELSE route[a]]
    /\ UNCHANGED <<configVars, trackerVars, m_autoActiveApp, m_appCache, guard, routedApps,
                   m_activeApp, dialog, task, fresh>>

\* applyProfileSink, from a volume or mute request for the profile, or for the
\* default one.
DbusVolume(p) ==
    /\ Happens("dbus volume")
    /\ \/ PrimaryApp(p.apps) # NoApp
       \/ p = profiles[1] /\ m_activeApp # NoApp
    /\ p.sink # NoSink
    /\ RouteUnnamed([a \in Range(p.apps) |-> p.sink])

\* DbusInterface::SetAppSink.
SetAppSink(app, sink) ==
    /\ Happens("dbus sink")
    /\ app # NoApp /\ sink # NoSink
    /\ RouteUnnamed([a \in {app} |-> sink])

\* The scenes that a key, the tray or D-Bus may apply (findSceneById takes the
\* first of an id); the dialog also applies one as it is being edited.
Scenes ==
    LET stored == ScenesFromJson(m_data.scenes)
        found == {i \in DOMAIN stored : \A j \in 1 .. i - 1 : stored[j].id # stored[i].id}
    IN  {stored[i] : i \in found}
        \cup (IF dialog.open THEN UNION {Range(e.scenes) : e \in story.entered} ELSE {})

\* VolumeController::applyScene, as far as it routes: the last target counts.
ApplyScene(scene) ==
    LET targets == scene.targets
        routing == {i \in DOMAIN targets : targets[i].match # NoApp
                                           /\ Get(targets[i], "sink", NoSink) # NoSink}
        LastFor(a) == Max({i \in routing : targets[i].match = a})
    IN  /\ Happens("scene")
        /\ RouteUnnamed([a \in {targets[i].match : i \in routing} |-> targets[LastFor(a)].sink])

UnnamedRouting ==
    \/ \E i \in DOMAIN profiles : DbusVolume(profiles[i])
    \/ \E app \in story.apps, sink \in story.sinks : SetAppSink(app, sink)
    \/ \E scene \in Scenes : ApplyScene(scene)

\* DbusInterface::setActiveApp.
SetActiveApp(app) ==
    /\ Happens("dbus app") /\ MainIdle
    /\ app # m_activeApp
    /\ m_appCache = <<>> \/ \E i \in DOMAIN m_appCache : m_appCache[i].name = app
    /\ Sets(WithSelectedApp(m_data, app))
    /\ m_activeApp' = app /\ fresh' = FALSE
    /\ UNCHANGED <<trackerVars, m_autoActiveApp, m_appCache, guard, routedApps, route, dialog, task>>

\* TrayApp::onAppSelected.
OnAppSelected(app) ==
    /\ Happens("tray app") /\ MainIdle
    /\ app # NoApp
    /\ Sets(WithDefaultProfileApp(m_data, app))
    /\ m_activeApp' = app /\ fresh' = FALSE
    /\ UNCHANGED <<trackerVars, m_autoActiveApp, m_appCache, guard, routedApps, route, dialog, task>>

\* DbusInterface::setAutoProfileSwitch.
SetAutoProfileSwitch(on) ==
    /\ Happens("dbus auto") /\ MainIdle
    /\ on # AutoSwitch
    /\ Sets(WithAutoProfileSwitch(m_data, on))
    /\ task' = [kind |-> "auto switch"]
    /\ UNCHANGED <<trackerVars, m_autoActiveApp, m_appCache, guard, routedApps, route,
                   m_activeApp, dialog, fresh>>

AutoSwitchChanged ==
    /\ phase = "idle" /\ task.kind = "auto switch" /\ ByItself
    /\ OnAutoSwitchMaybeChanged
    /\ task' = NoTask
    /\ UNCHANGED <<configVars, m_appCache, guard, routedApps, route, m_activeApp, dialog, fresh>>

-----------------------------------------------------------------------------
(* The settings dialog.                                                    *)

\* TrayApp::openSettings, while no dialog is open: a second one, which the tray
\* does not prevent, saves what the first one and setActiveApp may save.
OpenSettings ==
    /\ Happens("dialog") /\ MainIdle
    /\ ~dialog.open
    /\ dialog' = [open |-> TRUE, profiles |-> profiles]
    /\ UNCHANGED <<configVars, trackerVars, m_autoActiveApp, m_appCache, guard, routedApps, route,
                   m_activeApp, task, fresh>>

\* saveAndAccept: the overlay's options are saved, then the switch, the profiles
\* and the scenes, each on its own.
Accept(entered, list) ==
    /\ MainIdle /\ dialog.open /\ ByItself
    /\ Sets(WithOsd(m_data, entered.label, entered.media))
    /\ task' = [kind |-> "save switch", auto |-> entered.auto, scenes |-> entered.scenes,
                profiles |-> list]
    /\ UNCHANGED <<trackerVars, m_autoActiveApp, m_appCache, guard, routedApps, route, m_activeApp,
                   dialog, fresh>>

SaveSwitch ==
    /\ task.kind = "save switch" /\ ByItself
    /\ Sets(WithAutoProfileSwitch(m_data, task.auto))
    /\ task' = [task EXCEPT !.kind = "save profiles"]
    /\ UNCHANGED <<trackerVars, m_autoActiveApp, m_appCache, guard, routedApps, route, m_activeApp,
                   dialog, fresh>>

SaveProfiles ==
    /\ task.kind = "save profiles" /\ ByItself
    /\ Sets(WithProfiles(m_data, task.profiles))
    /\ task' = [kind |-> "clear routes", scenes |-> task.scenes, profiles |-> task.profiles,
                previous |-> profiles]
    /\ fresh' = FALSE
    /\ UNCHANGED <<trackerVars, m_autoActiveApp, m_appCache, guard, routedApps, route, m_activeApp,
                   dialog>>

\* Mutant: an id without applications stays in the books.
KeepsEmptyBooks(apps) ==
    /\ routedApps' = [id \in DOMAIN routedApps |-> routedApps[id] \ apps]
    /\ route' = [a \in App |-> IF a \in apps THEN Unrouted ELSE route[a]]

\* VolumeController::clearAppSinkOverride, for several applications.
ClearAppSinkOverride(apps) ==
    LET still == {id \in DOMAIN routedApps : ~(routedApps[id] \subseteq apps)}
    IN  /\ routedApps' = [id \in still |-> routedApps[id] \ apps]
        /\ route' = [a \in App |-> IF a \in apps THEN Unrouted ELSE route[a]]

ClearRoutesAndSaveScenes ==
    /\ task.kind = "clear routes" /\ ByItself
    /\ ClearAppSinkOverride(
           ProfileSinkCleanupTargets(task.previous, task.profiles, routedApps, Aliases))
    /\ Sets(WithScenes(m_data, task.scenes))
    /\ task' = [kind |-> "hide", previous |-> task.previous]
    /\ UNCHANGED <<trackerVars, m_autoActiveApp, m_appCache, guard, m_activeApp, dialog, fresh>>

\* hideEvent: whatever way it is left, the dialog saves its size, and with it all
\* the settings in use.
HideEvent ==
    /\ ByItself
    /\ \/ task.kind = "hide" /\ task' = [task EXCEPT !.kind = "changed"]
       \/ task.kind = "import" /\ task' = [kind |-> "imported"]
       \/ task = NoTask /\ dialog.open /\ task' = [kind |-> "changed", previous |-> <<>>]
    /\ Sets(m_data)
    /\ UNCHANGED <<trackerVars, m_autoActiveApp, m_appCache, guard, routedApps, route,
                   m_activeApp, dialog, fresh>>

\* Mutant: the guard is not cleared.
ChangedKeepsGuard ==
    /\ phase = "idle" /\ ByItself
    /\ \/ task.kind = "changed" /\ task' = NoTask
       \/ task.kind = "imported" /\ task' = [kind |-> "quit"]
    /\ OnAutoSwitchMaybeChanged
    /\ dialog' = NoDialog
    /\ UNCHANGED <<configVars, m_appCache, guard, routedApps, route, m_activeApp, fresh>>

\* settingsChanged, whichever way the dialog has been left; an import had asked
\* the program to quit before.
SettingsChanged ==
    /\ phase = "idle" /\ ByItself
    /\ \/ task.kind = "changed" /\ task' = NoTask
       \/ task.kind = "imported" /\ task' = [kind |-> "quit"]
    /\ OnAutoSwitchMaybeChanged
    /\ guard' = NoGuard
    /\ dialog' = NoDialog
    /\ UNCHANGED <<configVars, m_appCache, routedApps, route, m_activeApp, fresh>>

\* exportConfig and importConfig; after an import the program ends.
Export ==
    /\ Happens("export") /\ MainIdle /\ dialog.open
    /\ ExportToFile
    /\ UNCHANGED <<trackerVars, mainVars>>

Import ==
    /\ Happens("import") /\ MainIdle /\ dialog.open
    /\ ImportFromFile
    /\ task' = [kind |-> "import"]
    /\ UNCHANGED <<trackerVars, m_autoActiveApp, m_appCache, guard, routedApps, route, m_activeApp,
                   dialog, fresh>>

ImportFails ==
    /\ ByItself /\ ImportRefused
    /\ task' = NoTask
    /\ UNCHANGED <<trackerVars, m_autoActiveApp, m_appCache, guard, routedApps, route, m_activeApp,
                   dialog, fresh>>

-----------------------------------------------------------------------------
(* The process.                                                            *)

Starts ==
    /\ ByItself /\ Load
    /\ task' = [kind |-> "init"]
    /\ UNCHANGED <<trackerVars, m_autoActiveApp, m_appCache, guard, routedApps, route, m_activeApp,
                   dialog, fresh>>

\* App::init, initDbus and initWindowTracker.
AppInit ==
    /\ phase = "idle" /\ task.kind = "init" /\ ByItself
    /\ m_activeApp' = PrimaryApp(profiles[1].apps)
    /\ IF AutoSwitch THEN StartTracker(story.backend) ELSE UNCHANGED trackerVars
    /\ task' = NoTask
    /\ UNCHANGED <<configVars, m_autoActiveApp, m_appCache, guard, routedApps, route, dialog, fresh>>

\* A save, an export or an import goes on.
Proceeding ==
    /\ ByItself /\ Proceeds
    /\ UNCHANGED <<trackerVars, mainVars>>

\* The process ends, by itself after an import, or wherever it is.
Stops ==
    /\ \/ Happens("end")
       \/ ByItself /\ phase = "idle" /\ task.kind = "quit"
    /\ Ends
    /\ loop' = "off" /\ wire' = <<>> /\ seen' = Unseen /\ reports' = <<>> /\ UNCHANGED active
    /\ m_autoActiveApp' = NoApp /\ m_appCache' = <<>> /\ guard' = NoGuard /\ routedApps' = NoKeys
    /\ route' = [a \in App |-> [route[a] EXCEPT !.now = FALSE]]
    /\ m_activeApp' = NoApp /\ dialog' = NoDialog /\ task' = NoTask /\ fresh' = FALSE

\* The user writes config.json, or has a file to import.
Files ==
    /\ \/ Happens("edit") /\ \E c \in Contents(story.documents) : EditFile(c)
       \/ Happens("get") /\ \E c \in Contents(story.documents) : GetOther(c)
    /\ UNCHANGED <<trackerVars, mainVars>>

Next ==
    \/ Starts \/ AppInit \/ Proceeding \/ Stops \/ Files \/ Tracking \/ OnFocusedBinaryChanged
    \/ (\E i \in DOMAIN profiles : KeyPressed(profiles[i].id)) \/ UnnamedRouting
    \/ SinksReady \/ \E apps \in story.caches : AppsReady(apps)
    \/ \E app \in story.apps : SetActiveApp(app) \/ OnAppSelected(app)
    \/ \E on \in BOOLEAN : SetAutoProfileSwitch(on)
    \/ AutoSwitchChanged
    \/ OpenSettings \/ HideEvent \/ SaveSwitch \/ SaveProfiles \/ ClearRoutesAndSaveScenes
    \/ \E entered \in story.entered, list \in story.lists \cup {dialog.profiles} :
          Accept(entered, list)
    \/ SettingsChanged \/ Export \/ Import \/ ImportFails

Spec == Init /\ [][Next]_vars

-----------------------------------------------------------------------------
(* What the application promises.                                          *)

\* The types of the state; profile ids are those of the settings, now or before.
TypeOK ==
    /\ phase \in Phases
    /\ temp # NoFile => phase \in {"saving", "importing", "exporting"}
    /\ m_autoActiveApp \in App \cup {NoApp} /\ m_activeApp \in App \cup {NoApp}
    /\ \A i \in DOMAIN m_appCache : m_appCache[i] \in AudioApp
    /\ \A id \in DOMAIN routedApps : routedApps[id] \subseteq App /\ routedApps[id] # {}
    /\ DOMAIN route = App
    /\ loop \in Backends \cup {"off"}
    /\ task.kind \in {"none", "init", "auto switch", "save switch", "save profiles",
                      "clear routes", "hide", "changed", "import", "imported", "quit"}
    /\ phase = "stopped" => task = NoTask /\ ~dialog.open /\ loop = "off"

\* What the next start will find is always whole, and changes only as the
\* settings in use are saved or a file is imported, whatever is cut short or
\* fails, and never while it could not be read or kept (Config::saveUnlocked,
\* load, importFromFile and every setter).
StoreSpec == Store!Spec

\* While the program runs, config.json loses only contents that this process
\* has read or written, or that a backup keeps (load's refusal to save, the
\* copies of a damaged file and of the one an import replaces).
NothingLost ==
    [][phase # "stopped" /\ file' # file => file \in known \cup backups \cup {NoFile}]_vars

\* The guard that spares a key press the routing stands for a route that is in
\* force (activateProfile), through every change of the settings: as long as no
\* two profiles have the same id, the target, or a name like it, is routed where
\* the profile says now, unless a D-Bus request or a scene routed it later.
GuardMeansRouted ==
    task = NoTask /\ (\A i, j \in DOMAIN profiles : profiles[i].id = profiles[j].id => i = j) =>
        \A i \in DOMAIN profiles :
            LET p == profiles[i]
            IN  p.id = guard.profile /\ p.sink # NoSink =>
                    \E a \in App :
                        /\ AppIdMatches(a, guard.app) /\ route[a].now
                        /\ route[a].by = <<>> \/ route[a] = [sink |-> p.sink, by |-> p.id, now |-> TRUE]

\* When the dialog has saved, nothing stays routed that this process routed in
\* the name of a profile which had a sink until then, unless a profile with a
\* sink still matches it (saveAndAccept, profileSinkCleanupTargets and the
\* books of setProfileAppSink).
SavedSettingsClearRoutes ==
    task.kind = "changed" =>
        \A a \in App, i \in DOMAIN task.previous :
            /\ task.previous[i].id = route[a].by /\ task.previous[i].sink # NoSink
            /\ route[a].now
            => StillRouted(a, profiles, Aliases)

\* The same of every route made in the name of a profile, as the comment on the
\* clean-up and the architecture's description of it have it.
RoutesFollowSettings ==
    task.kind = "changed" /\ task.previous # <<>> =>
        \A a \in App : route[a].by # <<>> => StillRouted(a, profiles, Aliases)

\* With the switch off there is no target of the focus.  With it on, once the
\* tracker has seen and told everything and the application list and the
\* settings have not changed since, the target is what the focused window stands
\* for, when a profile knows that.
FocusIsFollowed ==
    MainIdle =>
        IF ~AutoSwitch THEN m_autoActiveApp = NoApp /\ loop = "off"
        ELSE InSync /\ reports = <<>> /\ fresh =>
             LET target == ResolveStickyAutoProfileTarget(IdOf(active), m_appCache, profiles,
                                                          NoApp, Aliases)
             IN  FindAutoSwitchProfileForApp(target, profiles, Aliases) # <<>>
                     => m_autoActiveApp = target
=============================================================================
