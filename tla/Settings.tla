------------------------------ MODULE Settings ------------------------------
(***************************************************************************)
(* The settings as config.cpp keeps them: a JSON document, and the         *)
(* profiles, scenes and OSD options that are read from it and written into *)
(* it.  A JSON object is a function on the keys it has, so that a file of  *)
(* an older version, or one edited by hand, lacks some.                    *)
(*                                                                         *)
(* One volume key stands for the three of a profile and of the legacy      *)
(* "hotkeys", `show` for the one they lack; a regular expression is the    *)
(* set of the applications it matches; an id is the sequence of its parts, *)
(* <<base>>, <<base, 2>>, ..., and <<>> where it is missing.  Scroll       *)
(* bindings, modifiers, ducking, colours and positions, the name and the   *)
(* hotkey of a scene and the `muted` of its targets are left out: they are *)
(* stored and read back the way these fields are.  A scene's target that   *)
(* only mutes is thus none of the model's.  Applications whose names       *)
(* differ in case only are one.                                            *)
(***************************************************************************)
EXTENDS Integers, FiniteSets, SequencesExt

CONSTANTS NoApp,    \* "" and null
          NoSink,   \* "": leave the routing unchanged
          Damaged,  \* what a file may hold that is not a JSON object
          NoFile

\* KEY_VOLUMEUP.
VolumeUp == 115

\* Reading key k of a JSON object that may lack it.
Get(object, k, default) == IF k \in DOMAIN object THEN object[k] ELSE default

\* The elements of s at some of its indices, in their order, and the first of
\* them as a sequence of none or one.
Sifted(s, at) ==
    [n \in 1 .. Cardinality(at) |->
        s[CHOOSE i \in at : Cardinality({j \in at : j <= i}) = n]]

FirstOf(s, at) == IF at = {} THEN <<>> ELSE <<s[Min(at)]>>

\* The empty JSON object.
NoKeys == [k \in {} |-> 0]

Override(over, base) ==
    [k \in DOMAIN base \cup DOMAIN over |-> IF k \in DOMAIN over THEN over[k] ELSE base[k]]

\* The nested objects.
Nested == {"osd", "hotkeys"}

\* Config::deepMerge.
DeepMerge(base, over) ==
    [k \in DOMAIN base \cup DOMAIN over |->
        IF k \in DOMAIN base \cap DOMAIN over \cap Nested THEN Override(over[k], base[k])
        ELSE IF k \in DOMAIN over THEN over[k] ELSE base[k]]

Clamp(n) == Max({0, Min({n, 100})})

\* bindingFromJson of an EV_KEY binding.
BindingFromJson(object, k, default) ==
    LET code == Get(object, k, default) IN IF code > 0 THEN code ELSE 0

\* The applications of a list that have a name.
Named(apps) == Sifted(apps, {i \in DOMAIN apps : apps[i] # NoApp})

\* Profile::primaryApp.
PrimaryApp(apps) ==
    LET first == FirstOf(apps, {i \in DOMAIN apps : apps[i] # NoApp})
    IN  IF first = <<>> THEN NoApp ELSE first[1]

-----------------------------------------------------------------------------
(* Profiles.                                                               *)

\* profileAppsFromObject.
ProfileApps(o) ==
    LET listed == Named(Get(o, "apps", <<>>))
        legacy == Get(o, "app", NoApp)
    IN  IF listed = <<>> /\ legacy # NoApp THEN <<legacy>> ELSE listed

\* Config::profileFromJson.
ProfileFromJson(o) ==
    LET hotkeys == Get(o, "hotkeys", NoKeys)
        limits == {Clamp(Get(o, "vol_min", 0)), Clamp(Get(o, "vol_max", 100))}
    IN  [id |-> Get(o, "id", <<>>), apps |-> ProfileApps(o),
         app_regex |-> Get(o, "app_regex", {}),
         hotkeys |-> [volume_up |-> BindingFromJson(hotkeys, "volume_up", VolumeUp),
                      show |-> BindingFromJson(hotkeys, "show", 0)],
         auto_switch |-> Get(o, "auto_switch", TRUE),
         vol_min |-> Min(limits), vol_max |-> Max(limits),
         sink |-> Get(o, "sink", NoSink)]

\* Config::profileToJson.
ProfileToJson(p) ==
    Override([app |-> PrimaryApp(p.apps)],
             [p EXCEPT !.vol_min = Clamp(@), !.vol_max = Clamp(@)])

\* Config::profilesFromJson: entries without an id are skipped.
ProfilesFromJson(array) ==
    LET read == [i \in DOMAIN array |-> ProfileFromJson(array[i])]
    IN  Sifted(read, {i \in DOMAIN read : read[i].id # <<>>})

Profiles(d) == ProfilesFromJson(d.profiles)

\* A free id: a number is appended to one that is taken.
FreeId(id, taken) ==
    IF id \notin taken THEN id
    ELSE Append(id, Min({n \in 2 .. Cardinality(taken) + 2 : Append(id, n) \notin taken}))

\* The loops of setProfiles and setScenes that make the ids unique.
UniqueIds(list, base) ==
    LET ids[i \in DOMAIN list] ==
            FreeId(IF list[i].id = <<>> THEN base ELSE list[i].id, {ids[j] : j \in 1 .. i - 1})
    IN  [i \in DOMAIN list |-> [list[i] EXCEPT !.id = ids[i]]]

SanitizeProfile(p) ==
    LET limits == {Clamp(p.vol_min), Clamp(p.vol_max)}
    IN  [p EXCEPT !.apps = Named(@),
                  !.vol_min = Min(limits), !.vol_max = Max(limits)]

-----------------------------------------------------------------------------
(* Scenes.                                                                 *)

\* A target without an application or without anything to set is dropped.
CleanTargets(targets) ==
    Sifted(targets, {i \in DOMAIN targets : targets[i].match # NoApp
                                            /\ {"volume", "sink"} \cap DOMAIN targets[i] # {}})

ClampTarget(t) == [k \in DOMAIN t |-> IF k = "volume" THEN Clamp(t[k]) ELSE t[k]]

\* Config::sceneFromJson, scenesFromJson: what Config::scenes gives.
ScenesFromJson(array) ==
    LET Scene(o) == [id |-> Get(o, "id", <<>>),
                     targets |-> LET ts == CleanTargets(Get(o, "targets", <<>>))
                                 IN  [i \in DOMAIN ts |-> ClampTarget(ts[i])]]
        read == [i \in DOMAIN array |-> Scene(array[i])]
    IN  Sifted(read, {i \in DOMAIN read : read[i].id # <<>>})

\* Config::sceneToJson, scenesToJsonArray.
ScenesToJson(scenes) ==
    [i \in DOMAIN scenes |->
        LET all == scenes[i].targets
            ts == Sifted(all, {j \in DOMAIN all : all[j].match # NoApp})
        IN  [scenes[i] EXCEPT !.targets = [j \in DOMAIN ts |-> ClampTarget(ts[j])]]]

-----------------------------------------------------------------------------
(* The document: defaults, migration, the legacy copies.                   *)

\* Four of the seven.
LabelModes == {"app", "title_artist", "app_track", "custom"}

\* normalizeLabelMode.
NormalizeLabelMode(m) ==
    IF m = "track" THEN "title_artist" ELSE IF m = "both" THEN "app_track"
    ELSE IF m \in LabelModes THEN m ELSE "app"

\* mediaKeysOsdModeFromString and back.
NormalizeMediaMode(m) == IF m \in {"action", "full"} THEN m ELSE "off"

\* Config::defaultJson.
DefaultJson ==
    [profiles |-> << [id |-> <<"default">>, app |-> NoApp, apps |-> <<>>, app_regex |-> {},
                      hotkeys |-> [volume_up |-> VolumeUp, show |-> 0],
                      vol_min |-> 0, vol_max |-> 100, sink |-> NoSink] >>,
     selected_app |-> NoApp,
     hotkeys |-> [volume_up |-> VolumeUp],
     osd |-> [progress_label_mode |-> "app", media_keys_osd_mode |-> "off",
              show_media_keys_osd |-> FALSE],
     scenes |-> <<>>,
     auto_profile_switch |-> FALSE]

\* Config::migrateLegacyToProfilesUnlocked.
MigrateLegacyToProfiles(d) ==
    IF d.profiles # <<>> THEN d
    ELSE LET app == d.selected_app
         IN  [d EXCEPT !.profiles =
                << [id |-> <<"default">>, app |-> app,
                    apps |-> IF app = NoApp THEN <<>> ELSE <<app>>,
                    hotkeys |-> [volume_up |-> BindingFromJson(d.hotkeys, "volume_up", VolumeUp)],
                    auto_switch |-> TRUE] >>]

\* Config::mirrorDefaultProfileToLegacyUnlocked: the first entry, well formed or not.
MirrorDefaultProfileToLegacy(d) ==
    IF d.profiles = <<>> THEN d
    ELSE LET first == Head(d.profiles)
         IN  [d EXCEPT !.selected_app = PrimaryApp(ProfileApps(first)),
                       !.hotkeys = [volume_up |-> BindingFromJson(Get(first, "hotkeys", NoKeys),
                                                                  "volume_up", VolumeUp)]]

\* Mutant: only a file without the key is migrated.
LacksProfilesKey(loaded, d) == "profiles" \notin DOMAIN loaded

\* A file without a valid profile is one of before the profiles.
NeedsProfileMigration(loaded, d) == "profiles" \notin DOMAIN loaded \/ Profiles(d) = <<>>

\* The label mode, and the media mode that replaced show_media_keys_osd.
MigrateOsd(osd, loadedOsd) ==
    LET shown == Get(loadedOsd, "show_media_keys_osd", FALSE)
        media == NormalizeMediaMode(Get(osd, "media_keys_osd_mode", ""))
        label == NormalizeLabelMode(Get(osd, "progress_label_mode", ""))
        labelled == Override([progress_label_mode |-> label], osd)
        With(mode, show) == Override([media_keys_osd_mode |-> mode, show_media_keys_osd |-> show],
                                     labelled)
    IN  IF "media_keys_osd_mode" \notin DOMAIN loadedOsd
           /\ "show_media_keys_osd" \in DOMAIN loadedOsd
        THEN With(IF shown THEN "action" ELSE "off", shown)
        ELSE IF Get(osd, "media_keys_osd_mode", "") # media THEN With(media, media # "off")
        ELSE labelled

\* Config::applyLoadedJsonUnlocked: the settings, and whether they are to be saved.
ApplyLoadedJson(loaded) ==
    LET merged == DeepMerge(DefaultJson, loaded)
        migrates == NeedsProfileMigration(loaded, merged)
        settled == MirrorDefaultProfileToLegacy(
                       IF migrates THEN MigrateLegacyToProfiles([merged EXCEPT !.profiles = <<>>])
                       ELSE merged)
        loadedOsd == Get(loaded, "osd", NoKeys)
        osd == MigrateOsd(settled.osd, loadedOsd)
    IN  [data |-> [settled EXCEPT !.osd = osd],
         save |-> migrates \/ osd # settled.osd
                  \/ ("media_keys_osd_mode" \notin DOMAIN loadedOsd
                      /\ "show_media_keys_osd" \in DOMAIN loadedOsd)]

\* What a document gives when it is loaded.
Loaded(d) == ApplyLoadedJson(d).data

\* What a start finds in a file that it can read.
IsDocument(c) == c \notin Damaged \cup {NoFile}
Found(c) == IF IsDocument(c) THEN Loaded(c) ELSE DefaultJson

\* Settings that load back as they are, with a profile to act on.
Sound(d) == ApplyLoadedJson(d) = [data |-> d, save |-> FALSE] /\ Profiles(d) # <<>>

-----------------------------------------------------------------------------
(* The setters: the settings they leave.                                   *)

\* appsArrayWithPrimary: each application once, the primary one first.
AppsWithPrimary(o, app) ==
    LET apps == ProfileApps(o)
        others == {i \in DOMAIN apps : apps[i] # app /\ \A j \in 1 .. i - 1 : apps[j] # apps[i]}
    IN  IF app = NoApp THEN <<>> ELSE <<app>> \o Sifted(apps, others)

\* Config::setProfiles.
WithProfiles(d, profiles) ==
    LET sanitized == [i \in DOMAIN profiles |-> SanitizeProfile(profiles[i])]
        unique == UniqueIds(sanitized, <<"profile">>)
    IN  MirrorDefaultProfileToLegacy(
            [d EXCEPT !.profiles = [i \in DOMAIN unique |-> ProfileToJson(unique[i])]])

\* Config::setDefaultProfileApp.
WithDefaultProfileApp(d, app) ==
    LET first == Head(d.profiles)
    IN  [d EXCEPT !.profiles[1] = Override([app |-> app, apps |-> AppsWithPrimary(first, app)], first),
                  !.selected_app = app]

\* Config::setSelectedApp: the same for a document with profiles.
WithSelectedApp(d, app) ==
    IF d.profiles = <<>> THEN [d EXCEPT !.selected_app = app] ELSE WithDefaultProfileApp(d, app)

\* Config::setOsd.
WithOsd(d, label, media) ==
    [d EXCEPT !.osd = [progress_label_mode |-> NormalizeLabelMode(label),
                       media_keys_osd_mode |-> NormalizeMediaMode(media),
                       show_media_keys_osd |-> NormalizeMediaMode(media) # "off"]]

\* Config::setScenes.
WithScenes(d, scenes) ==
    LET Clean(s) == [s EXCEPT !.targets = LET ts == CleanTargets(@)
                                          IN  [i \in DOMAIN ts |-> ClampTarget(ts[i])]]
    IN  [d EXCEPT !.scenes =
            ScenesToJson(UniqueIds([i \in DOMAIN scenes |-> Clean(scenes[i])], <<"scene">>))]

\* Config::setAutoProfileSwitch; the setters of one key are like it.
WithAutoProfileSwitch(d, on) == [d EXCEPT !.auto_profile_switch = on]
=============================================================================
