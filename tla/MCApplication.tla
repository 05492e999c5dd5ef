--------------------------- MODULE MCApplication ---------------------------
(***************************************************************************)
(* Instances of Application for TLC.                                       *)
(***************************************************************************)
EXTENDS Application

CONSTANTS player, chromium, music, game, speakers, headset, garbage, w1, w2, w3

Apps == {player, chromium, music, game}

\* The player's name is within the music player's, say.
Alike == {<<a, a>> : a \in Apps} \cup {<<player, music>>, <<music, player>>}

\* A browser whose stream is controlled under another name.
Remaps == << [match |-> chromium, display |-> NoApp, target |-> music] >>

Windows == {w1, w2, w3}
Ids3 == [w \in Windows |-> CASE w = w1 -> player [] w = w2 -> game [] OTHER -> NoApp]

Damages == {garbage}

-----------------------------------------------------------------------------
(* Profiles and documents.                                                 *)

Plain(id, apps, regex, sink) ==
    [id |-> id, apps |-> apps, app_regex |-> regex,
     hotkeys |-> [volume_up |-> VolumeUp, show |-> 0],
     auto_switch |-> TRUE, vol_min |-> 0, vol_max |-> 100, sink |-> sink]

Document(list, auto) == WithAutoProfileSwitch(WithProfiles(DefaultJson, list), auto)

A == <<"a">>
B == <<"b">>

\* Files of other versions, and edited by hand.
Old == [selected_app |-> player, hotkeys |-> [volume_up |-> 0],
        osd |-> [progress_label_mode |-> "both", show_media_keys_osd |-> TRUE]]
NoValid == [profiles |-> << [apps |-> <<player>>] >>, selected_app |-> game,
            osd |-> [media_keys_osd_mode |-> "loud"]]
ByHand == [profiles |-> << [id |-> A, app |-> player, vol_min |-> 120, vol_max |-> -5,
                            hotkeys |-> [volume_up |-> -3]],
                           [id |-> A, apps |-> <<NoApp, game>>] >>,
           selected_app |-> game,
           scenes |-> << [id |-> A, targets |-> << [match |-> game, volume |-> 130] >>],
                         [targets |-> <<>>] >>]

Scene == [id |-> <<>>, targets |-> << [match |-> game, volume |-> 120], [match |-> NoApp],
                                      [match |-> player] >>]

Entered(auto, label, media, scenes) ==
    [auto |-> auto, label |-> label, media |-> media, scenes |-> scenes]
Usual(auto) == Entered(auto, "app", "off", <<>>)

Wide(id, regex, sink) == Plain(id, <<>>, regex, sink)

Cached == << [name |-> game, binary |-> NoApp] >>
Renamed == << [name |-> player, binary |-> music], [name |-> game, binary |-> NoApp] >>

-----------------------------------------------------------------------------
(* What happens together.                                                  *)

Nothing == [documents |-> {}, faults |-> {{}}, entered |-> {}, lists |-> {}, caches |-> {},
            apps |-> {}, sinks |-> {}, backend |-> "xcb", acts |-> {}, limit |-> 0]

\* Files: every content, faults of the disk, every setter, the end at any step.
Storing == [Nothing EXCEPT
    !.documents = {Old, NoValid, ByHand},
    !.faults = {{"read", "backup", "write"}},
    !.entered = {Entered(FALSE, "track", "full", <<Scene, Scene>>)},
    !.lists = {<<Plain(<<>>, <<NoApp, player>>, {}, NoSink), Plain(<<>>, <<>>, {game}, speakers)>>},
    !.apps = {NoApp, game},
    !.acts = {"dialog", "dbus app", "tray app", "export", "import", "edit", "get", "end"},
    !.limit = 4]

\* Routes: two profiles, one that lists and one that matches.
Both == <<Plain(A, <<player>>, {game}, speakers), Wide(B, {game, chromium}, headset)>>
Routing == [Nothing EXCEPT
    !.documents = {Document(Both, auto) : auto \in BOOLEAN},
    !.entered = {Usual(TRUE)},
    !.lists = {<<Plain(A, <<player>>, {}, NoSink), Wide(B, {game}, headset)>>,
               <<Wide(B, {game}, headset)>>,
               <<Wide(B, {game}, NoSink)>>},
    !.apps = {game}, !.sinks = {headset},
    !.acts = {"key", "dialog", "dbus volume", "dbus app", "sinks", "focus", "end"},
    !.limit = 5]

\* The same with routes made in nobody's name, by a scene and over D-Bus.
ToHeadset == [id |-> A, targets |-> << [match |-> player, sink |-> speakers],
                                       [match |-> player, sink |-> headset] >>]
Unnamed == [Routing EXCEPT
    !.documents = {WithScenes(Document(Both, TRUE), <<ToHeadset>>)},
    !.lists = {<<Wide(B, {game}, headset)>>},
    !.apps = {NoApp, game},
    !.acts = {"key", "dialog", "dbus volume", "dbus sink", "scene", "dbus app", "sinks", "end"}]

\* The focus: each way to follow it, the switch, the list of applications.
Following(backend, limit) == [Nothing EXCEPT
    !.documents = {Document(<<Wide(A, {player, chromium}, NoSink), Wide(B, {game}, speakers)>>, TRUE)},
    !.entered = {Usual(TRUE)},
    !.lists = {<<Wide(B, {game}, speakers)>>},
    !.caches = {Cached, Renamed},
    !.backend = backend,
    !.acts = {"focus", "break", "apps", "dbus auto", "dialog"},
    !.limit = limit]

JustRouting == {Routing}
AllStories == {Storing, Routing, Unnamed, Following("xcb", 5), Following("kwin", 5),
               Following("wayland", 4)}
=============================================================================
