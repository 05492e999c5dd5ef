--------------------------- MODULE MCMediaPanel ---------------------------
(***************************************************************************)
(* Instances of MediaPanel for TLC.                                        *)
(***************************************************************************)
EXTENDS MediaPanel, TLC

CONSTANTS spotify, vlc, song, radio, cover, poster

OnePlayer == {spotify}
TwoPlayers == {spotify, vlc}
TwoTracks == {song, radio}

\* Each track has a picture, and there is room for one.
ArtOfBoth == [t \in TwoTracks |-> IF t = song THEN cover ELSE poster]
Titled == [t \in TwoTracks |-> t]

\* Nothing tells one track with its picture from the other with its own: the
\* states that differ by the names of both are one state.
Alike == {p \in Permutations(TwoTracks \cup {cover, poster}) :
            p[song] \in TwoTracks /\ p[radio] \in TwoTracks /\ (p[song] = song <=> p[cover] = cover)}

\* spotify comes first.
Ordered == {<<spotify, vlc>>}
Single == {<<spotify>>}

AllOn == {[progress |-> TRUE, interactive |-> TRUE, position |-> TRUE, keyboard |-> TRUE]}
AllOff == {[progress |-> FALSE, interactive |-> FALSE, position |-> FALSE, keyboard |-> FALSE]}

\* What happens together: one player that changes in every way; one that
\* is started anew and changes before the client has seen that; two among which
\* is chosen; two that are sought in while the focus moves; every gesture on
\* the overlay.
Listening == [players |-> OnePlayer, settings |-> AllOn, room |-> 2,
              acts |-> {"status", "track", "push", "poll", "fail", "quit", "art"}]
Restarting == [players |-> OnePlayer, settings |-> AllOn, room |-> 3,
               acts |-> {"status", "track", "push", "quit"}]
Choosing == [players |-> TwoPlayers, settings |-> AllOn, room |-> 1,
             acts |-> {"status", "quit", "focus", "art"}]
Seeking == [players |-> TwoPlayers, settings |-> AllOn, room |-> 1,
            acts |-> {"track", "poll", "focus", "volume", "seek"}]
Gestures == [players |-> OnePlayer, settings |-> AllOn \cup AllOff, room |-> 1,
             acts |-> {"quit", "volume", "media key", "seek", "resize", "move",
                       "layout key", "dialog", "toggle"}]
AllScenes == {Listening, Restarting, Choosing, Seeking, Gestures}
=============================================================================
