--------------------------- MODULE MprisClient ---------------------------
(***************************************************************************)
(* mprisclient.cpp: which players are known, which one is followed, what   *)
(* is told to the rest of the application.  A handler is a function from   *)
(* the client's state to its new state and the signals it emits; they are  *)
(* connected directly, so that the receivers run inside it.                *)
(***************************************************************************)
EXTENDS SessionBus

CONSTANTS
    Timed,      \* tracks with a length (mpris:length > 0)
    Seekable,   \* tracks with CanSeek
    ArtOf       \* track -> its art's address, or None

ASSUME ClientAssumption ==
    /\ Timed \subseteq Track /\ Seekable \subseteq Track
    /\ DOMAIN ArtOf = Track

\* The client: m_players, m_active with m_hasActive, the poll timer, the
\* preferred application and m_trackedPlayers.
Client == [known : SUBSET Player, info : [Player -> Infos],
           active : Player \cup {None}, shown : Infos, poll : BOOLEAN,
           preferred : Player \cup {None}, tracked : Seq(Player)]

NewClient(tracked) ==
    [known |-> {}, info |-> [p \in Player |-> NoInfo], active |-> None,
     shown |-> NoInfo, poll |-> FALSE, preferred |-> None, tracked |-> tracked]

\* The signals of a handler, in the order in which it emits them: each is
\* emitted or not, with what it carries.
Signal(emitted, value) == [emitted |-> emitted, value |-> value]
Silence == Signal(FALSE, None)
Quiet == [art |-> Silence, none |-> Silence, track |-> Silence, status |-> Silence,
          position |-> Silence]

Done(c, signals) == [client |-> c, signals |-> signals]

Art(track) == IF track = None THEN None ELSE ArtOf[track]

-----------------------------------------------------------------------------
\* priorityOf and the sorted candidates.
PriorityOf(c, p) == CHOOSE i \in DOMAIN c.tracked : c.tracked[i] = p
Candidates(c) == {p \in c.known : \E i \in DOMAIN c.tracked : c.tracked[i] = p}
In(c, S, status) == {p \in S : c.info[p].status = status}
FirstOf(c, S) == CHOOSE p \in S : \A q \in S : PriorityOf(c, p) <= PriorityOf(c, q)

\* The four passes of reevaluateActive.
Chosen(c) ==
    LET all == Candidates(c)
        preferred == {p \in all : p = c.preferred}
        passes == <<In(c, preferred, "Playing"), In(c, preferred, "Paused"),
                    In(c, all, "Playing"), In(c, all, "Paused")>>
        found == {i \in DOMAIN passes : passes[i] # {}}
    IN  IF found = {} THEN None
        ELSE FirstOf(c, passes[CHOOSE i \in found : \A j \in found : i <= j])

\* reevaluateActive(forceTrackChanged).
LosesPlayer(c) ==
    Done([c EXCEPT !.active = None, !.shown = NoInfo, !.poll = FALSE],
         [Quiet EXCEPT !.art = Signal(Art(c.shown.track) # None, None),
                       !.none = Signal(TRUE, None)])

Follows(c, p, force, progress) ==
    LET new == c.info[p]
        other == c.active # p
        trackChanged == other \/ c.shown.track # new.track
        artChanged == other \/ Art(c.shown.track) # Art(new.track)
    IN  Done([c EXCEPT !.active = p, !.shown = new,
                       !.poll = progress /\ new.status = "Playing"],
             [Quiet EXCEPT !.art = Signal(artChanged \/ force, Art(new.track)),
                           !.track = Signal(trackChanged \/ force, new.track),
                           !.status = Signal(c.active = None \/ c.shown.status # new.status, new.status)])

Reevaluate(c, force, progress) ==
    LET p == Chosen(c)
    IN  IF p # None THEN Follows(c, p, force, progress)
        ELSE IF c.active # None THEN LosesPlayer(c) ELSE Done(c, Quiet)

-----------------------------------------------------------------------------
\* onNameOwnerChanged: addPlayer also asks for everything; the reply is what
\* makes the player a candidate.
AddPlayer(c, p) ==
    IF p \in c.known THEN c
    ELSE [c EXCEPT !.known = @ \cup {p}, !.info[p] = NoInfo]

\* Mutant: the player that goes may still be the one followed.
RemovePlayerOnly(c, p, progress) ==
    Done([c EXCEPT !.known = @ \ {p}, !.info[p] = NoInfo], Quiet)

RemovePlayer(c, p, progress) ==
    IF p \notin c.known THEN Done(c, Quiet)
    ELSE Reevaluate([c EXCEPT !.known = @ \ {p}, !.info[p] = NoInfo], FALSE, progress)

\* Mutant: what a signal leaves out is forgotten.
MergeNewest(new, old) == new

\* A signal only carries what changed.
Merge(new, old) == IF new = None THEN old ELSE new

\* applyProperties, for anything but a position alone.  A position that came
\* along is told after the track it belongs to, which may just have ended a drag:
\* m_seeking is the overlay's own, and UpdatePosition looks at it.
ApplyProperties(c, m, progress) ==
    LET old == c.info[m.player]
        told == [status |-> Merge(m.info.status, old.status),
                 track |-> Merge(m.info.track, old.track)]
        r == Reevaluate([c EXCEPT !.info[m.player] = told], FALSE, progress)
        tells == m.at # None /\ c.active = m.player /\ r.client.active = m.player
    IN  IF m.player \notin c.known THEN Done(c, Quiet)
        ELSE Done(r.client, [r.signals EXCEPT !.position = Signal(tells, m.at)])

\* The fast path of applyProperties; throttled says whether an earlier
\* position within the poll interval suppresses it.
PositionOnly(c, m, seeking, throttled) ==
    Done(c, [Quiet EXCEPT !.position = Signal(c.active = m.player /\ ~seeking /\ ~throttled, m.at)])

\* Mutant: the answer of a player that is not followed any more is told.
TellPositionOfAny(c, m) == Done(c, [Quiet EXCEPT !.position = Signal(TRUE, m.at)])

\* onSeeked, and the reply to pollPosition: whoever is active now.
TellPosition(c, m) ==
    Done(c, [Quiet EXCEPT !.position = Signal(c.active = m.player, m.at)])

\* onPollTimer: asks unless a position has just been pushed.
Polls(c, seeking, progress) ==
    /\ c.poll /\ c.active # None /\ ~seeking /\ progress
    /\ c.shown.status = "Playing"

\* setPreferredApp, reload.
SetPreferredApp(c, p, progress) ==
    IF c.preferred = p THEN Done(c, Quiet)
    ELSE Reevaluate([c EXCEPT !.preferred = p], TRUE, progress)

Reload(c, tracked, progress) == Reevaluate([c EXCEPT !.tracked = tracked], TRUE, progress)

\* setPosition: the track a SetPosition call names, if one is made.
SetPosition(c) ==
    IF c.active = None \/ c.shown.track \notin Seekable \cap Timed THEN None
    ELSE c.shown.track
=============================================================================
