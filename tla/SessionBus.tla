---------------------------- MODULE SessionBus ----------------------------
(***************************************************************************)
(* External: the session D-Bus and the media players on it, as far as      *)
(* mprisclient.cpp depends on them.  A player owns its name or not, plays  *)
(* a track, signals its changes and answers what it was asked in order.    *)
(* The bus delivers to the application in the order of sending.            *)
(***************************************************************************)
EXTENDS Sequences, FiniteSets, Naturals

CONSTANTS
    Player,     \* services named org.mpris.MediaPlayer2.*
    Track,      \* what can be played
    None,
    MaxInbox    \* bound on messages under way to the application

Status == {"Playing", "Paused", "Stopped"}

ASSUME BusAssumption ==
    /\ None \notin Player \cup Track \cup Status
    /\ MaxInbox \in Nat

VARIABLES
    owned,      \* players that are on the bus
    real,       \* what each player really plays, and whether
    asked,      \* calls a player has not answered yet: "all" or "position"
    inbox       \* messages the application has not handled yet

busVars == <<owned, real, asked, inbox>>

\* What a player can tell of itself; NoInfo is what is known of a new one.
Infos == [status : Status \cup {None}, track : Track \cup {None}]
NoInfo == [status |-> None, track |-> None]

\* "owner" is NameOwnerChanged, "props" PropertiesChanged and the reply to
\* GetAll (a part that did not change is None), "pushed" a PropertiesChanged
\* with nothing but Position, "polled" the reply to Get(Position), "seeked"
\* the signal.  A position is known by the track it is a position in.
Message ==
         [type : {"owner"}, player : Player, present : BOOLEAN]
    \cup [type : {"props"}, player : Player, info : Infos, at : Track \cup {None}]
    \cup [type : {"pushed", "polled", "seeked"}, player : Player, at : Track]

Room == Len(inbox) < MaxInbox
Sends(m) == inbox' = Append(inbox, m)

\* The players in S may come.
BusInit(S) ==
    /\ owned = {}
    /\ \E playing \in [S -> Track] :
          real = [p \in Player |-> IF p \in S THEN [status |-> "Playing", track |-> playing[p]]
                                   ELSE NoInfo]
    /\ asked = [p \in Player |-> <<>>]
    /\ inbox = <<>>

\* A player comes, and goes: what it still had to answer ends in errors, which
\* nobody handles.
PlayerComes(p) ==
    /\ p \notin owned /\ Room
    /\ owned' = owned \cup {p}
    /\ Sends([type |-> "owner", player |-> p, present |-> TRUE])
    /\ UNCHANGED <<real, asked>>

PlayerGoes(p) ==
    /\ p \in owned /\ Room
    /\ owned' = owned \ {p}
    /\ asked' = [asked EXCEPT ![p] = <<>>]
    /\ Sends([type |-> "owner", player |-> p, present |-> FALSE])
    /\ UNCHANGED real

\* A player changes; only those with a match rule for it hear of it.
PlayerChanges(p, heard, status, track, bundled) ==
    /\ p \in owned /\ Room
    /\ real[p] # [status |-> status, track |-> track]
    /\ real' = [real EXCEPT ![p] = [status |-> status, track |-> track]]
    /\ IF p \in heard
       THEN Sends([type |-> "props", player |-> p,
                   info |-> [status |-> IF status # real[p].status THEN status ELSE None,
                             track |-> IF track # real[p].track THEN track ELSE None],
                   at |-> IF bundled THEN track ELSE None])
       ELSE inbox' = inbox
    /\ UNCHANGED <<owned, asked>>

\* A player tells its position: by itself, or because somebody sought in it.
PlayerTells(p, heard, type) ==
    /\ p \in owned \cap heard /\ Room
    /\ Sends([type |-> type, player |-> p, at |-> real[p].track])
    /\ UNCHANGED <<owned, real, asked>>

\* A player answers the oldest question, or with an error (no message: nobody
\* handles it).
PlayerAnswers(p) ==
    /\ asked[p] # <<>> /\ Room
    /\ asked' = [asked EXCEPT ![p] = Tail(@)]
    /\ Sends(IF Head(asked[p]) = "all"
             THEN [type |-> "props", player |-> p, info |-> real[p],
                   at |-> real[p].track]
             ELSE [type |-> "polled", player |-> p, at |-> real[p].track])
    /\ UNCHANGED <<owned, real>>

PlayerFails(p) ==
    /\ asked[p] # <<>>
    /\ asked' = [asked EXCEPT ![p] = Tail(@)]
    /\ UNCHANGED <<owned, real, inbox>>
=============================================================================
