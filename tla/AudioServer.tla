---------------------------- MODULE AudioServer ----------------------------
(***************************************************************************)
(* The audio side of the machine as PaWorker (volumecontroller.cpp) sees   *)
(* it through libpulse and libpipewire: playback streams, the daemon that  *)
(* accepts connections, and the stream-restore database.  None of it is    *)
(* code of this repository; it is modelled from how PaWorker uses it.      *)
(*                                                                         *)
(* A stream is one sink input / one PipeWire output node.  Its number is   *)
(* the index the daemon hands out, which is also the order in which        *)
(* libpulse lists sink inputs.  A number is used once during the lifetime  *)
(* of a daemon, and may be handed out again after a restart.               *)
(***************************************************************************)
EXTENDS Integers, FiniteSets

CONSTANTS
  App,        \* applications that play audio
  Name,       \* the strings requests name an application by (numbers: the
              \* order of a QMap keyed by them)
  Stream,     \* stream numbers
  Sink,       \* output devices
  AppOf,      \* the application that owns a stream
  Denotes,    \* the application a name matches (appmatcher.h, aliases included)
  TargetName, \* the name PaWorker itself uses for an application
  MaxVolume,  \* 100 %; volumes are the multiples 0 .. MaxVolume of one step
  PipeWire,   \* TRUE: the daemon is pipewire-pulse; FALSE: native PulseAudio
  Fresh,      \* volumes a stream may start with when nothing restores one
  Mixes,      \* volumes another mixer may choose
  None        \* "no value"

Volume == 0 .. MaxVolume

\* What the stream-restore database remembers of an application.
DbEntry == [vol : Volume, muted : BOOLEAN, device : Sink \cup {None}]

ASSUME ServerAssumption ==
  /\ Name \subseteq Nat /\ IsFiniteSet(Name)
  /\ Stream \subseteq Nat /\ IsFiniteSet(Stream)
  /\ AppOf \in [Stream -> App]
  /\ Denotes \in [Name -> App]
  /\ TargetName \in [App -> Name]
  /\ \A a \in App : Denotes[TargetName[a]] = a
  /\ MaxVolume \in Nat
  /\ PipeWire \in BOOLEAN
  /\ Fresh \subseteq 0 .. MaxVolume
  /\ Mixes \subseteq 0 .. MaxVolume
  /\ None \notin Volume
  /\ None \notin BOOLEAN
  /\ None \notin Sink
  /\ None \notin Stream
  /\ None \notin DbEntry

VARIABLES
  paUp,    \* a PulseAudio-protocol daemon accepts connections
  pwUp,    \* the PipeWire registry can be read and written
  life,    \* per stream: "unused", "idle" (a node, no sink input), "active", "gone"
  vol,     \* per stream: the visible volume
  muted,   \* per stream
  sink,    \* per stream: the device it plays on
  client,  \* applications with a PipeWire client object
  db       \* stream-restore entry per application: None or a record

serverVars == <<paUp, pwUp, life, vol, muted, sink, client, db>>

Life == {"unused", "idle", "active", "gone"}
ServerTypeOK ==
  /\ paUp \in BOOLEAN
  /\ pwUp \in BOOLEAN
  /\ life \in [Stream -> Life]
  /\ vol \in [Stream -> Volume]
  /\ muted \in [Stream -> BOOLEAN]
  /\ sink \in [Stream -> Sink]
  /\ client \in SUBSET App
  /\ db \in [App -> DbEntry \cup {None}]

Live(s) == life[s] \in {"idle", "active"}
StreamsOf(k) == {s \in Stream : AppOf[s] = Denotes[k]}
Active == {s \in Stream : life[s] = "active"}

\* The output nodes of an application in a registry snapshot.
NodesOf(k) == IF PipeWire /\ pwUp THEN {s \in StreamsOf(k) : Live(s)} ELSE {}

First(S) == CHOOSE x \in S : \A y \in S : x <= y
Last(S) == CHOOSE x \in S : \A y \in S : y <= x

ServerInit ==
  /\ paUp \in BOOLEAN
  /\ pwUp = PipeWire
  /\ life = [s \in Stream |-> "unused"]
  /\ vol = [s \in Stream |-> MaxVolume]
  /\ muted = [s \in Stream |-> FALSE]
  /\ sink \in [Stream -> Sink]
  /\ client = {}
  /\ db = [a \in App |-> None]

-----------------------------------------------------------------------------
(* What the daemon, the applications and other mixers may do on their own. *)

\* A stream starts: module-stream-restore gives it the volume, mute and
\* device of its database entry; without one, or on pipewire-pulse, the
\* session decides.
StreamOpens(s) ==
  LET e == db[AppOf[s]] IN
  /\ life[s] = "unused"
  /\ PipeWire \/ paUp
  /\ \E l \in (IF PipeWire THEN {"idle", "active"} ELSE {"active"}), v \in Volume,
        m \in BOOLEAN, d \in Sink :
       /\ IF ~PipeWire /\ e # None
          THEN v = e.vol /\ m = e.muted /\ (e.device # None => d = e.device)
          ELSE v \in Fresh /\ m = FALSE
       /\ life' = [life EXCEPT ![s] = l]
       /\ vol' = [vol EXCEPT ![s] = v]
       /\ muted' = [muted EXCEPT ![s] = m]
       /\ sink' = [sink EXCEPT ![s] = d]
  /\ client' = IF PipeWire THEN client \cup {AppOf[s]} ELSE client
  /\ UNCHANGED <<paUp, pwUp, db>>

\* A paused stream keeps its node and loses its sink input, and back.
StreamResumes(s) ==
  /\ life[s] = "idle"
  /\ life' = [life EXCEPT ![s] = "active"]
  /\ UNCHANGED <<paUp, pwUp, vol, muted, sink, client, db>>

StreamPauses(s) ==
  /\ PipeWire /\ life[s] = "active"
  /\ life' = [life EXCEPT ![s] = "idle"]
  /\ UNCHANGED <<paUp, pwUp, vol, muted, sink, client, db>>

StreamCloses(s) ==
  /\ Live(s)
  /\ life' = [life EXCEPT ![s] = "gone"]
  /\ \E c \in {client, client \ {AppOf[s]}} :
       /\ \A t \in Stream \ {s} : Live(t) /\ AppOf[t] \in client => AppOf[t] \in c
       /\ client' = c
  /\ UNCHANGED <<paUp, pwUp, vol, muted, sink, db>>

\* The daemon goes away.  Streams of its own clients go with it, and its
\* numbers start again; on PipeWire, native nodes survive.
DaemonStops ==
  /\ paUp
  /\ paUp' = FALSE
  /\ \E keep \in SUBSET {s \in Stream : Live(s)} :
       /\ ~PipeWire => keep = {}
       /\ life' = [s \in Stream |-> IF s \in keep THEN life[s] ELSE "unused"]
       /\ client' = {a \in client : \E s \in keep : AppOf[s] = a}
  /\ UNCHANGED <<pwUp, vol, muted, sink, db>>

DaemonStarts ==
  /\ ~paUp
  /\ paUp' = TRUE
  /\ UNCHANGED <<pwUp, life, vol, muted, sink, client, db>>

\* The registry connection breaks or can be made again.
RegistryFlips ==
  /\ PipeWire
  /\ pwUp' = ~pwUp
  /\ UNCHANGED <<paUp, life, vol, muted, sink, client, db>>

\* Another mixer moves a slider.
OtherMixer(s) ==
  /\ Live(s)
  /\ \E v \in Mixes \ {vol[s]} : vol' = [vol EXCEPT ![s] = v]
  /\ UNCHANGED <<paUp, pwUp, life, muted, sink, client, db>>

\* The daemon saves the state of a live stream in the database.
DatabaseSaves(s) ==
  LET a == AppOf[s]
      kept == IF db[a] = None THEN None ELSE db[a].device
  IN
  /\ paUp /\ Live(s)
  /\ db' = [db EXCEPT ![a] = [vol |-> vol[s], muted |-> muted[s], device |-> kept]]
  /\ db' # db
  /\ UNCHANGED <<paUp, pwUp, life, vol, muted, sink, client>>
=============================================================================
