------------------------------ MODULE PaWorker ------------------------------
(***************************************************************************)
(* PaWorker of cpp/src/volumecontroller.cpp: the object that owns the      *)
(* libpulse context and carries out every volume, mute, ducking and        *)
(* routing request.  It lives on one thread, whose event loop runs one     *)
(* handler at a time; what interleaves with a handler is the daemon, the   *)
(* applications and the subscription thread (PaWatcherThread), which has a *)
(* connection of its own.                                                  *)
(*                                                                         *)
(* A request goes down a cascade: active sink inputs, PipeWire nodes, the  *)
(* stream-restore database, and last a value parked in one of the pending  *)
(* maps until the application shows up.                                    *)
(*                                                                         *)
(* A handler is one step, except where it calls other handlers in turn or  *)
(* loops over a list it read earlier: attemptReconnect and the restoring   *)
(* half of doToggleDucking are split with the variable phase, and no other *)
(* handler runs until phase is "loop" again.                               *)
(*                                                                         *)
(* A definition whose comment starts with "Mutant" is a wrong variant of   *)
(* the one below it, used only to see that a property notices the mistake. *)
(***************************************************************************)
EXTENDS AudioServer

CONSTANTS
  Deltas,     \* steps of a relative volume request
  Levels,     \* targets of an absolute volume request
  Limits,     \* <<minVol, maxVol>> pairs given with a request
  MuteOps,    \* subset of {"toggle", "on", "off"}
  Ducks,      \* volumes doToggleDucking lowers other applications to
  Routes,     \* sinks doSetAppSink is asked for
  Queries,    \* names doQueryVolume is asked about
  Trouble,    \* how operations can go wrong, see Outcome
  MaxDue,     \* bound: one-shot doApplyPending timers outstanding at once
  MayStop     \* whether requestStop is explored

ASSUME WorkerAssumption ==
  /\ Deltas \subseteq Int
  /\ Levels \subseteq Volume
  /\ Limits \subseteq Volume \X Volume
  /\ MuteOps \subseteq {"toggle", "on", "off"}
  /\ Ducks \subseteq Volume
  /\ Routes \subseteq Sink
  /\ Queries \subseteq Name
  /\ Trouble \subseteq {"unread", "lost", "late", "gone"}
  /\ MaxDue \in Nat
  /\ MayStop \in BOOLEAN

VARIABLES
  ctx,            \* libpulse context: "none", "ready", or "failed" (its loss not handled yet)
  lossPosted,     \* handleContextLost is in the event queue
  reconnectTimer, \* m_reconnectTimer is active
  watcher,        \* PaWatcherThread: "off", "down" or "ready" (subscribed)
  due,            \* outstanding one-shot timers for doApplyPending
  stopping,       \* m_stopping
  phase,          \* "loop", or the rest of the handler that is running
  pendingVolumes, pendingChannelVolumes, pendingMutes, pendingSinks,
  pendingSinkClears,
  appVolumes, appMutes,
  duckingActive, duckingSnapshot,
  restoring       \* the restoring loop: entries left, inputs listed, streams done

connVars == <<ctx, lossPosted, reconnectTimer, watcher, due, stopping>>
volumePending == <<pendingVolumes, pendingChannelVolumes>>
sinkPending == <<pendingSinks, pendingSinkClears>>
cacheVars == <<appVolumes, appMutes>>
duckVars == <<duckingActive, duckingSnapshot, restoring>>
pendingVars == <<volumePending, pendingMutes, sinkPending>>
vars == <<serverVars, connVars, phase, pendingVars, cacheVars, duckVars>>

\* One DuckingSnapshot.  from: the stream it was taken from (None for an
\* application without a node); index, node: the identity it will be looked
\* up by; exact: which of visibleChannelVolumes and pulseChannelVolume it has.
Entry == [app : App, from : Stream \cup {None}, index : Stream \cup {None},
          node : Stream \cup {None}, exact : SUBSET {"visible", "pulse"}, vol : Volume]

Idle == [entries |-> {}, inputs |-> {}, done |-> {}]

ConnectionTypeOK ==
  /\ ctx \in {"none", "ready", "failed"}
  /\ lossPosted \in BOOLEAN
  /\ reconnectTimer \in BOOLEAN
  /\ watcher \in {"off", "down", "ready"}
  /\ due \in 0 .. MaxDue
  /\ stopping \in BOOLEAN
  /\ phase \in {"loop", "apply", "flush", "restore"}

VolumesTypeOK ==
  /\ pendingVolumes \in [Name -> Volume \cup {None}]
  /\ pendingChannelVolumes \in [Name -> Volume \cup {None}]
  /\ appVolumes \in [Name -> Volume]

MutesTypeOK ==
  /\ pendingMutes \in [Name -> BOOLEAN \cup {None}]
  /\ appMutes \in [Name -> BOOLEAN]

SinksTypeOK ==
  /\ pendingSinks \in [Name -> Sink \cup {None}]
  /\ pendingSinkClears \in SUBSET Name

DuckingTypeOK ==
  /\ duckingActive \in BOOLEAN
  /\ duckingSnapshot \in SUBSET Entry
  /\ restoring \in [entries : SUBSET Entry, inputs : SUBSET Stream, done : SUBSET Stream]

TypeOK ==
  /\ ServerTypeOK
  /\ ConnectionTypeOK
  /\ VolumesTypeOK
  /\ MutesTypeOK
  /\ SinksTypeOK
  /\ DuckingTypeOK

Init ==
  /\ ServerInit
  /\ ctx = "none" /\ lossPosted = FALSE
  /\ reconnectTimer = TRUE      \* init() is about to call attemptReconnect
  /\ watcher = "off" /\ due = 0 /\ stopping = FALSE /\ phase = "loop"
  /\ pendingVolumes = [k \in Name |-> None]
  /\ pendingChannelVolumes = [k \in Name |-> None]
  /\ pendingMutes = [k \in Name |-> None]
  /\ pendingSinks = [k \in Name |-> None]
  /\ pendingSinkClears = {}
  /\ appVolumes = [k \in Name |-> MaxVolume]   \* value(app, 1.0)
  /\ appMutes = [k \in Name |-> FALSE]         \* value(app, false)
  /\ duckingActive = FALSE /\ duckingSnapshot = {}
  /\ restoring = Idle

-----------------------------------------------------------------------------
(* Operations on the daemon. *)

\* What becomes of an operation on one stream: "done"; "lost" (it fails or
\* times out without effect); "late" (it times out, yet takes effect);
\* "gone" (the stream ends first and the operation completes on nothing,
\* which waitForOperation reports as success).
Outcome == {"done"} \cup (Trouble \ {"unread"})

\* A list or database read that times out yields nothing.
Reads == IF "unread" \in Trouble THEN BOOLEAN ELSE {TRUE}

Reported(o, S) == {s \in S : o[s] \in {"done", "gone"}}
Taken(o, S) == {s \in S : o[s] \in {"done", "late"}}
Ended(o, S) == {s \in S : o[s] = "gone"}

\* Mutant: the result of the write is not looked at.
VolumeReportedAlways(o, S) == S

\* Volumes are written to the PipeWire node when there is one.  That needs the
\* registry, and a node that is gone is an error there (setNodeProps).
VolumeReported(o, S) == IF PipeWire THEN {s \in S : pwUp /\ o[s] = "done"} ELSE Reported(o, S)
VolumeTaken(o, S) == IF PipeWire /\ ~pwUp THEN {} ELSE Taken(o, S)

\* contextReady() and getSinkInputs().
Inputs(read) == IF ctx = "ready" /\ read THEN Active ELSE {}

\* A database entry that can be read.
Stored(a, read) == ctx = "ready" /\ read /\ db[a] # None

\* A database entry is written with apply_immediately: native PulseAudio gives
\* it to the running streams at once, pipewire-pulse only stores it.
Follow(a) == IF PipeWire THEN {} ELSE {s \in Active : AppOf[s] = a}

\* Rewriting the entries of the applications A with the devices dev.  v, m, d:
\* volume, mute and device of the streams by then.  The rest of an entry is
\* written back as it was read, and native PulseAudio has saved in it
\* whichever running stream changed last.
RewriteDevices(A, dev, v, m, d) ==
  \E last \in [App -> Stream] :
    LET follows(s) == AppOf[s] \in A /\ s \in Follow(AppOf[s])
        entry(a) == IF Follow(a) = {} THEN [db[a] EXCEPT !.device = dev[a]]
                    ELSE [vol |-> v[last[a]], muted |-> m[last[a]], device |-> dev[a]]
    IN
    /\ \A a \in A : Follow(a) # {} => last[a] \in Follow(a)
    /\ db' = [a \in App |-> IF a \in A THEN entry(a) ELSE db[a]]
    /\ vol' = [s \in Stream |-> IF follows(s) THEN v[last[AppOf[s]]] ELSE v[s]]
    /\ muted' = [s \in Stream |-> IF follows(s) THEN m[last[AppOf[s]]] ELSE m[s]]
    /\ sink' = [s \in Stream |->
                  IF follows(s) /\ dev[AppOf[s]] # None THEN dev[AppOf[s]] ELSE d[s]]

\* The applications A, of those with an entry, lose their device.
ClearDevices(A) ==
  RewriteDevices({a \in A : db[a] # None}, [a \in App |-> None], vol, muted, sink)

LoseStreams(S) == life' = [s \in Stream |-> IF s \in S THEN "gone" ELSE life[s]]

\* Mutant: no lower bound.
ClampAbove(v, lo, hi) == IF hi < v THEN hi ELSE v

Clamp(v, lo, hi) == IF v < lo THEN lo ELSE IF hi < v THEN hi ELSE v

\* The sanitised bounds: swapped when given the wrong way round.
Low(l) == IF l[1] <= l[2] THEN l[1] ELSE l[2]
High(l) == IF l[1] <= l[2] THEN l[2] ELSE l[1]

-----------------------------------------------------------------------------
(* Volume requests.  f gives the new volume for an old one. *)

Cached(k, v, m) ==
  /\ appVolumes' = [appVolumes EXCEPT ![k] = v]
  /\ appMutes' = [appMutes EXCEPT ![k] = m]

RemovePendingVolume(k) ==
  /\ pendingVolumes' = [pendingVolumes EXCEPT ![k] = None]
  /\ pendingChannelVolumes' = [pendingChannelVolumes EXCEPT ![k] = None]

ParkPendingVolume(k, v) ==
  /\ pendingChannelVolumes' = [pendingChannelVolumes EXCEPT ![k] = None]
  /\ pendingVolumes' = [pendingVolumes EXCEPT ![k] = v]

\* Mutant: the plain volume stays.
ParkChannelsOnly(k, v) ==
  /\ pendingChannelVolumes' = [pendingChannelVolumes EXCEPT ![k] = v]
  /\ UNCHANGED pendingVolumes

ParkPendingChannelVolumes(k, v) ==
  /\ pendingVolumes' = [pendingVolumes EXCEPT ![k] = None]
  /\ pendingChannelVolumes' = [pendingChannelVolumes EXCEPT ![k] = v]

\* The volumes after f was written to the streams S with outcomes o.
After(f, S, o, before) ==
  [s \in Stream |-> IF s \in VolumeTaken(o, S) THEN f[before[s]] ELSE before[s]]

\* Levels 1 and 2: every stream of S is written, and the request is
\* satisfied when at least one write is reported to have succeeded.
WriteStreams(k, f, S, o, before) ==
  LET ok == VolumeReported(o, S) IN
  /\ ok # {}
  /\ vol' = After(f, S, o, before)
  /\ LoseStreams(Ended(o, S))
  /\ Cached(k, f[before[First(ok)]], muted[Last(ok)])
  /\ RemovePendingVolume(k)
  /\ UNCHANGED <<muted, db>>

\* Level 3: the database entry.  A write that was sent takes effect, here and in
\* MuteStored, RestoreStored and those of the devices; the code neither waits for
\* one nor looks at its result.
WriteStored(k, f, before) ==
  LET a == Denotes[k]
      v == f[db[a].vol]
  IN
  /\ db' = [db EXCEPT ![a].vol = v]
  /\ vol' = [s \in Stream |-> IF s \in Follow(a) THEN v ELSE before[s]]
  /\ muted' = [s \in Stream |-> IF s \in Follow(a) THEN db[a].muted ELSE muted[s]]
  /\ Cached(k, v, appMutes[k])
  /\ IF PipeWire THEN ParkPendingVolume(k, v) ELSE RemovePendingVolume(k)
  /\ UNCHANGED life

\* Level 4: park it.
ParkRequest(k, f, before) ==
  LET v == f[appVolumes[k]] IN
  /\ vol' = before
  /\ Cached(k, v, appMutes[k])
  /\ ParkPendingVolume(k, v)
  /\ UNCHANGED <<life, muted, db>>

\* The cascade of doChangeVolume and setAppVolume.  o: outcomes of the
\* sink-input writes; p: of the node writes, which come after them.
VolumeCascade(k, f) ==
  /\ \E readInputs \in Reads, readDb \in Reads, o \in [Stream -> Outcome] :
       LET S == Inputs(readInputs) \cap StreamsOf(k)
           N == NodesOf(k)
           mid == After(f, S, o, vol)
       IN
       \/ WriteStreams(k, f, S, o, vol)
       \/ /\ VolumeReported(o, S) = {}
          /\ \E p \in [Stream -> Outcome] :
               \/ WriteStreams(k, f, N, p, mid)
               \/ /\ VolumeReported(p, N) = {}
                  /\ IF Stored(Denotes[k], readDb)
                     THEN WriteStored(k, f, After(f, N, p, mid))
                     ELSE ParkRequest(k, f, After(f, N, p, mid))
  /\ UNCHANGED <<paUp, pwUp, sink, client>>

Relative(d, l) == [v \in Volume |-> Clamp(v + d, Low(l), High(l))]
Absolute(t, l) == [v \in Volume |-> Clamp(t, Low(l), High(l))]

Ready == phase = "loop" /\ ~stopping

DoChangeVolume(k, d, l) ==
  /\ Ready
  /\ VolumeCascade(k, Relative(d, l))
  /\ UNCHANGED <<connVars, phase, pendingMutes, sinkPending, duckVars>>

SetAppVolume(k, t, l) ==
  /\ Ready
  /\ VolumeCascade(k, Absolute(t, l))
  /\ UNCHANGED <<connVars, phase, pendingMutes, sinkPending, duckVars>>

-----------------------------------------------------------------------------
(* Mute requests: only the first stream found is switched, and the request *)
(* ends there when the operation fails.  g gives the new state.            *)

MuteStream(k, g, s, o) ==
  LET m == g[muted[s]]
      ok == m = muted[s] \/ s \in Reported(o, {s})
  IN
  /\ muted' = [muted EXCEPT ![s] = IF s \in Taken(o, {s}) THEN m ELSE @]
  /\ LoseStreams(IF m = muted[s] THEN {} ELSE Ended(o, {s}))
  /\ IF ok
     THEN /\ Cached(k, vol[s], m)
          /\ pendingMutes' = [pendingMutes EXCEPT ![k] = None]
     ELSE UNCHANGED <<cacheVars, pendingMutes>>
  /\ UNCHANGED <<vol, db>>

MuteStored(k, g) ==
  LET a == Denotes[k]
      m == g[db[a].muted]
  IN
  /\ db' = [db EXCEPT ![a].muted = m]
  /\ muted' = [s \in Stream |-> IF s \in Follow(a) THEN m ELSE muted[s]]
  /\ vol' = [s \in Stream |-> IF s \in Follow(a) THEN db[a].vol ELSE vol[s]]
  /\ Cached(k, appVolumes[k], m)
  /\ pendingMutes' = [pendingMutes EXCEPT ![k] = None]
  /\ UNCHANGED life

\* Mutant: satisfied although the write failed.
MuteNodeAnyway(k, g, s, p) ==
  /\ muted' = [muted EXCEPT ![s] = IF p[s] = "done" THEN g[@] ELSE @]
  /\ Cached(k, appVolumes[k], g[muted[s]])
  /\ pendingMutes' = [pendingMutes EXCEPT ![k] = None]
  /\ UNCHANGED <<life, vol, db>>

MuteNode(k, g, s, p) ==
  /\ p[s] = "done"
  /\ muted' = [muted EXCEPT ![s] = g[@]]
  /\ UNCHANGED life
  /\ Cached(k, appVolumes[k], g[muted[s]])
  /\ pendingMutes' = [pendingMutes EXCEPT ![k] = None]
  /\ UNCHANGED <<vol, db>>

\* late: the streams a node write reached although it was reported failed.
ParkMute(k, g, late) ==
  LET m == g[appMutes[k]] IN
  /\ muted' = [s \in Stream |-> IF s \in late THEN g[muted[s]] ELSE muted[s]]
  /\ Cached(k, appVolumes[k], m)
  /\ pendingMutes' = [pendingMutes EXCEPT ![k] = m]
  /\ UNCHANGED <<life, vol, db>>

MuteCascade(k, g) ==
  /\ \E readInputs \in Reads, readDb \in Reads, o \in [Stream -> Outcome] :
       LET S == Inputs(readInputs) \cap StreamsOf(k)
           N == NodesOf(k)
       IN
       IF S # {} THEN MuteStream(k, g, First(S), o)
       ELSE IF Stored(Denotes[k], readDb) THEN MuteStored(k, g)
       ELSE IF N = {} THEN ParkMute(k, g, {})
       ELSE \/ MuteNode(k, g, First(N), o)
            \/ /\ o[First(N)] # "done"
               /\ ParkMute(k, g, Taken(o, {First(N)}))
  /\ UNCHANGED <<paUp, pwUp, sink, client>>

Toggled == [m \in BOOLEAN |-> ~m]
Switched(target) == [m \in BOOLEAN |-> target]

DoToggleMute(k) ==
  /\ Ready
  /\ MuteCascade(k, Toggled)
  /\ UNCHANGED <<connVars, phase, volumePending, sinkPending, duckVars>>

SetAppMute(k, target) ==
  /\ Ready
  /\ MuteCascade(k, Switched(target))
  /\ UNCHANGED <<connVars, phase, volumePending, sinkPending, duckVars>>

\* Reads the state of the first place that has one into the cache.
DoQueryVolume(k) ==
  /\ Ready
  /\ \E readInputs \in Reads, readDb \in Reads :
       LET S == Inputs(readInputs) \cap StreamsOf(k)
           N == NodesOf(k)
           e == db[Denotes[k]]
       IN
       IF S # {} THEN Cached(k, vol[First(S)], muted[First(S)])
       ELSE IF Stored(Denotes[k], readDb) THEN Cached(k, e.vol, e.muted)
       ELSE IF N # {} THEN Cached(k, vol[First(N)], muted[First(N)])
       ELSE UNCHANGED cacheVars
  /\ UNCHANGED <<serverVars, connVars, phase, pendingVars, duckVars>>

-----------------------------------------------------------------------------
(* Replaying parked values: doApplyPending.                                *)

HasVolume(k) == pendingVolumes[k] # None \/ pendingChannelVolumes[k] # None
HasPending(k) == HasVolume(k) \/ pendingMutes[k] # None \/ pendingSinks[k] # None

\* Mutant: the application is not compared.
PendingOnAny(map, s) == {k \in Name : map[k] # None}

\* The names with a value in map that match stream s.
PendingOn(map, s) == {k \in Name : map[k] # None /\ s \in StreamsOf(k)}

\* The maps are replayed one after the other, each in key order, so the
\* last write wins: exact channels, then volumes; and for mutes those that
\* go with channels, those that go with volumes, then the others.
VolumeReplayed(s) ==
  LET C == PendingOn(pendingChannelVolumes, s)
      V == PendingOn(pendingVolumes, s)
  IN
  IF V # {} THEN pendingVolumes[Last(V)]
  ELSE IF C # {} THEN pendingChannelVolumes[Last(C)]
  ELSE vol[s]

MuteReplayed(s) ==
  LET M == PendingOn(pendingMutes, s)
      alone == {k \in M : ~HasVolume(k)}
      withVolume == {k \in M : pendingVolumes[k] # None}
  IN
  IF M = {} THEN muted[s]
  ELSE IF alone # {} THEN pendingMutes[Last(alone)]
  ELSE IF withVolume # {} THEN pendingMutes[Last(withVolume)]
  ELSE pendingMutes[Last(M)]

\* Mutants: a failed volume write, or a failed mute, counts as applied.
AppliedWithoutVolume(S, o, m) ==
  {k \in Name :
     /\ HasVolume(k) \/ pendingMutes[k] # None
     /\ \E s \in S \cap StreamsOf(k) : pendingMutes[k] # None => s \in Reported(m, S)}
AppliedWithoutMute(S, o, m) ==
  {k \in Name :
     /\ HasVolume(k) \/ pendingMutes[k] # None
     /\ \E s \in S \cap StreamsOf(k) : HasVolume(k) => s \in VolumeReported(o, S)}

\* The names whose volume and mute some stream took in full.
Applied(S, o, m) ==
  {k \in Name :
     /\ HasVolume(k) \/ pendingMutes[k] # None
     /\ \E s \in S \cap StreamsOf(k) :
          /\ HasVolume(k) => s \in VolumeReported(o, S)
          /\ pendingMutes[k] # None => s \in Reported(m, S)}

\* Mutant: the result of the move is not looked at.
RoutedUnmoved(S, o, r) == {k \in Name : pendingSinks[k] # None /\ S \cap StreamsOf(k) # {}}

\* The names some stream was moved for, with its exact volume written back:
\* to its node if that could be read, else to the sink input.  A move reports
\* failure when the stream or the sink does not exist.
Routed(S, o, r) ==
  {k \in Name :
     /\ pendingSinks[k] # None
     /\ \E s \in S \cap StreamsOf(k) :
          /\ r[s] = "done"
          /\ o[s] = "done" \/ (o[s] = "gone" /\ ~(PipeWire /\ pwUp))}

\* Of the routed names, those whose database entry takes the device.
Persisted(K, readDb) == {k \in K : Stored(Denotes[k], readDb)}

\* S: the inputs listed; o, m, r: outcomes of the volume, mute and move
\* operations on them.
ReplayTo(S, readDb, o, m, r) ==
  LET applied == Applied(S, o, m)
      persisted == Persisted(Routed(S, o, r), readDb)
      moved(s) == s \in Taken(r, S) /\ PendingOn(pendingSinks, s) # {}
  IN
  /\ \E dev \in [App -> Sink] :  \* a QSet is iterated in no particular order
       /\ \A k \in persisted : \E j \in persisted :
            Denotes[j] = Denotes[k] /\ dev[Denotes[k]] = pendingSinks[j]
       /\ RewriteDevices(
            {Denotes[k] : k \in persisted}, dev,
            [s \in Stream |-> IF s \in VolumeTaken(o, S) THEN VolumeReplayed(s) ELSE vol[s]],
            [s \in Stream |-> IF s \in Taken(m, S) THEN MuteReplayed(s) ELSE muted[s]],
            [s \in Stream |->
               IF moved(s) THEN pendingSinks[Last(PendingOn(pendingSinks, s))] ELSE sink[s]])
  /\ LoseStreams({s \in S : "gone" \in {o[s], m[s], r[s]}
                            /\ \E k \in Name : HasPending(k) /\ s \in StreamsOf(k)})
  /\ pendingVolumes' =
       [k \in Name |-> IF k \in applied THEN None ELSE pendingVolumes[k]]
  /\ pendingChannelVolumes' =
       [k \in Name |-> IF k \in applied THEN None ELSE pendingChannelVolumes[k]]
  /\ pendingMutes' = [k \in Name |-> IF k \in applied THEN None ELSE pendingMutes[k]]
  /\ pendingSinks' = [k \in Name |-> IF k \in persisted THEN None ELSE pendingSinks[k]]

ReplayPending ==
  \E readInputs \in Reads, readDb \in Reads,
     o \in [Stream -> Outcome], m \in [Stream -> Outcome], r \in [Stream -> Outcome] :
    ReplayTo(Inputs(readInputs), readDb, o, m, r)

DoApplyPending ==
  /\ IF stopping \/ ctx # "ready" \/ \A k \in Name : ~HasPending(k)
     THEN UNCHANGED <<vol, muted, sink, life, db, volumePending, pendingMutes, pendingSinks>>
     ELSE ReplayPending
  /\ UNCHANGED <<paUp, pwUp, client, pendingSinkClears, cacheVars, duckVars>>

\* Mutant: the timer does nothing.
ApplyPendingIgnored ==
  /\ phase = "loop" /\ due > 0
  /\ due' = due - 1
  /\ UNCHANGED <<serverVars, ctx, lossPosted, reconnectTimer, watcher, stopping, phase,
                 pendingVars, cacheVars, duckVars>>

\* The one-shot timer started when a sink input appeared.
ApplyPendingTimer ==
  /\ phase = "loop" /\ due > 0
  /\ due' = due - 1
  /\ DoApplyPending
  /\ UNCHANGED <<ctx, lossPosted, reconnectTimer, watcher, stopping, phase>>

-----------------------------------------------------------------------------
(* Output routing.                                                         *)

\* Mutant: an earlier request to clear the route stays parked.
SetAppSinkKeepsClear(k, d) ==
  /\ Ready
  /\ pendingSinks' = [pendingSinks EXCEPT ![k] = d]
  /\ UNCHANGED <<serverVars, connVars, phase, volumePending, pendingMutes, pendingSinkClears,
                 cacheVars, duckVars>>

DoSetAppSink(k, d) ==
  /\ Ready
  /\ \E readInputs \in Reads, readDb \in Reads,
        o \in [Stream -> Outcome], r \in [Stream -> Outcome] :
       LET S == Inputs(readInputs) \cap StreamsOf(k) IN
       /\ LoseStreams(Ended(r, S) \cup Ended(o, S))
       /\ RewriteDevices({a \in {Denotes[k]} : Stored(a, readDb)}, [a \in App |-> d],
                         vol, muted,
                         [s \in Stream |-> IF s \in Taken(r, S) THEN d ELSE sink[s]])
  /\ pendingSinkClears' = pendingSinkClears \ {k}
  /\ pendingSinks' = [pendingSinks EXCEPT ![k] = d]
  /\ UNCHANGED <<paUp, pwUp, client, connVars, phase, volumePending, pendingMutes,
                 cacheVars, duckVars>>

DoClearAppSinkOverride(k) ==
  /\ Ready
  /\ pendingSinks' = [pendingSinks EXCEPT ![k] = None]
  /\ IF ctx # "ready"
     THEN /\ pendingSinkClears' = pendingSinkClears \cup {k}
          /\ UNCHANGED <<vol, muted, sink, db>>
     ELSE /\ pendingSinkClears' = pendingSinkClears \ {k}
          /\ \E readDb \in Reads : ClearDevices(IF readDb THEN {Denotes[k]} ELSE {})
  /\ UNCHANGED <<paUp, pwUp, life, client, connVars, phase, volumePending, pendingMutes,
                 cacheVars, duckVars>>

\* The parked clears are carried out one by one; each is forgotten whether
\* or not its database write succeeded.
DoFlushPendingSinkClears ==
  IF stopping \/ ctx # "ready"
  THEN UNCHANGED <<vol, muted, sink, db, pendingSinkClears>>
  ELSE /\ \E written \in SUBSET {Denotes[k] : k \in pendingSinkClears} :
            /\ Reads = {TRUE} => written = {Denotes[k] : k \in pendingSinkClears}
            /\ ClearDevices(written)
       /\ pendingSinkClears' = {}

-----------------------------------------------------------------------------
(* The context: attemptReconnect and handleContextLost.                    *)

\* Mutants: the context is made once only; the worker is stopping.
ConnectOnce ==
  /\ phase = "loop" /\ reconnectTimer /\ ~stopping /\ ctx # "ready" /\ watcher = "off"
  /\ paUp
  /\ ctx' = "ready" /\ reconnectTimer' = FALSE /\ watcher' = "down" /\ phase' = "apply"
  /\ UNCHANGED <<serverVars, lossPosted, due, stopping, pendingVars, cacheVars, duckVars>>
ConnectWhileStopping ==
  /\ phase = "loop" /\ reconnectTimer /\ ctx # "ready"
  /\ paUp
  /\ ctx' = "ready" /\ reconnectTimer' = FALSE /\ phase' = "apply"
  /\ watcher' = IF watcher = "off" THEN "down" ELSE watcher
  /\ UNCHANGED <<serverVars, lossPosted, due, stopping, pendingVars, cacheVars, duckVars>>

ConnectContext ==
  /\ phase = "loop" /\ reconnectTimer /\ ~stopping /\ ctx # "ready"
  /\ paUp
  /\ ctx' = "ready"
  /\ reconnectTimer' = FALSE
  /\ watcher' = IF watcher = "off" THEN "down" ELSE watcher   \* startWatcher()
  /\ phase' = "apply"
  /\ UNCHANGED <<serverVars, lossPosted, due, stopping, pendingVars, cacheVars, duckVars>>

\* The daemon refuses or does not answer in time.  A refusal also goes
\* through the context's state callback, which posts handleContextLost.
ConnectFails ==
  /\ phase = "loop" /\ reconnectTimer /\ ~stopping /\ ctx # "ready"
  /\ ~paUp \/ "lost" \in Trouble
  /\ ctx' = "none"
  /\ lossPosted' \in {lossPosted, TRUE}
  /\ UNCHANGED <<serverVars, reconnectTimer, watcher, due, stopping, phase, pendingVars,
                 cacheVars, duckVars>>

\* attemptReconnect finds the context ready, or the worker is stopping.
ReconnectNotNeeded ==
  /\ phase = "loop" /\ reconnectTimer
  /\ stopping \/ ctx = "ready"
  /\ reconnectTimer' = FALSE
  /\ UNCHANGED <<serverVars, ctx, lossPosted, watcher, due, stopping, phase, pendingVars,
                 cacheVars, duckVars>>

\* Mutant: the parked clears are not flushed.
ReconnectAppliesOnly ==
  /\ phase = "apply"
  /\ DoApplyPending
  /\ phase' = "loop"
  /\ UNCHANGED connVars

\* The rest of a successful attemptReconnect.
ReconnectApplies ==
  /\ phase = "apply"
  /\ DoApplyPending
  /\ phase' = "flush"
  /\ UNCHANGED connVars

ReconnectFlushes ==
  /\ phase = "flush"
  /\ DoFlushPendingSinkClears
  /\ phase' = "loop"
  /\ UNCHANGED <<paUp, pwUp, life, client, connVars, volumePending, pendingMutes, pendingSinks,
                 cacheVars, duckVars>>

\* Mutant: the snapshot is dropped.
WithoutSnapshot(snapshot) == {}

\* The identity of a snapshot does not outlive the context it was read from.
WithoutIdentity(snapshot) == {[e EXCEPT !.index = None, !.node = None] : e \in snapshot}

\* Mutant: no reconnect is scheduled.
ContextLostForGood ==
  /\ phase = "loop" /\ lossPosted
  /\ lossPosted' = FALSE
  /\ IF stopping
     THEN UNCHANGED <<ctx, duckingSnapshot>>
     ELSE duckingSnapshot' = WithoutIdentity(duckingSnapshot) /\ ctx' = "none"
  /\ UNCHANGED <<serverVars, reconnectTimer, watcher, due, stopping, phase, pendingVars,
                 cacheVars, duckingActive, restoring>>

HandleContextLost ==
  /\ phase = "loop" /\ lossPosted
  /\ lossPosted' = FALSE
  /\ IF stopping
     THEN UNCHANGED <<ctx, reconnectTimer, duckingSnapshot>>
     ELSE /\ duckingSnapshot' = WithoutIdentity(duckingSnapshot)
          /\ ctx' = "none"
          /\ reconnectTimer' = TRUE
  /\ UNCHANGED <<serverVars, watcher, due, stopping, phase, pendingVars, cacheVars,
                 duckingActive, restoring>>

-----------------------------------------------------------------------------
(* Focus Audio: doToggleDucking.                                           *)

NodeKnown(s) == IF PipeWire /\ pwUp THEN s ELSE None

\* Mutant: the remembered volume of the application, not of the stream.
InputEntryCached(s) ==
  [app |-> AppOf[s], from |-> s, index |-> s, node |-> NodeKnown(s),
   exact |-> IF NodeKnown(s) = None THEN {"pulse"} ELSE {"pulse", "visible"},
   vol |-> appVolumes[TargetName[AppOf[s]]]]

InputEntry(s) ==
  [app |-> AppOf[s], from |-> s, index |-> s, node |-> NodeKnown(s),
   exact |-> IF NodeKnown(s) = None THEN {"pulse"} ELSE {"pulse", "visible"}, vol |-> vol[s]]

NodeEntry(s) ==
  [app |-> AppOf[s], from |-> s, index |-> None, node |-> s, exact |-> {"visible"},
   vol |-> vol[s]]

\* An application known by its PipeWire client only.
ClientEntry(a, read) ==
  [app |-> a, from |-> None, index |-> None, node |-> None,
   exact |-> IF Stored(a, read) THEN {"pulse", "visible"} ELSE {},
   vol |-> IF Stored(a, read) THEN db[a].vol ELSE MaxVolume]

\* The applications doListApps lists as idle and that are not the kept one,
\* which is compared by its listed name here.  heard: the inputs listed.
IdleApps(keep, heard) ==
  {a \in client : pwUp /\ (\A s \in heard : AppOf[s] # a) /\ keep # TargetName[a]}

\* heard: the inputs listed; o: outcomes of the writes.
LowerOthers(keep, d, heard, readDb, o) ==
  LET idle == IdleApps(keep, heard)
      inputs == {s \in heard : AppOf[s] # Denotes[keep] /\ vol[s] # d}
      nodes == {s \in Stream : Live(s) /\ AppOf[s] \in idle /\ vol[s] # d}
      bare == {a \in idle : /\ \A s \in Stream : Live(s) => AppOf[s] # a
                            /\ ClientEntry(a, readDb).vol # d}
      written == inputs \cup nodes
      parked == {TargetName[a] : a \in bare}
      snapshot == {InputEntry(s) : s \in VolumeReported(o, inputs)}
                  \cup {NodeEntry(s) : s \in VolumeReported(o, nodes)}
                  \cup {ClientEntry(a, readDb) : a \in bare}
  IN
  /\ vol' = [s \in Stream |-> IF s \in VolumeTaken(o, written) THEN d ELSE vol[s]]
  /\ LoseStreams(Ended(o, written))
  \* setAppVolume of an application without streams
  /\ db' = [a \in App |-> IF a \in bare /\ Stored(a, readDb)
                          THEN [db[a] EXCEPT !.vol = d] ELSE db[a]]
  /\ pendingVolumes' = [k \in Name |-> IF k \in parked THEN d ELSE pendingVolumes[k]]
  /\ pendingChannelVolumes' =
       [k \in Name |-> IF k \in parked THEN None ELSE pendingChannelVolumes[k]]
  /\ appVolumes' = [k \in Name |-> IF k \in parked THEN d ELSE appVolumes[k]]
  /\ duckingSnapshot' = snapshot
  /\ duckingActive' = (snapshot # {})

StartDucking(keep, d) ==
  /\ Ready /\ ~duckingActive
  /\ \E readInputs \in Reads, readDb \in Reads, o \in [Stream -> Outcome] :
       LowerOthers(keep, d, Inputs(readInputs), readDb, o)
  /\ UNCHANGED <<paUp, pwUp, muted, sink, client, connVars, phase, pendingMutes, sinkPending,
                 appMutes, restoring>>

\* The second toggle, whatever it keeps: the list of inputs is read once,
\* then the snapshots are restored one after the other.
StopDucking ==
  /\ Ready /\ duckingActive
  /\ duckingActive' = FALSE
  /\ duckingSnapshot' = {}
  /\ \E readInputs \in Reads :
       restoring' = [entries |-> duckingSnapshot, inputs |-> Inputs(readInputs), done |-> {}]
  /\ phase' = "restore"
  /\ UNCHANGED <<serverVars, connVars, pendingVars, cacheVars>>

\* Mutant: any input of the application will do.
InputsOfApp(e) == {s \in restoring.inputs \ restoring.done : AppOf[s] = e.app}

\* The listed inputs an entry may be restored to: of its application, not
\* taken by an earlier entry, and the remembered one if one is remembered.
InputsFor(e) ==
  {s \in restoring.inputs \ restoring.done : AppOf[s] = e.app /\ e.index \in {None, s}}

NodesFor(e) ==
  {s \in NodesOf(TargetName[e.app]) \ restoring.done :
     "visible" \in e.exact /\ e.node \in {None, s}}

\* The exact write to a listed input goes to the node, then to the sink input;
\* the latter reports success also when the stream has ended, and never once
\* the worker is stopping (waitForOperation gives up).
Writable(e) == \/ PipeWire /\ pwUp /\ "visible" \in e.exact
               \/ ctx = "ready" /\ "pulse" \in e.exact
InputRestored(e, s, o) ==
  \/ Live(s) /\ o[s] = "done" /\ (stopping => PipeWire /\ pwUp /\ "visible" \in e.exact)
  \/ ~stopping /\ (~Live(s) \/ o[s] = "gone") /\ ctx = "ready" /\ "pulse" \in e.exact

RestoreStream(e, s, o) ==
  /\ vol' = [vol EXCEPT ![s] = IF Live(s) /\ o[s] = "done" THEN e.vol ELSE @]
  /\ LoseStreams(IF Live(s) THEN Ended(o, {s}) ELSE {})
  /\ restoring' = [restoring EXCEPT !.entries = @ \ {e}, !.done = @ \cup {s}]
  /\ UNCHANGED <<muted, db, volumePending, cacheVars>>

\* The application's database entry takes the snapshot instead; on
\* pipewire-pulse it is also parked under the application's name.
RestoreStored(e) ==
  /\ db' = [db EXCEPT ![e.app].vol = e.vol]
  /\ vol' = [s \in Stream |-> IF s \in Follow(e.app) THEN e.vol ELSE vol[s]]
  /\ muted' = [s \in Stream |-> IF s \in Follow(e.app) THEN db[e.app].muted ELSE muted[s]]
  /\ IF PipeWire THEN ParkPendingChannelVolumes(TargetName[e.app], e.vol)
     ELSE UNCHANGED volumePending
  /\ restoring' = [restoring EXCEPT !.entries = @ \ {e}]
  /\ UNCHANGED <<life, cacheVars>>

\* Nothing could be written: setAppVolume, which sets every stream of the
\* application to this volume.
RestoreByRequest(e) ==
  /\ restoring' = [restoring EXCEPT !.entries = @ \ {e}]
  /\ VolumeCascade(TargetName[e.app], [v \in Volume |-> e.vol])

\* A stopping worker waits for no operation and makes no further request:
\* the write it issued to the input may or may not take effect.
AbandonEntry(e, issued) ==
  /\ restoring' = [restoring EXCEPT !.entries = @ \ {e}]
  /\ \E S \in {{}, issued} :
       vol' = [s \in Stream |-> IF s \in S /\ Live(s) THEN e.vol ELSE vol[s]]
  /\ UNCHANGED <<life, muted, db, volumePending, cacheVars>>

\* The cascade for one entry.  A write that is late counts as lost here: the
\* next level writes the same volume again.
RestoreEntry(e) ==
  \E readDb \in Reads, o \in [Stream -> Outcome], p \in [Stream -> Outcome] :
    LET I == IF Writable(e) THEN InputsFor(e) ELSE {}
        N == NodesFor(e)
        byInput == I # {} /\ InputRestored(e, First(I), o)
        byNode == N # {} /\ p[First(N)] = "done"
    IN
    \/ byInput /\ RestoreStream(e, First(I), o)
    \/ ~byInput /\ byNode /\ RestoreStream(e, First(N), p)
    \/ /\ ~byInput /\ ~byNode
       /\ IF stopping THEN AbandonEntry(e, IF I = {} THEN {} ELSE {First(I)})
          ELSE IF "pulse" \in e.exact /\ Stored(e.app, readDb) THEN RestoreStored(e)
          ELSE RestoreByRequest(e)

\* Entries are in snapshot order: inputs, nodes, then bare clients.
Kind(e) == IF e.from = None THEN 2 ELSE IF "pulse" \in e.exact THEN 0 ELSE 1
Before(e, f) == \/ Kind(e) < Kind(f)
                \/ Kind(e) = Kind(f) /\ Kind(e) < 2 /\ e.from < f.from

RestoreNext ==
  /\ phase = "restore"
  /\ \E e \in restoring.entries :
       /\ \A f \in restoring.entries : ~Before(f, e)
       /\ RestoreEntry(e)
  /\ UNCHANGED <<paUp, pwUp, sink, client, connVars, phase, pendingMutes, sinkPending,
                 duckingActive, duckingSnapshot>>

RestoreEnds ==
  /\ phase = "restore" /\ restoring.entries = {}
  /\ restoring' = Idle
  /\ phase' = "loop"
  /\ UNCHANGED <<serverVars, connVars, pendingVars, cacheVars, duckingActive, duckingSnapshot>>

-----------------------------------------------------------------------------
(* Shutdown: requestStop is called from the main thread at any moment,     *)
(* cleanup is then run by the event loop.                                  *)

RequestStop ==
  /\ MayStop /\ ~stopping
  /\ stopping' = TRUE
  /\ UNCHANGED <<serverVars, ctx, lossPosted, reconnectTimer, watcher, due, phase, pendingVars,
                 cacheVars, duckVars>>

\* Mutant: only a connected worker is torn down.
CleanupConnected ==
  /\ stopping /\ phase = "loop" /\ ctx = "ready"
  /\ ctx' = "none"
  /\ watcher' = "off"
  /\ reconnectTimer' = FALSE
  /\ UNCHANGED <<serverVars, lossPosted, due, stopping, phase, pendingVars, cacheVars, duckVars>>

Cleanup ==
  /\ stopping /\ phase = "loop"
  /\ ctx # "none" \/ watcher # "off" \/ reconnectTimer
  /\ ctx' = "none"
  /\ watcher' = "off"
  /\ reconnectTimer' = FALSE
  /\ UNCHANGED <<serverVars, lossPosted, due, stopping, phase, pendingVars, cacheVars, duckVars>>

-----------------------------------------------------------------------------
(* The subscription thread and the world around.                           *)

WatcherConnects ==
  /\ watcher = "down" /\ paUp /\ ~stopping
  /\ watcher' = "ready"
  /\ UNCHANGED <<serverVars, ctx, lossPosted, reconnectTimer, due, stopping, phase, pendingVars,
                 cacheVars, duckVars>>

\* A NEW event reaches the worker only while the watcher is subscribed; its
\* slot starts a one-shot timer (at most MaxDue are counted).
Announced(appeared) ==
  due' = IF appeared /\ watcher = "ready" /\ ~stopping /\ due < MaxDue THEN due + 1 ELSE due

Opens(s) ==
  /\ StreamOpens(s)
  /\ Announced(life'[s] = "active")
  /\ UNCHANGED <<ctx, lossPosted, reconnectTimer, watcher, stopping, phase, pendingVars,
                 cacheVars, duckVars>>

Resumes(s) ==
  /\ StreamResumes(s)
  /\ Announced(TRUE)
  /\ UNCHANGED <<ctx, lossPosted, reconnectTimer, watcher, stopping, phase, pendingVars,
                 cacheVars, duckVars>>

\* Both connections break; the context's state callback posts its loss.
DaemonGone ==
  /\ DaemonStops
  /\ IF ctx = "ready"
     THEN /\ ctx' = "failed"
          /\ lossPosted' = (lossPosted \/ ~stopping)
     ELSE UNCHANGED <<ctx, lossPosted>>
  /\ watcher' = IF watcher = "ready" THEN "down" ELSE watcher
  /\ UNCHANGED <<reconnectTimer, due, stopping, phase, pendingVars, cacheVars, duckVars>>

Elsewhere ==
  /\ \/ \E s \in Stream : StreamPauses(s) \/ StreamCloses(s) \/ OtherMixer(s) \/ DatabaseSaves(s)
     \/ DaemonStarts
     \/ RegistryFlips
  /\ UNCHANGED <<connVars, phase, pendingVars, cacheVars, duckVars>>

-----------------------------------------------------------------------------
RequestFor(k) ==
  \/ \E d \in Deltas, l \in Limits : DoChangeVolume(k, d, l)
  \/ \E t \in Levels, l \in Limits : SetAppVolume(k, t, l)
  \/ "toggle" \in MuteOps /\ DoToggleMute(k)
  \/ "on" \in MuteOps /\ SetAppMute(k, TRUE)
  \/ "off" \in MuteOps /\ SetAppMute(k, FALSE)
  \/ k \in Queries /\ DoQueryVolume(k)
  \/ \E d \in Routes : DoSetAppSink(k, d)
  \/ Routes # {} /\ DoClearAppSinkOverride(k)
  \/ \E d \in Ducks : StartDucking(k, d)

Request == \E k \in Name : RequestFor(k)

Background ==
  \/ ConnectContext \/ ConnectFails \/ ReconnectNotNeeded
  \/ ReconnectApplies \/ ReconnectFlushes
  \/ HandleContextLost
  \/ ApplyPendingTimer
  \/ StopDucking \/ RestoreNext \/ RestoreEnds
  \/ RequestStop \/ Cleanup

World ==
  \/ WatcherConnects
  \/ \E s \in Stream : Opens(s) \/ Resumes(s)
  \/ DaemonGone
  \/ Elsewhere

Next == Request \/ Background \/ World

Spec == Init /\ [][Next]_vars

\* The event loop runs what is posted, timers fire, the subscription thread
\* keeps trying.  Nothing is assumed of users, applications and the daemon.
Fairness ==
  /\ WF_vars(ConnectContext)
  /\ WF_vars(ReconnectApplies) /\ WF_vars(ReconnectFlushes)
  /\ WF_vars(HandleContextLost)
  /\ WF_vars(ApplyPendingTimer)
  /\ WF_vars(RestoreNext) /\ WF_vars(RestoreEnds)
  /\ WF_vars(WatcherConnects)
  /\ WF_vars(Cleanup)

FairSpec == Spec /\ Fairness

-----------------------------------------------------------------------------
(* Properties.                                                             *)

\* An application has at most one kind of parked volume: the pass over the
\* exact channel volumes and the pass over the plain ones in doApplyPending
\* would otherwise both write, and the stale one could win.
OneParkedVolume ==
  \A k \in Name : pendingVolumes[k] = None \/ pendingChannelVolumes[k] = None

\* Without a context there is always something that will bring one back: the
\* reconnect timer runs, or the loss is still to be handled and will start it
\* (attemptReconnect, handleContextLost, scheduleReconnect).
NeverStranded ==
  ~stopping /\ ctx # "ready" => reconnectTimer \/ lossPosted

\* A request to drop a routing override waits only while there is no context;
\* it cannot be left behind once the reconnect is over.
ClearsWaitOnlyForContext ==
  ~stopping /\ ctx = "ready" /\ phase = "loop" => pendingSinkClears = {}

\* No application is both to be routed and to be un-routed (doSetAppSink and
\* doClearAppSinkOverride each withdraw the other).
RouteOrClear ==
  \A k \in pendingSinkClears : pendingSinks[k] = None

\* Focus Audio is on exactly while there is something to restore, and never
\* while a restore is under way: a second toggle always finds the snapshot
\* or starts anew.
DuckingHasSnapshot ==
  /\ duckingActive <=> duckingSnapshot # {}
  /\ phase = "restore" => ~duckingActive
  /\ phase # "restore" => restoring = Idle

\* A step of doApplyPending, called by the timer or by attemptReconnect.
Replays == due' < due \/ (phase = "apply" /\ phase' = "flush")

\* The values parked under any name of the application k denotes.
ParkedFor(map, k) == {map[j] : j \in {n \in Name : Denotes[n] = Denotes[k]}}

\* A parked volume leaves the maps only for a live stream that has it (or the
\* one parked under an alias, which is replayed with it), or for a newer
\* request whose volume reached a stream or the database: nothing a user asked
\* for is dropped when operations fail or time out halfway.
ParkedVolumeIsHandedOver ==
  [][\A k \in Name :
       HasVolume(k) /\ ~HasVolume(k)' =>
         LET wanted == IF Replays
                       THEN ParkedFor(pendingVolumes, k) \cup ParkedFor(pendingChannelVolumes, k)
                       ELSE {appVolumes'[k]}
         IN \/ \E s \in StreamsOf(k) : Live(s)' /\ vol'[s] \in wanted
            \/ db'[Denotes[k]] # None /\ db'[Denotes[k]].vol \in wanted]_vars

\* The same for a parked mute.
ParkedMuteIsHandedOver ==
  [][\A k \in Name :
       pendingMutes[k] # None /\ pendingMutes'[k] = None =>
         LET wanted == IF Replays THEN ParkedFor(pendingMutes, k) ELSE {appMutes'[k]}
         IN \/ \E s \in StreamsOf(k) : Live(s)' /\ muted'[s] \in wanted
            \/ db'[Denotes[k]] # None /\ db'[Denotes[k]].muted \in wanted]_vars

\* A parked volume is within the limits its request came with, whichever
\* level of the cascade parked it and however the limits were given.
ParkedWithinLimits ==
  Limits # {} =>
    \A k \in Name : pendingVolumes[k] # None =>
      \E l \in Limits : pendingVolumes[k] \in Low(l) .. High(l)

\* A parked route is given up only when a stream plays on the device and the
\* database holds it, or for a newer request (doApplyPending keeps it otherwise
\* for the next stream).  Under several names of one application the device is
\* one of those parked.
RouteKeptUntilStored ==
  [][\A k \in Name :
       Replays /\ pendingSinks[k] # None /\ pendingSinks'[k] = None =>
         LET wanted == ParkedFor(pendingSinks, k) \ {None} IN
         /\ \E s \in StreamsOf(k) : life[s] = "active" /\ sink'[s] \in wanted
         /\ db'[Denotes[k]] # None /\ db'[Denotes[k]].device \in wanted]_vars

\* Replaying writes nothing but what was parked: no reconnect and no stream
\* that appears changes a volume the user did not ask to change.
ReplayWritesOnlyParked ==
  [][Replays => \A s \in Stream :
       vol'[s] # vol[s] => \E k \in Name :
         s \in StreamsOf(k) /\ vol'[s] \in {pendingVolumes[k], pendingChannelVolumes[k]}]_vars

\* While the connection holds, restoring a snapshot whose stream is listed
\* gives that stream its volume back, if it is still there, and leaves every
\* other one alone, also those of the same application.
RestoreKeepsToItsStream ==
  [][\A e \in restoring.entries \ restoring'.entries :
       ctx = "ready" /\ phase' = "restore" /\ e.index # None
       /\ e.index \in restoring.inputs =>
         /\ ~stopping /\ Live(e.index)' => vol'[e.index] = e.vol
         /\ \A s \in Stream \ {e.index} : Live(s) => vol'[s] = vol[s]]_vars

\* Whatever Focus Audio lowers it can raise again: a stream whose volume it
\* changes is in the snapshot with the volume it had.
DuckedIsRemembered ==
  [][~duckingActive /\ phase = "loop" =>
       \A k \in Name, d \in Ducks : StartDucking(k, d) =>
         \A s \in Stream : vol'[s] # vol[s] =>
           \E e \in duckingSnapshot' : e.from = s /\ e.vol = vol[s]]_vars

\* After cleanup the worker stays down.
StaysDown ==
  [][stopping /\ ctx = "none" /\ watcher = "off" =>
       ctx' = "none" /\ watcher' = "off"]_vars

\* If the daemon stays, the worker is connected for good.
Reconnects == <>[](paUp /\ ~stopping) => <>[](ctx = "ready")

\* A parked volume whose stream was announced is applied, unless the stream
\* or the connection goes away first.
AnnouncedStreamIsServed ==
  \A k \in Name :
    (HasVolume(k) /\ due > 0 /\ ctx = "ready" /\ Active \cap StreamsOf(k) # {})
      ~> (~HasVolume(k) \/ ctx # "ready" \/ Active \cap StreamsOf(k) = {})

\* Stopping ends in a worker that is down.
StopCompletes == stopping ~> (ctx = "none" /\ watcher = "off" /\ ~reconnectTimer)
=============================================================================
