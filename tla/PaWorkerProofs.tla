--------------------------- MODULE PaWorkerProofs ---------------------------
(***************************************************************************)
(* What holds of PaWorker for every set of applications, names, streams    *)
(* and sinks, every request and every kind of trouble.                     *)
(***************************************************************************)
EXTENDS PaWorkerTypes, TLAPS

-----------------------------------------------------------------------------
(* The connection. *)

\* No request touches the connection, a timer or the shutdown flag.
LEMMA RequestKeepsConnection == Request => UNCHANGED <<connVars, phase>>
<1> SUFFICES ASSUME Request PROVE UNCHANGED <<connVars, phase>>
  OBVIOUS
<1> PICK k \in Name : RequestFor(k)
  BY DEF Request
<1>1. CASE \E d \in Deltas, l \in Limits : DoChangeVolume(k, d, l)
  BY <1>1 DEF DoChangeVolume
<1>2. CASE \E t \in Levels, l \in Limits : SetAppVolume(k, t, l)
  BY <1>2 DEF SetAppVolume
<1>3. CASE DoToggleMute(k)
  BY <1>3 DEF DoToggleMute
<1>4. CASE SetAppMute(k, TRUE) \/ SetAppMute(k, FALSE)
  BY <1>4 DEF SetAppMute
<1>5. CASE DoQueryVolume(k)
  BY <1>5 DEF DoQueryVolume
<1>6. CASE \E d \in Routes : DoSetAppSink(k, d)
  BY <1>6 DEF DoSetAppSink
<1>7. CASE DoClearAppSinkOverride(k)
  BY <1>7 DEF DoClearAppSinkOverride
<1>8. CASE \E d \in Ducks : StartDucking(k, d)
  BY <1>8 DEF StartDucking
<1> QED
  BY <1>1, <1>2, <1>3, <1>4, <1>5, <1>6, <1>7, <1>8 DEF RequestFor

\* Without a context the worker always has something under way that brings
\* one back (attemptReconnect, handleContextLost, scheduleReconnect).
THEOREM ConnectionIsNeverGivenUp == Spec => []NeverStranded
<1>1. Init => NeverStranded
  BY DEF Init, NeverStranded
<1>2. NeverStranded /\ [Next]_vars => NeverStranded'
  <2> SUFFICES ASSUME NeverStranded, [Next]_vars PROVE NeverStranded'
    OBVIOUS
  <2> USE DEF NeverStranded, connVars
  <2>1. CASE Request
    BY <2>1, RequestKeepsConnection
  <2>2. CASE ConnectContext
    BY <2>2 DEF ConnectContext
  <2>3. CASE ConnectFails
    BY <2>3 DEF ConnectFails
  <2>4. CASE ReconnectNotNeeded
    BY <2>4 DEF ReconnectNotNeeded
  <2>5. CASE HandleContextLost
    BY <2>5 DEF HandleContextLost
  <2>6. CASE ReconnectApplies \/ ReconnectFlushes \/ ApplyPendingTimer
    BY <2>6 DEF ReconnectApplies, ReconnectFlushes, ApplyPendingTimer
  <2>7. CASE StopDucking \/ RestoreNext \/ RestoreEnds
    BY <2>7 DEF StopDucking, RestoreNext, RestoreEnds
  <2>8. CASE RequestStop \/ Cleanup
    BY <2>8 DEF RequestStop, Cleanup
  <2>9. CASE DaemonGone
    BY <2>9 DEF DaemonGone
  <2>10. CASE WatcherConnects \/ (\E s \in Stream : Opens(s) \/ Resumes(s)) \/ Elsewhere
    BY <2>10 DEF WatcherConnects, Opens, Resumes, Elsewhere
  <2>11. CASE UNCHANGED vars
    BY <2>11 DEF vars
  <2> QED
    BY <2>1, <2>2, <2>3, <2>4, <2>5, <2>6, <2>7, <2>8, <2>9, <2>10, <2>11
       DEF Next, Background, World
<1> QED
  BY <1>1, <1>2, PTL DEF Spec

\* Once cleanup has run, nothing connects the worker or its watcher again
\* (the tests of m_stopping in attemptReconnect and PaWatcherThread::run).
THEOREM WorkerStaysDown == Spec => StaysDown
<1> DEFINE Down == stopping /\ ctx = "none" /\ watcher = "off"
<1>1. Down /\ [Next]_vars => (ctx' = "none" /\ watcher' = "off")
  <2> SUFFICES ASSUME Down, [Next]_vars PROVE ctx' = "none" /\ watcher' = "off"
    OBVIOUS
  <2> USE DEF connVars
  <2>1. CASE Request
    BY <2>1, RequestKeepsConnection
  <2>2. CASE ConnectContext \/ ConnectFails \/ ReconnectNotNeeded \/ HandleContextLost
    BY <2>2 DEF ConnectContext, ConnectFails, ReconnectNotNeeded, HandleContextLost
  <2>3. CASE ReconnectApplies \/ ReconnectFlushes \/ ApplyPendingTimer
    BY <2>3 DEF ReconnectApplies, ReconnectFlushes, ApplyPendingTimer
  <2>4. CASE StopDucking \/ RestoreNext \/ RestoreEnds
    BY <2>4 DEF StopDucking, RestoreNext, RestoreEnds
  <2>5. CASE RequestStop \/ Cleanup
    BY <2>5 DEF RequestStop, Cleanup
  <2>6. CASE WatcherConnects \/ DaemonGone
    BY <2>6 DEF WatcherConnects, DaemonGone
  <2>7. CASE (\E s \in Stream : Opens(s) \/ Resumes(s)) \/ Elsewhere
    BY <2>7 DEF Opens, Resumes, Elsewhere
  <2>8. CASE UNCHANGED vars
    BY <2>8 DEF vars
  <2> QED
    BY <2>1, <2>2, <2>3, <2>4, <2>5, <2>6, <2>7, <2>8 DEF Next, Background, World
<1>2. [Next]_vars => [Down => (ctx' = "none" /\ watcher' = "off")]_vars
  BY <1>1
<1> QED
  BY <1>2, PTL DEF Spec, StaysDown

-----------------------------------------------------------------------------
(* Requests to drop a route. *)

\* The parked clears of a connected worker are gone not only when it is idle
\* but also while it restores volumes: only a fresh context may find some.
ClearsInv ==
  ~stopping /\ ctx = "ready" /\ phase \in {"loop", "restore"} => pendingSinkClears = {}

\* What requests do to the parked clears of a connected worker.
LEMMA RequestAddsNoClear ==
  ASSUME Request, ClearsInv PROVE ClearsInv'
<1> PICK k \in Name : RequestFor(k)
  BY DEF Request
<1> USE RequestKeepsConnection DEF ClearsInv, connVars
<1>1. CASE DoClearAppSinkOverride(k)
  <2>1. CASE ctx # "ready"
    BY <2>1
  <2>2. CASE ctx = "ready"
    BY <1>1, <2>2 DEF DoClearAppSinkOverride
  <2> QED
    BY <2>1, <2>2
<1>2. CASE \E d \in Routes : DoSetAppSink(k, d)
  BY <1>2 DEF DoSetAppSink
<1>3. CASE \/ \E d \in Deltas, l \in Limits : DoChangeVolume(k, d, l)
           \/ \E t \in Levels, l \in Limits : SetAppVolume(k, t, l)
           \/ DoToggleMute(k)
           \/ SetAppMute(k, TRUE)
           \/ SetAppMute(k, FALSE)
           \/ DoQueryVolume(k)
           \/ \E d \in Ducks : StartDucking(k, d)
  BY <1>3 DEF DoChangeVolume, SetAppVolume, DoToggleMute, SetAppMute, DoQueryVolume,
              StartDucking, sinkPending, pendingVars
<1> QED
  BY <1>1, <1>2, <1>3 DEF RequestFor

\* No request to drop a routing override is left behind by a reconnect
\* (attemptReconnect calls doFlushPendingSinkClears before anything else runs).
THEOREM ClearsAreFlushed == Spec => []ClearsWaitOnlyForContext
<1>1. Init => ClearsInv
  BY DEF Init, ClearsInv
<1>2. ClearsInv /\ [Next]_vars => ClearsInv'
  <2> SUFFICES ASSUME ClearsInv, [Next]_vars PROVE ClearsInv'
    OBVIOUS
  <2> USE DEF ClearsInv, connVars, pendingVars, sinkPending
  <2>1. CASE Request
    BY <2>1, RequestAddsNoClear
  <2>2. CASE ConnectContext \/ ConnectFails \/ ReconnectNotNeeded \/ HandleContextLost
    BY <2>2 DEF ConnectContext, ConnectFails, ReconnectNotNeeded, HandleContextLost
  <2>3. CASE ReconnectApplies \/ ApplyPendingTimer
    BY <2>3 DEF ReconnectApplies, ApplyPendingTimer, DoApplyPending
  <2>4. CASE ReconnectFlushes
    BY <2>4 DEF ReconnectFlushes, DoFlushPendingSinkClears
  <2>5. CASE StopDucking \/ RestoreNext \/ RestoreEnds
    BY <2>5 DEF StopDucking, Ready, RestoreNext, RestoreEnds
  <2>6. CASE RequestStop \/ Cleanup
    BY <2>6 DEF RequestStop, Cleanup
  <2>7. CASE WatcherConnects \/ DaemonGone
    BY <2>7 DEF WatcherConnects, DaemonGone
  <2>8. CASE (\E s \in Stream : Opens(s) \/ Resumes(s)) \/ Elsewhere
    BY <2>8 DEF Opens, Resumes, Elsewhere
  <2>9. CASE UNCHANGED vars
    BY <2>9 DEF vars
  <2> QED
    BY <2>1, <2>2, <2>3, <2>4, <2>5, <2>6, <2>7, <2>8, <2>9 DEF Next, Background, World
<1>3. ClearsInv => ClearsWaitOnlyForContext
  BY DEF ClearsInv, ClearsWaitOnlyForContext
<1> QED
  BY <1>1, <1>2, <1>3, PTL DEF Spec

-----------------------------------------------------------------------------
(* Focus Audio. *)

\* A step that leaves Focus Audio alone.
LEMMA DuckingUntouched ==
  ASSUME DuckingHasSnapshot, UNCHANGED duckVars, phase' = "restore" <=> phase = "restore"
  PROVE  DuckingHasSnapshot'
BY DEF DuckingHasSnapshot, duckVars

\* Focus Audio is on exactly while there is a snapshot to restore, and a
\* restore under way is finished before the next toggle (doToggleDucking,
\* handleContextLost).
THEOREM DuckingKeepsItsSnapshot == Spec => []DuckingHasSnapshot
<1>1. Init => DuckingHasSnapshot
  BY DEF Init, DuckingHasSnapshot
<1>2. DuckingHasSnapshot /\ [Next]_vars => DuckingHasSnapshot'
  <2> SUFFICES ASSUME DuckingHasSnapshot, [Next]_vars PROVE DuckingHasSnapshot'
    OBVIOUS
  <2> DEFINE SameDucking == UNCHANGED duckVars /\ (phase' = "restore" <=> phase = "restore")
  <2>1. ASSUME NEW k \in Name, NEW d \in Ducks, StartDucking(k, d)
        PROVE  DuckingHasSnapshot'
    <3>1. duckingActive' = (duckingSnapshot' # {}) /\ UNCHANGED restoring
      BY <2>1 DEF StartDucking, LowerOthers
    <3>2. phase = "loop" /\ phase' = "loop"
      BY <2>1 DEF StartDucking, Ready
    <3> QED
      BY <3>1, <3>2 DEF DuckingHasSnapshot
  <2>2. CASE Request /\ ~\E k \in Name, d \in Ducks : StartDucking(k, d)
    <3>1. PICK k \in Name : RequestFor(k) /\ ~\E d \in Ducks : StartDucking(k, d)
      BY <2>2 DEF Request
    <3>2. UNCHANGED duckVars
      BY <3>1 DEF RequestFor, DoChangeVolume, SetAppVolume, DoToggleMute, SetAppMute,
                  DoQueryVolume, DoSetAppSink, DoClearAppSinkOverride
    <3> QED
      BY <2>2, <3>2, RequestKeepsConnection, DuckingUntouched
  <2>3. CASE StopDucking
    BY <2>3 DEF StopDucking, Ready, DuckingHasSnapshot
  <2>4. CASE RestoreNext
    BY <2>4 DEF RestoreNext, DuckingHasSnapshot
  <2>5. CASE RestoreEnds
    BY <2>5 DEF RestoreEnds, DuckingHasSnapshot
  <2>6. CASE HandleContextLost
    BY <2>6 DEF HandleContextLost, WithoutIdentity, DuckingHasSnapshot
  <2>7. CASE ConnectContext \/ ConnectFails \/ ReconnectNotNeeded
    <3>1. SameDucking
      BY <2>7 DEF ConnectContext, ConnectFails, ReconnectNotNeeded
    <3> QED
      BY <3>1, DuckingUntouched
  <2>8. CASE ReconnectApplies \/ ReconnectFlushes \/ ApplyPendingTimer
    <3>1. SameDucking
      BY <2>8 DEF ReconnectApplies, ReconnectFlushes, ApplyPendingTimer, DoApplyPending
    <3> QED
      BY <3>1, DuckingUntouched
  <2>9. CASE RequestStop \/ Cleanup \/ World \/ UNCHANGED vars
    <3>1. SameDucking
      BY <2>9 DEF RequestStop, Cleanup, World, WatcherConnects, Opens, Resumes, DaemonGone,
                  Elsewhere, vars
    <3> QED
      BY <3>1, DuckingUntouched
  <2> QED
    BY <2>1, <2>2, <2>3, <2>4, <2>5, <2>6, <2>7, <2>8, <2>9 DEF Next, Background
<1> QED
  BY <1>1, <1>2, PTL DEF Spec

-----------------------------------------------------------------------------
(* Routing and parked volumes. *)

\* A step that neither routes nor un-routes.
LEMMA RoutesUntouched == RouteOrClear /\ UNCHANGED sinkPending => RouteOrClear'
BY DEF RouteOrClear, sinkPending

\* Replaying forgets parked values, and changes none.
LEMMA ReplayForgets ==
  ASSUME ReplayPending, NEW k \in Name
  PROVE  /\ pendingVolumes'[k] \in {None, pendingVolumes[k]}
         /\ pendingChannelVolumes'[k] \in {None, pendingChannelVolumes[k]}
         /\ pendingSinks'[k] \in {None, pendingSinks[k]}
<1> PICK readInputs \in Reads, readDb \in Reads, o \in [Stream -> Outcome],
         m \in [Stream -> Outcome], r \in [Stream -> Outcome] :
      ReplayTo(Inputs(readInputs), readDb, o, m, r)
  BY DEF ReplayPending
<1> DEFINE applied == Applied(Inputs(readInputs), o, m)
           persisted == Persisted(Routed(Inputs(readInputs), o, r), readDb)
<1>1. /\ pendingVolumes' = [n \in Name |-> IF n \in applied THEN None ELSE pendingVolumes[n]]
      /\ pendingChannelVolumes' =
           [n \in Name |-> IF n \in applied THEN None ELSE pendingChannelVolumes[n]]
      /\ pendingSinks' = [n \in Name |-> IF n \in persisted THEN None ELSE pendingSinks[n]]
  BY DEF ReplayTo
<1> HIDE DEF applied, persisted
<1> QED
  BY <1>1

\* Replaying gives routes up, and adds none.
LEMMA ReplayAddsNoRoute ==
  ASSUME TypeOK, RouteOrClear, DoApplyPending PROVE RouteOrClear'
<1>1. UNCHANGED pendingSinkClears
  BY DEF DoApplyPending
<1>2. \A k \in Name : pendingSinks'[k] \in {None, pendingSinks[k]}
  BY ReplayForgets DEF DoApplyPending
<1> QED
  BY <1>1, <1>2 DEF RouteOrClear, TypeOK, SinksTypeOK

\* No application is both to be routed and to be un-routed: doSetAppSink and
\* doClearAppSinkOverride withdraw each other's request.
THEOREM RoutesDoNotConflict == Spec => []RouteOrClear
<1>1. Init => RouteOrClear
  BY DEF Init, RouteOrClear
<1>2. TypeOK /\ RouteOrClear /\ [Next]_vars => RouteOrClear'
  <2> SUFFICES ASSUME TypeOK, RouteOrClear, [Next]_vars PROVE RouteOrClear'
    OBVIOUS
  <2>1. CASE Request
    <3> PICK k \in Name : RequestFor(k)
      BY <2>1 DEF Request
    <3>1. CASE \E d \in Routes : DoSetAppSink(k, d)
      BY <3>1 DEF DoSetAppSink, RouteOrClear, TypeOK, SinksTypeOK
    <3>2. CASE DoClearAppSinkOverride(k)
      <4>1. /\ pendingSinks' = [pendingSinks EXCEPT ![k] = None]
            /\ pendingSinkClears' \in SUBSET (pendingSinkClears \cup {k})
        BY <3>2 DEF DoClearAppSinkOverride
      <4> QED
        BY <4>1 DEF RouteOrClear, TypeOK, SinksTypeOK
    <3>3. CASE UNCHANGED sinkPending
      BY <3>3, RoutesUntouched
    <3> QED
      BY <3>1, <3>2, <3>3
         DEF RequestFor, DoChangeVolume, SetAppVolume, DoToggleMute, SetAppMute, DoQueryVolume,
             StartDucking, pendingVars
  <2>2. CASE ReconnectApplies \/ ApplyPendingTimer
    BY <2>2, ReplayAddsNoRoute DEF ReconnectApplies, ApplyPendingTimer
  <2>3. CASE ReconnectFlushes
    BY <2>3 DEF ReconnectFlushes, DoFlushPendingSinkClears, RouteOrClear
  <2>4. CASE \/ ConnectContext \/ ConnectFails \/ ReconnectNotNeeded \/ HandleContextLost
             \/ StopDucking \/ RestoreNext \/ RestoreEnds \/ RequestStop \/ Cleanup
             \/ World \/ UNCHANGED vars
    <3>1. UNCHANGED sinkPending
      BY <2>4
         DEF ConnectContext, ConnectFails, ReconnectNotNeeded, HandleContextLost, StopDucking,
             RestoreNext, RestoreEnds, RequestStop, Cleanup, World, WatcherConnects, Opens,
             Resumes, DaemonGone, Elsewhere, vars, pendingVars
    <3> QED
      BY <3>1, RoutesUntouched
  <2> QED
    BY <2>1, <2>2, <2>3, <2>4 DEF Next, Background
<1> QED
  BY <1>1, <1>2, TypeCorrect, PTL DEF Spec

\* The ways a cascade changes the parked volumes.
LEMMA CascadeParks ==
  ASSUME NEW k, NEW f, VolumeCascade(k, f)
  PROVE  RemovePendingVolume(k) \/ \E v : ParkPendingVolume(k, v)
BY DEF VolumeCascade, WriteStreams, WriteStored, ParkRequest

\* A step that parks nothing, and the ones that do.
LEMMA ParkedOnce ==
  ASSUME TypeOK, OneParkedVolume, NEW k \in Name,
         \/ UNCHANGED volumePending
         \/ RemovePendingVolume(k)
         \/ \E v : ParkPendingVolume(k, v) \/ ParkPendingChannelVolumes(k, v)
  PROVE  OneParkedVolume'
BY DEF OneParkedVolume, volumePending, RemovePendingVolume, ParkPendingVolume,
       ParkPendingChannelVolumes, TypeOK, VolumesTypeOK

\* An application never has both kinds of parked volume, whichever mix of
\* requests, Focus Audio and replays parked them (parkPendingVolume,
\* parkPendingChannelVolumes).
THEOREM ParkedVolumesAreUnique == Spec => []OneParkedVolume
<1>1. Init => OneParkedVolume
  BY DEF Init, OneParkedVolume
<1>2. TypeOK /\ OneParkedVolume /\ [Next]_vars => OneParkedVolume'
  <2> SUFFICES ASSUME TypeOK, OneParkedVolume, [Next]_vars PROVE OneParkedVolume'
    OBVIOUS
  <2>1. CASE Request
    <3> PICK k \in Name : RequestFor(k)
      BY <2>1 DEF Request
    <3>1. CASE \/ \E d \in Deltas, l \in Limits : DoChangeVolume(k, d, l)
               \/ \E t \in Levels, l \in Limits : SetAppVolume(k, t, l)
      BY <3>1, CascadeParks, ParkedOnce DEF DoChangeVolume, SetAppVolume
    <3>2. CASE \E d \in Ducks : StartDucking(k, d)
      <4>1. PICK d \in Ducks, readInputs \in Reads, readDb \in Reads, o \in [Stream -> Outcome] :
              LowerOthers(k, d, Inputs(readInputs), readDb, o)
        BY <3>2 DEF StartDucking
      <4>2. \A n \in Name :
              \/ pendingChannelVolumes'[n] = None
              \/ /\ pendingVolumes'[n] = pendingVolumes[n]
                 /\ pendingChannelVolumes'[n] = pendingChannelVolumes[n]
        BY <4>1 DEF LowerOthers
      <4> QED
        BY <4>2 DEF OneParkedVolume
    <3>3. CASE UNCHANGED volumePending
      BY <3>3, ParkedOnce
    <3> QED
      BY <3>1, <3>2, <3>3
         DEF RequestFor, DoToggleMute, SetAppMute, DoQueryVolume, DoSetAppSink,
             DoClearAppSinkOverride, pendingVars
  <2>2. CASE ReconnectApplies \/ ApplyPendingTimer
    <3>1. UNCHANGED volumePending \/ ReplayPending
      BY <2>2 DEF ReconnectApplies, ApplyPendingTimer, DoApplyPending
    <3> QED
      BY <3>1, ReplayForgets DEF OneParkedVolume, volumePending
  <2>3. CASE RestoreNext
    <3> PICK e \in restoring.entries : RestoreEntry(e)
      BY <2>3 DEF RestoreNext
    <3>1. TargetName[e.app] \in Name
      BY ServerAssumption DEF ServerAssumption, TypeOK, DuckingTypeOK, Entry
    <3>2. \/ UNCHANGED volumePending
          \/ \E v : ParkPendingChannelVolumes(TargetName[e.app], v)
          \/ \E f : VolumeCascade(TargetName[e.app], f)
      BY DEF RestoreEntry, RestoreStream, AbandonEntry, RestoreStored, RestoreByRequest
    <3> QED
      BY <3>1, <3>2, CascadeParks, ParkedOnce
  <2>4. CASE \/ ConnectContext \/ ConnectFails \/ ReconnectNotNeeded \/ HandleContextLost
             \/ ReconnectFlushes \/ StopDucking \/ RestoreEnds \/ RequestStop \/ Cleanup
             \/ World \/ UNCHANGED vars
    <3>1. UNCHANGED volumePending
      BY <2>4
         DEF ConnectContext, ConnectFails, ReconnectNotNeeded, HandleContextLost,
             ReconnectFlushes, StopDucking, RestoreEnds, RequestStop, Cleanup, World,
             WatcherConnects, Opens, Resumes, DaemonGone, Elsewhere, vars, pendingVars
    <3> QED
      BY <3>1 DEF OneParkedVolume, volumePending
  <2> QED
    BY <2>1, <2>2, <2>3, <2>4 DEF Next, Background
<1> QED
  BY <1>1, <1>2, TypeCorrect, PTL DEF Spec

-----------------------------------------------------------------------------
(* What happens to parked values. *)

\* An outcome is one of the four.
LEMMA Outcomes == ASSUME NEW o \in [Stream -> Outcome], NEW s \in Stream
                  PROVE  /\ o[s] \in {"done", "lost", "late", "gone"}
                         /\ "gone" \notin Trouble => o[s] # "gone"
BY WorkerAssumption DEF Outcome, WorkerAssumption

\* A write that is reported to have succeeded was taken, if no stream ends
\* while it is written to.
LEMMA ReportedIsTaken ==
  ASSUME "gone" \notin Trouble, NEW o \in [Stream -> Outcome], NEW S \in SUBSET Stream
  PROVE  /\ VolumeReported(o, S) \in SUBSET VolumeTaken(o, S)
         /\ VolumeReported(o, S) \in SUBSET S
         /\ Ended(o, S) = {}
BY Outcomes DEF VolumeReported, VolumeTaken, Reported, Taken, Ended

\* No stream is lost when none ends.
LEMMA NoneLost == TypeOK /\ LoseStreams({}) => UNCHANGED life
BY DEF LoseStreams, TypeOK, ServerTypeOK

\* A stream or the database entry of k's application has one of the volumes w.
HandedOver(k, w) ==
  \/ \E s \in StreamsOf(k) : Live(s)' /\ vol'[s] \in w
  \/ db'[Denotes[k]] # None /\ db'[Denotes[k]].vol \in w

\* Levels 1 and 2 hand over what they clear.
LEMMA StreamsTakeOver ==
  ASSUME TypeOK, "gone" \notin Trouble, NEW k \in Name, NEW f \in [Volume -> Volume],
         NEW S \in SUBSET StreamsOf(k), \A s \in S : Live(s), NEW o \in [Stream -> Outcome],
         NEW before \in [Stream -> Volume], WriteStreams(k, f, S, o, before)
  PROVE  HandedOver(k, {appVolumes'[k]})
<1> DEFINE ok == VolumeReported(o, S)
<1>1. S \in SUBSET Stream
  BY DEF StreamsOf
<1>2. ok \in SUBSET VolumeTaken(o, S) /\ ok \in SUBSET S /\ Ended(o, S) = {}
  BY <1>1, ReportedIsTaken
<1>3. ok # {} /\ Cached(k, f[before[First(ok)]], muted[Last(ok)])
  BY DEF WriteStreams
<1>4. vol' = After(f, S, o, before) /\ LoseStreams({})
  BY <1>2 DEF WriteStreams
<1> HIDE DEF ok
<1>5. PICK s \in ok : s = First(ok)
  BY <1>1, <1>2, <1>3, NamesAndStreams
<1>6. appVolumes'[k] = f[before[s]]
  BY <1>3, <1>5 DEF Cached, TypeOK, VolumesTypeOK
<1>7. s \in Stream /\ vol'[s] = f[before[s]]
  BY <1>1, <1>2, <1>4, <1>5 DEF After
<1>8. Live(s)'
  BY <1>2, <1>4, NoneLost DEF Live
<1> QED
  BY <1>2, <1>5, <1>6, <1>7, <1>8 DEF HandedOver

\* Levels 3 and 4 hand over to the database, or keep a value parked.
LEMMA DatabaseTakesOver ==
  ASSUME TypeOK, NEW k \in Name, NEW f \in [Volume -> Volume], NEW read,
         NEW before, Stored(Denotes[k], read), WriteStored(k, f, before)
  PROVE  HandedOver(k, {appVolumes'[k]})
<1> DEFINE a == Denotes[k]
           v == f[db[a].vol]
<1>1. a \in App /\ db[a] \in DbEntry /\ v \in Volume
  BY StoredEntry, ServerAssumption DEF ServerAssumption, DbEntry
<1>2. db' = [db EXCEPT ![a].vol = v] /\ Cached(k, v, appMutes[k])
  BY DEF WriteStored
<1>3. appVolumes'[k] = v
  BY <1>2 DEF Cached, TypeOK, VolumesTypeOK
<1>4. db'[a] = [db[a] EXCEPT !.vol = v] /\ [db[a] EXCEPT !.vol = v] \in DbEntry
  BY <1>1, <1>2 DEF DbEntry, TypeOK, ServerTypeOK
<1>5. db'[a] # None /\ db'[a].vol = v
  BY <1>1, <1>4, ServerAssumption DEF ServerAssumption, DbEntry
<1> QED
  BY <1>3, <1>5 DEF HandedOver

\* What a cascade takes out of the maps it has handed over.
LEMMA CascadeHandsOver ==
  ASSUME TypeOK, "gone" \notin Trouble, NEW k \in Name, NEW f \in [Volume -> Volume],
         VolumeCascade(k, f), NEW n \in Name, HasVolume(n), ~HasVolume(n)'
  PROVE  HandedOver(n, {appVolumes'[n]})
<1>1. n = k
  BY CascadeParks DEF RemovePendingVolume, ParkPendingVolume, HasVolume, TypeOK, VolumesTypeOK
<1>2. \A v \in Volume : ~ParkPendingVolume(k, v)
  BY <1>1, ServerAssumption
     DEF ServerAssumption, ParkPendingVolume, HasVolume, TypeOK, VolumesTypeOK
<1>3. PICK readInputs \in Reads, readDb \in Reads, o \in [Stream -> Outcome] :
        LET S == Inputs(readInputs) \cap StreamsOf(k)
            N == NodesOf(k)
            mid == After(f, S, o, vol)
        IN
        \/ WriteStreams(k, f, S, o, vol)
        \/ \E p \in [Stream -> Outcome] :
             \/ WriteStreams(k, f, N, p, mid)
             \/ /\ Stored(Denotes[k], readDb)
                /\ WriteStored(k, f, After(f, N, p, mid))
             \/ ParkRequest(k, f, After(f, N, p, mid))
  BY Zenon DEF VolumeCascade
<1> DEFINE S == Inputs(readInputs) \cap StreamsOf(k)
           N == NodesOf(k)
           mid == After(f, S, o, vol)
<1>4. /\ S \in SUBSET StreamsOf(k) /\ \A s \in S : Live(s)
      /\ N \in SUBSET StreamsOf(k) /\ \A s \in N : Live(s)
  BY DEF NodesOf, Inputs, Active, Live
<1>5. vol \in [Stream -> Volume] /\ mid \in [Stream -> Volume]
  BY AfterWrites DEF TypeOK, ServerTypeOK
<1> HIDE DEF S, N, mid
<1>6. CASE WriteStreams(k, f, S, o, vol)
  BY <1>1, <1>4, <1>5, <1>6, StreamsTakeOver
<1>7. ASSUME NEW p \in [Stream -> Outcome], WriteStreams(k, f, N, p, mid)
      PROVE  HandedOver(n, {appVolumes'[n]})
  BY <1>1, <1>4, <1>5, <1>7, StreamsTakeOver
<1>8. ASSUME NEW before, Stored(Denotes[k], readDb), WriteStored(k, f, before)
      PROVE  HandedOver(n, {appVolumes'[n]})
  BY <1>1, <1>8, DatabaseTakesOver
<1>9. ASSUME NEW before, ParkRequest(k, f, before) PROVE FALSE
  BY <1>2, <1>9 DEF ParkRequest, TypeOK, VolumesTypeOK
<1> QED
  BY <1>3, <1>6, <1>7, <1>8, <1>9 DEF S, N, mid

\* Storing devices rewrites no volume on pipewire-pulse, nor when there is no
\* route to store.
LEMMA DevicesAlone ==
  ASSUME NEW A, \A a \in A : Follow(a) = {}, NEW dev,
         NEW v \in [Stream -> Volume], NEW m, NEW d, RewriteDevices(A, dev, v, m, d)
  PROVE  vol' = v
<1>1. PICK last \in [App -> Stream] :
        vol' = [s \in Stream |-> IF AppOf[s] \in A /\ s \in Follow(AppOf[s])
                                 THEN v[last[AppOf[s]]] ELSE v[s]]
  BY Zenon DEF RewriteDevices
<1>2. \A s \in Stream : ~(AppOf[s] \in A /\ s \in Follow(AppOf[s]))
  OBVIOUS
<1>3. vol' = [s \in Stream |-> v[s]]
  BY <1>1, <1>2
<1> QED
  BY <1>3

\* No route is parked when none is ever asked for.
NoRoutes == Routes = {} => \A k \in Name : pendingSinks[k] = None

\* What a replay does to the volumes, then.
LEMMA ReplayedVolumes ==
  ASSUME TypeOK, NoRoutes, PipeWire \/ Routes = {}, NEW S, NEW readDb,
         NEW o \in [Stream -> Outcome], NEW m, NEW r, ReplayTo(S, readDb, o, m, r)
  PROVE  vol' = [s \in Stream |-> IF s \in VolumeTaken(o, S) THEN VolumeReplayed(s) ELSE vol[s]]
<1> DEFINE K == Persisted(Routed(S, o, r), readDb)
           A == {Denotes[k] : k \in K}
           v == [s \in Stream |-> IF s \in VolumeTaken(o, S) THEN VolumeReplayed(s) ELSE vol[s]]
<1>1. \A a \in A : Follow(a) = {}
  BY DEF Follow, Persisted, Routed, NoRoutes
<1>2. v \in [Stream -> Volume]
  BY Replayed DEF TypeOK, ServerTypeOK
<1>3. \E dev, mm, d : RewriteDevices(A, dev, v, mm, d)
  BY Zenon DEF ReplayTo
<1> HIDE DEF A, v
<1>4. vol' = v
  BY <1>1, <1>2, <1>3, DevicesAlone
<1> QED
  BY <1>4 DEF v

\* The value replayed to a stream is one parked for it, if one is.
LEMMA ReplayedIsParked ==
  ASSUME TypeOK, NEW s \in Stream
  PROVE  \/ VolumeReplayed(s) = vol[s]
            /\ \A k \in Name : HasVolume(k) => s \notin StreamsOf(k)
         \/ \E k \in Name : /\ s \in StreamsOf(k)
                            /\ VolumeReplayed(s) \in
                                 {pendingVolumes[k], pendingChannelVolumes[k]} \ {None}
<1> DEFINE C == PendingOn(pendingChannelVolumes, s)
           V == PendingOn(pendingVolumes, s)
<1>1. /\ C \in SUBSET Name
      /\ \A k \in C : pendingChannelVolumes[k] # None /\ s \in StreamsOf(k)
      /\ V \in SUBSET Name
      /\ \A k \in V : pendingVolumes[k] # None /\ s \in StreamsOf(k)
      /\ C = {} /\ V = {} => \A k \in Name : HasVolume(k) => s \notin StreamsOf(k)
  BY DEF PendingOn, HasVolume
<1>2. \/ V # {} /\ VolumeReplayed(s) = pendingVolumes[Last(V)]
      \/ C # {} /\ VolumeReplayed(s) = pendingChannelVolumes[Last(C)]
      \/ C = {} /\ V = {} /\ VolumeReplayed(s) = vol[s]
  BY DEF VolumeReplayed
<1> HIDE DEF C, V
<1>3. (V # {} => Last(V) \in V) /\ (C # {} => Last(C) \in C)
  BY <1>1, NamesAndStreams
<1> QED
  BY <1>1, <1>2, <1>3

\* What a replay takes out of the maps it has handed over.
LEMMA ReplayHandsOver ==
  ASSUME TypeOK, NoRoutes, PipeWire \/ Routes = {}, "gone" \notin Trouble, ReplayPending,
         NEW n \in Name, HasVolume(n), ~HasVolume(n)'
  PROVE  HandedOver(n, ParkedFor(pendingVolumes, n) \cup ParkedFor(pendingChannelVolumes, n))
<1>1. PICK readInputs \in Reads, readDb \in Reads, o \in [Stream -> Outcome],
           m \in [Stream -> Outcome], r \in [Stream -> Outcome] :
        ReplayTo(Inputs(readInputs), readDb, o, m, r)
  BY DEF ReplayPending
<1> DEFINE S == Inputs(readInputs)
<1>2. S \in SUBSET Stream /\ \A s \in S : Live(s)
  BY DEF Inputs, Active, Live
<1>3. n \in Applied(S, o, m)
  <2> DEFINE applied == Applied(S, o, m)
  <2>1. /\ pendingVolumes' = [k \in Name |-> IF k \in applied THEN None ELSE pendingVolumes[k]]
        /\ pendingChannelVolumes' =
             [k \in Name |-> IF k \in applied THEN None ELSE pendingChannelVolumes[k]]
    BY <1>1 DEF ReplayTo
  <2> HIDE DEF applied
  <2>2. n \in applied
    BY <2>1 DEF HasVolume
  <2> QED
    BY <2>2 DEF applied
<1>4. PICK s \in S \cap StreamsOf(n) : s \in VolumeReported(o, S)
  BY <1>3 DEF Applied
<1>5. s \in Stream /\ s \in VolumeTaken(o, S)
  BY <1>2, <1>4, ReportedIsTaken
<1>6. vol'[s] = VolumeReplayed(s)
  BY <1>1, <1>5, ReplayedVolumes
<1>7. VolumeReplayed(s) \in ParkedFor(pendingVolumes, n) \cup ParkedFor(pendingChannelVolumes, n)
  BY <1>4, <1>5, ReplayedIsParked DEF ParkedFor, StreamsOf
<1>8. Live(s)'
  <2>1. \A t \in S : "gone" \notin {o[t], m[t], r[t]}
    BY <1>2, Outcomes
  <2>2. LoseStreams({t \in S : "gone" \in {o[t], m[t], r[t]}
                                /\ \E k \in Name : HasPending(k) /\ t \in StreamsOf(k)})
    BY <1>1 DEF ReplayTo
  <2>3. LoseStreams({})
    BY <2>1, <2>2, Zenon
  <2> QED
    BY <1>2, <1>4, <2>3, NoneLost DEF Live
<1> QED
  BY <1>4, <1>6, <1>7, <1>8 DEF HandedOver

\* Routes are parked only when asked for.
THEOREM RoutesAreAskedFor == Spec => []NoRoutes
<1>1. Init => NoRoutes
  BY DEF Init, NoRoutes
<1>2. TypeOK /\ NoRoutes /\ [Next]_vars => NoRoutes'
  <2> SUFFICES ASSUME TypeOK, NoRoutes, [Next]_vars, Routes = {} PROVE NoRoutes'
    BY DEF NoRoutes
  <2>1. CASE Request
    <3> PICK k \in Name : RequestFor(k)
      BY <2>1 DEF Request
    <3>1. UNCHANGED pendingSinks
      BY DEF RequestFor, DoChangeVolume, SetAppVolume, DoToggleMute, SetAppMute,
             DoQueryVolume, StartDucking, sinkPending, pendingVars
    <3> QED
      BY <3>1 DEF NoRoutes
  <2>2. CASE ReconnectApplies \/ ApplyPendingTimer
    <3>1. UNCHANGED pendingSinks \/ ReplayPending
      BY <2>2 DEF ReconnectApplies, ApplyPendingTimer, DoApplyPending
    <3> QED
      BY <3>1, ReplayForgets DEF NoRoutes
  <2>3. CASE \/ ConnectContext \/ ConnectFails \/ ReconnectNotNeeded \/ HandleContextLost
             \/ ReconnectFlushes \/ StopDucking \/ RestoreNext \/ RestoreEnds \/ RequestStop
             \/ Cleanup \/ World \/ UNCHANGED vars
    <3>1. UNCHANGED pendingSinks
      BY <2>3
         DEF ConnectContext, ConnectFails, ReconnectNotNeeded, HandleContextLost,
             ReconnectFlushes, StopDucking, RestoreNext, RestoreEnds, RequestStop, Cleanup,
             World, WatcherConnects, Opens, Resumes, DaemonGone, Elsewhere, vars, pendingVars,
             sinkPending
    <3> QED
      BY <3>1 DEF NoRoutes
  <2> QED
    BY <2>1, <2>2, <2>3 DEF Next, Background
<1> QED
  BY <1>1, <1>2, TypeCorrect, PTL DEF Spec

\* A step is a replay only when it is a step of doApplyPending.
LEMMA ReplaysOnly ==
  ASSUME TypeOK, [Next]_vars, Replays
  PROVE  DoApplyPending
<1>1. CASE ReconnectApplies \/ ApplyPendingTimer
  BY <1>1 DEF ReconnectApplies, ApplyPendingTimer
<1>2. CASE ~(ReconnectApplies \/ ApplyPendingTimer)
  <2>1. due' \in Int /\ due \in Int /\ due' >= due /\ ~(phase = "apply" /\ phase' = "flush")
    <3>1. due \in Nat
      BY WorkerAssumption DEF WorkerAssumption, TypeOK, ConnectionTypeOK
    <3>2. CASE Request \/ UNCHANGED vars
      BY <3>1, <3>2, RequestKeepsConnection DEF connVars, vars
    <3>3. CASE \/ ConnectContext \/ ConnectFails \/ ReconnectNotNeeded \/ HandleContextLost
               \/ ReconnectFlushes \/ StopDucking \/ RestoreNext \/ RestoreEnds \/ RequestStop
               \/ Cleanup \/ WatcherConnects \/ DaemonGone \/ Elsewhere
      <4>1. UNCHANGED due
        BY <3>3
           DEF ConnectContext, ConnectFails, ReconnectNotNeeded, HandleContextLost,
               ReconnectFlushes, StopDucking, RestoreNext, RestoreEnds, RequestStop,
               Cleanup, WatcherConnects, DaemonGone, Elsewhere, connVars
      <4>2. phase' \in {phase, "loop", "apply", "restore"}
        BY <3>3
           DEF ConnectContext, ConnectFails, ReconnectNotNeeded, HandleContextLost,
               ReconnectFlushes, StopDucking, RestoreNext, RestoreEnds, RequestStop,
               Cleanup, WatcherConnects, DaemonGone, Elsewhere
      <4> QED
        BY <3>1, <4>1, <4>2
    <3>4. CASE \E s \in Stream : Opens(s) \/ Resumes(s)
      BY <3>1, <3>4 DEF Opens, Resumes, Announced
    <3> QED
      BY <1>2, <3>2, <3>3, <3>4 DEF Next, Background, World
  <2> QED
    BY <2>1 DEF Replays
<1> QED
  BY <1>1, <1>2

\* A parked volume is never lost on the way: it leaves the maps only for a
\* live stream or the database, whatever requests, replays, Focus Audio and
\* reconnects come together and however operations fail, provided no stream
\* ends while it is written to (then waitForOperation reports a success on
\* native PulseAudio) and no route is stored in the database of a daemon that
\* applies entries to running streams.
THEOREM ParkedVolumesAreHandedOver ==
  ASSUME PipeWire \/ Routes = {}, "gone" \notin Trouble
  PROVE  Spec => ParkedVolumeIsHandedOver
<1> DEFINE wanted(k) == IF Replays
                        THEN ParkedFor(pendingVolumes, k) \cup ParkedFor(pendingChannelVolumes, k)
                        ELSE {appVolumes'[k]}
           Delivered == \A k \in Name : HasVolume(k) /\ ~HasVolume(k)' =>
                          \/ \E s \in StreamsOf(k) : Live(s)' /\ vol'[s] \in wanted(k)
                          \/ db'[Denotes[k]] # None /\ db'[Denotes[k]].vol \in wanted(k)
<1>1. TypeOK /\ NoRoutes /\ [Next]_vars => Delivered
  <2> SUFFICES ASSUME TypeOK, NoRoutes, [Next]_vars, NEW n \in Name,
                      HasVolume(n), ~HasVolume(n)'
               PROVE  HandedOver(n, wanted(n))
    BY Zenon DEF HandedOver
  <2>1. CASE Replays
    <3>1. ~UNCHANGED volumePending
      BY DEF volumePending, HasVolume
    <3>2. ReplayPending
      BY <2>1, <3>1, ReplaysOnly DEF DoApplyPending
    <3> QED
      BY <2>1, <3>2, ReplayHandsOver
  <2>2. CASE ~Replays
    <3> SUFFICES HandedOver(n, {appVolumes'[n]})
      BY <2>2
    <3>1. ~UNCHANGED volumePending
      BY DEF volumePending, HasVolume
    <3>2. CASE Request
      <4> PICK k \in Name : RequestFor(k)
        BY <3>2 DEF Request
      <4>1. CASE \E f \in [Volume -> Volume] : VolumeCascade(k, f)
        BY <4>1, CascadeHandsOver
      <4>2. CASE \/ \E d \in Deltas, l \in Limits : DoChangeVolume(k, d, l)
                 \/ \E t \in Levels, l \in Limits : SetAppVolume(k, t, l)
        BY <4>1, <4>2, Requested DEF DoChangeVolume, SetAppVolume
      <4>3. ASSUME NEW d \in Ducks, StartDucking(k, d) PROVE FALSE
        <5>1. PICK readInputs \in Reads, readDb \in Reads, o \in [Stream -> Outcome] :
                LowerOthers(k, d, Inputs(readInputs), readDb, o)
          BY <4>3 DEF StartDucking
        <5>2. \/ pendingVolumes'[n] = d
              \/ /\ pendingVolumes'[n] = pendingVolumes[n]
                 /\ pendingChannelVolumes'[n] = pendingChannelVolumes[n]
          BY <5>1 DEF LowerOthers
        <5>3. d # None
          BY ServerAssumption, WorkerAssumption DEF ServerAssumption, WorkerAssumption
        <5> QED
          BY <5>2, <5>3 DEF HasVolume
      <4> QED
        BY <3>1, <4>2, <4>3
           DEF RequestFor, DoToggleMute, SetAppMute, DoQueryVolume, DoSetAppSink,
               DoClearAppSinkOverride, pendingVars
    <3>3. CASE RestoreNext
      <4> PICK e \in restoring.entries : RestoreEntry(e)
        BY <3>3 DEF RestoreNext
      <4>1. TargetName[e.app] \in Name /\ e.vol \in Volume
        BY ServerAssumption DEF ServerAssumption, TypeOK, DuckingTypeOK, Entry
      <4>2. CASE RestoreByRequest(e)
        <5>1. VolumeCascade(TargetName[e.app], [v \in Volume |-> e.vol])
          BY <4>2 DEF RestoreByRequest
        <5>2. [v \in Volume |-> e.vol] \in [Volume -> Volume]
          BY <4>1
        <5> QED
          BY <4>1, <5>1, <5>2, CascadeHandsOver
      <4>3. ~ParkPendingChannelVolumes(TargetName[e.app], e.vol)
        BY <4>1, ServerAssumption
           DEF ServerAssumption, ParkPendingChannelVolumes, HasVolume, TypeOK, VolumesTypeOK
      <4> QED
        BY <3>1, <4>2, <4>3 DEF RestoreEntry, RestoreStream, AbandonEntry, RestoreStored
    <3>4. CASE ReconnectApplies \/ ApplyPendingTimer
      <4>1. due \in Nat
        BY WorkerAssumption DEF WorkerAssumption, TypeOK, ConnectionTypeOK
      <4> QED
        BY <2>2, <3>4, <4>1 DEF Replays, ReconnectApplies, ApplyPendingTimer
    <3>5. CASE \/ ConnectContext \/ ConnectFails \/ ReconnectNotNeeded \/ HandleContextLost
               \/ ReconnectFlushes \/ StopDucking \/ RestoreEnds \/ RequestStop \/ Cleanup
               \/ World \/ UNCHANGED vars
      BY <3>1, <3>5
         DEF ConnectContext, ConnectFails, ReconnectNotNeeded, HandleContextLost,
             ReconnectFlushes, StopDucking, RestoreEnds, RequestStop, Cleanup, World,
             WatcherConnects, Opens, Resumes, DaemonGone, Elsewhere, vars, pendingVars
    <3> QED
      BY <3>2, <3>3, <3>4, <3>5 DEF Next, Background
  <2> QED
    BY <2>1, <2>2
<1>2. TypeOK /\ NoRoutes /\ [Next]_vars => [Delivered]_vars
  BY <1>1
<1>3. ParkedVolumeIsHandedOver <=> [][Delivered]_vars
  BY DEF ParkedVolumeIsHandedOver
<1> QED
  BY <1>2, <1>3, TypeCorrect, RoutesAreAskedFor, PTL DEF Spec

\* A replay writes no volume but one that is parked for the application of
\* the stream it is written to, under the same conditions.
THEOREM ReplaysWriteOnlyParked ==
  ASSUME PipeWire \/ Routes = {}
  PROVE  Spec => ReplayWritesOnlyParked
<1> DEFINE OnlyParked ==
             Replays => \A s \in Stream :
               vol'[s] # vol[s] => \E k \in Name :
                 s \in StreamsOf(k) /\ vol'[s] \in {pendingVolumes[k], pendingChannelVolumes[k]}
<1>1. TypeOK /\ NoRoutes /\ [Next]_vars => OnlyParked
  <2> SUFFICES ASSUME TypeOK, NoRoutes, [Next]_vars, Replays, NEW s \in Stream, vol'[s] # vol[s]
               PROVE  \E k \in Name : /\ s \in StreamsOf(k)
                                      /\ vol'[s] \in {pendingVolumes[k], pendingChannelVolumes[k]}
    OBVIOUS
  <2>1. ReplayPending
    BY ReplaysOnly DEF DoApplyPending
  <2>2. PICK readInputs \in Reads, readDb \in Reads, o \in [Stream -> Outcome],
             m \in [Stream -> Outcome], r \in [Stream -> Outcome] :
          ReplayTo(Inputs(readInputs), readDb, o, m, r)
    BY <2>1 DEF ReplayPending
  <2>3. vol'[s] \in {vol[s], VolumeReplayed(s)}
    BY <2>2, ReplayedVolumes
  <2> QED
    BY <2>3, ReplayedIsParked
<1>2. TypeOK /\ NoRoutes /\ [Next]_vars => [OnlyParked]_vars
  BY <1>1
<1> QED
  BY <1>2, TypeCorrect, RoutesAreAskedFor, PTL DEF Spec, ReplayWritesOnlyParked

\* A route is given up once a stream plays on a device parked for its
\* application and the database holds one (doApplyPending), and not before.
THEOREM RoutesAreKept == Spec => RouteKeptUntilStored
<1> DEFINE Kept ==
             \A k \in Name :
               Replays /\ pendingSinks[k] # None /\ pendingSinks'[k] = None =>
                 LET wanted == ParkedFor(pendingSinks, k) \ {None} IN
                 /\ \E s \in StreamsOf(k) : life[s] = "active" /\ sink'[s] \in wanted
                 /\ db'[Denotes[k]] # None /\ db'[Denotes[k]].device \in wanted
<1>1. TypeOK /\ [Next]_vars => Kept
  <2> SUFFICES ASSUME TypeOK, [Next]_vars, Replays, NEW n \in Name,
                      pendingSinks[n] # None, pendingSinks'[n] = None
               PROVE  LET wanted == ParkedFor(pendingSinks, n) \ {None} IN
                      /\ \E s \in StreamsOf(n) : life[s] = "active" /\ sink'[s] \in wanted
                      /\ db'[Denotes[n]] # None /\ db'[Denotes[n]].device \in wanted
    BY Zenon
  <2> DEFINE wanted == ParkedFor(pendingSinks, n) \ {None}
             a == Denotes[n]
  <2>1. ReplayPending
    BY ReplaysOnly DEF DoApplyPending
  <2>2. PICK readInputs \in Reads, readDb \in Reads, o \in [Stream -> Outcome],
             m \in [Stream -> Outcome], r \in [Stream -> Outcome] :
          ReplayTo(Inputs(readInputs), readDb, o, m, r)
    BY <2>1 DEF ReplayPending
  <2> DEFINE S == Inputs(readInputs)
             K == Persisted(Routed(S, o, r), readDb)
             A == {Denotes[k] : k \in K}
             v == [s \in Stream |-> IF s \in VolumeTaken(o, S) THEN VolumeReplayed(s) ELSE vol[s]]
             mm == [s \in Stream |-> IF s \in Taken(m, S) THEN MuteReplayed(s) ELSE muted[s]]
             d == [s \in Stream |->
                     IF s \in Taken(r, S) /\ PendingOn(pendingSinks, s) # {}
                     THEN pendingSinks[Last(PendingOn(pendingSinks, s))] ELSE sink[s]]
  <2>3. n \in K
    <3>1. pendingSinks' = [k \in Name |-> IF k \in K THEN None ELSE pendingSinks[k]]
      BY <2>2 DEF ReplayTo
    <3> HIDE DEF K
    <3> QED
      BY <3>1
  <2>4. a \in App /\ a \in A /\ Stored(a, readDb)
    BY <2>3, ServerAssumption DEF ServerAssumption, Persisted
  <2>5. PICK s \in S \cap StreamsOf(n) : r[s] = "done"
    BY <2>3 DEF Persisted, Routed
  <2>6. s \in Stream /\ AppOf[s] = a /\ life[s] = "active"
    BY <2>5 DEF Inputs, Active, StreamsOf
  <2>7. PICK dev \in [App -> Sink] :
          /\ \A k \in K : \E j \in K :
               Denotes[j] = Denotes[k] /\ dev[Denotes[k]] = pendingSinks[j]
          /\ RewriteDevices(A, dev, v, mm, d)
    BY <2>2 DEF ReplayTo
  <2>8. dev[a] \in wanted
    <3>1. PICK j \in K : Denotes[j] = a /\ dev[a] = pendingSinks[j]
      BY <2>3, <2>7
    <3>2. j \in Name
      BY DEF Persisted, Routed
    <3>3. dev[a] # None
      BY <2>4, ServerAssumption DEF ServerAssumption
    <3> QED
      BY <3>1, <3>2, <3>3 DEF ParkedFor
  <2>9. d[s] \in wanted
    <3> DEFINE P == PendingOn(pendingSinks, s)
    <3>1. n \in P /\ P \in SUBSET Name
      BY <2>5 DEF PendingOn
    <3>2. Last(P) \in P
      <4> HIDE DEF P
      <4> QED
        BY <3>1, NamesAndStreams
    <3>3. pendingSinks[Last(P)] # None /\ Denotes[Last(P)] = a /\ Last(P) \in Name
      <4>1. \A k \in P : pendingSinks[k] # None /\ Denotes[k] = a
        BY <2>6 DEF PendingOn, StreamsOf
      <4> HIDE DEF P
      <4> QED
        BY <3>1, <3>2, <4>1
    <3>4. d[s] = pendingSinks[Last(P)]
      BY <2>5, <2>6, <3>1 DEF Taken
    <3> HIDE DEF P
    <3> QED
      BY <3>3, <3>4 DEF ParkedFor
  <2> HIDE DEF A, v, mm, d, K, S
  <2>10. PICK last \in [App -> Stream] :
          /\ db' = [b \in App |->
                      IF b \in A
                      THEN IF Follow(b) = {} THEN [db[b] EXCEPT !.device = dev[b]]
                           ELSE [vol |-> v[last[b]], muted |-> mm[last[b]], device |-> dev[b]]
                      ELSE db[b]]
          /\ sink' = [t \in Stream |->
                        IF (AppOf[t] \in A /\ t \in Follow(AppOf[t])) /\ dev[AppOf[t]] # None
                        THEN dev[AppOf[t]] ELSE d[t]]
    BY <2>7, Zenon DEF RewriteDevices
  <2>11. sink'[s] \in wanted
    BY <2>6, <2>8, <2>9, <2>10
  <2>12. db'[a] # None /\ db'[a].device \in wanted
    <3>1. db[a] \in DbEntry
      BY <2>4, StoredEntry
    <3>2. [db[a] EXCEPT !.device = dev[a]] \in DbEntry
      BY <2>4, <3>1 DEF DbEntry
    <3>3. CASE Follow(a) = {}
      <4>1. db'[a] = [db[a] EXCEPT !.device = dev[a]]
        BY <2>4, <2>10, <3>3
      <4> QED
        BY <2>8, <3>1, <3>2, <4>1, ServerAssumption DEF ServerAssumption, DbEntry
    <3>4. CASE Follow(a) # {}
      <4>1. db'[a] = [vol |-> v[last[a]], muted |-> mm[last[a]], device |-> dev[a]]
        BY <2>4, <2>10, <3>4
      <4>2. v[last[a]] \in Volume /\ mm[last[a]] \in BOOLEAN
        BY <2>4, Replayed DEF v, mm, TypeOK, ServerTypeOK
      <4>3. db'[a] \in DbEntry
        BY <2>4, <4>1, <4>2 DEF DbEntry
      <4> QED
        BY <2>8, <4>1, <4>3, ServerAssumption DEF ServerAssumption
    <3> QED
      BY <3>3, <3>4
  <2> QED
    BY <2>6, <2>11, <2>12 DEF StreamsOf
<1>2. TypeOK /\ [Next]_vars => [Kept]_vars
  BY <1>1
<1> QED
  BY <1>2, TypeCorrect, PTL DEF Spec, RouteKeptUntilStored

\* Focus Audio remembers every stream it lowers (doToggleDucking with
\* doListApps), unless a write that timed out takes effect afterwards.
THEOREM LoweredStreamsAreRemembered ==
  ASSUME "late" \notin Trouble
  PROVE  Spec => DuckedIsRemembered
<1> DEFINE Remembered ==
             ~duckingActive /\ phase = "loop" =>
               \A k \in Name, d \in Ducks : StartDucking(k, d) =>
                 \A s \in Stream : vol'[s] # vol[s] =>
                   \E e \in duckingSnapshot' : e.from = s /\ e.vol = vol[s]
<1>1. Remembered
  <2> SUFFICES ASSUME NEW k \in Name, NEW d \in Ducks, StartDucking(k, d),
                      NEW s \in Stream, vol'[s] # vol[s]
               PROVE  \E e \in duckingSnapshot' : e.from = s /\ e.vol = vol[s]
    OBVIOUS
  <2>1. PICK readInputs \in Reads, readDb \in Reads, o \in [Stream -> Outcome] :
          LowerOthers(k, d, Inputs(readInputs), readDb, o)
    BY DEF StartDucking
  <2> DEFINE heard == Inputs(readInputs)
             inputs == {t \in heard : AppOf[t] # Denotes[k] /\ vol[t] # d}
             nodes == {t \in Stream : /\ Live(t) /\ AppOf[t] \in IdleApps(k, heard)
                                      /\ vol[t] # d}
  <2>2. /\ vol' = [t \in Stream |-> IF t \in VolumeTaken(o, inputs \cup nodes) THEN d ELSE vol[t]]
        /\ {InputEntry(t) : t \in VolumeReported(o, inputs)} \in SUBSET duckingSnapshot'
        /\ {NodeEntry(t) : t \in VolumeReported(o, nodes)} \in SUBSET duckingSnapshot'
    BY <2>1 DEF LowerOthers
  <2> HIDE DEF inputs, nodes
  <2>3. s \in VolumeTaken(o, inputs \cup nodes)
    BY <2>2
  <2>4. s \in VolumeReported(o, inputs) \/ s \in VolumeReported(o, nodes)
    <3>1. o[s] # "late"
      BY WorkerAssumption DEF Outcome, WorkerAssumption
    <3> QED
      BY <2>3, <3>1 DEF VolumeTaken, VolumeReported, Taken, Reported
  <2>5. InputEntry(s).from = s /\ InputEntry(s).vol = vol[s]
        /\ NodeEntry(s).from = s /\ NodeEntry(s).vol = vol[s]
    BY DEF InputEntry, NodeEntry
  <2> QED
    BY <2>2, <2>4, <2>5
<1> QED
  BY <1>1, PTL DEF Spec, DuckedIsRemembered

\* The same of mutes: k's application has one of the mutes w.
MuteHandedOver(k, w) ==
  \/ \E s \in StreamsOf(k) : Live(s)' /\ muted'[s] \in w
  \/ db'[Denotes[k]] # None /\ db'[Denotes[k]].muted \in w

\* What a mute cascade takes out of the map it has handed over.
LEMMA MuteCascadeHandsOver ==
  ASSUME TypeOK, "gone" \notin Trouble, NEW k \in Name, NEW g \in [BOOLEAN -> BOOLEAN],
         MuteCascade(k, g), NEW n \in Name, pendingMutes[n] # None, pendingMutes'[n] = None
  PROVE  MuteHandedOver(n, {appMutes'[n]})
<1>1. PICK readInputs \in Reads, readDb \in Reads, o \in [Stream -> Outcome] :
        LET S == Inputs(readInputs) \cap StreamsOf(k)
            N == NodesOf(k)
        IN
        IF S # {} THEN MuteStream(k, g, First(S), o)
        ELSE IF Stored(Denotes[k], readDb) THEN MuteStored(k, g)
        ELSE IF N = {} THEN ParkMute(k, g, {})
        ELSE \/ MuteNode(k, g, First(N), o)
             \/ /\ o[First(N)] # "done"
                /\ ParkMute(k, g, Taken(o, {First(N)}))
  BY Zenon DEF MuteCascade
<1> DEFINE S == Inputs(readInputs) \cap StreamsOf(k)
           N == NodesOf(k)
<1>2. /\ S \in SUBSET Stream /\ \A s \in S : s \in StreamsOf(k) /\ Live(s)
      /\ N \in SUBSET Stream /\ \A s \in N : s \in StreamsOf(k) /\ Live(s)
  BY DEF Inputs, Active, Live, StreamsOf, NodesOf
<1>3. \/ S # {} /\ MuteStream(k, g, First(S), o)
      \/ Stored(Denotes[k], readDb) /\ MuteStored(k, g)
      \/ \E late : ParkMute(k, g, late)
      \/ N # {} /\ MuteNode(k, g, First(N), o)
  BY <1>1
<1> HIDE DEF S, N
<1>4. CASE S # {} /\ MuteStream(k, g, First(S), o)
  <2>1. PICK s \in S : s = First(S)
    BY <1>2, <1>4, NamesAndStreams
  <2> DEFINE m == g[muted[s]]
  <2>2. /\ muted' = [muted EXCEPT ![s] = IF s \in Taken(o, {s}) THEN m ELSE @]
        /\ LoseStreams(IF m = muted[s] THEN {} ELSE Ended(o, {s}))
        /\ m = muted[s] \/ s \in Reported(o, {s})
        /\ Cached(k, vol[s], m)
        /\ pendingMutes' = [pendingMutes EXCEPT ![k] = None]
    BY <1>4, <2>1 DEF MuteStream
  <2>3. n = k
    BY <2>2 DEF TypeOK, MutesTypeOK
  <2>4. s \in Stream /\ s \in StreamsOf(k) /\ Live(s)
    BY <1>2
  <2>5. o[s] # "gone"
    BY <2>4, Outcomes
  <2>6. LoseStreams({}) /\ (m = muted[s] \/ s \in Taken(o, {s}))
    BY <2>2, <2>5 DEF Reported, Taken, Ended
  <2>7. muted'[s] = m /\ appMutes'[k] = m
    BY <2>2, <2>4, <2>6 DEF Cached, TypeOK, ServerTypeOK, MutesTypeOK
  <2>8. Live(s)'
    BY <2>4, <2>6, NoneLost DEF Live
  <2> QED
    BY <2>3, <2>4, <2>7, <2>8 DEF MuteHandedOver
<1>5. CASE Stored(Denotes[k], readDb) /\ MuteStored(k, g)
  <2> DEFINE a == Denotes[k]
             m == g[db[a].muted]
  <2>1. a \in App /\ db[a] \in DbEntry /\ m \in BOOLEAN
    BY <1>5, StoredEntry, ServerAssumption DEF ServerAssumption, DbEntry
  <2>2. /\ db' = [db EXCEPT ![a].muted = m] /\ Cached(k, appVolumes[k], m)
        /\ pendingMutes' = [pendingMutes EXCEPT ![k] = None]
    BY <1>5 DEF MuteStored
  <2>3. n = k /\ appMutes'[k] = m
    BY <2>2 DEF Cached, TypeOK, MutesTypeOK
  <2>4. db'[a] = [db[a] EXCEPT !.muted = m] /\ [db[a] EXCEPT !.muted = m] \in DbEntry
    BY <2>1, <2>2 DEF DbEntry, TypeOK, ServerTypeOK
  <2>5. db'[a] # None /\ db'[a].muted = m
    BY <2>1, <2>4, ServerAssumption DEF ServerAssumption, DbEntry
  <2> QED
    BY <2>3, <2>5 DEF MuteHandedOver
<1>6. ASSUME NEW late, ParkMute(k, g, late) PROVE FALSE
  <2>1. g[appMutes[k]] \in BOOLEAN
    BY DEF TypeOK, MutesTypeOK
  <2> QED
    BY <1>6, <2>1, ServerAssumption DEF ParkMute, ServerAssumption, TypeOK, MutesTypeOK
<1>7. CASE N # {} /\ MuteNode(k, g, First(N), o)
  <2>1. PICK s \in N : s = First(N)
    BY <1>2, <1>7, NamesAndStreams
  <2>2. /\ muted' = [muted EXCEPT ![s] = g[@]] /\ UNCHANGED life
        /\ Cached(k, appVolumes[k], g[muted[s]])
        /\ pendingMutes' = [pendingMutes EXCEPT ![k] = None]
    BY <1>7, <2>1 DEF MuteNode
  <2>3. n = k
    BY <2>2 DEF TypeOK, MutesTypeOK
  <2>4. s \in Stream /\ s \in StreamsOf(k) /\ Live(s)
    BY <1>2
  <2>5. muted'[s] = appMutes'[k] /\ Live(s)'
    BY <2>2, <2>4 DEF Cached, Live, TypeOK, ServerTypeOK, MutesTypeOK
  <2> QED
    BY <2>3, <2>4, <2>5 DEF MuteHandedOver
<1> QED
  BY <1>3, <1>4, <1>5, <1>6, <1>7

\* What a replay does to the mutes, when the database is left alone.
LEMMA ReplayedMutes ==
  ASSUME TypeOK, NoRoutes, PipeWire \/ Routes = {}, NEW S, NEW readDb,
         NEW o, NEW m \in [Stream -> Outcome], NEW r, ReplayTo(S, readDb, o, m, r)
  PROVE  muted' = [s \in Stream |-> IF s \in Taken(m, S) THEN MuteReplayed(s) ELSE muted[s]]
<1> DEFINE A == {Denotes[k] : k \in Persisted(Routed(S, o, r), readDb)}
           mm == [s \in Stream |-> IF s \in Taken(m, S) THEN MuteReplayed(s) ELSE muted[s]]
<1>1. \A a \in A : Follow(a) = {}
  BY DEF Follow, Persisted, Routed, NoRoutes
<1>2. \E dev, v, d : RewriteDevices(A, dev, v, mm, d)
  BY Zenon DEF ReplayTo
<1> HIDE DEF A
<1>3. PICK last \in [App -> Stream] :
        muted' = [s \in Stream |-> IF AppOf[s] \in A /\ s \in Follow(AppOf[s])
                                   THEN mm[last[AppOf[s]]] ELSE mm[s]]
  BY <1>2, Zenon DEF RewriteDevices
<1>4. \A s \in Stream : ~(AppOf[s] \in A /\ s \in Follow(AppOf[s]))
  BY <1>1
<1>5. muted' = [s \in Stream |-> mm[s]]
  BY <1>3, <1>4
<1> QED
  BY <1>5

\* The mute replayed to a stream is one parked for it, if one is.
LEMMA ReplayedMuteIsParked ==
  ASSUME TypeOK, NEW s \in Stream, NEW n \in Name, pendingMutes[n] # None, s \in StreamsOf(n)
  PROVE  MuteReplayed(s) \in ParkedFor(pendingMutes, n)
<1> DEFINE M == PendingOn(pendingMutes, s)
           alone == {k \in M : ~HasVolume(k)}
           withVolume == {k \in M : pendingVolumes[k] # None}
<1>1. /\ M \in SUBSET Name /\ n \in M
      /\ \A k \in M : s \in StreamsOf(k)
      /\ alone \in SUBSET M /\ withVolume \in SUBSET M
  BY DEF PendingOn
<1>2. \/ alone # {} /\ MuteReplayed(s) = pendingMutes[Last(alone)]
      \/ withVolume # {} /\ MuteReplayed(s) = pendingMutes[Last(withVolume)]
      \/ M # {} /\ MuteReplayed(s) = pendingMutes[Last(M)]
  BY <1>1 DEF MuteReplayed
<1> HIDE DEF M, alone, withVolume
<1>3. /\ alone # {} => Last(alone) \in alone
      /\ withVolume # {} => Last(withVolume) \in withVolume
      /\ M # {} => Last(M) \in M
  BY <1>1, NamesAndStreams
<1>4. PICK k \in M : MuteReplayed(s) = pendingMutes[k]
  BY <1>1, <1>2, <1>3
<1> QED
  BY <1>1, <1>4 DEF ParkedFor, StreamsOf

\* What a replay takes out of the map of mutes it has handed over.
LEMMA ReplayHandsMutesOver ==
  ASSUME TypeOK, NoRoutes, PipeWire \/ Routes = {}, "gone" \notin Trouble, ReplayPending,
         NEW n \in Name, pendingMutes[n] # None, pendingMutes'[n] = None
  PROVE  MuteHandedOver(n, ParkedFor(pendingMutes, n))
<1>1. PICK readInputs \in Reads, readDb \in Reads, o \in [Stream -> Outcome],
           m \in [Stream -> Outcome], r \in [Stream -> Outcome] :
        ReplayTo(Inputs(readInputs), readDb, o, m, r)
  BY DEF ReplayPending
<1> DEFINE S == Inputs(readInputs)
           applied == Applied(S, o, m)
<1>2. S \in SUBSET Stream /\ \A s \in S : Live(s)
  BY DEF Inputs, Active, Live
<1>3. pendingMutes' = [k \in Name |-> IF k \in applied THEN None ELSE pendingMutes[k]]
      /\ LoseStreams({t \in S : "gone" \in {o[t], m[t], r[t]}
                                /\ \E k \in Name : HasPending(k) /\ t \in StreamsOf(k)})
  BY <1>1 DEF ReplayTo
<1>4. PICK s \in S \cap StreamsOf(n) : s \in Reported(m, S)
  <2> HIDE DEF applied
  <2>1. n \in applied
    BY <1>3
  <2> QED
    BY <2>1 DEF applied, Applied
<1>5. s \in Stream /\ s \in Taken(m, S)
  BY <1>2, <1>4, Outcomes DEF Reported, Taken
<1>6. muted'[s] = MuteReplayed(s)
  BY <1>1, <1>5, ReplayedMutes
<1>7. MuteReplayed(s) \in ParkedFor(pendingMutes, n)
  BY <1>4, <1>5, ReplayedMuteIsParked
<1>8. Live(s)'
  <2>1. \A t \in S : "gone" \notin {o[t], m[t], r[t]}
    BY <1>2, Outcomes
  <2>2. LoseStreams({})
    BY <1>3, <2>1, Zenon
  <2> QED
    BY <1>2, <1>4, <2>2, NoneLost DEF Live
<1> QED
  BY <1>4, <1>6, <1>7, <1>8 DEF MuteHandedOver

\* A parked mute is never lost on the way either, under the same conditions
\* (toggleMute, setAppMute, doApplyPending).
THEOREM ParkedMutesAreHandedOver ==
  ASSUME PipeWire \/ Routes = {}, "gone" \notin Trouble
  PROVE  Spec => ParkedMuteIsHandedOver
<1> DEFINE wanted(k) == IF Replays THEN ParkedFor(pendingMutes, k) ELSE {appMutes'[k]}
           Delivered == \A k \in Name : pendingMutes[k] # None /\ pendingMutes'[k] = None =>
                          \/ \E s \in StreamsOf(k) : Live(s)' /\ muted'[s] \in wanted(k)
                          \/ db'[Denotes[k]] # None /\ db'[Denotes[k]].muted \in wanted(k)
<1>1. TypeOK /\ NoRoutes /\ [Next]_vars => Delivered
  <2> SUFFICES ASSUME TypeOK, NoRoutes, [Next]_vars, NEW n \in Name,
                      pendingMutes[n] # None, pendingMutes'[n] = None
               PROVE  MuteHandedOver(n, wanted(n))
    BY Zenon DEF MuteHandedOver
  <2>1. ~UNCHANGED pendingMutes
    OBVIOUS
  <2>2. CASE Replays
    <3>1. ReplayPending
      BY <2>1, <2>2, ReplaysOnly DEF DoApplyPending
    <3> QED
      BY <2>2, <3>1, ReplayHandsMutesOver
  <2>3. CASE ~Replays
    <3> SUFFICES MuteHandedOver(n, {appMutes'[n]})
      BY <2>3
    <3>1. CASE Request
      <4> PICK k \in Name : RequestFor(k)
        BY <3>1 DEF Request
      <4>1. CASE DoToggleMute(k) \/ SetAppMute(k, TRUE) \/ SetAppMute(k, FALSE)
        <5>1. \E g \in [BOOLEAN -> BOOLEAN] : MuteCascade(k, g)
          BY <4>1 DEF DoToggleMute, SetAppMute, Toggled, Switched
        <5> QED
          BY <5>1, MuteCascadeHandsOver
      <4> QED
        BY <2>1, <4>1
           DEF RequestFor, DoChangeVolume, SetAppVolume, DoQueryVolume, DoSetAppSink,
               DoClearAppSinkOverride, StartDucking, pendingVars
    <3>2. CASE ReconnectApplies \/ ApplyPendingTimer
      <4>1. due \in Nat
        BY WorkerAssumption DEF WorkerAssumption, TypeOK, ConnectionTypeOK
      <4> QED
        BY <2>3, <3>2, <4>1 DEF Replays, ReconnectApplies, ApplyPendingTimer
    <3>3. CASE \/ ConnectContext \/ ConnectFails \/ ReconnectNotNeeded \/ HandleContextLost
               \/ ReconnectFlushes \/ StopDucking \/ RestoreNext \/ RestoreEnds \/ RequestStop
               \/ Cleanup \/ World \/ UNCHANGED vars
      BY <2>1, <3>3
         DEF ConnectContext, ConnectFails, ReconnectNotNeeded, HandleContextLost,
             ReconnectFlushes, StopDucking, RestoreNext, RestoreEnds, RequestStop, Cleanup,
             World, WatcherConnects, Opens, Resumes, DaemonGone, Elsewhere, vars, pendingVars
    <3> QED
      BY <3>1, <3>2, <3>3 DEF Next, Background
  <2> QED
    BY <2>2, <2>3
<1>2. TypeOK /\ NoRoutes /\ [Next]_vars => [Delivered]_vars
  BY <1>1
<1>3. ParkedMuteIsHandedOver <=> [][Delivered]_vars
  BY DEF ParkedMuteIsHandedOver
<1> QED
  BY <1>2, <1>3, TypeCorrect, RoutesAreAskedFor, PTL DEF Spec

\* Some request's limits hold v.
WithinLimits(v) == \E l \in Limits : v \in Low(l) .. High(l)

\* With Focus Audio left alone every plain volume that is parked was asked for.
LimitsInv ==
  /\ Ducks = {} => ~duckingActive /\ restoring.entries = {}
  /\ Ducks = {} => \A k \in Name : pendingVolumes[k] # None => WithinLimits(pendingVolumes[k])

\* A request asks for no volume beyond its limits, also where it adds to a
\* volume that is beyond them.
LEMMA RequestedWithinLimits ==
  ASSUME NEW l \in Limits, NEW v \in Volume
  PROVE  /\ \A d \in Deltas : WithinLimits(Relative(d, l)[v])
         /\ \A t \in Levels : WithinLimits(Absolute(t, l)[v])
<1>1. \A x \in Int : Clamp(x, Low(l), High(l)) \in Low(l) .. High(l)
  BY Bounds, ServerAssumption DEF ServerAssumption, Clamp, Volume
<1>2. Volume \subseteq Int /\ Deltas \subseteq Int /\ Levels \subseteq Int
  BY WorkerAssumption DEF WorkerAssumption, Volume
<1> QED
  BY <1>1, <1>2 DEF Relative, Absolute, WithinLimits

\* A cascade parks what the request makes of some volume, or nothing.
LEMMA CascadeParksAsked ==
  ASSUME TypeOK, NEW k \in Name, NEW f \in [Volume -> Volume], VolumeCascade(k, f)
  PROVE  RemovePendingVolume(k) \/ \E v \in Volume : ParkPendingVolume(k, f[v])
<1>1. PICK readInputs \in Reads, readDb \in Reads, o \in [Stream -> Outcome] :
        LET S == Inputs(readInputs) \cap StreamsOf(k)
            N == NodesOf(k)
            mid == After(f, S, o, vol)
        IN
        \/ WriteStreams(k, f, S, o, vol)
        \/ \E p \in [Stream -> Outcome] :
             \/ WriteStreams(k, f, N, p, mid)
             \/ /\ Stored(Denotes[k], readDb)
                /\ WriteStored(k, f, After(f, N, p, mid))
             \/ ParkRequest(k, f, After(f, N, p, mid))
  BY Zenon DEF VolumeCascade
<1>2. ASSUME NEW S, NEW q, NEW before, WriteStreams(k, f, S, q, before)
      PROVE  RemovePendingVolume(k)
  BY <1>2 DEF WriteStreams
<1>3. ASSUME NEW before, NEW read, Stored(Denotes[k], read), WriteStored(k, f, before)
      PROVE  RemovePendingVolume(k) \/ \E v \in Volume : ParkPendingVolume(k, f[v])
  <2>1. db[Denotes[k]].vol \in Volume
    BY <1>3, StoredEntry, ServerAssumption DEF ServerAssumption, DbEntry
  <2> QED
    BY <1>3, <2>1 DEF WriteStored
<1>4. ASSUME NEW before, ParkRequest(k, f, before)
      PROVE  \E v \in Volume : ParkPendingVolume(k, f[v])
  BY <1>4 DEF ParkRequest, TypeOK, VolumesTypeOK
<1> QED
  BY <1>1, <1>2, <1>3, <1>4, Zenon

\* The limits the invariant speaks of are the ones of every later state.
LEMMA LimitsKeep ==
  ASSUME LimitsInv, UNCHANGED <<duckingActive, restoring>>,
         \A k \in Name : pendingVolumes'[k] \in {None, pendingVolumes[k]}
  PROVE  LimitsInv'
BY DEF LimitsInv, WithinLimits

\* Whatever level of whatever cascade parks it, a volume is within the limits
\* its request came with (changeVolume, setAppVolume); Focus Audio, which knows
\* no limits, must not have parked its own.
THEOREM ParkedVolumesAreLimited ==
  ASSUME Ducks = {}
  PROVE  Spec => []ParkedWithinLimits
<1>1. Init => LimitsInv
  BY DEF Init, LimitsInv, Idle
<1>2. TypeOK /\ LimitsInv /\ [Next]_vars => LimitsInv'
  <2> SUFFICES ASSUME TypeOK, LimitsInv, [Next]_vars PROVE LimitsInv'
    OBVIOUS
  <2>1. CASE Request
    <3> PICK k \in Name : RequestFor(k)
      BY <2>1 DEF Request
    <3>1. ASSUME NEW f \in [Volume -> Volume], VolumeCascade(k, f), UNCHANGED duckVars,
                 \A v \in Volume : WithinLimits(f[v])
          PROVE  LimitsInv'
      <4>1. CASE RemovePendingVolume(k)
        BY <3>1, <4>1, LimitsKeep DEF RemovePendingVolume, TypeOK, VolumesTypeOK, duckVars
      <4>2. CASE \E v \in Volume : ParkPendingVolume(k, f[v])
        <5>1. PICK v \in Volume : ParkPendingVolume(k, f[v])
          BY <4>2
        <5>2. pendingVolumes' = [pendingVolumes EXCEPT ![k] = f[v]]
          BY <5>1 DEF ParkPendingVolume
        <5>3. \A n \in Name : pendingVolumes'[n] = IF n = k THEN f[v] ELSE pendingVolumes[n]
          BY <5>2 DEF TypeOK, VolumesTypeOK
        <5> QED
          BY <3>1, <5>3 DEF LimitsInv, WithinLimits, duckVars
      <4> QED
        BY <3>1, <4>1, <4>2, CascadeParksAsked
    <3>2. CASE \/ \E d \in Deltas, l \in Limits : DoChangeVolume(k, d, l)
               \/ \E t \in Levels, l \in Limits : SetAppVolume(k, t, l)
      BY <3>1, <3>2, Requested, RequestedWithinLimits DEF DoChangeVolume, SetAppVolume
    <3>3. CASE ~(\/ \E d \in Deltas, l \in Limits : DoChangeVolume(k, d, l)
                 \/ \E t \in Levels, l \in Limits : SetAppVolume(k, t, l))
      <4>1. UNCHANGED <<pendingVolumes, duckingActive, restoring>>
        BY <3>3 DEF RequestFor, DoToggleMute, SetAppMute, DoQueryVolume, DoSetAppSink,
                    DoClearAppSinkOverride, pendingVars, volumePending, duckVars
      <4> QED
        BY <4>1, LimitsKeep
    <3> QED
      BY <3>2, <3>3
  <2>2. CASE ReconnectApplies \/ ApplyPendingTimer
    <3>1. UNCHANGED duckVars
          /\ (ReplayPending \/ UNCHANGED volumePending)
      BY <2>2 DEF ReconnectApplies, ApplyPendingTimer, DoApplyPending
    <3>2. ReplayPending => \A k \in Name : pendingVolumes'[k] \in {None, pendingVolumes[k]}
      BY DEF ReplayPending, ReplayTo
    <3> QED
      BY <3>1, <3>2, LimitsKeep DEF duckVars, volumePending
  <2>3. CASE RestoreNext \/ StopDucking
    BY <2>3 DEF RestoreNext, StopDucking, LimitsInv
  <2>4. CASE RestoreEnds
    BY <2>4 DEF RestoreEnds, LimitsInv, Idle, pendingVars, volumePending, WithinLimits
  <2>5. CASE \/ ConnectContext \/ ConnectFails \/ ReconnectNotNeeded \/ HandleContextLost
             \/ ReconnectFlushes \/ RequestStop \/ Cleanup \/ World \/ UNCHANGED vars
    <3>1. UNCHANGED <<pendingVolumes, duckingActive, restoring>>
      BY <2>5
         DEF ConnectContext, ConnectFails, ReconnectNotNeeded, HandleContextLost,
             ReconnectFlushes, RequestStop, Cleanup, World, WatcherConnects, Opens, Resumes,
             DaemonGone, Elsewhere, vars, pendingVars, volumePending, duckVars
    <3> QED
      BY <3>1, LimitsKeep
  <2> QED
    BY <2>1, <2>2, <2>3, <2>4, <2>5 DEF Next, Background
<1>3. LimitsInv => ParkedWithinLimits
  BY DEF LimitsInv, ParkedWithinLimits, WithinLimits
<1> QED
  BY <1>1, <1>2, <1>3, TypeCorrect, PTL DEF Spec

\* The identities in a snapshot: the one remembered of an input is that of the
\* stream it was taken from, no two entries share one, and either every input
\* has one or none has.
Identified(E) ==
  /\ \A e \in E : e.index # None =>
       /\ e.from = e.index /\ AppOf[e.index] = e.app /\ "pulse" \in e.exact
       /\ "visible" \in e.exact => e.node = e.index
  /\ \A e, f \in E : e.index # None /\ Kind(f) = 0 => f.index # None
  /\ \A e, f \in E : e.index # None /\ e.index = f.index => e = f

\* No stream that an entry has still to be restored to was taken by another.
IdentityInv ==
  /\ Identified(duckingSnapshot)
  /\ Identified(restoring.entries)
  /\ \A e \in restoring.entries : e.index # None => e.index \notin restoring.done

\* A snapshot identifies its streams when it is made.
LEMMA SnapshotIsIdentified ==
  ASSUME NEW read, NEW E,
         \A e \in E : \/ \E s \in Stream : e = InputEntry(s) \/ e = NodeEntry(s)
                     \/ \E a : e = ClientEntry(a, read)
  PROVE  Identified(E)
<1>1. \A s \in Stream : s # None
  BY ServerAssumption DEF ServerAssumption
<1>2. \A s \in Stream :
        LET e == InputEntry(s) IN
        /\ e.index = s /\ e.from = s /\ AppOf[s] = e.app /\ "pulse" \in e.exact
        /\ "visible" \in e.exact => e.node = s
  BY <1>1 DEF InputEntry, NodeKnown
<1>3. \A s \in Stream : NodeEntry(s).index = None /\ Kind(NodeEntry(s)) # 0
  BY DEF NodeEntry, Kind
<1>4. \A a : ClientEntry(a, read).index = None /\ Kind(ClientEntry(a, read)) # 0
  BY DEF ClientEntry, Kind
<1>5. \A e \in E : \/ \E s \in Stream : e = InputEntry(s)
                   \/ e.index = None /\ Kind(e) # 0
  BY <1>3, <1>4
<1>6. \A e \in E : e.index # None =>
        \E s \in Stream : e = InputEntry(s) /\ e.index = s
  BY <1>2, <1>5
<1>7. \A e \in E : Kind(e) = 0 => e.index # None
  BY <1>1, <1>2, <1>5
<1>8. \A e \in E : e.index # None =>
       /\ e.from = e.index /\ AppOf[e.index] = e.app /\ "pulse" \in e.exact
       /\ "visible" \in e.exact => e.node = e.index
  BY <1>2, <1>6
<1> QED
  BY <1>6, <1>7, <1>8 DEF Identified

\* Restoring an entry takes its own stream, when it has one.
LEMMA RestoresItsOwn ==
  ASSUME TypeOK, IdentityInv, NEW e \in restoring.entries, RestoreEntry(e)
  PROVE  /\ restoring'.entries = restoring.entries \ {e}
         /\ restoring'.inputs = restoring.inputs
         /\ \/ restoring'.done = restoring.done
            \/ \E s \in Stream : /\ restoring'.done = restoring.done \cup {s}
                                 /\ e.index # None => s = e.index
<1> DEFINE I == IF Writable(e) THEN InputsFor(e) ELSE {}
           N == NodesFor(e)
<1>1. PICK readDb \in Reads, o \in [Stream -> Outcome], p \in [Stream -> Outcome] :
        \/ I # {} /\ RestoreStream(e, First(I), o)
        \/ N # {} /\ RestoreStream(e, First(N), p)
        \/ restoring' = [restoring EXCEPT !.entries = @ \ {e}]
  BY Zenon DEF RestoreEntry, AbandonEntry, RestoreStored, RestoreByRequest
<1>2. /\ I \in SUBSET Stream /\ N \in SUBSET Stream
      /\ e.index # None => \A s \in I \cup N : s = e.index
  <2>1. I \in SUBSET Stream /\ N \in SUBSET Stream
    BY DEF InputsFor, NodesFor, NodesOf, StreamsOf, TypeOK, DuckingTypeOK
  <2>2. e.index # None => \A s \in I : s = e.index
    BY DEF InputsFor
  <2>3. e.index # None => \A s \in N : s = e.index
    BY DEF NodesFor, IdentityInv, Identified
  <2> QED
    BY <2>1, <2>2, <2>3
<1> HIDE DEF I, N
<1>3. (I # {} => First(I) \in I) /\ (N # {} => First(N) \in N)
  BY <1>2, NamesAndStreams
<1>4. \A s, q : RestoreStream(e, s, q) =>
        restoring' = [restoring EXCEPT !.entries = @ \ {e}, !.done = @ \cup {s}]
  BY DEF RestoreStream
<1>5. restoring \in [entries : SUBSET Entry, inputs : SUBSET Stream, done : SUBSET Stream]
  BY DEF TypeOK, DuckingTypeOK
<1>6. CASE restoring' = [restoring EXCEPT !.entries = @ \ {e}]
  BY <1>5, <1>6
<1>7. ASSUME NEW s \in I \cup N,
             restoring' = [restoring EXCEPT !.entries = @ \ {e}, !.done = @ \cup {s}]
      PROVE  /\ restoring'.entries = restoring.entries \ {e}
             /\ restoring'.inputs = restoring.inputs
             /\ restoring'.done = restoring.done \cup {s}
             /\ s \in Stream /\ (e.index # None => s = e.index)
  BY <1>2, <1>5, <1>7
<1> QED
  BY <1>1, <1>3, <1>4, <1>6, <1>7

\* A step of the restore takes entries away and touches no identity.
LEMMA RestoreKeepsIdentity ==
  ASSUME TypeOK, IdentityInv, RestoreNext
  PROVE  IdentityInv'
<1>1. PICK e \in restoring.entries :
        (\A f \in restoring.entries : ~Before(f, e)) /\ RestoreEntry(e)
  BY DEF RestoreNext
<1>2. UNCHANGED duckingSnapshot
  BY DEF RestoreNext
<1>3. /\ restoring'.entries = restoring.entries \ {e}
      /\ \/ restoring'.done = restoring.done
         \/ \E s \in Stream : /\ restoring'.done = restoring.done \cup {s}
                              /\ e.index # None => s = e.index
  BY <1>1, RestoresItsOwn
<1>4. ASSUME NEW g \in restoring.entries \ {e}, g.index # None
      PROVE  g.index \notin restoring'.done
  <2>1. Kind(g) = 0
    BY <1>4 DEF IdentityInv, Identified, Kind
  <2>2. Kind(e) = 0
    BY <1>1, <2>1 DEF Before, Kind
  <2>3. e.index # None /\ e.index # g.index
    BY <1>4, <2>2 DEF IdentityInv, Identified
  <2> QED
    BY <1>3, <1>4, <2>3 DEF IdentityInv
<1>5. Identified(restoring.entries \ {e})
  BY DEF IdentityInv, Identified
<1> QED
  BY <1>2, <1>3, <1>4, <1>5 DEF IdentityInv, Identified

\* Without failures and time-outs a write reaches its stream or the stream ends.
LEMMA WriteOrEnd ==
  ASSUME "lost" \notin Trouble, "late" \notin Trouble, NEW o \in [Stream -> Outcome],
         NEW s \in Stream
  PROVE  o[s] = "done" \/ o[s] = "gone"
BY Outcomes DEF Outcome

\* A snapshot always tells its streams apart, through a stop that finds the
\* server gone and through every step of the restore (doToggleDucking,
\* restoreDuckEntry).
THEOREM SnapshotsIdentifyStreams == Spec => []IdentityInv
<1>1. Init => IdentityInv
  BY DEF Init, IdentityInv, Identified, Idle
<1>2. TypeOK /\ DuckingHasSnapshot /\ IdentityInv /\ [Next]_vars => IdentityInv'
  <2> SUFFICES ASSUME TypeOK, DuckingHasSnapshot, IdentityInv, [Next]_vars PROVE IdentityInv'
    OBVIOUS
  <2>1. CASE UNCHANGED <<duckingSnapshot, restoring>>
    BY <2>1 DEF IdentityInv, Identified
  <2>2. ASSUME NEW k \in Name, NEW d \in Ducks, StartDucking(k, d) PROVE IdentityInv'
    <3>1. PICK readInputs \in Reads, readDb \in Reads, o \in [Stream -> Outcome] :
            LowerOthers(k, d, Inputs(readInputs), readDb, o)
      BY <2>2 DEF StartDucking
    <3> DEFINE heard == Inputs(readInputs)
               idle == IdleApps(k, heard)
               inputs == {t \in heard : AppOf[t] # Denotes[k] /\ vol[t] # d}
               nodes == {t \in Stream : Live(t) /\ AppOf[t] \in idle /\ vol[t] # d}
               bare == {a \in idle : /\ \A s \in Stream : Live(s) => AppOf[s] # a
                                     /\ ClientEntry(a, readDb).vol # d}
    <3>2. duckingSnapshot' = {InputEntry(t) : t \in VolumeReported(o, inputs)}
                             \cup {NodeEntry(t) : t \in VolumeReported(o, nodes)}
                             \cup {ClientEntry(a, readDb) : a \in bare}
      BY <3>1 DEF LowerOthers
    <3>3. inputs \in SUBSET Stream /\ nodes \in SUBSET Stream
      BY DEF Inputs, Active
    <3> HIDE DEF inputs, nodes, bare
    <3>4. VolumeReported(o, inputs) \in SUBSET Stream /\ VolumeReported(o, nodes) \in SUBSET Stream
      BY <3>3 DEF VolumeReported, Reported
    <3>5. Identified(duckingSnapshot')
      <4>1. \A e \in duckingSnapshot' :
              \/ \E s \in Stream : e = InputEntry(s) \/ e = NodeEntry(s)
              \/ \E a : e = ClientEntry(a, readDb)
        BY <3>2, <3>4
      <4> QED
        BY <4>1, SnapshotIsIdentified
    <3>6. UNCHANGED restoring
      BY <2>2 DEF StartDucking
    <3> QED
      BY <3>5, <3>6 DEF IdentityInv, Identified
  <2>3. CASE HandleContextLost
    <3>1. UNCHANGED restoring
      BY <2>3 DEF HandleContextLost
    <3>2. \/ UNCHANGED duckingSnapshot
          \/ duckingSnapshot' = WithoutIdentity(duckingSnapshot)
      BY <2>3 DEF HandleContextLost
    <3>3. \A e \in duckingSnapshot : [e EXCEPT !.index = None, !.node = None].index = None
      BY DEF TypeOK, DuckingTypeOK, Entry
    <3>4. \A e \in WithoutIdentity(duckingSnapshot) : e.index = None
      BY <3>3 DEF WithoutIdentity
    <3>5. Identified(WithoutIdentity(duckingSnapshot))
      BY <3>4 DEF Identified
    <3> QED
      BY <3>1, <3>2, <3>5 DEF IdentityInv, Identified
  <2>4. CASE StopDucking
    <3>1. /\ duckingSnapshot' = {} /\ restoring'.entries = duckingSnapshot
          /\ restoring'.done = {}
      BY <2>4 DEF StopDucking
    <3> QED
      BY <3>1 DEF IdentityInv, Identified
  <2>5. CASE RestoreNext
    BY <2>5, RestoreKeepsIdentity
  <2>6. CASE RestoreEnds
    BY <2>6 DEF RestoreEnds, Idle, IdentityInv, Identified
  <2>7. CASE \/ ConnectContext \/ ConnectFails \/ ReconnectNotNeeded \/ ReconnectApplies
             \/ ReconnectFlushes \/ ApplyPendingTimer \/ RequestStop \/ Cleanup \/ World
             \/ UNCHANGED vars
    BY <2>1, <2>7
       DEF ConnectContext, ConnectFails, ReconnectNotNeeded, ReconnectApplies, ReconnectFlushes,
           ApplyPendingTimer, DoApplyPending, RequestStop, Cleanup, World, WatcherConnects, Opens,
           Resumes, DaemonGone, Elsewhere, vars, duckVars
  <2>8. CASE Request
    <3> PICK k \in Name : RequestFor(k)
      BY <2>8 DEF Request
    <3>1. CASE \E d \in Ducks : StartDucking(k, d)
      BY <2>2, <3>1
    <3> QED
      BY <2>1, <3>1
         DEF RequestFor, DoChangeVolume, SetAppVolume, DoToggleMute, SetAppMute, DoQueryVolume,
             DoSetAppSink, DoClearAppSinkOverride, duckVars
  <2> QED
    BY <2>2, <2>3, <2>4, <2>5, <2>6, <2>7, <2>8 DEF Next, Background
<1> QED
  BY <1>1, <1>2, TypeCorrect, DuckingKeepsItsSnapshot, PTL DEF Spec

\* While the connection holds, an entry whose stream is listed goes to that
\* stream and to no other, also when streams end while they are written to and
\* when the worker is told to stop; a write must not fail or time out, for then
\* the database entry or a request for the application takes its place.
THEOREM RestoresKeepToTheirStreams ==
  ASSUME "lost" \notin Trouble, "late" \notin Trouble
  PROVE  Spec => RestoreKeepsToItsStream
<1> DEFINE Kept == \A e \in restoring.entries \ restoring'.entries :
             ctx = "ready" /\ phase' = "restore" /\ e.index # None
             /\ e.index \in restoring.inputs =>
               /\ ~stopping /\ Live(e.index)' => vol'[e.index] = e.vol
               /\ \A s \in Stream \ {e.index} : Live(s) => vol'[s] = vol[s]
<1>1. TypeOK /\ DuckingHasSnapshot /\ IdentityInv /\ [Next]_vars => Kept
  <2> SUFFICES ASSUME TypeOK, DuckingHasSnapshot, IdentityInv, [Next]_vars,
                      NEW e \in restoring.entries \ restoring'.entries,
                      ctx = "ready", phase' = "restore", e.index # None,
                      e.index \in restoring.inputs
               PROVE  /\ ~stopping /\ Live(e.index)' => vol'[e.index] = e.vol
                      /\ \A s \in Stream \ {e.index} : Live(s) => vol'[s] = vol[s]
    BY Zenon
  <2>1. RestoreNext
    <3>1. restoring # Idle /\ phase = "restore"
      BY DEF Idle, DuckingHasSnapshot
    <3>2. ~UNCHANGED restoring
      OBVIOUS
    <3> QED
      BY <3>1, <3>2
         DEF Next, Request, RequestFor, DoChangeVolume, SetAppVolume, DoToggleMute, SetAppMute,
             DoQueryVolume, DoSetAppSink, DoClearAppSinkOverride, StartDucking, Background,
             ConnectContext, ConnectFails, ReconnectNotNeeded, ReconnectApplies,
             ReconnectFlushes, HandleContextLost, ApplyPendingTimer, DoApplyPending, StopDucking,
             RestoreEnds, RequestStop, Cleanup, World, WatcherConnects, Opens, Resumes,
             DaemonGone, Elsewhere, vars, duckVars, Ready
  <2>2. RestoreEntry(e)
    <3>1. PICK f \in restoring.entries : RestoreEntry(f)
      BY <2>1 DEF RestoreNext
    <3>2. restoring'.entries = restoring.entries \ {f}
      BY <3>1, RestoresItsOwn
    <3> QED
      BY <3>1, <3>2
  <2> DEFINE i == e.index
             I == IF Writable(e) THEN InputsFor(e) ELSE {}
             N == NodesFor(e)
  <2>3. /\ i \in Stream /\ i \notin restoring.done /\ AppOf[i] = e.app /\ "pulse" \in e.exact
        /\ "visible" \in e.exact => e.node = i
    BY DEF TypeOK, DuckingTypeOK, Entry, IdentityInv, Identified
  <2>4. I = {i} /\ N \in SUBSET {i}
    BY <2>3 DEF Writable, InputsFor, NodesFor
  <2>5. First(I) = i /\ (N # {} => First(N) = i)
    <3>1. First({i}) = i
      BY <2>3, NamesAndStreams
    <3> QED
      BY <2>4, <3>1
  <2>6. PICK readDb \in Reads, o \in [Stream -> Outcome], p \in [Stream -> Outcome] :
          LET byInput == I # {} /\ InputRestored(e, First(I), o)
              byNode == N # {} /\ p[First(N)] = "done"
          IN
          \/ byInput /\ RestoreStream(e, First(I), o)
          \/ ~byInput /\ byNode /\ RestoreStream(e, First(N), p)
          \/ /\ ~byInput /\ ~byNode
             /\ IF stopping THEN AbandonEntry(e, IF I = {} THEN {} ELSE {First(I)})
                ELSE IF "pulse" \in e.exact /\ Stored(e.app, readDb) THEN RestoreStored(e)
                ELSE RestoreByRequest(e)
    BY <2>2, Zenon DEF RestoreEntry
  <2>7. ~stopping => InputRestored(e, i, o)
    <3>1. o[i] = "done" \/ o[i] = "gone"
      BY <2>3, WriteOrEnd
    <3> QED
      BY <2>3, <3>1 DEF InputRestored
  <2> HIDE DEF I, N, i
  <2>8. \/ InputRestored(e, i, o) /\ RestoreStream(e, i, o)
        \/ stopping /\ RestoreStream(e, i, p)
        \/ stopping /\ AbandonEntry(e, {i})
    BY <2>4, <2>5, <2>6, <2>7
  <2>9. \A s \in Stream \ {i} : vol'[s] = vol[s]
    <3>1. ASSUME NEW q, RestoreStream(e, i, q) PROVE \A s \in Stream \ {i} : vol'[s] = vol[s]
      BY <3>1, <2>3 DEF RestoreStream, TypeOK, ServerTypeOK
    <3>2. ASSUME AbandonEntry(e, {i}) PROVE \A s \in Stream \ {i} : vol'[s] = vol[s]
      BY <3>2, <2>3 DEF AbandonEntry
    <3> QED
      BY <2>8, <3>1, <3>2
  <2>10. ~stopping /\ Live(i)' => vol'[i] = e.vol
    <3> SUFFICES ASSUME ~stopping, Live(i)' PROVE vol'[i] = e.vol
      OBVIOUS
    <3>1. RestoreStream(e, i, o)
      BY <2>8
    <3>2. o[i] = "done" \/ o[i] = "gone"
      BY <2>3, WriteOrEnd
    <3>3. Live(i) /\ o[i] = "done"
      BY <2>3, <3>1, <3>2 DEF RestoreStream, LoseStreams, Ended, Live
    <3> QED
      BY <2>3, <3>1, <3>3 DEF RestoreStream, TypeOK, ServerTypeOK
  <2> QED
    BY <2>9, <2>10 DEF i
<1>2. TypeOK /\ DuckingHasSnapshot /\ IdentityInv /\ [Next]_vars => [Kept]_vars
  BY <1>1
<1>3. RestoreKeepsToItsStream <=> [][Kept]_vars
  BY DEF RestoreKeepsToItsStream
<1> QED
  BY <1>2, <1>3, TypeCorrect, DuckingKeepsItsSnapshot, SnapshotsIdentifyStreams, PTL DEF Spec

=============================================================================
