---------------------------- MODULE PaWorkerTypes ----------------------------
(***************************************************************************)
(* The variables of PaWorker keep their types, whatever is requested and   *)
(* however operations fail.                                                *)
(***************************************************************************)
EXTENDS PaWorker, FiniteSetTheorems, WellFoundedInduction, TLAPS

-----------------------------------------------------------------------------
(* The first and the last element of a set of stream numbers or names. *)

\* A nonempty set of numbers has a least element.
LEMMA Least == ASSUME NEW S \in SUBSET Nat, S # {} PROVE \E x \in S : \A y \in S : x <= y
<1>1. PICK x \in S : \A y \in S : <<y, x>> \notin OpToRel(<, Nat)
  BY NatLessThanWellFounded, WFMin
<1>2. \A y \in S : ~(y < x)
  BY <1>1 DEF OpToRel
<1> QED
  BY <1>2

\* First(S) is an element of S below all others.
LEMMA FirstElement == ASSUME NEW S \in SUBSET Nat, S # {}
                      PROVE  First(S) \in S /\ \A y \in S : First(S) <= y
BY Least DEF First

\* Last(S) is an element of S above all others: one with the fewest elements
\* above it has none above it.
LEMMA LastElement == ASSUME NEW S \in SUBSET Nat, IsFiniteSet(S), S # {}
                     PROVE  Last(S) \in S /\ \A y \in S : y <= Last(S)
<1> DEFINE above(x) == {y \in S : x < y}
           counts == {Cardinality(above(x)) : x \in S}
<1>1. \A x \in S : IsFiniteSet(above(x)) /\ Cardinality(above(x)) \in Nat
  BY FS_Subset, FS_CardinalityType
<1>2. counts \in SUBSET Nat /\ counts # {}
  BY <1>1
<1>3. \A x \in S : Cardinality(above(x)) \in counts
  OBVIOUS
<1>4. \A c \in counts : \E x \in S : c = Cardinality(above(x))
  OBVIOUS
<1> HIDE DEF counts
<1>5. PICK n \in counts : \A c \in counts : n <= c
  BY <1>2, Least
<1>6. PICK x \in S : n = Cardinality(above(x))
  BY <1>4
<1>7. ASSUME NEW z \in S PROVE z <= x
  <2> SUFFICES ASSUME x < z PROVE FALSE
    OBVIOUS
  <2>1. \A y \in S : z < y => x < y
    OBVIOUS
  <2>3. z \in above(x) /\ z \notin above(z)
    OBVIOUS
  <2>4. above(z) \in SUBSET above(x)
    BY <2>1
  <2> HIDE DEF above
  <2>2. IsFiniteSet(above(x)) /\ Cardinality(above(z)) \in Nat /\ n <= Cardinality(above(z))
    BY <1>1, <1>3, <1>5
  <2> QED
    BY <1>1, <1>6, <2>1, <2>2, <2>3, <2>4, FS_Subset
<1> QED
  BY <1>7 DEF Last

\* Every nonempty set of names or of streams has both.
LEMMA NamesAndStreams == 
  ASSUME NEW S, S \in SUBSET Name \/ S \in SUBSET Stream, S # {}
  PROVE  First(S) \in S /\ Last(S) \in S
<1>1. S \in SUBSET Nat /\ IsFiniteSet(S)
  BY ServerAssumption, FS_Subset DEF ServerAssumption
<1> QED
  BY <1>1, FirstElement, LastElement

-----------------------------------------------------------------------------
(* The volumes a request asks for. *)

\* The sanitised bounds are volumes, the right way round.
LEMMA Bounds == ASSUME NEW l \in Limits
                PROVE  Low(l) \in Volume /\ High(l) \in Volume /\ Low(l) <= High(l)
BY ServerAssumption, WorkerAssumption DEF ServerAssumption, WorkerAssumption, Volume, Low, High

\* A relative or absolute request maps volumes to volumes.
LEMMA Requested == ASSUME NEW l \in Limits
                   PROVE  /\ \A d \in Deltas : Relative(d, l) \in [Volume -> Volume]
                          /\ \A t \in Levels : Absolute(t, l) \in [Volume -> Volume]
<1>1. \A v \in Int : Clamp(v, Low(l), High(l)) \in Volume
  BY Bounds, ServerAssumption DEF ServerAssumption, Clamp, Volume
<1>2. Volume \subseteq Int /\ Deltas \subseteq Int /\ Levels \subseteq Int
  BY WorkerAssumption DEF WorkerAssumption, Volume
<1> QED
  BY <1>1, <1>2 DEF Relative, Absolute

\* Streams that a write reached hold what it asked for.
LEMMA AfterWrites ==
  ASSUME NEW f \in [Volume -> Volume], NEW S, NEW o, NEW before \in [Stream -> Volume]
  PROVE  After(f, S, o, before) \in [Stream -> Volume]
BY DEF After

\* The values a volume request leaves behind.
VolumesKeepType ==
  /\ vol' \in [Stream -> Volume]
  /\ life' \in [Stream -> Life]
  /\ muted' \in [Stream -> BOOLEAN]
  /\ db' \in [App -> DbEntry \cup {None}]
  /\ VolumesTypeOK'
  /\ appMutes' \in [Name -> BOOLEAN]

\* Streams that end are streams with a life.
LEMMA LosingStreams == ASSUME TypeOK, NEW S, LoseStreams(S)
                       PROVE  life' \in [Stream -> Life]
BY DEF TypeOK, ServerTypeOK, LoseStreams, Life

\* A database entry that can be read is a record of its three fields.
LEMMA StoredEntry == ASSUME TypeOK, NEW a \in App, NEW read, Stored(a, read)
                     PROVE  db[a] \in DbEntry
BY DEF TypeOK, ServerTypeOK, Stored

\* The volume maps after any of the ways to update them.
LEMMA VolumeMaps ==
  ASSUME TypeOK, NEW k \in Name, NEW v \in Volume, NEW m \in BOOLEAN, Cached(k, v, m),
         \/ RemovePendingVolume(k)
         \/ \E w \in Volume : ParkPendingVolume(k, w) \/ ParkPendingChannelVolumes(k, w)
         \/ UNCHANGED volumePending
  PROVE  VolumesTypeOK' /\ appMutes' \in [Name -> BOOLEAN]
<1>1. appVolumes' \in [Name -> Volume] /\ appMutes' \in [Name -> BOOLEAN]
  BY DEF TypeOK, VolumesTypeOK, MutesTypeOK, Cached
<1>2. /\ pendingVolumes' \in [Name -> Volume \cup {None}]
      /\ pendingChannelVolumes' \in [Name -> Volume \cup {None}]
  BY DEF TypeOK, VolumesTypeOK, RemovePendingVolume, ParkPendingVolume,
         ParkPendingChannelVolumes, volumePending
<1> QED
  BY <1>1, <1>2 DEF VolumesTypeOK

\* Levels 1 and 2 of the cascade.
LEMMA WritingStreams ==
  ASSUME TypeOK, NEW k \in Name, NEW f \in [Volume -> Volume], NEW S \in SUBSET Stream, NEW o,
         NEW before \in [Stream -> Volume], WriteStreams(k, f, S, o, before)
  PROVE  VolumesKeepType
<1> DEFINE ok == VolumeReported(o, S)
<1>1. ok \in SUBSET Stream /\ ok # {}
  BY DEF WriteStreams, VolumeReported, Reported
<1>2. First(ok) \in Stream /\ Last(ok) \in Stream
  <2> HIDE DEF ok
  <2> QED
    BY <1>1, NamesAndStreams
<1>3. vol' \in [Stream -> Volume]
  BY AfterWrites DEF WriteStreams
<1>4. life' \in [Stream -> Life]
  BY LosingStreams DEF WriteStreams
<1>5. VolumesTypeOK' /\ appMutes' \in [Name -> BOOLEAN]
  <2>1. f[before[First(ok)]] \in Volume /\ muted[Last(ok)] \in BOOLEAN
    BY <1>2 DEF TypeOK, ServerTypeOK
  <2>2. Cached(k, f[before[First(ok)]], muted[Last(ok)]) /\ RemovePendingVolume(k)
    BY DEF WriteStreams
  <2> QED
    BY <2>1, <2>2, VolumeMaps
<1> QED
  BY <1>3, <1>4, <1>5 DEF VolumesKeepType, WriteStreams, TypeOK, ServerTypeOK

\* Level 3.
LEMMA WritingStored ==
  ASSUME TypeOK, NEW k \in Name, NEW f \in [Volume -> Volume], NEW read,
         NEW before \in [Stream -> Volume], Stored(Denotes[k], read), WriteStored(k, f, before)
  PROVE  VolumesKeepType
<1> DEFINE a == Denotes[k]
           v == f[db[a].vol]
<1>1. a \in App /\ db[a] \in DbEntry /\ v \in Volume
  BY StoredEntry, ServerAssumption DEF ServerAssumption, DbEntry
<1>2. db' \in [App -> DbEntry \cup {None}]
  BY <1>1 DEF WriteStored, TypeOK, ServerTypeOK, DbEntry
<1>3. vol' \in [Stream -> Volume] /\ muted' \in [Stream -> BOOLEAN]
  BY <1>1 DEF WriteStored, TypeOK, ServerTypeOK, DbEntry
<1>4. VolumesTypeOK' /\ appMutes' \in [Name -> BOOLEAN]
  <2>1. Cached(k, v, appMutes[k]) /\ (ParkPendingVolume(k, v) \/ RemovePendingVolume(k))
    BY DEF WriteStored
  <2>2. appMutes[k] \in BOOLEAN
    BY DEF TypeOK, MutesTypeOK
  <2> QED
    BY <1>1, <2>1, <2>2, VolumeMaps
<1> QED
  BY <1>2, <1>3, <1>4 DEF VolumesKeepType, WriteStored, TypeOK, ServerTypeOK

\* Level 4.
LEMMA ParkingRequest ==
  ASSUME TypeOK, NEW k \in Name, NEW f \in [Volume -> Volume],
         NEW before \in [Stream -> Volume], ParkRequest(k, f, before)
  PROVE  VolumesKeepType
<1> DEFINE v == f[appVolumes[k]]
<1>1. v \in Volume /\ appMutes[k] \in BOOLEAN
  BY DEF TypeOK, VolumesTypeOK, MutesTypeOK
<1>2. Cached(k, v, appMutes[k]) /\ ParkPendingVolume(k, v)
  BY DEF ParkRequest
<1>3. VolumesTypeOK' /\ appMutes' \in [Name -> BOOLEAN]
  BY <1>1, <1>2, VolumeMaps
<1> QED
  BY <1>3 DEF VolumesKeepType, ParkRequest, TypeOK, ServerTypeOK

\* The whole cascade.
LEMMA VolumeRequested ==
  ASSUME TypeOK, NEW k \in Name, NEW f \in [Volume -> Volume], VolumeCascade(k, f)
  PROVE  VolumesKeepType
<1>1. PICK readInputs \in Reads, readDb \in Reads, o \in [Stream -> Outcome] :
        LET S == Inputs(readInputs) \cap StreamsOf(k)
            N == NodesOf(k)
            mid == After(f, S, o, vol)
        IN
        \/ WriteStreams(k, f, S, o, vol)
        \/ \E p \in [Stream -> Outcome] :
             \/ WriteStreams(k, f, N, p, mid)
             \/ /\ Stored(Denotes[k], readDb)
                /\ WriteStored(k, f, After(f, N, p, mid))
             \/ ParkRequest(k, f, After(f, N, p, mid))
  BY Zenon DEF VolumeCascade
<1> DEFINE S == Inputs(readInputs) \cap StreamsOf(k)
           N == NodesOf(k)
           mid == After(f, S, o, vol)
<1>2. S \in SUBSET Stream /\ N \in SUBSET Stream
  BY DEF StreamsOf, NodesOf
<1>3. vol \in [Stream -> Volume] /\ mid \in [Stream -> Volume]
  BY AfterWrites DEF TypeOK, ServerTypeOK
<1> HIDE DEF S, N, mid
<1>4. CASE WriteStreams(k, f, S, o, vol)
  BY <1>2, <1>3, <1>4, WritingStreams
<1>5. ASSUME NEW p \in [Stream -> Outcome],
             \/ WriteStreams(k, f, N, p, mid)
             \/ /\ Stored(Denotes[k], readDb)
                /\ WriteStored(k, f, After(f, N, p, mid))
             \/ ParkRequest(k, f, After(f, N, p, mid))
      PROVE  VolumesKeepType
  <2>1. After(f, N, p, mid) \in [Stream -> Volume]
    BY <1>3, AfterWrites
  <2> QED
    BY <1>2, <1>3, <1>5, <2>1, WritingStreams, WritingStored, ParkingRequest
<1> QED
  BY <1>1, <1>4, <1>5 DEF S, N, mid

-----------------------------------------------------------------------------
(* Mute requests. *)

\* The values a mute request leaves behind.
MutesKeepType ==
  /\ vol' \in [Stream -> Volume]
  /\ life' \in [Stream -> Life]
  /\ muted' \in [Stream -> BOOLEAN]
  /\ db' \in [App -> DbEntry \cup {None}]
  /\ appVolumes' \in [Name -> Volume]
  /\ MutesTypeOK'

\* The mute maps after any of the ways to update them.
LEMMA MuteMaps ==
  ASSUME TypeOK, NEW k \in Name, NEW v \in Volume, NEW m \in BOOLEAN, Cached(k, v, m),
         \E w \in {None, m} : pendingMutes' = [pendingMutes EXCEPT ![k] = w]
  PROVE  appVolumes' \in [Name -> Volume] /\ MutesTypeOK'
BY DEF TypeOK, VolumesTypeOK, MutesTypeOK, Cached

\* The first active stream is switched.
LEMMA MutingStream ==
  ASSUME TypeOK, NEW k \in Name, NEW g \in [BOOLEAN -> BOOLEAN], NEW s \in Stream, NEW o,
         MuteStream(k, g, s, o)
  PROVE  MutesKeepType
<1>1. muted' \in [Stream -> BOOLEAN] /\ vol' \in [Stream -> Volume]
  BY DEF MuteStream, TypeOK, ServerTypeOK
<1>2. life' \in [Stream -> Life]
  BY LosingStreams DEF MuteStream
<1>3. appVolumes' \in [Name -> Volume] /\ MutesTypeOK'
  <2>1. CASE UNCHANGED <<cacheVars, pendingMutes>>
    BY <2>1 DEF TypeOK, VolumesTypeOK, MutesTypeOK, cacheVars
  <2>2. CASE /\ Cached(k, vol[s], g[muted[s]])
             /\ pendingMutes' = [pendingMutes EXCEPT ![k] = None]
    <3>1. vol[s] \in Volume /\ g[muted[s]] \in BOOLEAN
      BY DEF TypeOK, ServerTypeOK
    <3> QED
      BY <2>2, <3>1, MuteMaps
  <2> QED
    BY <2>1, <2>2 DEF MuteStream
<1> QED
  BY <1>1, <1>2, <1>3 DEF MutesKeepType, MuteStream, TypeOK, ServerTypeOK

\* The database entry is switched.
LEMMA MutingStored ==
  ASSUME TypeOK, NEW k \in Name, NEW g \in [BOOLEAN -> BOOLEAN], NEW read,
         Stored(Denotes[k], read), MuteStored(k, g)
  PROVE  MutesKeepType
<1> DEFINE a == Denotes[k]
           m == g[db[a].muted]
<1>1. a \in App /\ db[a] \in DbEntry /\ m \in BOOLEAN
  BY StoredEntry, ServerAssumption DEF ServerAssumption, DbEntry
<1>2. db' \in [App -> DbEntry \cup {None}]
  BY <1>1 DEF MuteStored, TypeOK, ServerTypeOK, DbEntry
<1>3. vol' \in [Stream -> Volume] /\ muted' \in [Stream -> BOOLEAN]
  BY <1>1 DEF MuteStored, TypeOK, ServerTypeOK, DbEntry
<1>4. appVolumes' \in [Name -> Volume] /\ MutesTypeOK'
  <2>1. Cached(k, appVolumes[k], m) /\ pendingMutes' = [pendingMutes EXCEPT ![k] = None]
    BY DEF MuteStored
  <2>2. appVolumes[k] \in Volume
    BY DEF TypeOK, VolumesTypeOK
  <2> QED
    BY <1>1, <2>1, <2>2, MuteMaps
<1> QED
  BY <1>2, <1>3, <1>4 DEF MutesKeepType, MuteStored, TypeOK, ServerTypeOK

\* An idle node is switched, or the mute is parked.
LEMMA MutingNodeOrParking ==
  ASSUME TypeOK, NEW k \in Name, NEW g \in [BOOLEAN -> BOOLEAN],
         \/ \E s \in Stream, p \in [Stream -> Outcome] : MuteNode(k, g, s, p)
         \/ \E late \in SUBSET Stream : ParkMute(k, g, late)
  PROVE  MutesKeepType
<1>1. appVolumes[k] \in Volume
  BY DEF TypeOK, VolumesTypeOK
<1>2. ASSUME NEW s \in Stream, NEW p, MuteNode(k, g, s, p)
      PROVE  MutesKeepType
  <2>1. g[muted[s]] \in BOOLEAN
    BY DEF TypeOK, ServerTypeOK
  <2>2. appVolumes' \in [Name -> Volume] /\ MutesTypeOK'
    BY <1>1, <1>2, <2>1, MuteMaps DEF MuteNode
  <2> QED
    BY <1>2, <2>1, <2>2 DEF MuteNode, MutesKeepType, TypeOK, ServerTypeOK
<1>3. ASSUME NEW late \in SUBSET Stream, ParkMute(k, g, late)
      PROVE  MutesKeepType
  <2>1. g[appMutes[k]] \in BOOLEAN
    BY DEF TypeOK, MutesTypeOK
  <2>2. /\ Cached(k, appVolumes[k], g[appMutes[k]])
        /\ pendingMutes' = [pendingMutes EXCEPT ![k] = g[appMutes[k]]]
    BY <1>3 DEF ParkMute
  <2>3. appVolumes' \in [Name -> Volume] /\ MutesTypeOK'
    BY <1>1, <2>1, <2>2, MuteMaps
  <2> QED
    BY <1>3, <2>3 DEF ParkMute, MutesKeepType, TypeOK, ServerTypeOK
<1> QED
  BY <1>2, <1>3

\* The whole cascade.
LEMMA MuteRequested ==
  ASSUME TypeOK, NEW k \in Name, NEW g \in [BOOLEAN -> BOOLEAN], MuteCascade(k, g)
  PROVE  MutesKeepType
<1>1. PICK readInputs \in Reads, readDb \in Reads, o \in [Stream -> Outcome] :
        LET S == Inputs(readInputs) \cap StreamsOf(k)
            N == NodesOf(k)
        IN
        IF S # {} THEN MuteStream(k, g, First(S), o)
        ELSE IF Stored(Denotes[k], readDb) THEN MuteStored(k, g)
        ELSE IF N = {} THEN ParkMute(k, g, {})
        ELSE \/ MuteNode(k, g, First(N), o)
             \/ /\ o[First(N)] # "done"
                /\ ParkMute(k, g, Taken(o, {First(N)}))
  BY Zenon DEF MuteCascade
<1> DEFINE S == Inputs(readInputs) \cap StreamsOf(k)
           N == NodesOf(k)
<1>2. S \in SUBSET Stream /\ N \in SUBSET Stream
  BY DEF StreamsOf, NodesOf
<1> HIDE DEF S, N
<1>3. S # {} => First(S) \in Stream
  BY <1>2, NamesAndStreams
<1>4. N # {} => First(N) \in Stream
  BY <1>2, NamesAndStreams
<1>5. CASE S # {}
  BY <1>1, <1>3, <1>5, MutingStream DEF S
<1>6. CASE S = {} /\ Stored(Denotes[k], readDb)
  BY <1>1, <1>6, MutingStored DEF S
<1>7. CASE S = {} /\ ~Stored(Denotes[k], readDb)
  <2>1. \/ ParkMute(k, g, {})
        \/ N # {} /\ MuteNode(k, g, First(N), o)
        \/ N # {} /\ ParkMute(k, g, Taken(o, {First(N)}))
    BY <1>1, <1>7 DEF S, N
  <2>2. N # {} => Taken(o, {First(N)}) \in SUBSET Stream
    BY <1>4 DEF Taken
  <2> QED
    BY <1>4, <2>1, <2>2, MutingNodeOrParking
<1> QED
  BY <1>5, <1>6, <1>7

-----------------------------------------------------------------------------
(* Devices and replays. *)

\* The values written to streams and database when devices are stored.
DevicesKeepType ==
  /\ vol' \in [Stream -> Volume]
  /\ muted' \in [Stream -> BOOLEAN]
  /\ sink' \in [Stream -> Sink]
  /\ db' \in [App -> DbEntry \cup {None}]

\* Storing the devices of applications that have an entry.
LEMMA DevicesRewritten ==
  ASSUME TypeOK, NEW A \in SUBSET App, \A a \in A : db[a] # None,
         NEW dev \in [App -> Sink \cup {None}], NEW v \in [Stream -> Volume],
         NEW m \in [Stream -> BOOLEAN], NEW d \in [Stream -> Sink],
         RewriteDevices(A, dev, v, m, d)
  PROVE  DevicesKeepType
<1>1. PICK last \in [App -> Stream] :
        LET follows(s) == AppOf[s] \in A /\ s \in Follow(AppOf[s])
            entry(a) == IF Follow(a) = {} THEN [db[a] EXCEPT !.device = dev[a]]
                        ELSE [vol |-> v[last[a]], muted |-> m[last[a]], device |-> dev[a]]
        IN
        /\ db' = [a \in App |-> IF a \in A THEN entry(a) ELSE db[a]]
        /\ vol' = [s \in Stream |-> IF follows(s) THEN v[last[AppOf[s]]] ELSE v[s]]
        /\ muted' = [s \in Stream |-> IF follows(s) THEN m[last[AppOf[s]]] ELSE m[s]]
        /\ sink' = [s \in Stream |->
                      IF follows(s) /\ dev[AppOf[s]] # None THEN dev[AppOf[s]] ELSE d[s]]
  BY Zenon DEF RewriteDevices
<1>2. \A s \in Stream : AppOf[s] \in App /\ last[AppOf[s]] \in Stream
  BY ServerAssumption DEF ServerAssumption
<1>3. vol' \in [Stream -> Volume] /\ muted' \in [Stream -> BOOLEAN]
  BY <1>1, <1>2
<1>4. sink' \in [Stream -> Sink]
  BY <1>1, <1>2
<1>5. \A a \in App : db[a] \in DbEntry \cup {None}
  BY DEF TypeOK, ServerTypeOK
<1>6. \A a \in A : [db[a] EXCEPT !.device = dev[a]] \in DbEntry
  BY <1>5 DEF DbEntry
<1>7. \A a \in A : [vol |-> v[last[a]], muted |-> m[last[a]], device |-> dev[a]] \in DbEntry
  BY DEF DbEntry
<1>8. db' \in [App -> DbEntry \cup {None}]
  BY <1>1, <1>5, <1>6, <1>7
<1> QED
  BY <1>3, <1>4, <1>8 DEF DevicesKeepType

\* Dropping the devices of applications.
LEMMA DevicesCleared ==
  ASSUME TypeOK, NEW A \in SUBSET App, ClearDevices(A) PROVE DevicesKeepType
<1> DEFINE B == {a \in A : db[a] # None}
           dev == [a \in App |-> None]
<1>1. B \in SUBSET App /\ (\A a \in B : db[a] # None) /\ dev \in [App -> Sink \cup {None}]
  OBVIOUS
<1>2. RewriteDevices(B, dev, vol, muted, sink)
  BY DEF ClearDevices
<1> HIDE DEF B, dev
<1> QED
  BY <1>1, <1>2, DevicesRewritten DEF TypeOK, ServerTypeOK

\* What is replayed to a stream has the type of its volume, mute and device.
LEMMA Replayed ==
  ASSUME TypeOK, NEW s \in Stream
  PROVE  /\ VolumeReplayed(s) \in Volume
         /\ MuteReplayed(s) \in BOOLEAN
         /\ PendingOn(pendingSinks, s) # {} =>
              pendingSinks[Last(PendingOn(pendingSinks, s))] \in Sink
<1>1. \A T \in SUBSET Name : T # {} => Last(T) \in T
  BY NamesAndStreams
<1>2. VolumeReplayed(s) \in Volume
  <2> DEFINE C == PendingOn(pendingChannelVolumes, s)
             V == PendingOn(pendingVolumes, s)
  <2>1. C \in SUBSET Name /\ \A k \in C : pendingChannelVolumes[k] \in Volume
    BY DEF PendingOn, TypeOK, VolumesTypeOK
  <2>2. V \in SUBSET Name /\ \A k \in V : pendingVolumes[k] \in Volume
    BY DEF PendingOn, TypeOK, VolumesTypeOK
  <2>3. VolumeReplayed(s) \in {pendingVolumes[Last(V)], pendingChannelVolumes[Last(C)], vol[s]}
        /\ (VolumeReplayed(s) = pendingVolumes[Last(V)] \/ V = {})
        /\ (VolumeReplayed(s) = pendingChannelVolumes[Last(C)] \/ V # {} \/ C = {})
        /\ (VolumeReplayed(s) = vol[s] \/ V # {} \/ C # {})
    BY DEF VolumeReplayed
  <2> HIDE DEF C, V
  <2>4. vol[s] \in Volume
    BY DEF TypeOK, ServerTypeOK
  <2> QED
    BY <1>1, <2>1, <2>2, <2>3, <2>4
<1>3. MuteReplayed(s) \in BOOLEAN
  <2> DEFINE M == PendingOn(pendingMutes, s)
             alone == {k \in M : ~HasVolume(k)}
             withVolume == {k \in M : pendingVolumes[k] # None}
  <2>1. M \in SUBSET Name /\ \A k \in M : pendingMutes[k] \in BOOLEAN
    BY DEF PendingOn, TypeOK, MutesTypeOK
  <2>2. alone \in SUBSET M /\ withVolume \in SUBSET M
    OBVIOUS
  <2>3. \/ M = {} /\ MuteReplayed(s) = muted[s]
        \/ alone # {} /\ MuteReplayed(s) = pendingMutes[Last(alone)]
        \/ withVolume # {} /\ MuteReplayed(s) = pendingMutes[Last(withVolume)]
        \/ M # {} /\ MuteReplayed(s) = pendingMutes[Last(M)]
    BY DEF MuteReplayed
  <2> HIDE DEF M, alone, withVolume
  <2>4. muted[s] \in BOOLEAN
    BY DEF TypeOK, ServerTypeOK
  <2> QED
    BY <1>1, <2>1, <2>2, <2>3, <2>4
<1>4. ASSUME PendingOn(pendingSinks, s) # {}
      PROVE  pendingSinks[Last(PendingOn(pendingSinks, s))] \in Sink
  <2>1. /\ PendingOn(pendingSinks, s) \in SUBSET Name
        /\ \A k \in PendingOn(pendingSinks, s) : pendingSinks[k] \in Sink
    BY DEF PendingOn, TypeOK, SinksTypeOK
  <2> QED
    BY <1>1, <1>4, <2>1
<1> QED
  BY <1>2, <1>3, <1>4

\* The values doApplyPending leaves behind.
ReplayKeepsType ==
  /\ DevicesKeepType
  /\ life' \in [Stream -> Life]
  /\ pendingVolumes' \in [Name -> Volume \cup {None}]
  /\ pendingChannelVolumes' \in [Name -> Volume \cup {None}]
  /\ pendingMutes' \in [Name -> BOOLEAN \cup {None}]
  /\ pendingSinks' \in [Name -> Sink \cup {None}]

\* A replay writes what was parked and forgets what it has handed over.
LEMMA Replaying == ASSUME TypeOK, ReplayPending PROVE ReplayKeepsType
<1>1. PICK readInputs \in Reads, readDb \in Reads, o \in [Stream -> Outcome],
           m \in [Stream -> Outcome], r \in [Stream -> Outcome] :
        ReplayTo(Inputs(readInputs), readDb, o, m, r)
  BY DEF ReplayPending
<1> DEFINE S == Inputs(readInputs)
           applied == Applied(S, o, m)
           persisted == Persisted(Routed(S, o, r), readDb)
           A == {Denotes[k] : k \in persisted}
           v == [s \in Stream |-> IF s \in VolumeTaken(o, S) THEN VolumeReplayed(s) ELSE vol[s]]
           mm == [s \in Stream |-> IF s \in Taken(m, S) THEN MuteReplayed(s) ELSE muted[s]]
           d == [s \in Stream |->
                   IF s \in Taken(r, S) /\ PendingOn(pendingSinks, s) # {}
                   THEN pendingSinks[Last(PendingOn(pendingSinks, s))] ELSE sink[s]]
<1>2. /\ v \in [Stream -> Volume] /\ mm \in [Stream -> BOOLEAN]
      /\ d \in [Stream -> Sink]
  BY Replayed DEF TypeOK, ServerTypeOK
<1>3. A \in SUBSET App /\ \A a \in A : db[a] # None
  BY ServerAssumption DEF ServerAssumption, Persisted, Routed, Stored
<1>4. DevicesKeepType
  <2>1. PICK dev \in [App -> Sink] : RewriteDevices(A, dev, v, mm, d)
    BY <1>1 DEF ReplayTo
  <2>2. dev \in [App -> Sink \cup {None}]
    OBVIOUS
  <2> HIDE DEF A, v, mm, d
  <2> QED
    BY <1>2, <1>3, <2>1, <2>2, DevicesRewritten
<1>5. life' \in [Stream -> Life]
  BY <1>1, LosingStreams DEF ReplayTo
<1> HIDE DEF applied, persisted
<1>6. /\ pendingVolumes' \in [Name -> Volume \cup {None}]
      /\ pendingChannelVolumes' \in [Name -> Volume \cup {None}]
      /\ pendingMutes' \in [Name -> BOOLEAN \cup {None}]
      /\ pendingSinks' \in [Name -> Sink \cup {None}]
  <2>1. /\ pendingVolumes' =
             [k \in Name |-> IF k \in applied THEN None ELSE pendingVolumes[k]]
        /\ pendingChannelVolumes' =
             [k \in Name |-> IF k \in applied THEN None ELSE pendingChannelVolumes[k]]
        /\ pendingMutes' = [k \in Name |-> IF k \in applied THEN None ELSE pendingMutes[k]]
        /\ pendingSinks' = [k \in Name |-> IF k \in persisted THEN None ELSE pendingSinks[k]]
    BY <1>1, Zenon DEF applied, persisted, S, ReplayTo
  <2> QED
    BY <2>1 DEF TypeOK, VolumesTypeOK, MutesTypeOK, SinksTypeOK
<1> QED
  BY <1>4, <1>5, <1>6 DEF ReplayKeepsType

-----------------------------------------------------------------------------
(* The steps. *)

\* A part of the state that a step leaves alone keeps its type.
LEMMA Untouched ==
  ASSUME TypeOK
  PROVE  /\ UNCHANGED serverVars => ServerTypeOK'
         /\ UNCHANGED <<connVars, phase>> => ConnectionTypeOK'
         /\ UNCHANGED <<volumePending, appVolumes>> => VolumesTypeOK'
         /\ UNCHANGED <<pendingMutes, appMutes>> => MutesTypeOK'
         /\ UNCHANGED sinkPending => SinksTypeOK'
         /\ UNCHANGED duckVars => DuckingTypeOK'
<1> USE DEF TypeOK
<1>1. UNCHANGED serverVars => ServerTypeOK'
  BY DEF serverVars, ServerTypeOK
<1>2. UNCHANGED <<connVars, phase>> => ConnectionTypeOK'
  BY DEF connVars, ConnectionTypeOK
<1>3. UNCHANGED <<volumePending, appVolumes>> => VolumesTypeOK'
  BY DEF volumePending, VolumesTypeOK
<1>4. UNCHANGED <<pendingMutes, appMutes>> => MutesTypeOK'
  BY DEF MutesTypeOK
<1>5. UNCHANGED sinkPending => SinksTypeOK'
  BY DEF sinkPending, SinksTypeOK
<1>6. UNCHANGED duckVars => DuckingTypeOK'
  BY DEF duckVars, DuckingTypeOK
<1> QED
  BY <1>1, <1>2, <1>3, <1>4, <1>5, <1>6

\* What the daemon and the applications do.
LEMMA ServerStep ==
  ASSUME TypeOK,
         \/ \E s \in Stream : \/ StreamOpens(s) \/ StreamResumes(s) \/ StreamPauses(s)
                              \/ StreamCloses(s) \/ OtherMixer(s) \/ DatabaseSaves(s)
         \/ DaemonStops \/ DaemonStarts \/ RegistryFlips
  PROVE  ServerTypeOK'
<1> USE DEF TypeOK, ServerTypeOK, Life
<1>1. ASSUME NEW s \in Stream, StreamOpens(s) PROVE ServerTypeOK'
  <2>1. AppOf[s] \in App
    BY ServerAssumption DEF ServerAssumption
  <2>2. PICK l \in {"idle", "active"}, v \in Volume, m \in BOOLEAN, d \in Sink :
          /\ life' = [life EXCEPT ![s] = l]
          /\ vol' = [vol EXCEPT ![s] = v]
          /\ muted' = [muted EXCEPT ![s] = m]
          /\ sink' = [sink EXCEPT ![s] = d]
    BY <1>1 DEF StreamOpens
  <2>3. /\ client' \in SUBSET App
        /\ UNCHANGED <<paUp, pwUp, db>>
    BY <1>1, <2>1 DEF StreamOpens
  <2> QED
    BY <2>2, <2>3
<1>2. ASSUME NEW s \in Stream, StreamResumes(s) \/ StreamPauses(s) PROVE ServerTypeOK'
  BY <1>2 DEF StreamResumes, StreamPauses
<1>3. ASSUME NEW s \in Stream, StreamCloses(s) PROVE ServerTypeOK'
  BY <1>3 DEF StreamCloses
<1>4. ASSUME NEW s \in Stream, OtherMixer(s) PROVE ServerTypeOK'
  BY <1>4, ServerAssumption DEF OtherMixer, ServerAssumption, Volume
<1>5. ASSUME NEW s \in Stream, DatabaseSaves(s) PROVE ServerTypeOK'
  <2> DEFINE a == AppOf[s]
             kept == IF db[a] = None THEN None ELSE db[a].device
  <2>1. a \in App
    BY ServerAssumption DEF ServerAssumption
  <2>2. kept \in Sink \cup {None}
    BY <2>1 DEF DbEntry
  <2>3. [vol |-> vol[s], muted |-> muted[s], device |-> kept] \in DbEntry
    BY <2>2 DEF DbEntry
  <2>4. /\ db' = [db EXCEPT ![a] = [vol |-> vol[s], muted |-> muted[s], device |-> kept]]
        /\ UNCHANGED <<paUp, pwUp, life, vol, muted, sink, client>>
    BY <1>5 DEF DatabaseSaves
  <2> HIDE DEF kept
  <2> QED
    BY <2>1, <2>3, <2>4
<1>6. CASE DaemonStops
  BY <1>6 DEF DaemonStops
<1>7. CASE DaemonStarts \/ RegistryFlips
  BY <1>7 DEF DaemonStarts, RegistryFlips
<1> QED
  BY <1>1, <1>2, <1>3, <1>4, <1>5, <1>6, <1>7

\* Volume requests.
LEMMA VolumeStep ==
  ASSUME TypeOK, NEW k \in Name, NEW l \in Limits,
         \/ \E d \in Deltas : DoChangeVolume(k, d, l)
         \/ \E t \in Levels : SetAppVolume(k, t, l)
  PROVE  TypeOK'
<1>1. /\ \E f \in [Volume -> Volume] : VolumeCascade(k, f)
      /\ UNCHANGED <<connVars, phase, pendingMutes, sinkPending, duckVars>>
  BY Requested DEF DoChangeVolume, SetAppVolume
<1>2. VolumesKeepType
  BY <1>1, VolumeRequested
<1>3. UNCHANGED <<paUp, pwUp, sink, client>>
  BY <1>1 DEF VolumeCascade
<1>4. ServerTypeOK'
  BY <1>2, <1>3 DEF VolumesKeepType, TypeOK, ServerTypeOK
<1>5. MutesTypeOK'
  BY <1>1, <1>2 DEF VolumesKeepType, TypeOK, MutesTypeOK
<1> QED
  BY <1>1, <1>2, <1>4, <1>5, Untouched DEF TypeOK, VolumesKeepType

\* Mute requests.
LEMMA MuteStep ==
  ASSUME TypeOK, NEW k \in Name,
         DoToggleMute(k) \/ SetAppMute(k, TRUE) \/ SetAppMute(k, FALSE)
  PROVE  TypeOK'
<1>1. Toggled \in [BOOLEAN -> BOOLEAN]
  BY DEF Toggled
<1>2. Switched(TRUE) \in [BOOLEAN -> BOOLEAN] /\ Switched(FALSE) \in [BOOLEAN -> BOOLEAN]
  BY DEF Switched
<1>3. /\ \E g \in [BOOLEAN -> BOOLEAN] : MuteCascade(k, g)
      /\ UNCHANGED <<connVars, phase, volumePending, sinkPending, duckVars>>
  BY <1>1, <1>2, Zenon DEF DoToggleMute, SetAppMute
<1>4. MutesKeepType
  BY <1>3, MuteRequested
<1>5. UNCHANGED <<paUp, pwUp, sink, client>>
  BY <1>3 DEF MuteCascade
<1>6. ServerTypeOK'
  BY <1>4, <1>5 DEF MutesKeepType, TypeOK, ServerTypeOK
<1>7. VolumesTypeOK'
  BY <1>3, <1>4 DEF MutesKeepType, TypeOK, VolumesTypeOK, volumePending
<1> QED
  BY <1>3, <1>4, <1>6, <1>7, Untouched DEF TypeOK, MutesKeepType

\* Queries fill the caches only.
LEMMA QueryStep == ASSUME TypeOK, NEW k \in Name, DoQueryVolume(k) PROVE TypeOK'
<1>1. /\ \/ \E v \in Volume, m \in BOOLEAN : Cached(k, v, m)
         \/ UNCHANGED cacheVars
      /\ UNCHANGED <<serverVars, connVars, phase, pendingVars, duckVars>>
  <2>1. PICK readInputs \in Reads, readDb \in Reads :
          LET S == Inputs(readInputs) \cap StreamsOf(k)
              N == NodesOf(k)
              e == db[Denotes[k]]
          IN
          IF S # {} THEN Cached(k, vol[First(S)], muted[First(S)])
          ELSE IF Stored(Denotes[k], readDb) THEN Cached(k, e.vol, e.muted)
          ELSE IF N # {} THEN Cached(k, vol[First(N)], muted[First(N)])
          ELSE UNCHANGED cacheVars
    BY DEF DoQueryVolume
  <2> DEFINE S == Inputs(readInputs) \cap StreamsOf(k)
             N == NodesOf(k)
             e == db[Denotes[k]]
  <2>2. S \in SUBSET Stream /\ N \in SUBSET Stream
    BY DEF StreamsOf, NodesOf
  <2>3. Stored(Denotes[k], readDb) => e.vol \in Volume /\ e.muted \in BOOLEAN
    BY StoredEntry, ServerAssumption DEF ServerAssumption, DbEntry
  <2>4. \/ S # {} /\ Cached(k, vol[First(S)], muted[First(S)])
        \/ Stored(Denotes[k], readDb) /\ Cached(k, e.vol, e.muted)
        \/ N # {} /\ Cached(k, vol[First(N)], muted[First(N)])
        \/ UNCHANGED cacheVars
    BY <2>1
  <2> HIDE DEF S, N, e
  <2>5. \A T \in SUBSET Stream : T # {} => vol[First(T)] \in Volume /\ muted[First(T)] \in BOOLEAN
    BY NamesAndStreams DEF TypeOK, ServerTypeOK
  <2>6. UNCHANGED <<serverVars, connVars, phase, pendingVars, duckVars>>
    BY DEF DoQueryVolume
  <2> QED
    BY <2>2, <2>3, <2>4, <2>5, <2>6
<1>2. appVolumes' \in [Name -> Volume] /\ appMutes' \in [Name -> BOOLEAN]
  BY <1>1 DEF TypeOK, VolumesTypeOK, MutesTypeOK, Cached, cacheVars
<1>3. VolumesTypeOK' /\ MutesTypeOK' /\ UNCHANGED sinkPending
  BY <1>1, <1>2 DEF TypeOK, VolumesTypeOK, MutesTypeOK, pendingVars, volumePending
<1> QED
  BY <1>1, <1>3, Untouched DEF TypeOK

\* Routing requests.
LEMMA RouteStep ==
  ASSUME TypeOK, NEW k \in Name,
         (\E d \in Routes : DoSetAppSink(k, d)) \/ DoClearAppSinkOverride(k)
  PROVE  TypeOK'
<1> Denotes[k] \in App
  BY ServerAssumption DEF ServerAssumption
<1>1. ASSUME NEW d \in Routes, DoSetAppSink(k, d) PROVE TypeOK'
  <2>1. d \in Sink
    BY WorkerAssumption DEF WorkerAssumption
  <2>2. PICK readInputs \in Reads, readDb \in Reads,
             o \in [Stream -> Outcome], r \in [Stream -> Outcome] :
          LET S == Inputs(readInputs) \cap StreamsOf(k) IN
          /\ LoseStreams(Ended(r, S) \cup Ended(o, S))
          /\ RewriteDevices({a \in {Denotes[k]} : Stored(a, readDb)}, [a \in App |-> d],
                            vol, muted,
                            [s \in Stream |-> IF s \in Taken(r, S) THEN d ELSE sink[s]])
    BY <1>1 DEF DoSetAppSink
  <2> DEFINE A == {a \in {Denotes[k]} : Stored(a, readDb)}
             dev == [a \in App |-> d]
             dd == [s \in Stream |-> IF s \in Taken(r, Inputs(readInputs) \cap StreamsOf(k))
                                     THEN d ELSE sink[s]]
  <2>3. A \in SUBSET App /\ \A a \in A : db[a] # None
    BY DEF Stored
  <2>4. dev \in [App -> Sink \cup {None}] /\ dd \in [Stream -> Sink]
    BY <2>1 DEF TypeOK, ServerTypeOK
  <2>5. RewriteDevices(A, dev, vol, muted, dd)
    BY <2>2
  <2>6. life' \in [Stream -> Life]
    BY <2>2, LosingStreams
  <2> HIDE DEF A, dev, dd
  <2>7. DevicesKeepType
    BY <2>3, <2>4, <2>5, DevicesRewritten DEF TypeOK, ServerTypeOK
  <2>8. ServerTypeOK'
    BY <1>1, <2>6, <2>7 DEF DoSetAppSink, DevicesKeepType, TypeOK, ServerTypeOK
  <2>9. SinksTypeOK'
    BY <1>1, <2>1 DEF DoSetAppSink, TypeOK, SinksTypeOK
  <2> QED
    BY <1>1, <2>8, <2>9, Untouched DEF DoSetAppSink, TypeOK, cacheVars
<1>2. CASE DoClearAppSinkOverride(k)
  <2>1. \/ UNCHANGED <<vol, muted, sink, db>>
        \/ \E A \in SUBSET App : ClearDevices(A)
    BY <1>2 DEF DoClearAppSinkOverride
  <2>2. DevicesKeepType
    BY <2>1, DevicesCleared DEF DevicesKeepType, TypeOK, ServerTypeOK
  <2>3. ServerTypeOK'
    BY <1>2, <2>2 DEF DoClearAppSinkOverride, DevicesKeepType, TypeOK, ServerTypeOK
  <2>4. SinksTypeOK'
    BY <1>2 DEF DoClearAppSinkOverride, TypeOK, SinksTypeOK
  <2> QED
    BY <1>2, <2>3, <2>4, Untouched DEF DoClearAppSinkOverride, TypeOK, cacheVars
<1> QED
  BY <1>1, <1>2

\* Applying what is parked, from the timer or after a reconnect.
LEMMA ApplyStep == ASSUME TypeOK, ReconnectApplies \/ ApplyPendingTimer PROVE TypeOK'
<1>1. DoApplyPending
  BY DEF ReconnectApplies, ApplyPendingTimer
<1>2. ReplayKeepsType
  <2>1. \/ UNCHANGED <<vol, muted, sink, life, db, volumePending, pendingMutes, pendingSinks>>
        \/ ReplayPending
    BY <1>1 DEF DoApplyPending
  <2> QED
    BY <2>1, Replaying
       DEF ReplayKeepsType, DevicesKeepType, TypeOK, ServerTypeOK, VolumesTypeOK, MutesTypeOK,
           SinksTypeOK, volumePending
<1>3. UNCHANGED <<paUp, pwUp, client, pendingSinkClears, cacheVars, duckVars>>
  BY <1>1 DEF DoApplyPending
<1>4. ServerTypeOK'
  BY <1>2, <1>3 DEF ReplayKeepsType, DevicesKeepType, TypeOK, ServerTypeOK
<1>5. VolumesTypeOK' /\ MutesTypeOK' /\ SinksTypeOK'
  BY <1>2, <1>3
     DEF ReplayKeepsType, cacheVars, TypeOK, VolumesTypeOK, MutesTypeOK, SinksTypeOK
<1>6. ConnectionTypeOK'
  <2>1. due' \in 0 .. MaxDue
    BY WorkerAssumption DEF WorkerAssumption, ReconnectApplies, ApplyPendingTimer, connVars,
                            TypeOK, ConnectionTypeOK
  <2> QED
    BY <2>1 DEF ReconnectApplies, ApplyPendingTimer, connVars, TypeOK, ConnectionTypeOK
<1> QED
  BY <1>3, <1>4, <1>5, <1>6, Untouched DEF TypeOK

\* The parked clears.
LEMMA FlushStep == ASSUME TypeOK, ReconnectFlushes PROVE TypeOK'
<1>1. \/ UNCHANGED <<vol, muted, sink, db, pendingSinkClears>>
      \/ pendingSinkClears' = {} /\ \E A \in SUBSET App : ClearDevices(A)
  <2>1. \A A \in SUBSET {Denotes[k] : k \in pendingSinkClears} : A \in SUBSET App
    BY ServerAssumption DEF ServerAssumption, TypeOK, SinksTypeOK
  <2> QED
    BY <2>1 DEF ReconnectFlushes, DoFlushPendingSinkClears
<1>2. DevicesKeepType
  BY <1>1, DevicesCleared DEF DevicesKeepType, TypeOK, ServerTypeOK
<1>3. ServerTypeOK'
  BY <1>2 DEF ReconnectFlushes, DevicesKeepType, TypeOK, ServerTypeOK
<1>4. SinksTypeOK' /\ ConnectionTypeOK'
  BY <1>1 DEF ReconnectFlushes, TypeOK, SinksTypeOK, ConnectionTypeOK, connVars
<1> QED
  BY <1>3, <1>4, Untouched DEF ReconnectFlushes, TypeOK, cacheVars

\* The connection, and the end of the worker.
LEMMA ConnectionStep ==
  ASSUME TypeOK,
         \/ ConnectContext \/ ConnectFails \/ ReconnectNotNeeded \/ RequestStop \/ Cleanup
         \/ WatcherConnects
  PROVE  TypeOK'
<1>1. ConnectionTypeOK'
  BY DEF ConnectContext, ConnectFails, ReconnectNotNeeded, RequestStop, Cleanup,
         WatcherConnects, TypeOK, ConnectionTypeOK
<1>2. UNCHANGED <<serverVars, pendingVars, cacheVars, duckVars>>
  BY DEF ConnectContext, ConnectFails, ReconnectNotNeeded, RequestStop, Cleanup,
         WatcherConnects
<1> QED
  BY <1>1, <1>2, Untouched DEF TypeOK, pendingVars, cacheVars

\* A lost context takes the identity of the snapshots with it.
LEMMA ContextLostStep == ASSUME TypeOK, HandleContextLost PROVE TypeOK'
<1>1. ConnectionTypeOK'
  BY DEF HandleContextLost, TypeOK, ConnectionTypeOK
<1>2. \A e \in Entry : [e EXCEPT !.index = None, !.node = None] \in Entry
  BY DEF Entry
<1>3. duckingSnapshot' \in SUBSET Entry
  <2>1. duckingSnapshot' \in {duckingSnapshot, WithoutIdentity(duckingSnapshot)}
    BY DEF HandleContextLost
  <2>2. duckingSnapshot \in SUBSET Entry
    BY DEF TypeOK, DuckingTypeOK
  <2>3. WithoutIdentity(duckingSnapshot) \in SUBSET Entry
    BY <1>2, <2>2 DEF WithoutIdentity
  <2> QED
    BY <2>1, <2>2, <2>3
<1>4. DuckingTypeOK'
  BY <1>3 DEF HandleContextLost, TypeOK, DuckingTypeOK
<1> QED
  BY <1>1, <1>4, Untouched DEF HandleContextLost, TypeOK, pendingVars, cacheVars

\* A snapshot entry of a stream, a node or an application.
LEMMA Entries ==
  ASSUME TypeOK
  PROVE  /\ \A s \in Stream : InputEntry(s) \in Entry /\ NodeEntry(s) \in Entry
         /\ \A a \in App, read \in BOOLEAN : ClientEntry(a, read) \in Entry
<1>1. ASSUME NEW s \in Stream PROVE InputEntry(s) \in Entry /\ NodeEntry(s) \in Entry
  <2>1. AppOf[s] \in App /\ vol[s] \in Volume /\ NodeKnown(s) \in Stream \cup {None}
    BY ServerAssumption DEF ServerAssumption, TypeOK, ServerTypeOK, NodeKnown
  <2> QED
    BY <2>1 DEF InputEntry, NodeEntry, Entry
<1>2. ASSUME NEW a \in App, NEW read \in BOOLEAN PROVE ClientEntry(a, read) \in Entry
  <2>1. MaxVolume \in Volume
    BY ServerAssumption DEF ServerAssumption, Volume
  <2>2. Stored(a, read) => db[a].vol \in Volume
    BY StoredEntry DEF DbEntry
  <2> QED
    BY <2>1, <2>2 DEF ClientEntry, Entry
<1> QED
  BY <1>1, <1>2

\* Lowering the others.
LEMMA DuckStep == ASSUME TypeOK, NEW k \in Name, NEW d \in Ducks, StartDucking(k, d) PROVE TypeOK'
<1> d \in Volume
  BY WorkerAssumption DEF WorkerAssumption
<1>1. PICK readInputs \in Reads, readDb \in Reads, o \in [Stream -> Outcome] :
        LowerOthers(k, d, Inputs(readInputs), readDb, o)
  BY DEF StartDucking
<1>2. UNCHANGED <<paUp, pwUp, muted, sink, client, connVars, phase, pendingMutes, sinkPending,
                  appMutes, restoring>>
  BY DEF StartDucking
<1> DEFINE heard == Inputs(readInputs)
           idle == IdleApps(k, heard)
           inputs == {s \in heard : AppOf[s] # Denotes[k] /\ vol[s] # d}
           nodes == {s \in Stream : Live(s) /\ AppOf[s] \in idle /\ vol[s] # d}
           bare == {a \in idle : /\ \A s \in Stream : Live(s) => AppOf[s] # a
                                 /\ ClientEntry(a, readDb).vol # d}
           parked == {TargetName[a] : a \in bare}
           snapshot == {InputEntry(s) : s \in VolumeReported(o, inputs)}
                       \cup {NodeEntry(s) : s \in VolumeReported(o, nodes)}
                       \cup {ClientEntry(a, readDb) : a \in bare}
<1>3. inputs \in SUBSET Stream /\ nodes \in SUBSET Stream /\ bare \in SUBSET App
  BY DEF Inputs, Active, IdleApps, TypeOK, ServerTypeOK
<1>4. /\ vol' = [s \in Stream |-> IF s \in VolumeTaken(o, inputs \cup nodes) THEN d ELSE vol[s]]
      /\ LoseStreams(Ended(o, inputs \cup nodes))
      /\ db' = [a \in App |-> IF a \in bare /\ Stored(a, readDb)
                              THEN [db[a] EXCEPT !.vol = d] ELSE db[a]]
      /\ pendingVolumes' = [n \in Name |-> IF n \in parked THEN d ELSE pendingVolumes[n]]
      /\ pendingChannelVolumes' =
           [n \in Name |-> IF n \in parked THEN None ELSE pendingChannelVolumes[n]]
      /\ appVolumes' = [n \in Name |-> IF n \in parked THEN d ELSE appVolumes[n]]
      /\ duckingSnapshot' = snapshot
      /\ duckingActive' = (snapshot # {})
  BY <1>1 DEF LowerOthers
<1> HIDE DEF heard, idle, inputs, nodes, bare, parked
<1>5. snapshot \in SUBSET Entry
  <2>1. VolumeReported(o, inputs) \in SUBSET Stream /\ VolumeReported(o, nodes) \in SUBSET Stream
    BY <1>3 DEF VolumeReported, Reported
  <2>2. readDb \in BOOLEAN
    BY DEF Reads
  <2> QED
    BY <1>3, <2>1, <2>2, Entries
<1> HIDE DEF snapshot
<1>6. DuckingTypeOK'
  BY <1>2, <1>4, <1>5 DEF TypeOK, DuckingTypeOK
<1>7. ServerTypeOK'
  <2>1. vol' \in [Stream -> Volume] /\ life' \in [Stream -> Life]
    BY <1>4, LosingStreams DEF TypeOK, ServerTypeOK
  <2>2. \A a \in App : Stored(a, readDb) => [db[a] EXCEPT !.vol = d] \in DbEntry
    BY StoredEntry DEF DbEntry
  <2>3. db' \in [App -> DbEntry \cup {None}]
    BY <1>4, <2>2 DEF TypeOK, ServerTypeOK
  <2> QED
    BY <1>2, <2>1, <2>3 DEF TypeOK, ServerTypeOK
<1>8. VolumesTypeOK'
  BY <1>4 DEF TypeOK, VolumesTypeOK
<1> QED
  BY <1>2, <1>6, <1>7, <1>8, Untouched DEF TypeOK

\* One entry of a snapshot is restored.
LEMMA RestoreStep == ASSUME TypeOK, RestoreNext PROVE TypeOK'
<1>1. PICK e \in restoring.entries : RestoreEntry(e)
  BY DEF RestoreNext
<1>2. UNCHANGED <<paUp, pwUp, sink, client, connVars, phase, pendingMutes, sinkPending,
                  duckingActive, duckingSnapshot>>
  BY DEF RestoreNext
<1>3. e \in Entry /\ e.app \in App /\ e.vol \in Volume
  BY DEF TypeOK, DuckingTypeOK, Entry
<1>4. \A S : InputsFor(e) \in SUBSET Stream /\ NodesFor(e) \in SUBSET Stream
  BY DEF InputsFor, NodesFor, NodesOf, StreamsOf, TypeOK, DuckingTypeOK
<1> DEFINE I == IF Writable(e) THEN InputsFor(e) ELSE {}
           N == NodesFor(e)
<1>5. \/ \E s \in Stream, o \in [Stream -> Outcome] : RestoreStream(e, s, o)
      \/ \E issued : AbandonEntry(e, issued)
      \/ \E read \in Reads : Stored(e.app, read) /\ RestoreStored(e)
      \/ RestoreByRequest(e)
  <2>1. PICK readDb \in Reads, o \in [Stream -> Outcome], p \in [Stream -> Outcome] :
          \/ I # {} /\ RestoreStream(e, First(I), o)
          \/ N # {} /\ RestoreStream(e, First(N), p)
          \/ AbandonEntry(e, IF I = {} THEN {} ELSE {First(I)})
          \/ Stored(e.app, readDb) /\ RestoreStored(e)
          \/ RestoreByRequest(e)
    BY <1>1, Zenon DEF RestoreEntry
  <2>2. (I # {} => First(I) \in Stream) /\ (N # {} => First(N) \in Stream)
    <3>1. I \in SUBSET Stream /\ N \in SUBSET Stream
      BY <1>4
    <3> HIDE DEF I, N
    <3> QED
      BY <3>1, NamesAndStreams
  <2> HIDE DEF I, N
  <2> QED
    BY <2>1, <2>2
<1>6. restoring' \in [entries : SUBSET Entry, inputs : SUBSET Stream, done : SUBSET Stream]
  <2>1. \/ restoring' = [restoring EXCEPT !.entries = @ \ {e}]
        \/ \E s \in Stream :
             restoring' = [restoring EXCEPT !.entries = @ \ {e}, !.done = @ \cup {s}]
    BY <1>5 DEF RestoreStream, AbandonEntry, RestoreStored, RestoreByRequest
  <2> QED
    BY <2>1 DEF TypeOK, DuckingTypeOK
<1>7. VolumesKeepType
  <2>1. ASSUME NEW s \in Stream, NEW o, RestoreStream(e, s, o) PROVE VolumesKeepType
    <3>1. life' \in [Stream -> Life]
      BY <2>1, LosingStreams DEF RestoreStream
    <3>2. vol' \in [Stream -> Volume]
      BY <2>1, <1>3 DEF RestoreStream, TypeOK, ServerTypeOK
    <3> QED
      BY <2>1, <3>1, <3>2
         DEF RestoreStream, VolumesKeepType, TypeOK, ServerTypeOK, VolumesTypeOK, MutesTypeOK,
             volumePending, cacheVars
  <2>2. ASSUME NEW issued, AbandonEntry(e, issued) PROVE VolumesKeepType
    <3>1. vol' \in [Stream -> Volume]
      BY <2>2, <1>3 DEF AbandonEntry, TypeOK, ServerTypeOK
    <3> QED
      BY <2>2, <3>1
         DEF AbandonEntry, VolumesKeepType, TypeOK, ServerTypeOK, VolumesTypeOK, MutesTypeOK,
             volumePending, cacheVars
  <2>3. ASSUME NEW read, Stored(e.app, read), RestoreStored(e) PROVE VolumesKeepType
    <3>1. db[e.app] \in DbEntry
      BY <2>3, <1>3, StoredEntry
    <3>2. [db[e.app] EXCEPT !.vol = e.vol] \in DbEntry
      BY <1>3, <3>1 DEF DbEntry
    <3>3. db' \in [App -> DbEntry \cup {None}]
      BY <2>3, <1>3, <3>2 DEF RestoreStored, TypeOK, ServerTypeOK
    <3>4. vol' \in [Stream -> Volume] /\ muted' \in [Stream -> BOOLEAN]
      BY <2>3, <1>3, <3>1 DEF RestoreStored, TypeOK, ServerTypeOK, DbEntry
    <3>5. TargetName[e.app] \in Name
      BY <1>3, ServerAssumption DEF ServerAssumption
    <3>6. VolumesTypeOK'
      BY <2>3, <1>3, <3>5
         DEF RestoreStored, ParkPendingChannelVolumes, TypeOK, VolumesTypeOK, volumePending,
             cacheVars
    <3> QED
      BY <2>3, <3>3, <3>4, <3>6
         DEF RestoreStored, VolumesKeepType, TypeOK, ServerTypeOK, MutesTypeOK, cacheVars
  <2>4. ASSUME RestoreByRequest(e) PROVE VolumesKeepType
    <3>1. TargetName[e.app] \in Name
      BY <1>3, ServerAssumption DEF ServerAssumption
    <3>2. [v \in Volume |-> e.vol] \in [Volume -> Volume]
      BY <1>3
    <3>3. VolumeCascade(TargetName[e.app], [v \in Volume |-> e.vol])
      BY <2>4 DEF RestoreByRequest
    <3> QED
      BY <3>1, <3>2, <3>3, VolumeRequested
  <2> QED
    BY <1>5, <2>1, <2>2, <2>3, <2>4
<1>8. ServerTypeOK' /\ VolumesTypeOK'
  BY <1>2, <1>7 DEF VolumesKeepType, TypeOK, ServerTypeOK
<1>9. MutesTypeOK'
  BY <1>2, <1>7 DEF VolumesKeepType, TypeOK, MutesTypeOK
<1>10. DuckingTypeOK'
  BY <1>2, <1>6 DEF TypeOK, DuckingTypeOK
<1> QED
  BY <1>2, <1>8, <1>9, <1>10, Untouched DEF TypeOK

\* The ends of a restore.
LEMMA RestoreLoopStep == ASSUME TypeOK, StopDucking \/ RestoreEnds PROVE TypeOK'
<1>1. ConnectionTypeOK'
  BY DEF StopDucking, RestoreEnds, connVars, TypeOK, ConnectionTypeOK
<1>2. DuckingTypeOK'
  <2>1. \A read : Inputs(read) \in SUBSET Stream
    BY DEF Inputs, Active
  <2>2. CASE StopDucking
    <3>1. PICK S \in SUBSET Stream :
            restoring' = [entries |-> duckingSnapshot, inputs |-> S, done |-> {}]
      BY <2>1, <2>2 DEF StopDucking
    <3>2. duckingActive' = FALSE /\ duckingSnapshot' = {}
      BY <2>2 DEF StopDucking
    <3> QED
      BY <3>1, <3>2 DEF TypeOK, DuckingTypeOK
  <2>3. CASE RestoreEnds
    BY <2>3 DEF RestoreEnds, Idle, TypeOK, DuckingTypeOK
  <2> QED
    BY <2>2, <2>3
<1> QED
  BY <1>1, <1>2, Untouched DEF StopDucking, RestoreEnds, TypeOK, pendingVars, cacheVars

\* What happens outside the worker.
LEMMA WorldStep == ASSUME TypeOK, World PROVE TypeOK'
<1>1. CASE WatcherConnects
  BY <1>1, ConnectionStep
<1>2. ASSUME NEW s \in Stream, Opens(s) \/ Resumes(s) PROVE TypeOK'
  <2>1. StreamOpens(s) \/ StreamResumes(s)
    BY <1>2 DEF Opens, Resumes
  <2>2. ConnectionTypeOK'
    <3>1. due' \in {due, due + 1} /\ (due' = due \/ due < MaxDue)
      BY <1>2 DEF Opens, Resumes, Announced
    <3>2. due' \in 0 .. MaxDue
      BY <3>1, WorkerAssumption DEF WorkerAssumption, TypeOK, ConnectionTypeOK
    <3> QED
      BY <1>2, <3>2 DEF Opens, Resumes, TypeOK, ConnectionTypeOK
  <2>3. UNCHANGED <<pendingVars, cacheVars, duckVars>>
    BY <1>2 DEF Opens, Resumes
  <2> QED
    BY <2>1, <2>2, <2>3, ServerStep, Untouched DEF TypeOK, pendingVars, cacheVars
<1>3. CASE DaemonGone
  <2>1. ServerTypeOK'
    BY <1>3, ServerStep DEF DaemonGone
  <2>2. ConnectionTypeOK'
    BY <1>3 DEF DaemonGone, TypeOK, ConnectionTypeOK
  <2> QED
    BY <1>3, <2>1, <2>2, Untouched DEF DaemonGone, TypeOK, pendingVars, cacheVars
<1>4. CASE Elsewhere
  <2>1. ServerTypeOK'
    BY <1>4, ServerStep DEF Elsewhere
  <2> QED
    BY <1>4, <2>1, Untouched DEF Elsewhere, TypeOK, pendingVars, cacheVars
<1> QED
  BY <1>1, <1>2, <1>3, <1>4 DEF World

-----------------------------------------------------------------------------
\* The worker's maps, caches, snapshots and flags and the volumes it writes
\* keep their types through every request, reconnect, replay and restore:
\* no volume leaves 0 .. MaxVolume whatever limits a request brings.
THEOREM TypeCorrect == Spec => []TypeOK
<1>1. Init => TypeOK
  <2> SUFFICES ASSUME Init PROVE TypeOK
    OBVIOUS
  <2> USE DEF Init
  <2>1. MaxVolume \in Volume
    BY ServerAssumption DEF ServerAssumption, Volume
  <2>2. ServerTypeOK
    BY <2>1, ServerAssumption DEF ServerInit, ServerTypeOK, Life, ServerAssumption
  <2>3. ConnectionTypeOK
    <3>1. 0 \in 0 .. MaxDue
      BY WorkerAssumption DEF WorkerAssumption
    <3> QED
      BY <3>1 DEF ConnectionTypeOK
  <2>4. VolumesTypeOK /\ MutesTypeOK /\ SinksTypeOK /\ DuckingTypeOK
    BY <2>1 DEF VolumesTypeOK, MutesTypeOK, SinksTypeOK, DuckingTypeOK, Idle
  <2> QED
    BY <2>2, <2>3, <2>4 DEF TypeOK
<1>2. TypeOK /\ [Next]_vars => TypeOK'
  <2> SUFFICES ASSUME TypeOK, [Next]_vars PROVE TypeOK'
    OBVIOUS
  <2>1. CASE Request
    <3>1. PICK k \in Name : RequestFor(k)
      BY <2>1 DEF Request
    <3> QED
      BY <3>1, VolumeStep, MuteStep, QueryStep, RouteStep, DuckStep DEF RequestFor
  <2>2. CASE Background
    BY <2>2, ConnectionStep, ApplyStep, FlushStep, ContextLostStep, RestoreStep, RestoreLoopStep
       DEF Background
  <2>3. CASE World
    BY <2>3, WorldStep
  <2>4. CASE UNCHANGED vars
    BY <2>4, Untouched DEF vars, TypeOK, pendingVars, cacheVars
  <2> QED
    BY <2>1, <2>2, <2>3, <2>4 DEF Next
<1> QED
  BY <1>1, <1>2, PTL DEF Spec
=============================================================================
