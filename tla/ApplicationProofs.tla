------------------------- MODULE ApplicationProofs -------------------------
(***************************************************************************)
(* What holds of the configuration file for every set of documents,        *)
(* whatever the user does, the disk refuses or the process leaves undone.  *)
(***************************************************************************)
EXTENDS Application, FiniteSetTheorems, TLAPS

-----------------------------------------------------------------------------
(* The steps of the file.                                                  *)

\* What is in the file may be replaced: this process knows it, or has a copy.
Expendable == known \cup backups \cup {NoFile}

\* Every content the program may replace is expendable.  A save may replace it
\* unless saves are blocked; an import may in any case, because it has taken a
\* copy.
StoreInv ==
    /\ phase # "stopped" /\ ~m_saveBlocked => file \in Expendable
    /\ phase = "importing" => file \in Expendable
    /\ phase = "saving" /\ temp # NoFile => ~m_saveBlocked
    /\ phase \in {"stopped", "idle"} => temp = NoFile

\* A step of the whole program is one of these for the file: an operation of
\* Config, the end of the process, a file the user writes, or nothing.
StoreStep ==
    \/ Load \/ Save \/ ExportToFile \/ FinishExport \/ ImportFromFile \/ FinishImport
    \/ ImportRefused \/ Ends
    \/ \E c : EditFile(c) \/ GetOther(c)
    \/ \E d : Sets(d)
    \/ UNCHANGED configVars

\* A loaded file is known, copied, absent, or not to be saved over.
LEMMA LoadKeepsStore == StoreInv /\ Load => StoreInv'
<1> SUFFICES ASSUME StoreInv, Load PROVE StoreInv'
  OBVIOUS
<1>1. CASE LoadBlocked
  BY <1>1 DEF LoadBlocked, StoreInv, Expendable
<1>2. CASE LoadDocument
  BY <1>2 DEF LoadDocument, StoreInv, Expendable, fileVars
<1>3. CASE LoadDamaged
  BY <1>3 DEF LoadDamaged, StoreInv, Expendable
<1>4. CASE LoadAbsent
  BY <1>4 DEF LoadAbsent, StoreInv, Expendable, fileVars
<1> QED
  BY <1>1, <1>2, <1>3, <1>4 DEF Load

\* A save puts only settings of this process into the file.
LEMMA SaveKeepsStore == StoreInv /\ Save => StoreInv'
<1> SUFFICES ASSUME StoreInv, Save PROVE StoreInv'
  OBVIOUS
<1>1. CASE Write
  BY <1>1 DEF Write, StoreInv, Expendable, fileVars, dataVars
<1>2. CASE SaveNothing
  BY <1>2 DEF SaveNothing, StoreInv, Expendable, fileVars, dataVars
<1>3. CASE Commit
  BY <1>3 DEF Commit, StoreInv, Expendable, dataVars
<1> QED
  BY <1>1, <1>2, <1>3 DEF Save

\* An import takes a copy first and knows what it writes.
LEMMA ImportKeepsStore ==
    StoreInv /\ (ImportFromFile \/ FinishImport \/ ImportRefused) => StoreInv'
<1> SUFFICES ASSUME StoreInv, ImportFromFile \/ FinishImport \/ ImportRefused
             PROVE  StoreInv'
  OBVIOUS
<1>1. CASE ImportFromFile
  BY <1>1 DEF ImportFromFile, StoreInv, Expendable, dataVars
<1>2. CASE FinishImport
  BY <1>2 DEF FinishImport, StoreInv, Expendable
<1>3. CASE ImportRefused
  BY <1>3 DEF ImportRefused, StoreInv, Expendable, fileVars, dataVars
<1> QED
  BY <1>1, <1>2, <1>3

\* So does every step of the file.
LEMMA StoreStepKeepsStore == StoreInv /\ StoreStep => StoreInv'
<1> SUFFICES ASSUME StoreInv, StoreStep PROVE StoreInv'
  OBVIOUS
<1>1. CASE Load
  BY <1>1, LoadKeepsStore
<1>2. CASE Save
  BY <1>2, SaveKeepsStore
<1>3. CASE ImportFromFile \/ FinishImport \/ ImportRefused
  BY <1>3, ImportKeepsStore
<1>4. CASE ExportToFile
  BY <1>4 DEF ExportToFile, StoreInv, Expendable, fileVars, dataVars
<1>5. CASE FinishExport
  BY <1>5 DEF FinishExport, StoreInv, Expendable, dataVars
<1>6. CASE Ends
  BY <1>6 DEF Ends, StoreInv
<1>7. CASE \E c : EditFile(c)
  BY <1>7 DEF EditFile, StoreInv, Expendable, dataVars
<1>8. CASE \E c : GetOther(c)
  BY <1>8 DEF GetOther, StoreInv, Expendable, dataVars
<1>9. CASE \E d : Sets(d)
  BY <1>9 DEF Sets, StoreInv, Expendable, fileVars
<1>10. CASE UNCHANGED configVars
  BY <1>10 DEF configVars, fileVars, dataVars, StoreInv, Expendable
<1> QED
  BY <1>1, <1>2, <1>3, <1>4, <1>5, <1>6, <1>7, <1>8, <1>9, <1>10 DEF StoreStep

\* Only a commit and the end of an import replace the file of a running program.
LEMMA ReplacesOnlyExpendable ==
    StoreInv /\ StoreStep /\ phase # "stopped" /\ file' # file => file \in Expendable
<1> SUFFICES ASSUME StoreInv, StoreStep, phase # "stopped", file' # file
             PROVE  file \in Expendable
  OBVIOUS
<1>1. Commit \/ FinishImport
  BY DEF StoreStep, Load, LoadBlocked, LoadDocument, LoadDamaged, LoadAbsent, Save, Write,
         SaveNothing, ExportToFile, FinishExport, ImportFromFile, ImportRefused, Ends, EditFile,
         GetOther, Sets, configVars, fileVars
<1>2. CASE Commit
  BY <1>2 DEF Commit, StoreInv
<1>3. CASE FinishImport
  BY <1>3 DEF FinishImport, StoreInv
<1> QED
  BY <1>1, <1>2, <1>3

-----------------------------------------------------------------------------
(* What the operations of the settings leave alone.                        *)

\* The settings have the keys that the program reads without asking.
HasKeys(d) == {"profiles", "selected_app", "hotkeys", "osd", "scenes", "auto_profile_switch"}
                \subseteq DOMAIN d

\* The defaults have them.
LEMMA DefaultHasKeys == HasKeys(DefaultJson)
BY DEF HasKeys, DefaultJson

\* The legacy copies are beside the profiles and the switch.
LEMMA MirrorKeeps ==
  ASSUME NEW d, HasKeys(d)
  PROVE  /\ HasKeys(MirrorDefaultProfileToLegacy(d))
         /\ MirrorDefaultProfileToLegacy(d).auto_profile_switch = d.auto_profile_switch
         /\ MirrorDefaultProfileToLegacy(d).profiles = d.profiles
BY DEF MirrorDefaultProfileToLegacy, HasKeys

\* Whatever the file lacked.
LEMMA LoadedHasKeys == ASSUME NEW f PROVE HasKeys(Loaded(f))
<1> DEFINE merged == DeepMerge(DefaultJson, f)
           migrates == NeedsProfileMigration(f, merged)
           ready == IF migrates THEN MigrateLegacyToProfiles([merged EXCEPT !.profiles = <<>>])
                    ELSE merged
           settled == MirrorDefaultProfileToLegacy(ready)
           osd == MigrateOsd(settled.osd, Get(f, "osd", NoKeys))
<1>1. HasKeys(merged)
  BY DEF DeepMerge, HasKeys, DefaultJson
<1>2. HasKeys(ready)
  <2>1. HasKeys([merged EXCEPT !.profiles = <<>>])
    BY <1>1 DEF HasKeys
  <2>2. HasKeys(MigrateLegacyToProfiles([merged EXCEPT !.profiles = <<>>]))
    BY <2>1 DEF MigrateLegacyToProfiles, HasKeys
  <2> QED
    BY <1>1, <2>2
<1> HIDE DEF ready
<1>3. HasKeys(settled)
  BY <1>2, MirrorKeeps
<1> HIDE DEF settled
<1>4. HasKeys([settled EXCEPT !.osd = osd])
  BY <1>3 DEF HasKeys
<1>5. Loaded(f) = [settled EXCEPT !.osd = osd]
  BY DEF Loaded, ApplyLoadedJson, settled, ready
<1> QED
  BY <1>4, <1>5

\* Config::setOsd.
LEMMA OsdKeeps ==
  ASSUME NEW d, HasKeys(d), NEW x, NEW y
  PROVE  /\ HasKeys(WithOsd(d, x, y))
         /\ WithOsd(d, x, y).auto_profile_switch = d.auto_profile_switch
         /\ WithOsd(d, x, y).profiles = d.profiles
BY DEF WithOsd, HasKeys

\* Every setter keeps the keys; the switch and the profiles change only in
\* those that are for them.
LEMMA SettersKeep ==
  ASSUME NEW d, HasKeys(d)
  PROVE  /\ \A x : /\ HasKeys(WithScenes(d, x))
                   /\ WithScenes(d, x).auto_profile_switch = d.auto_profile_switch
                   /\ WithScenes(d, x).profiles = d.profiles
         /\ \A x : /\ HasKeys(WithAutoProfileSwitch(d, x))
                   /\ WithAutoProfileSwitch(d, x).profiles = d.profiles
         /\ \A x : /\ HasKeys(WithProfiles(d, x))
                   /\ WithProfiles(d, x).auto_profile_switch = d.auto_profile_switch
         /\ \A x : /\ HasKeys(WithDefaultProfileApp(d, x))
                   /\ WithDefaultProfileApp(d, x).auto_profile_switch = d.auto_profile_switch
         /\ \A x : /\ HasKeys(WithSelectedApp(d, x))
                   /\ WithSelectedApp(d, x).auto_profile_switch = d.auto_profile_switch
<1>1. ASSUME NEW x
      PROVE  /\ HasKeys(WithScenes(d, x))
             /\ WithScenes(d, x).auto_profile_switch = d.auto_profile_switch
             /\ WithScenes(d, x).profiles = d.profiles
  <2> DEFINE Clean(s) == [s EXCEPT !.targets = LET ts == CleanTargets(@)
                                               IN  [i \in DOMAIN ts |-> ClampTarget(ts[i])]]
             scenes == ScenesToJson(UniqueIds([i \in DOMAIN x |-> Clean(x[i])], <<"scene">>))
  <2>1. WithScenes(d, x) = [d EXCEPT !.scenes = scenes]
    BY DEF WithScenes
  <2> HIDE DEF scenes
  <2> QED
    BY <2>1 DEF HasKeys
<1>2. ASSUME NEW x
      PROVE  /\ HasKeys(WithAutoProfileSwitch(d, x))
             /\ WithAutoProfileSwitch(d, x).profiles = d.profiles
  BY DEF WithAutoProfileSwitch, HasKeys
<1>3. ASSUME NEW x
      PROVE  /\ HasKeys(WithProfiles(d, x))
             /\ WithProfiles(d, x).auto_profile_switch = d.auto_profile_switch
  <2> DEFINE unique == UniqueIds([i \in DOMAIN x |-> SanitizeProfile(x[i])], <<"profile">>)
             list == [i \in DOMAIN unique |-> ProfileToJson(unique[i])]
  <2>1. WithProfiles(d, x) = MirrorDefaultProfileToLegacy([d EXCEPT !.profiles = list])
    BY DEF WithProfiles
  <2> HIDE DEF list
  <2>2. HasKeys([d EXCEPT !.profiles = list])
        /\ [d EXCEPT !.profiles = list].auto_profile_switch = d.auto_profile_switch
    BY DEF HasKeys
  <2> QED
    BY <2>1, <2>2, MirrorKeeps
<1>4. ASSUME NEW x
      PROVE  /\ HasKeys(WithDefaultProfileApp(d, x))
             /\ WithDefaultProfileApp(d, x).auto_profile_switch = d.auto_profile_switch
  <2> DEFINE first == Head(d.profiles)
             list == [d.profiles EXCEPT
                        ![1] = Override([app |-> x, apps |-> AppsWithPrimary(first, x)], first)]
  <2>1. WithDefaultProfileApp(d, x) = [d EXCEPT !.profiles = list, !.selected_app = x]
    BY DEF WithDefaultProfileApp
  <2> HIDE DEF list
  <2> QED
    BY <2>1 DEF HasKeys
<1>5. ASSUME NEW x
      PROVE  /\ HasKeys(WithSelectedApp(d, x))
             /\ WithSelectedApp(d, x).auto_profile_switch = d.auto_profile_switch
  <2>1. HasKeys([d EXCEPT !.selected_app = x])
        /\ [d EXCEPT !.selected_app = x].auto_profile_switch = d.auto_profile_switch
    BY DEF HasKeys
  <2> QED
    BY <2>1, <1>4 DEF WithSelectedApp
<1> QED
  BY <1>1, <1>2, <1>3, <1>4, <1>5

\* The settings after the steps of Config.
LEMMA ProceedingKeepsKeys ==
  ASSUME HasKeys(m_data), Proceeds
  PROVE  /\ HasKeys(m_data')
         /\ phase' \in {"saving", "idle"}
         /\ \/ phase # "importing" /\ m_data' = m_data
            \/ phase = "importing"
<1>1. CASE Save
  BY <1>1 DEF Save, Write, SaveNothing, Commit, dataVars
<1>2. CASE FinishExport
  BY <1>2 DEF FinishExport, dataVars
<1>3. CASE FinishImport
  BY <1>3, LoadedHasKeys DEF FinishImport
<1> QED
  BY <1>1, <1>2, <1>3 DEF Proceeds

\* And after a start.
LEMMA LoadKeepsKeys ==
  ASSUME HasKeys(m_data), Load
  PROVE  HasKeys(m_data') /\ phase = "stopped" /\ phase' \in {"idle", "saving"}
BY LoadedHasKeys DEF Load, LoadBlocked, LoadDocument, LoadDamaged, LoadAbsent

-----------------------------------------------------------------------------
(* The program around it.                                                  *)

\* Routing in nobody's name changes the routes alone, to where nobody's are.
LEMMA UnnamedRoutingLeaves ==
  ASSUME UnnamedRouting
  PROVE  /\ MainIdle /\ story' = story
         /\ UNCHANGED <<configVars, trackerVars, m_autoActiveApp, m_appCache, guard, routedApps,
                        m_activeApp, dialog, task, fresh>>
         /\ DOMAIN route' = App
         /\ \A a \in App : \/ route'[a] = route[a]
                           \/ \E sink : route'[a] = [sink |-> sink, by |-> <<>>, now |-> TRUE]
<1>1. story' = story /\ \E targets : RouteUnnamed(targets)
  BY DEF UnnamedRouting, DbusVolume, SetAppSink, ApplyScene, Happens
<1>2. PICK targets : RouteUnnamed(targets)
  BY <1>1
<1>3. DOMAIN route' = App
      /\ \A a \in App : route'[a] = IF a \in DOMAIN targets
                                  THEN [sink |-> targets[a], by |-> <<>>, now |-> TRUE] ELSE route[a]
  BY <1>2 DEF RouteUnnamed
<1> QED
  BY <1>1, <1>2, <1>3 DEF RouteUnnamed

\* Whatever the handler, the file sees one of those.
LEMMA EveryStepIsAStoreStep == [Next]_vars => StoreStep
<1> SUFFICES ASSUME [Next]_vars PROVE StoreStep
  OBVIOUS
<1>1. CASE Starts
  BY <1>1 DEF Starts, StoreStep
<1>2. CASE AppInit \/ Tracking \/ OnFocusedBinaryChanged \/ SinksReady \/ AutoSwitchChanged
           \/ OpenSettings \/ SettingsChanged
  BY <1>2 DEF AppInit, Tracking, OnFocusedBinaryChanged, SinksReady, AutoSwitchChanged,
              OpenSettings, SettingsChanged, StoreStep
<1>3. CASE Proceeding
  BY <1>3 DEF Proceeding, Proceeds, StoreStep
<1>4. CASE Stops
  BY <1>4 DEF Stops, StoreStep
<1>5. CASE Files
  BY <1>5 DEF Files, StoreStep
<1>6. CASE (\E i \in DOMAIN profiles : KeyPressed(profiles[i].id)) \/ UnnamedRouting
  BY <1>6, UnnamedRoutingLeaves DEF KeyPressed, StoreStep
<1>7. CASE \E apps \in story.caches : AppsReady(apps)
  BY <1>7 DEF AppsReady, StoreStep
<1>8. CASE \E app \in story.apps : SetActiveApp(app) \/ OnAppSelected(app)
  BY <1>8 DEF SetActiveApp, OnAppSelected, StoreStep
<1>9. CASE \E on \in BOOLEAN : SetAutoProfileSwitch(on)
  BY <1>9 DEF SetAutoProfileSwitch, StoreStep
<1>10. CASE HideEvent \/ SaveSwitch \/ SaveProfiles \/ ClearRoutesAndSaveScenes
  BY <1>10 DEF HideEvent, SaveSwitch, SaveProfiles, ClearRoutesAndSaveScenes, StoreStep
<1>11. CASE \E entered \in story.entered, list \in story.lists \cup {dialog.profiles} :
                Accept(entered, list)
  BY <1>11 DEF Accept, StoreStep
<1>12. CASE Export \/ Import \/ ImportFails
  BY <1>12 DEF Export, Import, ImportFails, StoreStep
<1>13. CASE UNCHANGED vars
  BY <1>13 DEF vars, StoreStep
<1> QED
  BY <1>1, <1>2, <1>3, <1>4, <1>5, <1>6, <1>7, <1>8, <1>9, <1>10, <1>11, <1>12, <1>13
     DEF Next

\* While the program runs, config.json loses only contents that this process
\* has read or written, or that a backup keeps: saveUnlocked, load and
\* importFromFile of config.cpp, between whatever other handlers of the program.
THEOREM NothingIsLost == Spec => NothingLost
<1>1. Init => StoreInv
  BY DEF Init, ConfigInit, StoreInv
<1>2. StoreInv /\ [Next]_vars => StoreInv'
  BY EveryStepIsAStoreStep, StoreStepKeepsStore
<1>3. StoreInv /\ [Next]_vars
        => [phase # "stopped" /\ file' # file => file \in known \cup backups \cup {NoFile}]_vars
  BY EveryStepIsAStoreStep, ReplacesOnlyExpendable DEF Expendable
<1> QED
  BY <1>1, <1>2, <1>3, PTL DEF Spec, NothingLost

-----------------------------------------------------------------------------
(* Sifting a sequence.                                                     *)

\* The least of a set of numbers.
LEMMA MinIsLeast ==
  ASSUME NEW S \in SUBSET Nat, S # {}
  PROVE  Min(S) \in S /\ \A k \in S : Min(S) <= k
<1> DEFINE R == {ss \in Nat \X Nat : ss[1] < ss[2]}
<1>1. IsWellFoundedOn(R, Nat)
  BY NatLessThanWellFounded DEF OpToRel
<1>2. PICK m \in S : \A k \in S : ~(<<k, m>> \in R)
  BY <1>1, WFMin, Zenon
<1>3. ASSUME NEW k \in S PROVE m <= k
  <2>1. k \in Nat /\ m \in Nat
    OBVIOUS
  <2>2. k < m => <<k, m>> \in R
    BY <2>1
  <2> QED
    BY <2>1, <2>2, <1>2
<1> QED
  BY <1>3 DEF Min

\* The first of some elements, if there are any, is one of them.
LEMMA FirstOfSome ==
  ASSUME NEW s, NEW at \in SUBSET Nat
  PROVE  /\ at = {} => FirstOf(s, at) = <<>>
         /\ at # {} => FirstOf(s, at) # <<>> /\ \E k \in at : FirstOf(s, at)[1] = s[k]
<1>1. CASE at = {}
  BY <1>1 DEF FirstOf
<1>2. CASE at # {}
  <2>1. FirstOf(s, at) = <<s[Min(at)]>> /\ Min(at) \in at
    BY <1>2, MinIsLeast DEF FirstOf
  <2>2. FirstOf(s, at) # <<>> /\ FirstOf(s, at)[1] = s[Min(at)]
    BY <2>1
  <2> QED
    BY <1>2, <2>1, <2>2
<1> QED
  BY <1>1, <1>2

\* How many of `at` are no greater than i: a bijection with the indices of what
\* is sifted.
LEMMA Ranks ==
  ASSUME NEW at \in SUBSET Nat, IsFiniteSet(at)
  PROVE  LET rank == [i \in at |-> Cardinality({j \in at : j <= i})]
         IN  /\ Cardinality(at) \in Nat
             /\ rank \in [at -> 1 .. Cardinality(at)]
             /\ \A i, k \in at : i < k => rank[i] < rank[k]
             /\ \A n \in 1 .. Cardinality(at) : \E i \in at : rank[i] = n
<1> DEFINE below(i) == {j \in at : j <= i}
           rank == [i \in at |-> Cardinality(below(i))]
           all == 1 .. Cardinality(at)
<1>1. Cardinality(at) \in Nat
  BY FS_CardinalityType
<1>2. ASSUME NEW i \in at
      PROVE  /\ IsFiniteSet(below(i)) /\ Cardinality(below(i)) \in Nat
             /\ Cardinality(below(i)) <= Cardinality(at)
             /\ Cardinality(below(i)) # 0
  <2>1. below(i) \in SUBSET at /\ i \in below(i)
    OBVIOUS
  <2>2. IsFiniteSet(below(i)) /\ Cardinality(below(i)) <= Cardinality(at)
    BY <2>1, FS_Subset
  <2>3. Cardinality(below(i)) \in Nat
    BY <2>2, FS_CardinalityType
  <2>4. Cardinality(below(i)) # 0
    BY <2>1, <2>2, FS_EmptySet
  <2> QED
    BY <2>2, <2>3, <2>4
<1>3. ASSUME NEW i \in at, NEW k \in at, i < k
      PROVE  Cardinality(below(i)) < Cardinality(below(k))
  <2>1. i \in Nat /\ k \in Nat /\ \A j \in at : j \in Nat
    OBVIOUS
  <2>2. \A j \in at : j <= i => j <= k
    BY <2>1, <1>3
  <2>3. below(i) \in SUBSET below(k) /\ k \in below(k) /\ k \notin below(i)
    <3>1. k <= k /\ ~(k <= i)
      BY <2>1, <1>3
    <3> QED
      BY <2>2, <3>1
  <2>4. Cardinality(below(i)) <= Cardinality(below(k)) /\ Cardinality(below(i)) # Cardinality(below(k))
    BY <2>3, <1>2, FS_Subset
  <2> QED
    BY <2>4, <1>2
<1>4. \A i \in at : rank[i] = Cardinality(below(i))
  OBVIOUS
<1> HIDE DEF below
<1>5. rank \in [at -> all]
  BY <1>1, <1>2
<1> HIDE DEF rank
<1>6. \A i, k \in at : i < k => rank[i] < rank[k]
  BY <1>3, <1>4
<1>7. ASSUME NEW i \in at, NEW k \in at, rank[i] = rank[k] PROVE i = k
  <2>1. rank[i] \in Nat
    BY <1>5, <1>1
  <2>2. ~(i < k) /\ ~(k < i)
    BY <1>6, <1>7, <2>1
  <2> QED
    BY <2>2
<1>8. rank \in Injection(at, all)
  BY <1>5, <1>7 DEF Injection, IsInjective
<1>9. IsFiniteSet(all) /\ Cardinality(all) = Cardinality(at)
  BY <1>1, FS_Interval
<1>10. rank \in Surjection(at, all)
  BY <1>8, <1>9, FS_Injection
<1>11. \A n \in all : \E i \in at : rank[i] = n
  BY <1>10 DEF Surjection
<1> QED
  BY <1>1, <1>5, <1>6, <1>11 DEF rank, below

\* What is sifted out of s has the elements of s at those indices.
LEMMA SiftedElements ==
  ASSUME NEW s, NEW at \in SUBSET Nat, IsFiniteSet(at)
  PROVE  /\ Cardinality(at) \in Nat
         /\ DOMAIN Sifted(s, at) = 1 .. Cardinality(at)
         /\ \A n \in 1 .. Cardinality(at) : \E i \in at : Sifted(s, at)[n] = s[i]
         /\ \A i \in at : \E n \in 1 .. Cardinality(at) : Sifted(s, at)[n] = s[i]
         /\ 1 \in at /\ 0 \notin at => 1 \in 1 .. Cardinality(at) /\ Sifted(s, at)[1] = s[1]
<1> DEFINE rank == [i \in at |-> Cardinality({j \in at : j <= i})]
           pick(n) == CHOOSE i \in at : Cardinality({j \in at : j <= i}) = n
<1>1. /\ Cardinality(at) \in Nat
      /\ rank \in [at -> 1 .. Cardinality(at)]
      /\ \A i, k \in at : i < k => rank[i] < rank[k]
      /\ \A n \in 1 .. Cardinality(at) : \E i \in at : rank[i] = n
  BY Ranks
<1>2. \A i \in at : rank[i] = Cardinality({j \in at : j <= i})
  OBVIOUS
<1>3. Sifted(s, at) = [n \in 1 .. Cardinality(at) |-> s[pick(n)]]
  BY DEF Sifted
<1>4. \A n \in 1 .. Cardinality(at) : pick(n) \in at /\ rank[pick(n)] = n
  BY <1>1, <1>2
<1> HIDE DEF rank, pick
<1>5. ASSUME NEW i \in at PROVE rank[i] \in 1 .. Cardinality(at) /\ pick(rank[i]) = i
  <2>1. rank[i] \in 1 .. Cardinality(at)
    BY <1>1
  <2>2. pick(rank[i]) \in at /\ rank[pick(rank[i])] = rank[i]
    BY <2>1, <1>4
  <2>3. ASSUME NEW k \in at, NEW l \in at, rank[k] = rank[l] PROVE k = l
    <3>1. rank[k] \in Nat /\ k \in Nat /\ l \in Nat
      BY <1>1
    <3>2. ~(rank[k] < rank[l]) /\ ~(rank[l] < rank[k])
      BY <3>1, <2>3
    <3> QED
      BY <3>1, <3>2, <1>1
  <2> QED
    BY <2>1, <2>2, <2>3
<1>6. ASSUME 1 \in at, 0 \notin at PROVE 1 \in 1 .. Cardinality(at) /\ Sifted(s, at)[1] = s[1]
  <2>1. rank[1] \in 1 .. Cardinality(at)
    BY <1>1, <1>6
  <2>2. 1 \in 1 .. Cardinality(at)
    BY <2>1, <1>1
  <2>3. pick(1) \in at /\ rank[pick(1)] = 1
    BY <2>2, <1>4
  <2>4. pick(1) \in Nat /\ pick(1) # 0
    BY <1>6, <2>3
  <2>5. ~(1 < pick(1))
    <3>1. 1 < pick(1) => rank[1] < rank[pick(1)]
      BY <1>1, <1>6, <2>3
    <3>2. rank[1] \in Nat /\ rank[1] >= 1
      BY <2>1, <1>1
    <3> QED
      BY <2>3, <3>1, <3>2
  <2>6. pick(1) = 1
    BY <2>4, <2>5
  <2> QED
    BY <2>2, <2>6, <1>3
<1> QED
  BY <1>1, <1>3, <1>4, <1>5, <1>6

-----------------------------------------------------------------------------
(* Sequences, and ids that are free.                                       *)

\* A sequence is a function on the first numbers.
LEMMA SequenceDomain ==
  ASSUME NEW s, IsSequence(s)
  PROVE  Len(s) \in Nat /\ DOMAIN s = 1 .. Len(s) /\ s = [i \in 1 .. Len(s) |-> s[i]]
BY DEF IsSequence

\* And such a function is a sequence.
LEMMA SequenceOf ==
  ASSUME NEW n \in Nat, NEW s, DOMAIN s = 1 .. n, s = [i \in 1 .. n |-> s[i]]
  PROVE  IsSequence(s) /\ Len(s) = n
<1>1. \A i \in 1 .. n : s[i] \in Range(s)
  BY DEF Range
<1>2. s \in [1 .. n -> Range(s)]
  BY <1>1
<1> QED
  BY <1>2 DEF IsSequence

\* The number that is appended to an id makes one that is not taken: of more
\* numbers than there are taken ids, one is free.
LEMMA FreeIdIsFree ==
  ASSUME NEW id, IsSequence(id), id # <<>>, NEW taken, IsFiniteSet(taken)
  PROVE  IsSequence(FreeId(id, taken)) /\ FreeId(id, taken) # <<>> /\ FreeId(id, taken) \notin taken
<1> DEFINE size == Cardinality(taken)
           tried == 2 .. size + 2
           free == {n \in tried : Append(id, n) \notin taken}
<1>1. size \in Nat
  BY FS_CardinalityType
<1>2. free # {}
  <2>1. SUFFICES ASSUME \A n \in tried : Append(id, n) \in taken PROVE FALSE
    OBVIOUS
  <2>2. IsFiniteSet(tried) /\ Cardinality(tried) = size + 1
    BY <1>1, FS_Interval
  <2> DEFINE f == [n \in tried |-> Append(id, n)]
  <2>3. f \in [tried -> taken]
    BY <2>1
  <2>4. size < Cardinality(tried)
    BY <1>1, <2>2
  <2> HIDE DEF tried, f
  <2>5. PICK m \in tried, n \in tried : m # n /\ f[m] = f[n]
    BY <2>2, <2>3, <2>4, FS_PigeonHole, Zenon
  <2>6. Append(id, m) = Append(id, n)
    BY <2>5 DEF f
  <2>7. Append(id, m)[Len(id) + 1] = m /\ Append(id, n)[Len(id) + 1] = n
    BY DEF IsSequence, tried
  <2> QED
    BY <2>5, <2>6, <2>7
<1>3. free \in SUBSET Nat
  BY <1>1
<1>4. Min(free) \in free
  BY <1>2, <1>3, MinIsLeast
<1>5. CASE id \notin taken
  BY <1>5 DEF FreeId
<1>6. CASE id \in taken
  <2>1. FreeId(id, taken) = Append(id, Min(free))
    BY <1>6 DEF FreeId
  <2>2. Min(free) \in Nat /\ Append(id, Min(free)) \notin taken
    BY <1>3, <1>4
  <2> HIDE DEF free
  <2> DEFINE more == Append(id, Min(free))
  <2> DEFINE some == Range(id) \cup {Min(free)}
  <2>3. /\ Len(id) + 1 \in Nat /\ DOMAIN more = 1 .. Len(id) + 1
        /\ more = [i \in 1 .. Len(id) + 1 |-> more[i]] /\ more # <<>>
    <3>1. id \in Seq(some) /\ Min(free) \in some
      <4>1. \A i \in 1 .. Len(id) : id[i] \in some
        BY SequenceDomain DEF Range
      <4>2. id \in [1 .. Len(id) -> some] /\ Len(id) \in Nat
        BY <4>1, SequenceDomain
      <4> QED
        BY <4>2
    <3> HIDE DEF some
    <3>2. more \in Seq(some) /\ Len(more) = Len(id) + 1 /\ Len(id) \in Nat
      BY <3>1
    <3> HIDE DEF more
    <3>3. DOMAIN more = 1 .. Len(more) /\ more \in [1 .. Len(more) -> some]
      BY <3>2
    <3>4. more # <<>>
      BY <3>2
    <3> QED
      BY <3>2, <3>3, <3>4
  <2>4. IsSequence(more)
    BY <2>3, SequenceOf
  <2> QED
    BY <2>1, <2>2, <2>3, <2>4
<1> QED
  BY <1>5, <1>6

\* The ids that setProfiles and setScenes give: there are such ids, none is
\* empty and no two are the same.
LEMMA UniqueIdsAreUnique ==
  ASSUME NEW size \in Nat, NEW list, DOMAIN list = 1 .. size,
         \A i \in 1 .. size : IsSequence(list[i].id),
         NEW base, IsSequence(base), base # <<>>
  PROVE  \E ids : /\ UniqueIds(list, base)
                       = [i \in 1 .. size |-> [list[i] EXCEPT !.id = ids[i]]]
                  /\ \A i \in 1 .. size : IsSequence(ids[i]) /\ ids[i] # <<>>
                  /\ \A i, j \in 1 .. size : j < i => ids[j] # ids[i]
<1> DEFINE wish(i) == IF list[i].id = <<>> THEN base ELSE list[i].id
           next(h, i) == FreeId(wish(i), {h[j] : j \in 1 .. i - 1})
           chosen == CHOOSE h : h = [i \in 1 .. size |-> next(h, i)]
           Reaches(n) == \E h : h = [i \in 1 .. n |-> next(h, i)]
<1>1. UniqueIds(list, base) = [i \in 1 .. size |-> [list[i] EXCEPT !.id = chosen[i]]]
  BY DEF UniqueIds
<1> HIDE DEF Reaches, next
<1>2. \A n \in 0 .. size : Reaches(n)
  <2> SUFFICES ASSUME \E n \in 0 .. size : ~Reaches(n) PROVE FALSE
    OBVIOUS
  <2> DEFINE fails == {n \in 0 .. size : ~Reaches(n)}
  <2>1. fails \in SUBSET Nat /\ fails # {}
    OBVIOUS
  <2> DEFINE least == Min(fails)
  <2>2. least \in fails /\ \A n \in fails : least <= n
    BY <2>1, MinIsLeast
  <2>3. least # 0
    <3>1. Reaches(0)
      <4> DEFINE none == [i \in 1 .. 0 |-> 0]
      <4>1. none = [i \in 1 .. 0 |-> next(none, i)]
        OBVIOUS
      <4> QED
        BY <4>1 DEF Reaches
    <3> QED
      BY <2>2, <3>1
  <2>4. least \in Nat /\ least - 1 \in 0 .. size /\ least \in 0 .. size
    BY <2>1, <2>2, <2>3
  <2>5. Reaches(least - 1)
    BY <2>2, <2>4
  <2>6. PICK g : g = [i \in 1 .. least - 1 |-> next(g, i)]
    BY <2>5 DEF Reaches
  <2> DEFINE more == [i \in 1 .. least |-> IF i = least THEN next(g, least) ELSE g[i]]
  <2>7. ASSUME NEW i \in 1 .. least PROVE more[i] = next(more, i)
    <3>1. \A j \in 1 .. i - 1 : more[j] = g[j]
      BY <2>4
    <3>2. {more[j] : j \in 1 .. i - 1} = {g[j] : j \in 1 .. i - 1}
      BY <3>1
    <3>3. next(more, i) = next(g, i)
      BY <3>2 DEF next
    <3>4. CASE i = least
      BY <3>3, <3>4
    <3>5. CASE i # least
      <4>1. i \in 1 .. least - 1
        BY <2>4, <3>5
      <4>2. g[i] = next(g, i)
        BY <2>6, <4>1
      <4> QED
        BY <3>3, <3>5, <4>2
    <3> QED
      BY <3>4, <3>5
  <2>8. more = [i \in 1 .. least |-> next(more, i)]
    <3>1. \A i \in 1 .. least : more[i] = next(more, i)
      BY <2>7
    <3> QED
      BY <3>1
  <2>9. Reaches(least)
    BY <2>8 DEF Reaches
  <2> QED
    BY <2>2, <2>9
<1>3. chosen = [i \in 1 .. size |-> next(chosen, i)]
  <2>1. \E h : h = [i \in 1 .. size |-> next(h, i)]
    BY <1>2 DEF Reaches
  <2> QED
    BY <2>1
<1> HIDE DEF chosen
<1>4. ASSUME NEW i \in 1 .. size
      PROVE  /\ IsSequence(chosen[i]) /\ chosen[i] # <<>>
             /\ \A j \in 1 .. i - 1 : chosen[i] # chosen[j]
  <2> DEFINE taken == {chosen[j] : j \in 1 .. i - 1}
             before == [j \in 1 .. i - 1 |-> chosen[j]]
  <2>1. IsFiniteSet(1 .. i - 1) /\ before \in Surjection(1 .. i - 1, taken)
    <3>1. IsFiniteSet(1 .. i - 1)
      BY FS_Interval
    <3>2. before \in [1 .. i - 1 -> taken]
      OBVIOUS
    <3>3. \A t \in taken : \E j \in 1 .. i - 1 : before[j] = t
      OBVIOUS
    <3> HIDE DEF before, taken
    <3> QED
      BY <3>1, <3>2, <3>3 DEF Surjection
  <2>2. IsFiniteSet(taken)
    BY <2>1, FS_Surjection
  <2>3. IsSequence(wish(i)) /\ wish(i) # <<>>
    OBVIOUS
  <2>4. chosen[i] = FreeId(wish(i), taken)
    BY <1>3 DEF next
  <2> HIDE DEF wish, taken
  <2>5. IsSequence(chosen[i]) /\ chosen[i] # <<>> /\ chosen[i] \notin taken
    BY <2>2, <2>3, <2>4, FreeIdIsFree
  <2> QED
    BY <2>5 DEF taken
<1>5. \A i, j \in 1 .. size : j < i => chosen[j] # chosen[i]
  BY <1>4
<1> QED
  BY <1>1, <1>4, <1>5

-----------------------------------------------------------------------------
(* The names a profile lists.                                              *)

Names == App \cup {NoApp}

\* The indices of some elements of a sequence.
LEMMA SomeIndices ==
  ASSUME NEW n \in Nat, NEW at \in SUBSET (1 .. n)
  PROVE  at \in SUBSET Nat /\ IsFiniteSet(at) /\ 0 \notin at
<1>1. IsFiniteSet(1 .. n)
  BY FS_Interval
<1>2. IsFiniteSet(at)
  BY <1>1, FS_Subset
<1> QED
  BY <1>2

\* The names that are left of a list, in their order.
LEMMA NamedNames ==
  ASSUME NEW apps \in Seq(Names)
  PROVE  /\ Named(apps) \in Seq(App)
         /\ \A i \in DOMAIN apps : apps[i] # NoApp => \E j \in DOMAIN Named(apps) : Named(apps)[j] = apps[i]
         /\ \A j \in DOMAIN Named(apps) : \E i \in DOMAIN apps : Named(apps)[j] = apps[i]
         /\ apps # <<>> /\ apps[1] # NoApp => Named(apps) # <<>> /\ Named(apps)[1] = apps[1]
<1> DEFINE at == {i \in DOMAIN apps : apps[i] # NoApp}
           named == Sifted(apps, at)
<1>1. Len(apps) \in Nat /\ DOMAIN apps = 1 .. Len(apps) /\ at \in SUBSET (1 .. Len(apps))
  OBVIOUS
<1>2. at \in SUBSET Nat /\ IsFiniteSet(at) /\ 0 \notin at
  BY <1>1, SomeIndices
<1>3. \A i \in at : i \in DOMAIN apps /\ apps[i] \in App
  BY <1>1 DEF Names
<1>4. \A i \in DOMAIN apps : apps[i] # NoApp => i \in at
  OBVIOUS
<1>5. Named(apps) = named
  BY DEF Named
<1>6. apps # <<>> => 1 \in DOMAIN apps
  BY <1>1
<1> HIDE DEF at
<1>7. /\ Cardinality(at) \in Nat
      /\ DOMAIN named = 1 .. Cardinality(at)
      /\ \A n \in 1 .. Cardinality(at) : \E i \in at : named[n] = apps[i]
      /\ \A i \in at : \E n \in 1 .. Cardinality(at) : named[n] = apps[i]
      /\ 1 \in at /\ 0 \notin at => 1 \in 1 .. Cardinality(at) /\ named[1] = apps[1]
  BY <1>2, SiftedElements
<1>8. named \in [1 .. Cardinality(at) -> App]
  <2>1. named = [n \in 1 .. Cardinality(at) |-> named[n]]
    BY DEF Sifted
  <2> HIDE DEF named
  <2>2. \A n \in 1 .. Cardinality(at) : named[n] \in App
    BY <1>3, <1>7
  <2> QED
    BY <2>1, <2>2
<1> HIDE DEF named
<1>9. named \in Seq(App)
  BY <1>7, <1>8
<1>10. apps # <<>> /\ apps[1] # NoApp => named # <<>> /\ named[1] = apps[1]
  BY <1>2, <1>4, <1>6, <1>7
<1> QED
  BY <1>3, <1>4, <1>5, <1>7, <1>9, <1>10

\* The application a profile is named for.
LEMMA PrimaryAppIsNamed ==
  ASSUME NEW apps \in Seq(Names)
  PROVE  /\ PrimaryApp(apps) \in Names
         /\ apps # <<>> /\ apps[1] # NoApp => PrimaryApp(apps) = apps[1]
         /\ apps = <<>> => PrimaryApp(apps) = NoApp
<1> DEFINE at == {i \in DOMAIN apps : apps[i] # NoApp}
<1>1. Len(apps) \in Nat /\ DOMAIN apps = 1 .. Len(apps) /\ at \in SUBSET Nat
  OBVIOUS
<1>2. PrimaryApp(apps) = IF FirstOf(apps, at) = <<>> THEN NoApp ELSE FirstOf(apps, at)[1]
  BY DEF PrimaryApp
<1>3. CASE at = {}
  <2>1. PrimaryApp(apps) = NoApp
    BY <1>1, <1>2, <1>3, FirstOfSome
  <2>2. ~(apps # <<>> /\ apps[1] # NoApp)
    BY <1>1, <1>3
  <2> QED
    BY <2>1, <2>2 DEF Names
<1>4. CASE at # {}
  <2>1. \A i \in at : apps[i] \in Names
    BY <1>1
  <2>2. PrimaryApp(apps) = apps[Min(at)] /\ Min(at) \in at /\ \A k \in at : Min(at) <= k
    BY <1>1, <1>2, <1>4, MinIsLeast, FirstOfSome DEF FirstOf
  <2>3. apps # <<>>
    BY <1>1, <1>4
  <2>4. apps[1] # NoApp => Min(at) = 1
    <3>1. apps[1] # NoApp => 1 \in at
      BY <1>1, <2>3
    <3>2. Min(at) \in 1 .. Len(apps)
      BY <1>1, <2>2
    <3> HIDE DEF at
    <3> QED
      BY <3>1, <3>2, <2>2, <1>1
  <2> QED
    BY <2>1, <2>2, <2>3, <2>4
<1> QED
  BY <1>3, <1>4

\* What is read of a profile's applications.
LEMMA ProfileAppsAreNamed ==
  ASSUME NEW o, Get(o, "apps", <<>>) \in Seq(Names), Get(o, "app", NoApp) \in Names
  PROVE  /\ ProfileApps(o) \in Seq(App)
         /\ \A i \in DOMAIN Get(o, "apps", <<>>) :
              Get(o, "apps", <<>>)[i] # NoApp =>
                \E j \in DOMAIN ProfileApps(o) : ProfileApps(o)[j] = Get(o, "apps", <<>>)[i]
<1> DEFINE listed == Named(Get(o, "apps", <<>>))
           legacy == Get(o, "app", NoApp)
<1>1. ProfileApps(o) = IF listed = <<>> /\ legacy # NoApp THEN <<legacy>> ELSE listed
  BY DEF ProfileApps
<1>2. listed \in Seq(App)
  BY NamedNames
<1>3. \A i \in DOMAIN Get(o, "apps", <<>>) :
        Get(o, "apps", <<>>)[i] # NoApp => \E j \in DOMAIN listed : listed[j] = Get(o, "apps", <<>>)[i]
  BY NamedNames
<1>4. CASE listed = <<>> /\ legacy # NoApp
  <2>1. <<legacy>> \in Seq(App)
    BY <1>4 DEF Names
  <2>2. DOMAIN listed = {}
    BY <1>4
  <2> HIDE DEF listed, legacy
  <2> QED
    BY <1>1, <1>3, <1>4, <2>1, <2>2
<1>5. CASE ~(listed = <<>> /\ legacy # NoApp)
  BY <1>1, <1>2, <1>3, <1>5
<1> QED
  BY <1>4, <1>5

-----------------------------------------------------------------------------
(* Reading profiles.                                                       *)

\* A profile as the program has read it.
Profile(p) ==
    /\ {"id", "apps", "app_regex", "vol_min", "vol_max", "sink"} \subseteq DOMAIN p
    /\ IsSequence(p.id) /\ p.apps \in Seq(App) /\ p.app_regex \subseteq App

\* What Config::profileFromJson reads.
LEMMA ProfileIsRead ==
  ASSUME NEW o, ProfileObject(o)
  PROVE  /\ Profile(ProfileFromJson(o)) /\ ProfileObject(ProfileFromJson(o))
         /\ ProfileFromJson(o).id = Get(o, "id", <<>>)
         /\ ProfileFromJson(o).apps = ProfileApps(o)
         /\ ProfileFromJson(o).app_regex = Get(o, "app_regex", {})
         /\ ProfileFromJson(o).sink = Get(o, "sink", NoSink)
<1> DEFINE p == ProfileFromJson(o)
<1>1. /\ {"id", "apps", "app_regex", "vol_min", "vol_max", "sink"} \subseteq DOMAIN p
      /\ "app" \notin DOMAIN p
      /\ p.id = Get(o, "id", <<>>) /\ p.apps = ProfileApps(o)
      /\ p.app_regex = Get(o, "app_regex", {}) /\ p.sink = Get(o, "sink", NoSink)
  BY DEF ProfileFromJson
<1>2. ProfileApps(o) \in Seq(App)
  BY ProfileAppsAreNamed DEF ProfileObject, Names
<1>3. ProfileApps(o) \in Seq(App \cup {NoApp})
  BY <1>2
<1> HIDE DEF p
<1>4. Profile(p)
  BY <1>1, <1>2 DEF Profile, ProfileObject
<1>5. ProfileObject(p)
  BY <1>1, <1>3, <1>4 DEF Profile, ProfileObject, Get
<1> QED
  BY <1>1, <1>4, <1>5 DEF p

\* What Config::profiles reads: of every entry with an id, and of nothing else.
LEMMA ProfilesAreRead ==
  ASSUME NEW list, IsSequence(list), \A i \in DOMAIN list : ProfileObject(list[i])
  PROVE  /\ \E n \in Nat : DOMAIN ProfilesFromJson(list) = 1 .. n
         /\ IsSequence(ProfilesFromJson(list))
         /\ \A n \in DOMAIN ProfilesFromJson(list) :
              /\ Profile(ProfilesFromJson(list)[n]) /\ ProfileObject(ProfilesFromJson(list)[n])
              /\ ProfilesFromJson(list)[n].id # <<>>
         /\ \A i \in DOMAIN list : Get(list[i], "id", <<>>) # <<>> =>
              \E n \in DOMAIN ProfilesFromJson(list) :
                 ProfilesFromJson(list)[n] = ProfileFromJson(list[i])
         /\ ProfilesFromJson(list) # <<>> <=> \E i \in DOMAIN list : Get(list[i], "id", <<>>) # <<>>
<1> DEFINE read == [i \in DOMAIN list |-> ProfileFromJson(list[i])]
           at == {i \in DOMAIN read : read[i].id # <<>>}
           got == Sifted(read, at)
<1>1. ProfilesFromJson(list) = got
  BY DEF ProfilesFromJson
<1>2. Len(list) \in Nat /\ DOMAIN list = 1 .. Len(list)
  BY SequenceDomain
<1>3. \A i \in DOMAIN list : /\ Profile(read[i]) /\ ProfileObject(read[i])
                             /\ read[i].id = Get(list[i], "id", <<>>)
                             /\ read[i] = ProfileFromJson(list[i])
  BY ProfileIsRead
<1>4. \A i \in DOMAIN list : i \in at <=> Get(list[i], "id", <<>>) # <<>>
  BY <1>3
<1>5. at \in SUBSET (1 .. Len(list)) /\ \A i \in at : i \in DOMAIN list /\ read[i].id # <<>>
  BY <1>2
<1> HIDE DEF read, at
<1>6. at \in SUBSET Nat /\ IsFiniteSet(at) /\ 0 \notin at
  BY <1>2, <1>5, SomeIndices
<1>7. /\ Cardinality(at) \in Nat
      /\ DOMAIN got = 1 .. Cardinality(at)
      /\ \A n \in 1 .. Cardinality(at) : \E i \in at : got[n] = read[i]
      /\ \A i \in at : \E n \in 1 .. Cardinality(at) : got[n] = read[i]
  BY <1>6, SiftedElements
<1>8. got = [n \in 1 .. Cardinality(at) |-> got[n]]
  BY DEF Sifted
<1> HIDE DEF got
<1>9. IsSequence(got)
  BY <1>7, <1>8, SequenceOf
<1>10. \A n \in DOMAIN got : Profile(got[n]) /\ ProfileObject(got[n]) /\ got[n].id # <<>>
  BY <1>3, <1>5, <1>7
<1>11. \A i \in DOMAIN list : Get(list[i], "id", <<>>) # <<>> =>
         \E n \in DOMAIN got : got[n] = ProfileFromJson(list[i])
  BY <1>3, <1>4, <1>7
<1>12. got # <<>> <=> DOMAIN got # {}
  <2>1. got = <<>> => DOMAIN got = {}
    OBVIOUS
  <2>2. DOMAIN got = {} => got = <<>>
    BY <1>7, <1>8
  <2> QED
    BY <2>1, <2>2
<1>13. got # <<>> <=> \E i \in DOMAIN list : Get(list[i], "id", <<>>) # <<>>
  BY <1>12, <1>11, <1>4, <1>5, <1>7
<1> QED
  BY <1>1, <1>7, <1>9, <1>10, <1>11, <1>13

-----------------------------------------------------------------------------
(* Settings that a load leaves as they are.                                *)

\* Settings that a load leaves as they are: typed, with a profile that has an
\* id, the legacy copies those of the first entry, the OSD's modes known ones.
Mirrored(d) ==
    LET first == Head(d.profiles)
    IN  /\ d.selected_app = PrimaryApp(ProfileApps(first))
        /\ d.hotkeys = [volume_up |-> BindingFromJson(Get(first, "hotkeys", NoKeys), "volume_up",
                                                      VolumeUp)]

OsdSettled(osd) ==
    /\ osd = [k \in DOMAIN osd |-> osd[k]]
    /\ {"progress_label_mode", "media_keys_osd_mode", "show_media_keys_osd"} \subseteq DOMAIN osd
    /\ osd.progress_label_mode \in LabelModes /\ osd.media_keys_osd_mode \in {"off", "action", "full"}

HasProfile(d) == \E i \in DOMAIN d.profiles : Get(d.profiles[i], "id", <<>>) # <<>>

Settled(d) ==
    /\ d = [k \in DOMAIN d |-> d[k]] /\ HasKeys(d) /\ WellTyped(d)
    /\ HasProfile(d) /\ Mirrored(d) /\ OsdSettled(d.osd)

\* An object that says nothing new, and one that says everything.
LEMMA OverrideSame ==
  ASSUME NEW f, NEW g, g = [k \in DOMAIN g |-> g[k]],
         DOMAIN f \subseteq DOMAIN g, \A k \in DOMAIN f : f[k] = g[k]
  PROVE  Override(f, g) = g
<1>1. DOMAIN g \cup DOMAIN f = DOMAIN g
  OBVIOUS
<1>2. Override(f, g) = [k \in DOMAIN g |-> IF k \in DOMAIN f THEN f[k] ELSE g[k]]
  BY <1>1 DEF Override
<1> QED
  BY <1>2

\* The other way round.
LEMMA OverrideAll ==
  ASSUME NEW f, NEW g, f = [k \in DOMAIN f |-> f[k]], DOMAIN g \subseteq DOMAIN f
  PROVE  Override(f, g) = f
<1>1. DOMAIN g \cup DOMAIN f = DOMAIN f
  OBVIOUS
<1>2. Override(f, g) = [k \in DOMAIN f |-> f[k]]
  BY <1>1 DEF Override
<1> QED
  BY <1>2

\* The modes that are written are known ones, and are read back as they are.
LEMMA ModesAreKnown ==
  /\ \A x : NormalizeLabelMode(x) \in LabelModes
  /\ \A x \in LabelModes : NormalizeLabelMode(x) = x
  /\ \A x : NormalizeMediaMode(x) \in {"off", "action", "full"}
  /\ \A x \in {"off", "action", "full"} : NormalizeMediaMode(x) = x
BY DEF NormalizeLabelMode, NormalizeMediaMode, LabelModes

\* Whatever the loaded file said of the OSD, its modes are known ones then.
LEMMA MigratedOsdIsSettled ==
  ASSUME NEW osd, NEW loadedOsd,
         {"progress_label_mode", "media_keys_osd_mode", "show_media_keys_osd"} \subseteq DOMAIN osd
  PROVE  OsdSettled(MigrateOsd(osd, loadedOsd))
<1> DEFINE label == NormalizeLabelMode(Get(osd, "progress_label_mode", ""))
           media == NormalizeMediaMode(Get(osd, "media_keys_osd_mode", ""))
           shown == Get(loadedOsd, "show_media_keys_osd", FALSE)
           labelled == Override([progress_label_mode |-> label], osd)
           With(m, s) == Override([media_keys_osd_mode |-> m, show_media_keys_osd |-> s], labelled)
<1>1. MigrateOsd(osd, loadedOsd)
        \in {With(IF shown THEN "action" ELSE "off", shown), With(media, media # "off"), labelled}
  BY DEF MigrateOsd
<1>2. MigrateOsd(osd, loadedOsd) = labelled => Get(osd, "media_keys_osd_mode", "") = media
        \/ labelled = With(media, media # "off")
        \/ labelled = With(IF shown THEN "action" ELSE "off", shown)
  BY DEF MigrateOsd
<1>3. label \in LabelModes /\ media \in {"off", "action", "full"}
  BY ModesAreKnown
<1> HIDE DEF label, media
<1>4. /\ labelled = [k \in DOMAIN labelled |-> labelled[k]]
      /\ {"progress_label_mode", "media_keys_osd_mode", "show_media_keys_osd"} \subseteq DOMAIN labelled
      /\ labelled.progress_label_mode = label
      /\ labelled.media_keys_osd_mode = osd.media_keys_osd_mode
  BY DEF Override
<1> HIDE DEF labelled
<1>5. ASSUME NEW m \in {"off", "action", "full"}, NEW s PROVE OsdSettled(With(m, s))
  BY <1>3, <1>4 DEF OsdSettled, Override
<1>6. CASE MigrateOsd(osd, loadedOsd) = labelled /\ Get(osd, "media_keys_osd_mode", "") = media
  BY <1>3, <1>4, <1>6 DEF OsdSettled, Get
<1>7. CASE MigrateOsd(osd, loadedOsd) = With(media, media # "off")
  BY <1>3, <1>5, <1>7
<1>8. CASE MigrateOsd(osd, loadedOsd) = With(IF shown THEN "action" ELSE "off", shown)
  BY <1>5, <1>8
<1> HIDE DEF With
<1> QED
  BY <1>1, <1>2, <1>6, <1>7, <1>8

\* The OSD's settings of that kind are left as they are.
LEMMA SettledOsdStays ==
  ASSUME NEW osd, OsdSettled(osd) PROVE MigrateOsd(osd, osd) = osd
<1> DEFINE label == NormalizeLabelMode(Get(osd, "progress_label_mode", ""))
           over == [progress_label_mode |-> label]
           labelled == Override(over, osd)
<1>1. /\ NormalizeLabelMode(Get(osd, "progress_label_mode", "")) = osd.progress_label_mode
      /\ NormalizeMediaMode(Get(osd, "media_keys_osd_mode", "")) = Get(osd, "media_keys_osd_mode", "")
  BY ModesAreKnown DEF OsdSettled, Get
<1>2. labelled = osd
  <2>1. /\ osd = [k \in DOMAIN osd |-> osd[k]]
        /\ DOMAIN over \subseteq DOMAIN osd /\ \A k \in DOMAIN over : over[k] = osd[k]
    <3>1. osd = [k \in DOMAIN osd |-> osd[k]]
      BY DEF OsdSettled
    <3>2. "progress_label_mode" \in DOMAIN osd /\ label = osd["progress_label_mode"]
      BY <1>1 DEF OsdSettled
    <3> HIDE DEF label
    <3>3. DOMAIN over = {"progress_label_mode"} /\ over["progress_label_mode"] = label
      OBVIOUS
    <3> HIDE DEF over
    <3> QED
      BY <3>1, <3>2, <3>3
  <2> HIDE DEF over
  <2> QED
    BY <2>1, OverrideSame
<1>3. MigrateOsd(osd, osd) = labelled
  BY <1>1 DEF MigrateOsd, OsdSettled
<1> QED
  BY <1>2, <1>3

\* After mirrorDefaultProfileToLegacyUnlocked the copies are those of the first.
LEMMA MirrorSettles ==
  ASSUME NEW d, d = [k \in DOMAIN d |-> d[k]], HasKeys(d), WellTyped(d), HasProfile(d)
  PROVE  LET m == MirrorDefaultProfileToLegacy(d)
         IN  /\ m = [k \in DOMAIN m |-> m[k]] /\ HasKeys(m) /\ WellTyped(m) /\ HasProfile(m)
             /\ Mirrored(m) /\ m.osd = d.osd
             /\ Mirrored(d) => m = d
<1> DEFINE m == MirrorDefaultProfileToLegacy(d)
           first == Head(d.profiles)
           app == PrimaryApp(ProfileApps(first))
           keys == [volume_up |-> BindingFromJson(Get(first, "hotkeys", NoKeys), "volume_up", VolumeUp)]
<1>1. IsSequence(d.profiles) /\ \A i \in DOMAIN d.profiles : ProfileObject(d.profiles[i])
  BY DEF WellTyped, HasKeys, Get
<1>2. DOMAIN d.profiles = 1 .. Len(d.profiles) /\ Len(d.profiles) \in Nat /\ d.profiles # <<>>
  <2>1. DOMAIN d.profiles # {}
    BY DEF HasProfile
  <2> QED
    BY <1>1, <2>1, SequenceDomain
<1>3. 1 \in DOMAIN d.profiles /\ first = d.profiles[1]
  <2>1. DOMAIN d.profiles # {}
    BY DEF HasProfile
  <2> QED
    BY <1>2, <2>1
<1>4. app \in Names
  <2>1. ProfileApps(first) \in Seq(App)
    BY <1>1, <1>3, ProfileAppsAreNamed DEF ProfileObject, Names
  <2>2. ProfileApps(first) \in Seq(Names)
    BY <2>1 DEF Names
  <2> QED
    BY <2>2, PrimaryAppIsNamed
<1>5. m = [d EXCEPT !.selected_app = app, !.hotkeys = keys]
  BY <1>2 DEF MirrorDefaultProfileToLegacy
<1> HIDE DEF m, app, keys
<1>6. /\ m = [k \in DOMAIN m |-> m[k]] /\ DOMAIN m = DOMAIN d
      /\ m.selected_app = app /\ m.hotkeys = keys /\ m.profiles = d.profiles /\ m.osd = d.osd
  BY <1>5 DEF HasKeys
<1>7. HasKeys(m) /\ HasProfile(m)
  BY <1>6 DEF HasKeys, HasProfile
<1>8. WellTyped(m)
  BY <1>1, <1>4, <1>6, <1>7 DEF WellTyped, Get, HasKeys, Names
<1>9. Mirrored(m)
  BY <1>6 DEF Mirrored, app, keys
<1>10. ASSUME Mirrored(d) PROVE m = d
  <2>1. d.selected_app = app /\ d.hotkeys = keys
    BY <1>10 DEF Mirrored, app, keys
  <2> QED
    BY <1>5, <2>1
<1> QED
  BY <1>6, <1>7, <1>8, <1>9, <1>10 DEF m

-----------------------------------------------------------------------------
(* Loading settles, and settled settings are sound.                        *)

\* A sequence of one.
LEMMA OneProfile ==
  ASSUME NEW p
  PROVE  /\ IsSequence(<<p>>) /\ DOMAIN <<p>> = {1} /\ <<p>>[1] = p /\ Head(<<p>>) = p
         /\ <<p>> # <<>>
<1>1. DOMAIN <<p>> = {1} /\ <<p>>[1] = p /\ Head(<<p>>) = p
  OBVIOUS
<1>2. Range(<<p>>) = {p}
  BY <1>1 DEF Range
<1>3. <<p>> \in Seq({p})
  OBVIOUS
<1> QED
  BY <1>1, <1>2, <1>3 DEF IsSequence

\* The defaults are settled.
LEMMA DefaultIsSettled == Settled(DefaultJson)
<1> DEFINE p == [id |-> <<"default">>, app |-> NoApp, apps |-> <<>>, app_regex |-> {},
                 hotkeys |-> [volume_up |-> VolumeUp, show |-> 0],
                 vol_min |-> 0, vol_max |-> 100, sink |-> NoSink]
           d == DefaultJson
<1>1. /\ d = [k \in DOMAIN d |-> d[k]] /\ HasKeys(d)
      /\ d.profiles = <<p>> /\ d.selected_app = NoApp /\ d.hotkeys = [volume_up |-> VolumeUp]
      /\ d.osd = [progress_label_mode |-> "app", media_keys_osd_mode |-> "off",
                  show_media_keys_osd |-> FALSE]
  BY DEF DefaultJson, HasKeys
<1>2. /\ p.id = <<"default">> /\ Get(p, "id", <<>>) = <<"default">> /\ Get(p, "apps", <<>>) = <<>>
      /\ Get(p, "app", NoApp) = NoApp /\ Get(p, "app_regex", {}) = {}
      /\ Get(p, "hotkeys", NoKeys) = [volume_up |-> VolumeUp, show |-> 0]
  BY DEF Get
<1> HIDE DEF d
<1>3. ProfileObject(p)
  <2>1. <<>> \in Seq(App \cup {NoApp})
    OBVIOUS
  <2> HIDE DEF p
  <2> QED
    BY <1>2, <2>1, OneProfile DEF ProfileObject
<1>4. ProfileApps(p) = <<>>
  <2>1. <<>> \in Seq(Names)
    OBVIOUS
  <2>2. ~\E i \in DOMAIN <<>> : TRUE
    OBVIOUS
  <2>3. Named(<<>>) = <<>>
    <3>1. Named(<<>>) \in Seq(App) /\ DOMAIN Named(<<>>) = {}
      BY <2>1, <2>2, NamedNames
    <3> QED
      BY <3>1
  <2> QED
    BY <1>2, <2>3 DEF ProfileApps
<1>5. PrimaryApp(<<>>) = NoApp
  <2>1. <<>> \in Seq(Names)
    OBVIOUS
  <2> QED
    BY <2>1, PrimaryAppIsNamed
<1>6. BindingFromJson(Get(p, "hotkeys", NoKeys), "volume_up", VolumeUp) = VolumeUp
  BY <1>2 DEF BindingFromJson, Get, VolumeUp
<1> HIDE DEF p
<1>7. /\ IsSequence(<<p>>) /\ DOMAIN <<p>> = {1} /\ <<p>>[1] = p /\ Head(<<p>>) = p
      /\ Get(p, "id", <<>>) # <<>>
  BY <1>2, OneProfile
<1>8. WellTyped(d)
  BY <1>1, <1>3, <1>7 DEF WellTyped, Get, HasKeys
<1>9. HasProfile(d)
  BY <1>1, <1>7 DEF HasProfile
<1>10. Mirrored(d)
  BY <1>1, <1>4, <1>5, <1>6, <1>7 DEF Mirrored
<1>11. OsdSettled(d.osd)
  BY <1>1 DEF OsdSettled, LabelModes
<1> QED
  BY <1>1, <1>8, <1>9, <1>10, <1>11 DEF Settled, d

\* What a file says replaces the defaults, key by key.
LEMMA MergedObject ==
  ASSUME NEW f
  PROVE  LET m == DeepMerge(DefaultJson, f)
         IN  /\ m = [k \in DOMAIN m |-> m[k]] /\ HasKeys(m)
             /\ m.profiles = Get(f, "profiles", DefaultJson.profiles)
             /\ m.selected_app = Get(f, "selected_app", NoApp)
             /\ {"progress_label_mode", "media_keys_osd_mode", "show_media_keys_osd"} \subseteq DOMAIN m.osd
<1> DEFINE d == DefaultJson
           m == DeepMerge(d, f)
<1>1. /\ DOMAIN d = {"profiles", "selected_app", "hotkeys", "osd", "scenes", "auto_profile_switch"}
      /\ d.selected_app = NoApp
      /\ DOMAIN d.osd = {"progress_label_mode", "media_keys_osd_mode", "show_media_keys_osd"}
  BY DEF DefaultJson
<1> HIDE DEF d
<1>2. m = [k \in DOMAIN d \cup DOMAIN f |->
             IF k \in DOMAIN d \cap DOMAIN f \cap Nested THEN Override(f[k], d[k])
             ELSE IF k \in DOMAIN f THEN f[k] ELSE d[k]]
  BY DEF DeepMerge
<1>3. m.osd = IF "osd" \in DOMAIN f THEN Override(f.osd, d.osd) ELSE d.osd
  BY <1>1, <1>2 DEF Nested
<1>4. {"progress_label_mode", "media_keys_osd_mode", "show_media_keys_osd"} \subseteq DOMAIN m.osd
  BY <1>1, <1>3 DEF Override
<1>5. m.profiles = Get(f, "profiles", d.profiles) /\ m.selected_app = Get(f, "selected_app", NoApp)
  BY <1>1, <1>2 DEF Nested, Get
<1>6. m = [k \in DOMAIN m |-> m[k]] /\ HasKeys(m)
  BY <1>1, <1>2 DEF HasKeys
<1> QED
  BY <1>4, <1>5, <1>6 DEF d

\* Whatever the file lacked or got wrong, the settings it gives are settled
\* (Config::applyLoadedJsonUnlocked).
LEMMA LoadedIsSettled == ASSUME NEW f, WellTyped(f) PROVE Settled(Loaded(f))
<1> DEFINE merged == DeepMerge(DefaultJson, f)
           migrates == NeedsProfileMigration(f, merged)
           bare == [merged EXCEPT !.profiles = <<>>]
           ready == IF migrates THEN MigrateLegacyToProfiles(bare) ELSE merged
           settled == MirrorDefaultProfileToLegacy(ready)
           osd == MigrateOsd(settled.osd, Get(f, "osd", NoKeys))
<1>1. /\ merged = [k \in DOMAIN merged |-> merged[k]] /\ HasKeys(merged)
      /\ merged.profiles = Get(f, "profiles", DefaultJson.profiles)
      /\ merged.selected_app \in Names
      /\ {"progress_label_mode", "media_keys_osd_mode", "show_media_keys_osd"} \subseteq DOMAIN merged.osd
  BY MergedObject DEF WellTyped, Names
<1>2. WellTyped(merged)
  <2>1. Settled(DefaultJson)
    BY DefaultIsSettled
  <2>2. LET list == merged.profiles
        IN  IsSequence(list) /\ \A i \in DOMAIN list : ProfileObject(list[i])
    BY <2>1, <1>1 DEF Settled, WellTyped, Get, HasKeys
  <2> HIDE DEF merged
  <2> QED
    BY <1>1, <2>2 DEF WellTyped, Get, HasKeys, Names
<1> HIDE DEF merged
<1>3. /\ ready = [k \in DOMAIN ready |-> ready[k]] /\ HasKeys(ready) /\ WellTyped(ready)
      /\ HasProfile(ready) /\ ready.osd = merged.osd
  <2>1. CASE migrates
    <3> DEFINE app == merged.selected_app
               p == [id |-> <<"default">>, app |-> app,
                     apps |-> IF app = NoApp THEN <<>> ELSE <<app>>,
                     hotkeys |-> [volume_up |-> BindingFromJson(merged.hotkeys, "volume_up", VolumeUp)],
                     auto_switch |-> TRUE]
    <3>1. ready = [merged EXCEPT !.profiles = <<p>>]
      BY <1>1, <2>1 DEF MigrateLegacyToProfiles, HasKeys
    <3>2. ProfileObject(p) /\ Get(p, "id", <<>>) # <<>>
      <4>1. p.apps \in Seq(App \cup {NoApp}) /\ app \in App \cup {NoApp}
        <5>1. app \in App \cup {NoApp}
          BY <1>1 DEF Names
        <5> HIDE DEF app
        <5>2. <<>> \in Seq(App \cup {NoApp}) /\ <<app>> \in Seq(App \cup {NoApp})
          BY <5>1
        <5> QED
          BY <5>1, <5>2
      <4>2. /\ Get(p, "id", <<>>) = <<"default">> /\ Get(p, "apps", <<>>) = p.apps
            /\ Get(p, "app", NoApp) = app /\ Get(p, "app_regex", {}) = {}
        BY DEF Get
      <4> HIDE DEF p
      <4> QED
        BY <4>1, <4>2, OneProfile DEF ProfileObject
    <3> HIDE DEF p
    <3>3. IsSequence(<<p>>) /\ DOMAIN <<p>> = {1} /\ <<p>>[1] = p
      BY OneProfile
    <3> HIDE DEF ready
    <3>4. /\ ready = [k \in DOMAIN ready |-> ready[k]] /\ HasKeys(ready) /\ ready.profiles = <<p>>
          /\ ready.selected_app = app /\ ready.osd = merged.osd
      BY <1>1, <3>1 DEF HasKeys
    <3>5. WellTyped(ready)
      BY <1>1, <3>2, <3>3, <3>4 DEF WellTyped, Get, HasKeys, Names
    <3>6. HasProfile(ready)
      BY <3>2, <3>3, <3>4 DEF HasProfile
    <3> QED
      BY <3>4, <3>5, <3>6
  <2>2. CASE ~migrates
    <3>1. IsSequence(merged.profiles) /\ \A i \in DOMAIN merged.profiles : ProfileObject(merged.profiles[i])
      BY <1>1, <1>2 DEF WellTyped, Get, HasKeys
    <3>2. ProfilesFromJson(merged.profiles) # <<>>
      BY <2>2 DEF NeedsProfileMigration, Profiles
    <3>3. HasProfile(merged)
      BY <3>1, <3>2, ProfilesAreRead DEF HasProfile
    <3> QED
      BY <1>1, <1>2, <2>2, <3>3
  <2> QED
    BY <2>1, <2>2
<1> HIDE DEF ready
<1>4. /\ settled = [k \in DOMAIN settled |-> settled[k]] /\ HasKeys(settled) /\ WellTyped(settled)
      /\ HasProfile(settled) /\ Mirrored(settled) /\ settled.osd = merged.osd
  BY <1>3, MirrorSettles
<1> HIDE DEF settled
<1>5. OsdSettled(osd)
  BY <1>1, <1>4, MigratedOsdIsSettled
<1> HIDE DEF osd
<1> DEFINE done == [settled EXCEPT !.osd = osd]
<1>6. Loaded(f) = done
  BY DEF Loaded, ApplyLoadedJson, osd, settled, ready, migrates, bare, merged
<1>7. /\ done = [k \in DOMAIN done |-> done[k]] /\ DOMAIN done = DOMAIN settled
      /\ done.profiles = settled.profiles /\ done.selected_app = settled.selected_app
      /\ done.hotkeys = settled.hotkeys /\ done.osd = osd
  BY <1>4 DEF HasKeys
<1> HIDE DEF done
<1>8. HasKeys(done) /\ WellTyped(done) /\ HasProfile(done) /\ Mirrored(done)
  BY <1>4, <1>7 DEF HasKeys, WellTyped, Get, HasProfile, Mirrored
<1> QED
  BY <1>5, <1>6, <1>7, <1>8 DEF Settled

\* Settled settings load back as they are.
LEMMA SettledIsSound == ASSUME NEW d, Settled(d) PROVE Sound(d)
<1> DEFINE base == DefaultJson
<1>1. /\ DOMAIN base = {"profiles", "selected_app", "hotkeys", "osd", "scenes", "auto_profile_switch"}
      /\ DOMAIN base.osd = {"progress_label_mode", "media_keys_osd_mode", "show_media_keys_osd"}
      /\ DOMAIN base.hotkeys = {"volume_up"}
  BY DEF DefaultJson
<1> HIDE DEF base
<1>2. /\ d = [k \in DOMAIN d |-> d[k]] /\ HasKeys(d) /\ WellTyped(d) /\ HasProfile(d) /\ Mirrored(d)
      /\ OsdSettled(d.osd)
  BY DEF Settled
<1>3. DeepMerge(base, d) = d
  <2>1. Override(d.osd, base.osd) = d.osd
    BY <1>1, <1>2, OverrideAll DEF OsdSettled
  <2>2. Override(d.hotkeys, base.hotkeys) = d.hotkeys
    <3> DEFINE code == BindingFromJson(Get(Head(d.profiles), "hotkeys", NoKeys), "volume_up", VolumeUp)
    <3>1. d.hotkeys = [volume_up |-> code]
      BY <1>2 DEF Mirrored
    <3> HIDE DEF code
    <3>2. d.hotkeys = [k \in DOMAIN d.hotkeys |-> d.hotkeys[k]] /\ DOMAIN d.hotkeys = {"volume_up"}
      BY <3>1
    <3> QED
      BY <1>1, <3>2, OverrideAll
  <2>3. DOMAIN base \cup DOMAIN d = DOMAIN d
    BY <1>1, <1>2 DEF HasKeys
  <2>4. DeepMerge(base, d) = [k \in DOMAIN d |->
             IF k \in DOMAIN base \cap DOMAIN d \cap Nested THEN Override(d[k], base[k])
             ELSE IF k \in DOMAIN d THEN d[k] ELSE base[k]]
    BY <2>3 DEF DeepMerge
  <2>5. \A k \in DOMAIN d : DeepMerge(base, d)[k] = d[k]
    BY <2>1, <2>2, <2>4 DEF Nested
  <2> QED
    BY <1>2, <2>4, <2>5
<1>4. Profiles(d) # <<>>
  <2>1. IsSequence(d.profiles) /\ \A i \in DOMAIN d.profiles : ProfileObject(d.profiles[i])
    BY <1>2 DEF WellTyped, Get, HasKeys
  <2> QED
    BY <1>2, <2>1, ProfilesAreRead DEF Profiles, HasProfile
<1>5. ~NeedsProfileMigration(d, d)
  BY <1>2, <1>4 DEF NeedsProfileMigration, HasKeys
<1>6. MirrorDefaultProfileToLegacy(d) = d
  BY <1>2, MirrorSettles
<1>7. MigrateOsd(d.osd, d.osd) = d.osd
  BY <1>2, SettledOsdStays
<1>8. Get(d, "osd", NoKeys) = d.osd /\ "media_keys_osd_mode" \in DOMAIN d.osd
  BY <1>2 DEF Get, HasKeys, OsdSettled
<1>9. [d EXCEPT !.osd = d.osd] = d
  BY <1>2
<1>10. ApplyLoadedJson(d) = [data |-> d, save |-> FALSE]
  BY <1>3, <1>5, <1>6, <1>7, <1>8, <1>9 DEF ApplyLoadedJson, base
<1> QED
  BY <1>4, <1>10 DEF Sound

-----------------------------------------------------------------------------
(* The setters leave settled settings.                                     *)

\* A field beside the profiles, their copies and the OSD does not unsettle.
LEMMA BesideSettles ==
  ASSUME NEW d, Settled(d), NEW m, m = [k \in DOMAIN m |-> m[k]], DOMAIN m = DOMAIN d,
         m.profiles = d.profiles, m.selected_app = d.selected_app, m.hotkeys = d.hotkeys,
         OsdSettled(m.osd)
  PROVE  Settled(m)
<1>1. HasKeys(m) /\ HasProfile(m) /\ Mirrored(m)
  BY DEF Settled, HasKeys, HasProfile, Mirrored
<1>2. WellTyped(m)
  BY <1>1 DEF Settled, HasKeys, WellTyped, Get
<1> QED
  BY <1>1, <1>2 DEF Settled

\* Config::setOsd, setScenes and setAutoProfileSwitch leave settled settings.
LEMMA SmallSettersSettle ==
  ASSUME NEW d, Settled(d), NEW x, NEW y
  PROVE  Settled(WithOsd(d, x, y)) /\ Settled(WithScenes(d, x)) /\ Settled(WithAutoProfileSwitch(d, x))
<1>1. d = [k \in DOMAIN d |-> d[k]] /\ HasKeys(d) /\ OsdSettled(d.osd)
  BY DEF Settled
<1>2. Settled(WithOsd(d, x, y))
  <2> DEFINE osd == [progress_label_mode |-> NormalizeLabelMode(x),
                     media_keys_osd_mode |-> NormalizeMediaMode(y),
                     show_media_keys_osd |-> NormalizeMediaMode(y) # "off"]
             m == [d EXCEPT !.osd = osd]
  <2>1. OsdSettled(osd)
    BY ModesAreKnown DEF OsdSettled
  <2> HIDE DEF osd
  <2>2. /\ m = [k \in DOMAIN m |-> m[k]] /\ DOMAIN m = DOMAIN d
        /\ m.profiles = d.profiles /\ m.selected_app = d.selected_app /\ m.hotkeys = d.hotkeys
        /\ m.osd = osd
    BY <1>1 DEF HasKeys
  <2> HIDE DEF m
  <2>3. Settled(m)
    BY <2>1, <2>2, BesideSettles
  <2> QED
    BY <2>3 DEF WithOsd, m, osd
<1>3. \A v : Settled([d EXCEPT !.scenes = v]) /\ Settled([d EXCEPT !.auto_profile_switch = v])
  <2> TAKE v
  <2> DEFINE m == [d EXCEPT !.scenes = v]
             n == [d EXCEPT !.auto_profile_switch = v]
  <2>1. /\ m = [k \in DOMAIN m |-> m[k]] /\ DOMAIN m = DOMAIN d
        /\ m.profiles = d.profiles /\ m.selected_app = d.selected_app /\ m.hotkeys = d.hotkeys
        /\ m.osd = d.osd
    BY <1>1 DEF HasKeys
  <2>2. /\ n = [k \in DOMAIN n |-> n[k]] /\ DOMAIN n = DOMAIN d
        /\ n.profiles = d.profiles /\ n.selected_app = d.selected_app /\ n.hotkeys = d.hotkeys
        /\ n.osd = d.osd
    BY <1>1 DEF HasKeys
  <2> HIDE DEF m, n
  <2>3. Settled(m)
    BY <1>1, <2>1, BesideSettles
  <2>4. Settled(n)
    BY <1>1, <2>2, BesideSettles
  <2> QED
    BY <2>3, <2>4 DEF m, n
<1>4. Settled(WithAutoProfileSwitch(d, x))
  BY <1>3 DEF WithAutoProfileSwitch
<1>5. Settled(WithScenes(d, x))
  <2> DEFINE Clean(s) == [s EXCEPT !.targets = LET ts == CleanTargets(@)
                                               IN  [i \in DOMAIN ts |-> ClampTarget(ts[i])]]
             scenes == ScenesToJson(UniqueIds([i \in DOMAIN x |-> Clean(x[i])], <<"scene">>))
  <2>1. WithScenes(d, x) = [d EXCEPT !.scenes = scenes]
    BY DEF WithScenes
  <2> HIDE DEF scenes
  <2> QED
    BY <1>3, <2>1
<1> QED
  BY <1>2, <1>4, <1>5

\* What sanitizeProfile leaves.
LEMMA SanitizedProfile ==
  ASSUME NEW p, ProfileObject(p),
         {"id", "apps", "app_regex", "vol_min", "vol_max", "sink"} \subseteq DOMAIN p
  PROVE  LET s == SanitizeProfile(p)
         IN  /\ s = [k \in DOMAIN p |-> s[k]] /\ DOMAIN s = DOMAIN p
             /\ s.id = p.id /\ s.apps = Named(p.apps) /\ s.apps \in Seq(App)
             /\ s.app_regex = p.app_regex /\ s.sink = p.sink
<1>1. p.apps \in Seq(Names)
  BY DEF ProfileObject, Names, Get
<1>2. Named(p.apps) \in Seq(App)
  BY <1>1, NamedNames
<1> DEFINE lo == Min({Clamp(p.vol_min), Clamp(p.vol_max)})
           hi == Max({Clamp(p.vol_min), Clamp(p.vol_max)})
           apps == Named(p.apps)
<1>3. SanitizeProfile(p) = [p EXCEPT !.apps = apps, !.vol_min = lo, !.vol_max = hi]
  BY DEF SanitizeProfile
<1> HIDE DEF lo, hi, apps
<1> QED
  BY <1>2, <1>3 DEF apps

\* What profileToJson writes is what it was given.
LEMMA WrittenProfile ==
  ASSUME NEW p, {"id", "apps", "app_regex", "vol_min", "vol_max", "sink"} \subseteq DOMAIN p,
         IsSequence(p.id), p.apps \in Seq(App), p.app_regex \subseteq App
  PROVE  LET q == ProfileToJson(p)
         IN  /\ {"id", "apps", "app_regex", "sink"} \subseteq DOMAIN q /\ ProfileObject(q)
             /\ q.id = p.id /\ q.apps = p.apps /\ q.app_regex = p.app_regex /\ q.sink = p.sink
<1> DEFINE app == PrimaryApp(p.apps)
           lo == Clamp(p.vol_min)
           hi == Clamp(p.vol_max)
           base == [p EXCEPT !.vol_min = lo, !.vol_max = hi]
           q == ProfileToJson(p)
<1>1. q = Override([app |-> app], base)
  BY DEF ProfileToJson
<1>2. p.apps \in Seq(App \cup {NoApp})
  OBVIOUS
<1>3. app \in App \cup {NoApp}
  BY <1>2, PrimaryAppIsNamed DEF Names
<1> HIDE DEF app, lo, hi, q
<1>4. /\ DOMAIN base = DOMAIN p
      /\ base.id = p.id /\ base.apps = p.apps /\ base.app_regex = p.app_regex /\ base.sink = p.sink
  OBVIOUS
<1> HIDE DEF base
<1>5. /\ {"id", "apps", "app_regex", "sink", "app"} \subseteq DOMAIN q
      /\ q.id = p.id /\ q.apps = p.apps /\ q.app_regex = p.app_regex /\ q.sink = p.sink
      /\ q.app = app
  BY <1>1, <1>4 DEF Override
<1>6. ProfileObject(q)
  BY <1>2, <1>3, <1>5 DEF ProfileObject, Get
<1> QED
  BY <1>5, <1>6 DEF q

\* The entries that Config::setProfiles writes.
Written(list) ==
    LET unique == UniqueIds([i \in DOMAIN list |-> SanitizeProfile(list[i])], <<"profile">>)
    IN  [i \in DOMAIN unique |-> ProfileToJson(unique[i])]

\* The list that was entered, each entry with an id of its own and its names
\* without the empty ones.
LEMMA ProfilesAreWritten ==
  ASSUME NEW list, ProfileList(list)
  PROVE  /\ IsSequence(Written(list)) /\ DOMAIN Written(list) = DOMAIN list
         /\ \A i \in DOMAIN list :
              /\ {"id", "apps", "app_regex", "sink"} \subseteq DOMAIN Written(list)[i]
              /\ ProfileObject(Written(list)[i]) /\ Written(list)[i].id # <<>>
              /\ Written(list)[i].apps = Named(list[i].apps)
              /\ Written(list)[i].app_regex = list[i].app_regex
              /\ Written(list)[i].sink = list[i].sink
         /\ \A i, j \in DOMAIN list : j < i => Written(list)[j].id # Written(list)[i].id
<1> DEFINE clean == [i \in DOMAIN list |-> SanitizeProfile(list[i])]
           size == Len(list)
           keys == {"id", "apps", "app_regex", "vol_min", "vol_max", "sink"}
<1>1. /\ size \in Nat /\ DOMAIN list = 1 .. size
      /\ \A i \in 1 .. size : keys \subseteq DOMAIN list[i] /\ ProfileObject(list[i])
  BY SequenceDomain DEF ProfileList
<1>2. /\ DOMAIN clean = 1 .. size
      /\ \A i \in 1 .. size :
            /\ clean[i] = [k \in DOMAIN clean[i] |-> clean[i][k]] /\ keys \subseteq DOMAIN clean[i]
            /\ clean[i].id = list[i].id /\ clean[i].apps = Named(list[i].apps)
            /\ clean[i].apps \in Seq(App)
            /\ clean[i].app_regex = list[i].app_regex /\ clean[i].sink = list[i].sink
  <2>1. DOMAIN clean = 1 .. size
    BY <1>1
  <2>2. ASSUME NEW i \in 1 .. size
        PROVE  /\ clean[i] = [k \in DOMAIN clean[i] |-> clean[i][k]] /\ keys \subseteq DOMAIN clean[i]
               /\ clean[i].id = list[i].id /\ clean[i].apps = Named(list[i].apps)
               /\ clean[i].apps \in Seq(App)
               /\ clean[i].app_regex = list[i].app_regex /\ clean[i].sink = list[i].sink
    <3>1. ProfileObject(list[i]) /\ keys \subseteq DOMAIN list[i]
      BY <1>1
    <3>2. clean[i] = SanitizeProfile(list[i])
      BY <1>1
    <3> HIDE DEF clean
    <3> QED
      BY <3>1, <3>2, SanitizedProfile
  <2> QED
    BY <2>1, <2>2
<1>3. \A i \in 1 .. size : IsSequence(list[i].id) /\ list[i].app_regex \subseteq App
  <2> SUFFICES ASSUME NEW i \in 1 .. size PROVE IsSequence(list[i].id) /\ list[i].app_regex \subseteq App
    OBVIOUS
  <2>1. ProfileObject(list[i]) /\ keys \subseteq DOMAIN list[i]
    BY <1>1
  <2> QED
    BY <2>1 DEF ProfileObject, Get
<1>4. IsSequence(<<"profile">>) /\ <<"profile">> # <<>>
  BY OneProfile
<1> HIDE DEF clean
<1>5. \A i \in 1 .. size : IsSequence(clean[i].id)
  BY <1>2, <1>3
<1>6. PICK ids : /\ UniqueIds(clean, <<"profile">>)
                       = [i \in 1 .. size |-> [clean[i] EXCEPT !.id = ids[i]]]
                 /\ \A i \in 1 .. size : IsSequence(ids[i]) /\ ids[i] # <<>>
                 /\ \A i, j \in 1 .. size : j < i => ids[j] # ids[i]
  <2>1. size \in Nat /\ DOMAIN clean = 1 .. size
    BY <1>1, <1>2
  <2> DEFINE base == <<"profile">>
  <2>2. IsSequence(base) /\ base # <<>>
    BY <1>4
  <2> HIDE DEF size, base
  <2>3. \E ids : /\ UniqueIds(clean, base)
                       = [i \in 1 .. size |-> [clean[i] EXCEPT !.id = ids[i]]]
                 /\ \A i \in 1 .. size : IsSequence(ids[i]) /\ ids[i] # <<>>
                 /\ \A i, j \in 1 .. size : j < i => ids[j] # ids[i]
    BY <2>1, <2>2, <1>5, UniqueIdsAreUnique
  <2> QED
    BY <2>3 DEF base
<1> DEFINE unique == UniqueIds(clean, <<"profile">>)
<1>7. Written(list) = [i \in DOMAIN unique |-> ProfileToJson(unique[i])]
  BY DEF Written, clean
<1> HIDE DEF unique
<1>8. /\ DOMAIN unique = 1 .. size
      /\ \A i \in 1 .. size : unique[i] = [clean[i] EXCEPT !.id = ids[i]]
  BY <1>6 DEF unique
<1>9. ASSUME NEW i \in 1 .. size
      PROVE  /\ {"id", "apps", "app_regex", "sink"} \subseteq DOMAIN Written(list)[i]
             /\ ProfileObject(Written(list)[i]) /\ Written(list)[i].id = ids[i]
             /\ Written(list)[i].apps = Named(list[i].apps)
             /\ Written(list)[i].app_regex = list[i].app_regex
             /\ Written(list)[i].sink = list[i].sink
  <2> DEFINE p == unique[i]
  <2>1. p = [clean[i] EXCEPT !.id = ids[i]] /\ Written(list)[i] = ProfileToJson(p)
    BY <1>7, <1>8
  <2> HIDE DEF p
  <2>2. /\ keys \subseteq DOMAIN p /\ p.id = ids[i] /\ p.apps = clean[i].apps
        /\ p.app_regex = clean[i].app_regex /\ p.sink = clean[i].sink
    BY <2>1, <1>2
  <2>3. IsSequence(p.id) /\ p.apps \in Seq(App) /\ p.app_regex \subseteq App
    BY <2>2, <1>2, <1>3, <1>6
  <2>4. LET q == ProfileToJson(p)
        IN  /\ {"id", "apps", "app_regex", "sink"} \subseteq DOMAIN q /\ ProfileObject(q)
            /\ q.id = p.id /\ q.apps = p.apps /\ q.app_regex = p.app_regex /\ q.sink = p.sink
    BY <2>2, <2>3, WrittenProfile
  <2> QED
    BY <1>2, <2>1, <2>2, <2>4
<1>10. IsSequence(Written(list)) /\ DOMAIN Written(list) = 1 .. size
  <2>1. DOMAIN Written(list) = 1 .. size /\ Written(list) = [i \in 1 .. size |-> Written(list)[i]]
    BY <1>7, <1>8
  <2> QED
    BY <1>1, <2>1, SequenceOf
<1>11. \A i, j \in 1 .. size : j < i => Written(list)[j].id # Written(list)[i].id
  BY <1>6, <1>9
<1> QED
  BY <1>1, <1>6, <1>9, <1>10, <1>11

\* Config::setProfiles leaves settled settings.
LEMMA ProfilesSettle ==
  ASSUME NEW d, Settled(d), NEW list, ProfileList(list)
  PROVE  Settled(WithProfiles(d, list)) /\ WithProfiles(d, list).profiles = Written(list)
<1> DEFINE m == [d EXCEPT !.profiles = Written(list)]
<1>1. WithProfiles(d, list) = MirrorDefaultProfileToLegacy(m)
  BY DEF WithProfiles, Written
<1>2. d = [k \in DOMAIN d |-> d[k]] /\ HasKeys(d) /\ WellTyped(d) /\ OsdSettled(d.osd)
  BY DEF Settled
<1>3. /\ m = [k \in DOMAIN m |-> m[k]] /\ DOMAIN m = DOMAIN d /\ m.profiles = Written(list)
      /\ m.selected_app = d.selected_app /\ m.osd = d.osd
  BY <1>2 DEF HasKeys
<1> HIDE DEF m
<1>4. HasKeys(m)
  BY <1>2, <1>3 DEF HasKeys
<1>5. WellTyped(m)
  <2>1. IsSequence(m.profiles) /\ \A i \in DOMAIN m.profiles : ProfileObject(m.profiles[i])
    BY <1>3, ProfilesAreWritten
  <2>2. m.selected_app \in App \cup {NoApp}
    BY <1>2, <1>3 DEF WellTyped, Get, HasKeys
  <2> QED
    BY <1>4, <2>1, <2>2 DEF WellTyped, Get, HasKeys
<1>6. HasProfile(m)
  <2>1. PICK i \in DOMAIN list : TRUE
    BY SequenceDomain DEF ProfileList
  <2>2. /\ i \in DOMAIN m.profiles /\ "id" \in DOMAIN m.profiles[i] /\ m.profiles[i].id # <<>>
    BY <1>3, ProfilesAreWritten
  <2> QED
    BY <2>2 DEF HasProfile, Get
<1>7. LET s == MirrorDefaultProfileToLegacy(m)
      IN  /\ s = [k \in DOMAIN s |-> s[k]] /\ HasKeys(s) /\ WellTyped(s) /\ HasProfile(s)
          /\ Mirrored(s) /\ s.osd = m.osd
  BY <1>3, <1>4, <1>5, <1>6, MirrorSettles
<1>8. MirrorDefaultProfileToLegacy(m).profiles = m.profiles
  BY <1>4, MirrorKeeps
<1> QED
  BY <1>1, <1>2, <1>3, <1>7, <1>8 DEF Settled

-----------------------------------------------------------------------------
(* The application of the default profile; routes through a save.          *)

\* What is sifted out of a sequence of some things is a sequence of them.
LEMMA SiftedIn ==
  ASSUME NEW S, NEW s \in Seq(S), NEW at \in SUBSET DOMAIN s
  PROVE  Sifted(s, at) \in Seq(S)
<1> DEFINE got == Sifted(s, at)
<1>1. Len(s) \in Nat /\ DOMAIN s = 1 .. Len(s) /\ \A i \in DOMAIN s : s[i] \in S
  OBVIOUS
<1>2. at \in SUBSET Nat /\ IsFiniteSet(at)
  BY <1>1, SomeIndices
<1>3. got = [n \in 1 .. Cardinality(at) |-> got[n]]
  BY DEF Sifted
<1> HIDE DEF got
<1>4. /\ Cardinality(at) \in Nat
      /\ \A n \in 1 .. Cardinality(at) : \E i \in at : got[n] = s[i]
  BY <1>2, SiftedElements DEF got
<1>5. \A n \in 1 .. Cardinality(at) : got[n] \in S
  BY <1>1, <1>4
<1>6. got \in [1 .. Cardinality(at) -> S]
  BY <1>3, <1>5
<1>7. got \in Seq(S)
  BY <1>4, <1>6
<1> QED
  BY <1>7 DEF got

\* appsArrayWithPrimary: the application first, then the others.
LEMMA PrimaryComesFirst ==
  ASSUME NEW o, ProfileObject(o), NEW app \in Names
  PROVE  /\ AppsWithPrimary(o, app) \in Seq(App)
         /\ app = NoApp => AppsWithPrimary(o, app) = <<>>
         /\ app # NoApp => AppsWithPrimary(o, app) # <<>> /\ AppsWithPrimary(o, app)[1] = app
<1> DEFINE all == ProfileApps(o)
           at == {i \in DOMAIN all : all[i] # app /\ \A j \in 1 .. i - 1 : all[j] # all[i]}
           others == Sifted(all, at)
<1>1. all \in Seq(App)
  BY ProfileAppsAreNamed DEF ProfileObject, Names
<1> HIDE DEF all
<1>2. at \in SUBSET DOMAIN all
  OBVIOUS
<1> HIDE DEF at
<1>3. others \in Seq(App)
  BY <1>1, <1>2, SiftedIn
<1>4. AppsWithPrimary(o, app) = IF app = NoApp THEN <<>> ELSE <<app>> \o others
  BY DEF AppsWithPrimary, others, at, all
<1> HIDE DEF others
<1>5. CASE app = NoApp
  BY <1>4, <1>5
<1>6. CASE app # NoApp
  <2>1. app \in App
    BY <1>6 DEF Names
  <2> DEFINE one == <<app>>
  <2>2. one \in Seq(App) /\ Len(one) = 1 /\ one[1] = app
    BY <2>1
  <2> HIDE DEF one
  <2>3. one \o others \in Seq(App) /\ one \o others # <<>> /\ (one \o others)[1] = app
    BY <1>3, <2>2
  <2> QED
    BY <1>4, <1>6, <2>3 DEF one
<1> QED
  BY <1>5, <1>6

\* Config::setDefaultProfileApp and setSelectedApp leave settled settings.
LEMMA DefaultAppSettles ==
  ASSUME NEW d, Settled(d), NEW app \in Names
  PROVE  Settled(WithDefaultProfileApp(d, app)) /\ Settled(WithSelectedApp(d, app))
<1> DEFINE first == Head(d.profiles)
           apps == AppsWithPrimary(first, app)
           over == [app |-> app, apps |-> apps]
           new == Override(over, first)
           list == [d.profiles EXCEPT ![1] = new]
           m == [d EXCEPT !.profiles = list, !.selected_app = app]
<1>1. /\ d = [k \in DOMAIN d |-> d[k]] /\ HasKeys(d) /\ HasProfile(d) /\ Mirrored(d)
      /\ OsdSettled(d.osd)
  BY DEF Settled
<1>2. IsSequence(d.profiles) /\ \A i \in DOMAIN d.profiles : ProfileObject(d.profiles[i])
  BY <1>1 DEF Settled, WellTyped, HasKeys, Get
<1>3. /\ Len(d.profiles) \in Nat /\ DOMAIN d.profiles = 1 .. Len(d.profiles)
      /\ d.profiles = [i \in 1 .. Len(d.profiles) |-> d.profiles[i]]
  BY <1>2, SequenceDomain
<1>4. 1 \in DOMAIN d.profiles /\ first = d.profiles[1] /\ d.profiles # <<>>
  <2>1. DOMAIN d.profiles # {}
    BY <1>1 DEF HasProfile
  <2> QED
    BY <1>3, <2>1
<1>5. ProfileObject(first)
  BY <1>2, <1>4
<1>6. WithDefaultProfileApp(d, app) = m /\ WithSelectedApp(d, app) = m
  <2>1. WithDefaultProfileApp(d, app) = m
    BY DEF WithDefaultProfileApp
  <2> HIDE DEF m
  <2> QED
    BY <1>4, <2>1 DEF WithSelectedApp
<1> HIDE DEF first
<1>7. /\ apps \in Seq(App)
      /\ app = NoApp => apps = <<>>
      /\ app # NoApp => apps # <<>> /\ apps[1] = app
  BY <1>5, PrimaryComesFirst
<1> HIDE DEF apps
<1>8. /\ "app" \in DOMAIN new /\ "apps" \in DOMAIN new /\ new.app = app /\ new.apps = apps
      /\ Get(new, "id", <<>>) = Get(first, "id", <<>>)
      /\ Get(new, "app_regex", {}) = Get(first, "app_regex", {})
      /\ Get(new, "hotkeys", NoKeys) = Get(first, "hotkeys", NoKeys)
  <2>1. DOMAIN over = {"app", "apps"} /\ over["app"] = app /\ over["apps"] = apps
    OBVIOUS
  <2> HIDE DEF over
  <2> QED
    BY <2>1 DEF Override, Get
<1> HIDE DEF new
<1>9. ProfileObject(new)
  <2>1. Get(new, "apps", <<>>) = apps /\ Get(new, "app", NoApp) = app
    BY <1>8 DEF Get
  <2>2. apps \in Seq(App \cup {NoApp})
    BY <1>7
  <2> QED
    BY <1>5, <1>8, <2>1, <2>2 DEF ProfileObject, Names
<1>10. PrimaryApp(ProfileApps(new)) = app
  <2>1. apps \in Seq(Names)
    BY <1>7 DEF Names
  <2>2. <<>> \in Seq(Names)
    OBVIOUS
  <2>3. Get(new, "apps", <<>>) = apps /\ Get(new, "app", NoApp) = app
    BY <1>8 DEF Get
  <2>4. ProfileApps(new) = IF Named(apps) = <<>> /\ app # NoApp THEN <<app>> ELSE Named(apps)
    BY <2>3 DEF ProfileApps
  <2>5. CASE app = NoApp
    <3>1. Named(apps) = <<>>
      <4>1. apps = <<>> /\ DOMAIN apps = {}
        BY <1>7, <2>5
      <4>2. Named(apps) \in Seq(App) /\ DOMAIN Named(apps) = {}
        BY <2>1, <4>1, NamedNames
      <4> QED
        BY <4>2
    <3> QED
      BY <2>2, <2>4, <2>5, <3>1, PrimaryAppIsNamed
  <2>6. CASE app # NoApp
    <3>1. Named(apps) \in Seq(App) /\ Named(apps) # <<>> /\ Named(apps)[1] = app
      BY <1>7, <2>1, <2>6, NamedNames
    <3>2. Named(apps) \in Seq(Names)
      BY <3>1 DEF Names
    <3> QED
      BY <2>4, <2>6, <3>1, <3>2, PrimaryAppIsNamed
  <2> QED
    BY <2>5, <2>6
<1>11. /\ DOMAIN list = DOMAIN d.profiles /\ list[1] = new
       /\ \A i \in DOMAIN list : i # 1 => list[i] = d.profiles[i]
       /\ list = [i \in 1 .. Len(d.profiles) |-> list[i]]
  BY <1>3, <1>4
<1> HIDE DEF list
<1>12. IsSequence(list) /\ Head(list) = new
  <2>1. IsSequence(list)
    BY <1>3, <1>11, SequenceOf
  <2>2. list # <<>>
    BY <1>4, <1>11
  <2> QED
    BY <1>11, <2>1, <2>2 DEF IsSequence
<1>13. /\ m = [k \in DOMAIN m |-> m[k]] /\ DOMAIN m = DOMAIN d
       /\ m.profiles = list /\ m.selected_app = app /\ m.hotkeys = d.hotkeys /\ m.osd = d.osd
  BY <1>1 DEF HasKeys
<1> HIDE DEF m
<1>14. HasKeys(m)
  BY <1>1, <1>13 DEF HasKeys
<1>15. WellTyped(m)
  <2>1. \A i \in DOMAIN list : ProfileObject(list[i])
    BY <1>2, <1>9, <1>11
  <2> QED
    BY <1>12, <1>13, <1>14, <2>1 DEF WellTyped, Get, HasKeys, Names
<1>16. HasProfile(m)
  <2>1. \A i \in DOMAIN list : Get(list[i], "id", <<>>) = Get(d.profiles[i], "id", <<>>)
    BY <1>4, <1>8, <1>11
  <2> QED
    BY <1>1, <1>11, <1>13, <2>1 DEF HasProfile
<1>17. Mirrored(m)
  BY <1>1, <1>8, <1>10, <1>12, <1>13 DEF Mirrored, first
<1> QED
  BY <1>1, <1>6, <1>13, <1>14, <1>15, <1>16, <1>17 DEF Settled

\* What matches an entry of the list still does when the list is stored: the
\* names that are empty match nothing.
LEMMA SavedKeepsRoutes ==
  ASSUME NEW d, Settled(d), NEW list, ProfileList(list), NEW a \in App, NEW aliases,
         StillRouted(a, list, aliases)
  PROVE  StillRouted(a, Profiles(WithProfiles(d, list)), aliases)
<1> DEFINE w == Written(list)
           ps == ProfilesFromJson(w)
<1>1. Profiles(WithProfiles(d, list)) = ps
  BY ProfilesSettle DEF Profiles
<1>2. PICK i \in DOMAIN list, c \in AppMatchCandidates(a, aliases) :
          list[i].sink # NoSink /\ ProfileListsApp(list[i], c)
  BY DEF StillRouted, ProfileMatchesApp
<1>3. /\ IsSequence(w) /\ DOMAIN w = DOMAIN list /\ \A j \in DOMAIN w : ProfileObject(w[j])
      /\ {"id", "apps", "app_regex", "sink"} \subseteq DOMAIN w[i] /\ w[i].id # <<>>
      /\ w[i].apps = Named(list[i].apps) /\ w[i].app_regex = list[i].app_regex
      /\ w[i].sink = list[i].sink
  BY ProfilesAreWritten
<1> HIDE DEF w
<1>4. Get(w[i], "id", <<>>) # <<>>
  BY <1>3 DEF Get
<1>5. PICK n \in DOMAIN ps : ps[n] = ProfileFromJson(w[i])
  BY <1>3, <1>4, ProfilesAreRead
<1> HIDE DEF ps
<1>6. /\ ps[n].apps = ProfileApps(w[i]) /\ ps[n].app_regex = list[i].app_regex
      /\ ps[n].sink = list[i].sink
  BY <1>3, <1>5, ProfileIsRead DEF Get
<1>7. ProfileListsApp(ps[n], c)
  <2>1. CASE c \in list[i].app_regex
    BY <1>6, <2>1 DEF ProfileListsApp
  <2>2. CASE \E j \in DOMAIN list[i].apps : AppIdMatches(list[i].apps[j], c)
    <3>1. PICK j \in DOMAIN list[i].apps : AppIdMatches(list[i].apps[j], c)
      BY <2>2
    <3>2. list[i].apps[j] \in App /\ list[i].apps[j] # NoApp
      BY <3>1, SimilarAssumption DEF AppIdMatches
    <3>3. list[i].apps \in Seq(Names)
      <4>1. ProfileObject(list[i]) /\ "apps" \in DOMAIN list[i]
        BY DEF ProfileList
      <4> QED
        BY <4>1 DEF ProfileObject, Get, Names
    <3>4. PICK k \in DOMAIN Named(list[i].apps) : Named(list[i].apps)[k] = list[i].apps[j]
      BY <3>2, <3>3, NamedNames
    <3>5. Get(w[i], "apps", <<>>) = w[i].apps
      BY <1>3 DEF Get
    <3>6. w[i].apps \in Seq(Names) /\ Get(w[i], "app", NoApp) \in Names
      BY <1>3, <3>5 DEF ProfileObject, Names
    <3>7. k \in DOMAIN w[i].apps /\ w[i].apps[k] = list[i].apps[j]
      BY <1>3, <3>4
    <3>8. PICK l \in DOMAIN ProfileApps(w[i]) : ProfileApps(w[i])[l] = w[i].apps[k]
      BY <3>2, <3>5, <3>6, <3>7, ProfileAppsAreNamed
    <3>9. l \in DOMAIN ps[n].apps /\ AppIdMatches(ps[n].apps[l], c)
      BY <1>6, <3>1, <3>7, <3>8
    <3> QED
      BY <3>9 DEF ProfileListsApp
  <2> QED
    BY <1>2, <2>1, <2>2 DEF ProfileListsApp
<1>8. ps[n].sink # NoSink /\ ProfileMatchesApp(ps[n], a, aliases)
  BY <1>2, <1>6, <1>7 DEF ProfileMatchesApp
<1> QED
  BY <1>1, <1>8 DEF StillRouted

-----------------------------------------------------------------------------
(* Settled settings through every step, and the promise of the store.      *)

\* Settled settings in memory; what a file may hold is typed; what is being
\* written or imported is what it should be; a stopped program has no settings
\* but the defaults.
SettingsInv ==
    /\ Settled(m_data)
    /\ IsDocument(file) => WellTyped(file)
    /\ IsDocument(other) => WellTyped(other)
    /\ IsDocument(temp) => WellTyped(temp)
    /\ phase = "saving" /\ temp # NoFile => temp = m_data
    /\ phase = "importing" => IsDocument(temp)
    /\ phase = "stopped" => m_data = DefaultJson /\ ~m_saveBlocked

\* A step of the program, with what it puts into the settings and the files.
SettledStep ==
    \/ Load \/ Save \/ ExportToFile \/ FinishExport \/ ImportFromFile \/ FinishImport
    \/ ImportRefused \/ Ends
    \/ \E c : (IsDocument(c) => WellTyped(c)) /\ (EditFile(c) \/ GetOther(c))
    \/ \E d : Settled(d) /\ Sets(d)
    \/ UNCHANGED configVars

\* Settled settings are of the right types.
LEMMA SettledIsTyped == \A d : Settled(d) => WellTyped(d)
BY DEF Settled

\* A start, whatever it finds.
LEMMA LoadSettles == StoreInv /\ SettingsInv /\ Load => SettingsInv'
<1> SUFFICES ASSUME StoreInv, SettingsInv, Load PROVE SettingsInv'
  OBVIOUS
<1>1. phase = "stopped" /\ temp' = NoFile /\ file' = file /\ other' = other
  BY DEF Load, LoadBlocked, LoadDocument, LoadDamaged, LoadAbsent, StoreInv, fileVars
<1>2. phase' \in {"idle", "saving"} /\ ~IsDocument(temp')
  BY <1>1 DEF Load, LoadBlocked, LoadDocument, LoadDamaged, LoadAbsent, IsDocument
<1>3. Settled(m_data')
  <2>1. CASE LoadDocument
    BY <2>1, LoadedIsSettled DEF LoadDocument, SettingsInv
  <2>2. CASE LoadBlocked \/ LoadDamaged \/ LoadAbsent
    BY <2>2 DEF LoadBlocked, LoadDamaged, LoadAbsent, SettingsInv
  <2> QED
    BY <2>1, <2>2 DEF Load
<1> QED
  BY <1>1, <1>2, <1>3 DEF SettingsInv

\* A save writes the settled settings.
LEMMA SaveSettles == StoreInv /\ SettingsInv /\ Save => SettingsInv'
<1> SUFFICES ASSUME StoreInv, SettingsInv, Save PROVE SettingsInv'
  OBVIOUS
<1>1. CASE Write
  BY <1>1, SettledIsTyped DEF Write, SettingsInv, fileVars, dataVars
<1>2. CASE SaveNothing
  BY <1>2 DEF SaveNothing, SettingsInv, fileVars, dataVars, IsDocument
<1>3. CASE Commit
  BY <1>3, SettledIsTyped DEF Commit, SettingsInv, dataVars, IsDocument
<1> QED
  BY <1>1, <1>2, <1>3 DEF Save

\* No step unsettles the settings.
LEMMA SettledStepSettles == StoreInv /\ SettingsInv /\ SettledStep => SettingsInv'
<1> SUFFICES ASSUME StoreInv, SettingsInv, SettledStep PROVE SettingsInv'
  OBVIOUS
<1>1. CASE Load
  BY <1>1, LoadSettles
<1>2. CASE Save
  BY <1>2, SaveSettles
<1>3. CASE ExportToFile
  BY <1>3 DEF ExportToFile, SettingsInv, fileVars, dataVars
<1>4. CASE FinishExport
  BY <1>4 DEF FinishExport, SettingsInv, dataVars, IsDocument
<1>5. CASE ImportFromFile
  BY <1>5 DEF ImportFromFile, SettingsInv, dataVars
<1>6. CASE FinishImport
  <2>1. Settled(m_data')
    BY <1>6, LoadedIsSettled DEF FinishImport, SettingsInv
  <2> QED
    BY <1>6, <2>1 DEF FinishImport, SettingsInv, IsDocument
<1>7. CASE ImportRefused
  BY <1>7 DEF ImportRefused, SettingsInv, fileVars, dataVars, IsDocument
<1>8. CASE Ends
  BY <1>8, DefaultIsSettled DEF Ends, SettingsInv, fileVars, IsDocument
<1>9. CASE \E c : (IsDocument(c) => WellTyped(c)) /\ (EditFile(c) \/ GetOther(c))
  BY <1>9 DEF EditFile, GetOther, SettingsInv, dataVars
<1>10. CASE \E d : Settled(d) /\ Sets(d)
  BY <1>10 DEF Sets, SettingsInv, StoreInv, fileVars
<1>11. CASE UNCHANGED configVars
  BY <1>11 DEF configVars, fileVars, dataVars, SettingsInv
<1> QED
  BY <1>1, <1>2, <1>3, <1>4, <1>5, <1>6, <1>7, <1>8, <1>9, <1>10, <1>11 DEF SettledStep

-----------------------------------------------------------------------------

(* The promise of the store.                                               *)

\* A start is one of the promise.
LEMMA LoadStarts == StoreInv /\ SettingsInv /\ Load => Store!Start
<1> SUFFICES ASSUME StoreInv, SettingsInv, Load PROVE Store!Start
  OBVIOUS
<1>1. phase = "stopped" /\ m_data = DefaultJson /\ ~m_saveBlocked /\ phase' # "stopped" /\ file' = file
  BY DEF Load, LoadBlocked, LoadDocument, LoadDamaged, LoadAbsent, fileVars, SettingsInv
<1>2. Sound(m_data')
  <2>1. Settled(m_data')
    BY LoadSettles DEF SettingsInv
  <2> QED
    BY <2>1, SettledIsSound
<1>3. \/ m_saveBlocked' /\ m_data' = DefaultJson
      \/ ~m_saveBlocked' /\ m_data' = Found(file)
  <2>1. CASE LoadBlocked
    <3>1. m_data' = DefaultJson
      BY <1>1, <2>1 DEF LoadBlocked
    <3>2. m_saveBlocked'
      BY <2>1, Zenon DEF LoadBlocked
    <3> QED
      BY <3>1, <3>2, Zenon
  <2>2. CASE LoadDocument
    BY <1>1, <2>2 DEF LoadDocument, Found
  <2>3. CASE LoadDamaged
    BY <1>1, <2>3 DEF LoadDamaged, Found, IsDocument
  <2>4. CASE LoadAbsent
    BY <1>1, <2>4 DEF LoadAbsent, Found, IsDocument
  <2> QED
    BY <2>1, <2>2, <2>3, <2>4 DEF Load
<1> QED
  BY <1>1, <1>2, <1>3 DEF Store!Start

\* Every step of the program is a step of the promise, or none.
LEMMA StepsAreTheStores == StoreInv /\ SettingsInv /\ SettledStep => [Store!Next]_(Store!vars)
<1> SUFFICES ASSUME StoreInv, SettingsInv, SettledStep
             PROVE  Store!Next \/ UNCHANGED <<phase # "stopped", m_data, file, m_saveBlocked>>
  BY DEF Store!vars
<1>1. CASE Load
  BY <1>1, LoadStarts DEF Store!Next
<1>2. CASE Save
  <2>1. CASE Write \/ SaveNothing
    BY <2>1 DEF Write, SaveNothing, fileVars, dataVars
  <2>2. CASE Commit
    BY <2>2 DEF Commit, dataVars, SettingsInv, StoreInv, Store!Next, Store!Persist
  <2> QED
    BY <1>2, <2>1, <2>2 DEF Save
<1>3. CASE ExportToFile \/ FinishExport \/ ImportFromFile \/ ImportRefused
  BY <1>3 DEF ExportToFile, FinishExport, ImportFromFile, ImportRefused, fileVars, dataVars
<1>4. CASE FinishImport
  <2>1. Settled(m_data')
    BY <1>4, LoadedIsSettled DEF FinishImport, SettingsInv
  <2>2. Sound(m_data')
    BY <2>1, SettledIsSound
  <2>3. /\ phase # "stopped" /\ phase' # "stopped" /\ ~m_saveBlocked'
        /\ IsDocument(file') /\ m_data' = Found(file')
    BY <1>4 DEF FinishImport, SettingsInv, Found
  <2> QED
    BY <2>2, <2>3 DEF Store!Next, Store!Import, Store!vars
<1>5. CASE Ends
  BY <1>5 DEF Ends, fileVars, Store!Next, Store!Stop
<1>6. CASE \E c : EditFile(c)
  BY <1>6 DEF EditFile, dataVars, Store!Next, Store!Edit
<1>7. CASE \E c : GetOther(c)
  BY <1>7 DEF GetOther, dataVars
<1>8. CASE \E d : Settled(d) /\ Sets(d)
  <2>1. Sound(m_data') /\ phase = "idle" /\ phase' = "saving" /\ UNCHANGED <<file, m_saveBlocked>>
    BY <1>8, SettledIsSound DEF Sets, fileVars
  <2> QED
    BY <2>1 DEF Store!Next, Store!Change
<1>9. CASE UNCHANGED configVars
  BY <1>9 DEF configVars, fileVars, dataVars
<1> QED
  BY <1>1, <1>2, <1>3, <1>4, <1>5, <1>6, <1>7, <1>8, <1>9 DEF SettledStep

-----------------------------------------------------------------------------
(* What is entered, and the handlers.                                      *)

\* The user enters settings of the right types; what the dialog has read, and
\* what it is about to save, is a list of profiles.
TaskKinds == {"none", "init", "auto switch", "save switch", "save profiles", "clear routes",
              "hide", "changed", "import", "imported", "quit"}

DialogInv ==
    /\ story \in Stories
    /\ "kind" \in DOMAIN task /\ task.kind \in TaskKinds
    /\ task.kind \in {"save switch", "save profiles"} => {"scenes", "profiles"} \subseteq DOMAIN task
    /\ task.kind = "hide" => "previous" \in DOMAIN task
    /\ dialog.open => ProfileList(dialog.profiles)
    /\ task.kind \in {"save switch", "save profiles", "clear routes"} => ProfileList(task.profiles)

\* The profiles of settled settings.
LEMMA ProfilesAreAList ==
  ASSUME NEW d, Settled(d)
  PROVE  /\ ProfileList(Profiles(d))
         /\ \A i \in DOMAIN Profiles(d) : Profile(Profiles(d)[i]) /\ Profiles(d)[i].id # <<>>
<1>1. IsSequence(d.profiles) /\ \A i \in DOMAIN d.profiles : ProfileObject(d.profiles[i])
  BY DEF Settled, WellTyped, Get, HasKeys
<1>2. \E i \in DOMAIN d.profiles : Get(d.profiles[i], "id", <<>>) # <<>>
  BY DEF Settled, HasProfile
<1> DEFINE ps == ProfilesFromJson(d.profiles)
<1>3. /\ IsSequence(ps) /\ ps # <<>>
      /\ \A n \in DOMAIN ps : Profile(ps[n]) /\ ProfileObject(ps[n]) /\ ps[n].id # <<>>
  BY <1>1, <1>2, ProfilesAreRead
<1> HIDE DEF ps
<1>4. ProfileList(ps)
  BY <1>3 DEF ProfileList, Profile
<1> QED
  BY <1>3, <1>4 DEF Profiles, ps

\* Without a dialog none is open.
LEMMA ClosedIsClosed == ~NoDialog.open
BY DEF NoDialog

\* What a step does that leaves no list of profiles to save.
LEMMA NoList ==
  ASSUME DialogInv, story' = story, dialog' \in {dialog, NoDialog},
         "kind" \in DOMAIN task', task'.kind \in TaskKinds,
         task'.kind \notin {"save switch", "save profiles", "clear routes"},
         task'.kind = "hide" => "previous" \in DOMAIN task'
  PROVE  DialogInv'
<1>1. dialog'.open => ProfileList(dialog'.profiles)
  <2>1. CASE dialog' = dialog
    BY <2>1, Zenon DEF DialogInv
  <2>2. CASE dialog' = NoDialog
    BY <2>2, ClosedIsClosed, Zenon
  <2> QED
    BY <2>1, <2>2
<1> QED
  BY <1>1, Zenon DEF DialogInv

\* No step takes what the dialog has for something else.
LEMMA DialogIsKept == SettingsInv /\ DialogInv /\ [Next]_vars => DialogInv'
<1> SUFFICES ASSUME SettingsInv, DialogInv, [Next]_vars PROVE DialogInv'
  OBVIOUS
<1> USE DEF ByItself, Happens, TaskKinds
<1>1. CASE Starts \/ AppInit
  <2>1. story' = story /\ dialog' = dialog /\ task' \in {[kind |-> "init"], NoTask}
    BY <1>1 DEF Starts, AppInit
  <2>2. "kind" \in DOMAIN task' /\ task'.kind \in {"init", "none"}
    BY <2>1 DEF NoTask
  <2> QED
    BY NoList, <2>1, <2>2
<1>2. CASE Tracking \/ OnFocusedBinaryChanged \/ SinksReady \/ Proceeding \/ Files
           \/ (\E i \in DOMAIN profiles : KeyPressed(profiles[i].id)) \/ UnnamedRouting
           \/ (\E apps \in story.caches : AppsReady(apps))
           \/ (\E app \in story.apps : SetActiveApp(app) \/ OnAppSelected(app))
  BY <1>2, UnnamedRoutingLeaves
     DEF Tracking, OnFocusedBinaryChanged, SinksReady, Proceeding, Files, KeyPressed, AppsReady,
         SetActiveApp, OnAppSelected, DialogInv, mainVars
<1>3. CASE \E on \in BOOLEAN : SetAutoProfileSwitch(on)
  <2>1. story' = story /\ dialog' = dialog /\ task' = [kind |-> "auto switch"]
    <3>1. PICK on \in BOOLEAN : SetAutoProfileSwitch(on)
      BY <1>3
    <3> QED
      BY <3>1, Zenon DEF SetAutoProfileSwitch
  <2> QED
    BY NoList, <2>1
<1>4. CASE AutoSwitchChanged \/ SettingsChanged
  <2>1. story' = story /\ dialog' \in {dialog, NoDialog} /\ task' \in {NoTask, [kind |-> "quit"]}
    BY <1>4 DEF AutoSwitchChanged, SettingsChanged
  <2>2. "kind" \in DOMAIN task' /\ task'.kind \in {"none", "quit"}
    BY <2>1 DEF NoTask
  <2> QED
    BY NoList, <2>1, <2>2
<1>5. CASE OpenSettings
  <2>1. ProfileList(profiles)
    BY ProfilesAreAList DEF SettingsInv, profiles
  <2> QED
    BY <1>5, <2>1 DEF OpenSettings, DialogInv
<1>6. CASE \E entered \in story.entered, list \in story.lists \cup {dialog.profiles} :
              Accept(entered, list)
  <2>1. PICK entered \in story.entered, list \in story.lists \cup {dialog.profiles} :
           Accept(entered, list)
    BY <1>6
  <2>2. ProfileList(list)
    BY <2>1, StoriesAssumption DEF Accept, DialogInv
  <2>3. task' = [kind |-> "save switch", auto |-> entered.auto, scenes |-> entered.scenes,
                profiles |-> list]
        /\ dialog' = dialog /\ story' = story
    BY <2>1 DEF Accept
  <2> QED
    BY <2>2, <2>3 DEF DialogInv
<1>7. CASE SaveSwitch
  <2>1. /\ story' = story /\ dialog' = dialog /\ task.kind = "save switch"
        /\ task' = [task EXCEPT !.kind = "save profiles"]
    BY <1>7 DEF SaveSwitch
  <2>2. /\ DOMAIN task' = DOMAIN task /\ task'.kind = "save profiles"
        /\ task'.profiles = task.profiles
    BY <2>1 DEF DialogInv
  <2> QED
    BY <2>1, <2>2 DEF DialogInv
<1>8. CASE SaveProfiles
  BY <1>8 DEF SaveProfiles, DialogInv
<1>9. CASE ClearRoutesAndSaveScenes
  <2>1. story' = story /\ dialog' = dialog
        /\ task' = [kind |-> "hide", previous |-> task.previous]
    BY <1>9 DEF ClearRoutesAndSaveScenes
  <2> QED
    BY NoList, <2>1
<1>10. CASE HideEvent
  <2>1. story' = story /\ dialog' = dialog
    BY <1>10 DEF HideEvent
  <2>2. CASE task.kind = "hide" /\ task' = [task EXCEPT !.kind = "changed"]
    <3>1. task'.kind = "changed" /\ DOMAIN task' = DOMAIN task
      BY <2>2 DEF DialogInv
    <3> QED
      BY NoList, <2>1, <3>1 DEF DialogInv
  <2>3. CASE task' = [kind |-> "imported"] \/ task' = [kind |-> "changed", previous |-> <<>>]
    <3>1. "kind" \in DOMAIN task' /\ task'.kind \in {"imported", "changed"}
      BY <2>3
    <3> QED
      BY NoList, <2>1, <3>1
  <2> QED
    BY <1>10, <2>2, <2>3 DEF HideEvent
<1>11. CASE Export \/ Import \/ ImportFails
  <2>1. CASE Export
    BY <2>1 DEF Export, DialogInv, mainVars
  <2>2. CASE Import \/ ImportFails
    <3>1. story' = story /\ dialog' = dialog /\ task' \in {[kind |-> "import"], NoTask}
      BY <2>2 DEF Import, ImportFails
    <3>2. "kind" \in DOMAIN task' /\ task'.kind \in {"import", "none"}
      BY <3>1 DEF NoTask
    <3> QED
      BY NoList, <3>1, <3>2
  <2> QED
    BY <1>11, <2>1, <2>2
<1>12. CASE Stops
  <2>1. story' = story /\ dialog' = NoDialog /\ task' = NoTask
    BY <1>12 DEF Stops
  <2> QED
    BY NoList, <2>1 DEF NoTask
<1>13. CASE UNCHANGED vars
  BY <1>13 DEF vars, mainVars, DialogInv
<1> QED
  BY <1>1, <1>2, <1>3, <1>4, <1>5, <1>6, <1>7, <1>8, <1>9, <1>10, <1>11, <1>12, <1>13 DEF Next

\* Every handler saves settled settings.
LEMMA EveryStepIsSettled == SettingsInv /\ DialogInv /\ [Next]_vars => SettledStep
<1> SUFFICES ASSUME SettingsInv, DialogInv, [Next]_vars PROVE SettledStep
  OBVIOUS
<1>1. CASE Starts
  BY <1>1 DEF Starts, SettledStep
<1>2. CASE AppInit \/ Tracking \/ OnFocusedBinaryChanged \/ SinksReady \/ AutoSwitchChanged
           \/ OpenSettings \/ SettingsChanged
           \/ (\E i \in DOMAIN profiles : KeyPressed(profiles[i].id)) \/ UnnamedRouting
           \/ (\E apps \in story.caches : AppsReady(apps))
  BY <1>2, UnnamedRoutingLeaves
     DEF AppInit, Tracking, OnFocusedBinaryChanged, SinksReady, AutoSwitchChanged, OpenSettings,
         SettingsChanged, KeyPressed, AppsReady, SettledStep
<1>3. CASE Proceeding
  BY <1>3 DEF Proceeding, Proceeds, SettledStep
<1>4. CASE Stops
  BY <1>4 DEF Stops, SettledStep
<1>5. CASE Files
  <2>1. PICK c \in Contents(story.documents) : EditFile(c) \/ GetOther(c)
    BY <1>5 DEF Files
  <2>2. IsDocument(c) => WellTyped(c)
    BY StoriesAssumption DEF DialogInv, Contents, IsDocument
  <2> QED
    BY <2>1, <2>2 DEF SettledStep
<1>6. CASE \E app \in story.apps : SetActiveApp(app) \/ OnAppSelected(app)
  <2>1. PICK app \in story.apps : SetActiveApp(app) \/ OnAppSelected(app)
    BY <1>6
  <2>2. app \in Names
    BY StoriesAssumption DEF DialogInv, Names
  <2>3. Settled(WithSelectedApp(m_data, app)) /\ Settled(WithDefaultProfileApp(m_data, app))
    BY <2>2, DefaultAppSettles DEF SettingsInv
  <2>4. \E d : Settled(d) /\ Sets(d)
    BY <2>1, <2>3 DEF SetActiveApp, OnAppSelected
  <2> QED
    BY <2>4 DEF SettledStep
<1>7. CASE \/ \E on \in BOOLEAN : SetAutoProfileSwitch(on)
           \/ SaveSwitch \/ ClearRoutesAndSaveScenes \/ HideEvent
           \/ \E entered \in story.entered, list \in story.lists \cup {dialog.profiles} :
                 Accept(entered, list)
  <2>1. \A x : Settled(WithScenes(m_data, x)) /\ Settled(WithAutoProfileSwitch(m_data, x))
    BY SmallSettersSettle DEF SettingsInv
  <2>2. \A x, y : Settled(WithOsd(m_data, x, y))
    BY SmallSettersSettle DEF SettingsInv
  <2>3. Settled(m_data)
    BY DEF SettingsInv
  <2>4. \E d : Settled(d) /\ Sets(d)
    BY <1>7, <2>1, <2>2, <2>3
       DEF SetAutoProfileSwitch, SaveSwitch, ClearRoutesAndSaveScenes, HideEvent, Accept
  <2> QED
    BY <2>4 DEF SettledStep
<1>8. CASE SaveProfiles
  <2>1. ProfileList(task.profiles)
    BY <1>8 DEF SaveProfiles, DialogInv
  <2>2. Settled(WithProfiles(m_data, task.profiles))
    BY <2>1, ProfilesSettle DEF SettingsInv
  <2> QED
    BY <1>8, <2>2 DEF SaveProfiles, SettledStep
<1>9. CASE Export \/ Import \/ ImportFails
  BY <1>9 DEF Export, Import, ImportFails, SettledStep
<1>10. CASE UNCHANGED vars
  BY <1>10 DEF vars, SettledStep
<1> QED
  BY <1>1, <1>2, <1>3, <1>4, <1>5, <1>6, <1>7, <1>8, <1>9, <1>10 DEF Next

\* Together.
SettledInv == StoreInv /\ SettingsInv /\ DialogInv

\* From the start on.
LEMMA SettledAlways == Spec => []SettledInv
<1>1. Init => SettledInv
  <2> SUFFICES ASSUME Init PROVE SettledInv
    OBVIOUS
  <2>1. StoreInv
    BY DEF Init, ConfigInit, StoreInv
  <2>2. SettingsInv
    <3>1. story \in Stories /\ ConfigInit(story.documents)
      BY DEF Init
    <3>2. WellTyped(file) /\ ~IsDocument(other) /\ ~IsDocument(temp)
      BY <3>1, StoriesAssumption DEF ConfigInit, IsDocument
    <3> QED
      BY <3>1, <3>2, DefaultIsSettled DEF ConfigInit, SettingsInv
  <2>3. DialogInv
    BY DEF Init, DialogInv, NoTask, NoDialog, TaskKinds
  <2> QED
    BY <2>1, <2>2, <2>3 DEF SettledInv
<1>2. SettledInv /\ [Next]_vars => SettledInv'
  <2> SUFFICES ASSUME SettledInv, [Next]_vars PROVE SettledInv'
    OBVIOUS
  <2>1. StoreInv /\ SettingsInv /\ DialogInv
    BY DEF SettledInv
  <2>2. StoreInv'
    BY <2>1, EveryStepIsAStoreStep, StoreStepKeepsStore
  <2>3. SettingsInv'
    BY <2>1, EveryStepIsSettled, SettledStepSettles
  <2>4. DialogInv'
    BY <2>1, DialogIsKept
  <2> QED
    BY <2>2, <2>3, <2>4 DEF SettledInv
<1> QED
  BY <1>1, <1>2, PTL DEF Spec

\* Config keeps the promise of DurableSettings: the settings in use are whole at
\* every moment, and what the next start finds changes only as they are saved or a
\* file is imported, whatever file there was, whatever the user enters, and
\* wherever the process or the disk stops (saveUnlocked, load, importFromFile and
\* every setter of config.cpp).
THEOREM StoreIsDurable == Spec => StoreSpec
<1>1. Init => Store!Init
  BY DEF Init, ConfigInit, Store!Init
<1>2. SettledInv /\ [Next]_vars => [Store!Next]_(Store!vars)
  BY EveryStepIsSettled, StepsAreTheStores DEF SettledInv
<1> QED
  BY <1>1, <1>2, SettledAlways, PTL DEF Spec, StoreSpec, Store!Spec
=============================================================================
