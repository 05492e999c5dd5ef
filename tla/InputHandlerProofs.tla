------------------------- MODULE InputHandlerProofs -------------------------
(***************************************************************************)
(* InputHandler for any number of nodes, keys and configurations, any      *)
(* bindings and any length of the kernel's queues.                         *)
(***************************************************************************)
EXTENDS InputHandler, TLAPS

-----------------------------------------------------------------------------
(* What groups of steps leave alone.                                       *)

\* The main thread touches no node; it starts the thread at most.
LEMMA MainLeavesNodes ==
  Main => UNCHANGED <<keyboardVars, nodeVars, historyVars, snapshot, todo>>
BY DEF Main, ChangeHotkeys, Restart, Halt, Sets, Halted, Starts, SetOsdLayoutKeysActive, Stop,
       runVars, nodeVars, historyVars, keyboardVars, mainVars

\* Every event and every set of keys stays well formed.
LEMMA MovedType ==
  ASSUME NEW keys \in SUBSET Key, NEW e \in Event
  PROVE  Moved(keys, e) \in SUBSET Key
BY DEF Moved, Event

\* A run starts with nothing but modifiers held.
LEMMA SeedType == Seed \in SUBSET ModifierKeys
<1> DEFINE keys == UNION {known[n] : n \in open}
<1>1. Seed = keys \cap ModifierKeys
  BY DEF Seed
<1> HIDE DEF keys
<1> QED
  BY <1>1

-----------------------------------------------------------------------------
(* Types.                                                                  *)

\* Keys, unplugging and overflows keep the types of the kernel's side.
LEMMA TypingType == KeyboardsTypeOK /\ Typing => KeyboardsTypeOK'
<1> SUFFICES ASSUME KeyboardsTypeOK, Typing PROVE KeyboardsTypeOK'
  OBVIOUS
<1>1. PICK n \in Node :
        \/ \E k \in Key : Presses(n, k) \/ Releases(n, k) \/ KeyRepeats(n, k)
        \/ Overflows(n) \/ Unplugged(n) \/ PluggedIn(n)
  BY DEF Typing
<1>2. ASSUME NEW e \in Event, Delivers(n, e)
      PROVE  queue' \in [Node -> Seq(Event)] /\ desk' \in [Node -> SUBSET Key]
  BY <1>2, MovedType DEF Delivers, KeyboardsTypeOK
<1>3. ASSUME NEW k \in Key, NEW v \in {0, 1, 2} PROVE [key |-> k, value |-> v] \in Event
  BY DEF Event
<1>4. ASSUME NEW k \in Key, Presses(n, k) PROVE KeyboardsTypeOK'
  BY <1>2, <1>3, <1>4 DEF Presses, KeyboardsTypeOK
<1>5. ASSUME NEW k \in Key, Releases(n, k) PROVE KeyboardsTypeOK'
  BY <1>2, <1>3, <1>5 DEF Releases, KeyboardsTypeOK
<1>6. ASSUME NEW k \in Key, KeyRepeats(n, k) PROVE KeyboardsTypeOK'
  <2> DEFINE e == [key |-> k, value |-> 2]
  <2>1. e \in Event
    BY <1>3
  <2>2. queue' = [queue EXCEPT ![n] = Append(@, e)]
    BY <1>6 DEF KeyRepeats
  <2> HIDE DEF e
  <2>3. queue' \in [Node -> Seq(Event)]
    BY <2>1, <2>2 DEF KeyboardsTypeOK
  <2> QED
    BY <1>6, <2>3 DEF KeyRepeats, KeyboardsTypeOK
<1>7. CASE Overflows(n)
  BY <1>7 DEF Overflows, KeyboardsTypeOK
<1>8. CASE Unplugged(n)
  BY <1>8 DEF Unplugged, KeyboardsTypeOK
<1>9. CASE PluggedIn(n)
  BY <1>9 DEF PluggedIn, KeyboardsTypeOK
<1> QED
  BY <1>1, <1>4, <1>5, <1>6, <1>7, <1>8, <1>9

\* The thread's steps keep all types.
LEMMA RunType == TypeOK /\ Run => TypeOK'
<1> SUFFICES ASSUME TypeOK, Run PROVE TypeOK'
  OBVIOUS
<1> USE DEF TypeOK, KeyboardsTypeOK, keyboardVars, mainVars, runVars, nodeVars, historyVars
<1>1. CASE RunBegins
  BY <1>1 DEF RunBegins
<1>2. CASE Prepared
  <2>1. running' \in BOOLEAN
    <3>1. PICK polling \in BOOLEAN : running' = (running /\ (polling \/ open = {}))
      BY <1>2 DEF Prepared
    <3> QED
      BY <3>1, Zenon
  <2>2. held' \in SUBSET ModifierKeys /\ thread' \in {"off", "loop"}
    BY <1>2, SeedType DEF Prepared
  <2> QED
    BY <1>2, <2>1, <2>2 DEF Prepared
<1>3. ASSUME NEW n \in Node, OpenNode(n) PROVE TypeOK'
  BY <1>3 DEF OpenNode
<1>4. ASSUME NEW n \in Node, ReadEvent(n) PROVE TypeOK'
  <2> DEFINE e == Head(queue[n])
  <2>1. e \in Event /\ Tail(queue[n]) \in Seq(Event) /\ e.key \in Key
    <3>1. queue[n] \in Seq(Event) /\ queue[n] # <<>>
      BY <1>4 DEF ReadEvent
    <3>2. e \in Event /\ Tail(queue[n]) \in Seq(Event)
      BY <3>1
    <3> QED
      BY <3>2 DEF Event
  <2> HIDE DEF e
  <2>2. known' \in [Node -> SUBSET Key] /\ queue' \in [Node -> Seq(Event)]
    BY <1>4, <2>1, MovedType DEF ReadEvent, e
  <2>3. held' \in SUBSET ModifierKeys
    BY <1>4, <2>1 DEF ReadEvent, TracksModifier, e
  <2>4. mirrored' \in [Node -> SUBSET Key]
    <3>1. mirrored' = mirrored \/ Forward(n, e)
      BY <1>4 DEF ReadEvent, e
    <3>2. Moved(mirrored[n], e) \in SUBSET Key
      BY <2>1, MovedType
    <3> QED
      BY <3>1, <3>2 DEF Forward
  <2>5. resynced' \in [Node -> SUBSET Key] /\ lost' \in SUBSET ModifierKeys
    BY <1>4 DEF ReadEvent, Forgets
  <2> QED
    BY <1>4, <2>2, <2>3, <2>4, <2>5 DEF ReadEvent
<1>5. ASSUME NEW n \in Node, Resync(n) PROVE TypeOK'
  BY <1>5 DEF Resync
<1>6. ASSUME NEW n \in Node, RetireNode(n) PROVE TypeOK'
  BY <1>6 DEF RetireNode, Forgets
<1>7. ASSUME NEW n \in Node, AskForKeys(n) PROVE TypeOK'
  BY <1>7 DEF AskForKeys
<1>8. CASE LookForEvents
  BY <1>8 DEF LookForEvents
<1>9. CASE Grab
  BY <1>9 DEF Grab
<1>10. CASE PollFails
  BY <1>10 DEF PollFails
<1>11. CASE ReleaseNodes
  BY <1>11 DEF ReleaseNodes, Forgets
<1>12. CASE RunEnds
  BY <1>12 DEF RunEnds
<1> QED
  BY <1>1, <1>2, <1>3, <1>4, <1>5, <1>6, <1>7, <1>8, <1>9, <1>10, <1>11, <1>12 DEF Run

\* So do the main thread, the keyboards and failing mirrors.
LEMMA OtherType == TypeOK /\ (Main \/ Types \/ \E n \in Node : MirrorFails(n)) => TypeOK'
<1> SUFFICES ASSUME TypeOK, Main \/ Types \/ \E n \in Node : MirrorFails(n) PROVE TypeOK'
  OBVIOUS
<1> USE DEF keyboardVars, mainVars, runVars, nodeVars, historyVars
<1>1. CASE Main
  <2>1. /\ main' \in {"idle", "stop", "start", "halt", "halted"}
        /\ goal' \in Config /\ config' \in Config
        /\ running' \in BOOLEAN /\ layoutActive' \in BOOLEAN
        /\ thread' \in {"off", "started", "opening", "loop", "settling"}
    BY <1>1 DEF TypeOK, Main, ChangeHotkeys, Restart, Halt, Sets, Halted, Starts,
                SetOsdLayoutKeysActive, Stop
  <2> QED
    BY <1>1, <2>1, MainLeavesNodes DEF TypeOK, KeyboardsTypeOK
<1>2. CASE Types
  <2>1. KeyboardsTypeOK'
    BY <1>2, TypingType DEF Types, TypeOK
  <2>2. raced' \in [Node -> SUBSET Key]
    BY <1>2, <2>1 DEF Types, KeyboardsTypeOK
  <2> QED
    BY <1>2, <2>1, <2>2 DEF Types, TypeOK
<1>3. ASSUME NEW n \in Node, MirrorFails(n) PROVE TypeOK'
  BY <1>3 DEF MirrorFails, TypeOK, KeyboardsTypeOK
<1> QED
  BY <1>1, <1>2, <1>3

\* A variable that stays keeps its type.
LEMMA StutterType == TypeOK /\ UNCHANGED vars => TypeOK'
BY DEF TypeOK, KeyboardsTypeOK, vars, keyboardVars, mainVars, runVars, nodeVars, historyVars

\* The keyboards, the thread and the main thread keep their types: in
\* particular only Ctrl and Shift ever count as held modifiers.
THEOREM InputTypeCorrect == Spec => []TypeOK
<1>1. Init => TypeOK
  <2> SUFFICES ASSUME Init PROVE TypeOK
    OBVIOUS
  <2>1. KeyboardsTypeOK
    BY DEF Init, KeyboardsInit, KeyboardsTypeOK
  <2>2. FirstConfig \in Config
    BY HandlerAssumption DEF HandlerAssumption
  <2> QED
    BY <2>1, <2>2 DEF Init, TypeOK
<1>2. TypeOK /\ [Next]_vars => TypeOK'
  BY RunType, OtherType, StutterType DEF Next
<1> QED
  BY <1>1, <1>2, PTL DEF Spec

-----------------------------------------------------------------------------
(* The handover of a node: what the desktop believes of its keys.          *)

\* Everything the desktop believes to be down on a node that is grabbed, or
\* about to be, was pressed during the handover: when the keys were asked for
\* none was down.
HandedOver ==
  /\ NoKeyLeftBehind
  /\ \A n \in grabbed \cup {asked} : n \in Node => desk[n] \subseteq raced[n]

LEMMA HandedOverInit == Init => HandedOver
BY HandlerAssumption DEF Init, KeyboardsInit, HandedOver, NoKeyLeftBehind, HandlerAssumption

\* The keyboards: a press reaches the desktop of a node that is not grabbed,
\* and is remembered if it comes during the handover.
LEMMA HandedOverTypes == TypeOK /\ HandedOver /\ Types => HandedOver'
<1> SUFFICES ASSUME TypeOK, HandedOver, Types PROVE HandedOver'
  OBVIOUS
<1>1. PICK n \in Node :
        \/ \E k \in Key : Presses(n, k) \/ Releases(n, k) \/ KeyRepeats(n, k)
        \/ Overflows(n) \/ Unplugged(n) \/ PluggedIn(n)
  BY DEF Types, Typing
<1>2. /\ raced' = [m \in Node |-> desk'[m] \cap
                     (raced[m] \cup (IF m = asked THEN down'[m] \ down[m] ELSE {}))]
      /\ UNCHANGED <<asked>>
  BY DEF Types, nodeVars
<1>3. /\ down \in [Node -> SUBSET Key] /\ desk \in [Node -> SUBSET Key]
      /\ raced \in [Node -> SUBSET Key]
  BY DEF TypeOK, KeyboardsTypeOK
<1> USE DEF HandedOver, NoKeyLeftBehind
<1>4. ASSUME NEW k \in Key, Presses(n, k) PROVE HandedOver'
  <2>1. /\ down' = [down EXCEPT ![n] = @ \cup {k}] /\ k \notin down[n]
        /\ desk' = IF n \in grabbed THEN desk ELSE [desk EXCEPT ![n] = @ \cup {k}]
        /\ UNCHANGED grabbed
    BY <1>4 DEF Presses, Delivers, Moved
  <2> QED
    BY <1>2, <1>3, <2>1
<1>5. ASSUME NEW k \in Key, Releases(n, k) PROVE HandedOver'
  <2>1. /\ down' = [down EXCEPT ![n] = @ \ {k}]
        /\ desk' = IF n \in grabbed THEN desk ELSE [desk EXCEPT ![n] = @ \ {k}]
        /\ UNCHANGED grabbed
    BY <1>5 DEF Releases, Delivers, Moved
  <2> QED
    BY <1>2, <1>3, <2>1
<1>6. CASE Unplugged(n)
  <2>1. /\ down' = [down EXCEPT ![n] = {}]
        /\ desk' = [desk EXCEPT ![n] = {}]
        /\ UNCHANGED grabbed
    BY <1>6 DEF Unplugged
  <2> QED
    BY <1>2, <1>3, <2>1
<1>7. CASE (\E k \in Key : KeyRepeats(n, k)) \/ Overflows(n) \/ PluggedIn(n)
  <2>1. UNCHANGED <<down, desk, grabbed>>
    BY <1>7 DEF KeyRepeats, Overflows, PluggedIn
  <2> QED
    BY <1>2, <1>3, <2>1
<1> QED
  BY <1>1, <1>4, <1>5, <1>6, <1>7

\* The thread asks for the keys, and later grabs the node it asked.
LEMMA HandedOverRun == TypeOK /\ HandedOver /\ Run => HandedOver'
<1> SUFFICES ASSUME TypeOK, HandedOver, Run PROVE HandedOver'
  OBVIOUS
<1>1. /\ desk \in [Node -> SUBSET Key] /\ asked \in Node \cup {None}
  BY DEF TypeOK, KeyboardsTypeOK
<1>2. UNCHANGED <<down, desk, raced>>
  BY DEF Run, RunBegins, Prepared, OpenNode, ReadEvent, Resync, RetireNode, AskForKeys,
         LookForEvents, Grab, PollFails, ReleaseNodes, RunEnds, keyboardVars, historyVars
<1>3. ASSUME NEW n \in Node, AskForKeys(n) PROVE HandedOver'
  <2>1. grabbed' = grabbed /\ asked' = IF down[n] = {} THEN n ELSE None
    BY <1>3 DEF AskForKeys
  <2>2. asked' \in Node => desk[asked'] \subseteq raced[asked']
    BY <2>1, HandlerAssumption DEF HandedOver, NoKeyLeftBehind, HandlerAssumption
  <2> QED
    BY <1>2, <2>1, <2>2 DEF HandedOver, NoKeyLeftBehind
<1>4. CASE Grab
  <2>1. grabbed' \subseteq grabbed \cup {asked} /\ asked' = None
    BY <1>4 DEF Grab
  <2> QED
    BY <1>2, <2>1, HandlerAssumption DEF HandedOver, NoKeyLeftBehind, HandlerAssumption
<1>5. CASE ~Grab /\ ~\E n \in Node : AskForKeys(n)
  <2>1. grabbed' \subseteq grabbed /\ asked' \in {asked, None}
    BY <1>5 DEF Run, RunBegins, Prepared, OpenNode, ReadEvent, Resync, RetireNode,
           LookForEvents, PollFails, ReleaseNodes, RunEnds, keyboardVars, nodeVars
  <2> QED
    BY <1>2, <2>1, HandlerAssumption DEF HandedOver, NoKeyLeftBehind, HandlerAssumption
<1> QED
  BY <1>3, <1>4, <1>5

\* A key the desktop saw go down on a node goes up on that node, whenever the
\* node is grabbed, released, lost or the thread restarted; only a key pressed
\* while the grab was already decided is missed.
THEOREM KeysAreNotLeftBehind == Spec => []NoKeyLeftBehind
<1>1. TypeOK /\ HandedOver /\ [Next]_vars => HandedOver'
  <2> SUFFICES ASSUME TypeOK, HandedOver, [Next]_vars PROVE HandedOver'
    OBVIOUS
  <2>1. CASE Main \/ UNCHANGED vars \/ \E n \in Node : MirrorFails(n)
    <3>1. UNCHANGED <<down, desk, grabbed, asked, raced>>
      BY <2>1, MainLeavesNodes DEF vars, keyboardVars, nodeVars, historyVars, MirrorFails
    <3> QED
      BY <3>1 DEF HandedOver, NoKeyLeftBehind
  <2> QED
    BY <2>1, HandedOverTypes, HandedOverRun DEF Next
<1>2. HandedOver => NoKeyLeftBehind
  BY DEF HandedOver
<1> QED
  BY <1>1, <1>2, HandedOverInit, InputTypeCorrect, PTL DEF Spec

-----------------------------------------------------------------------------
(* The states of a run.                                                    *)

\* Grabs, open nodes and what the desktop sees on mirrors live no longer than
\* the run that made them, and a mirror that waits for its grab is silent.
ThreadInv ==
  /\ thread # "loop" => grabbed = {} /\ asked = None
  /\ thread = "opening" => mirror \subseteq open
  /\ thread \notin {"opening", "loop"} => mirror = {} /\ open = {}
  /\ asked # None => asked \in warming \cap open
  /\ warming \cap grabbed = {}
  /\ \A n \in Node : mirrored[n] # {} => n \in open \cap grabbed \cap mirror

\* While the main thread is in a call the thread may not go on.
RestartInv ==
  /\ main # "idle" => ~running
  /\ main = "halted" => thread = "off"
  /\ thread \in {"opening", "loop"} /\ running => snapshot = config

-----------------------------------------------------------------------------
(* What happens to keys that went down.                                    *)

\* q holds a release of k.
Released(q, k) == \E i \in DOMAIN q : q[i] = [key |-> k, value |-> 0]

\* Every press or repeat in q is followed by a release, or its key is in keys.
Follows(q, keys) ==
  \A i \in 1 .. Len(q) :
    q[i].value # 0 =>
      \/ q[i].key \in keys
      \/ \E j \in 1 .. Len(q) : j > i /\ q[j] = [key |-> q[i].key, value |-> 0]

\* What waits at a node ends with what the keys are.
EventsEnd ==
  \A n \in Node : Follows(queue[n], down[n]) /\ (n \notin open => queue[n] = <<>>)

\* k is down on n, or n has still to tell that it is not.
Accounted(n, k) == k \in down[n] \/ ReleasePending(n, k)

\* Bindings of which the release is swallowed although the press was not.
Swallowed(n, k) ==
  \/ k \in snapshot.layout
  \/ k \in resynced[n] \cap (snapshot.scenes \cup snapshot.media)

\* A key the desktop sees held on a mirror is one libevdev knows to be down, so
\* that a resynchronisation releases it, and its release will be forwarded.
MirrorInv ==
  \A n \in Node : \A k \in mirrored[n] :
    /\ Accounted(n, k) \/ Swallowed(n, k)
    /\ k \in known[n] \/ Swallowed(n, k)
    /\ k \in snapshot.scenes \cup snapshot.media => k \in ModifierKeys \/ Swallowed(n, k)

\* A modifier that counts as held is one libevdev knows to be down on some
\* open node.
GhostInv ==
  /\ thread = "opening" =>
       \A n \in open : \A k \in known[n] : broken # {} \/ Accounted(n, k)
  /\ thread = "loop" =>
       \A k \in held \ lost :
         broken # {} \/ \E n \in open : k \in known[n] /\ Accounted(n, k)

-----------------------------------------------------------------------------
(* The states of a run: proofs.                                            *)

LEMMA ThreadRun == TypeOK /\ ThreadInv /\ Run => ThreadInv'
<1> SUFFICES ASSUME TypeOK, ThreadInv, Run PROVE ThreadInv'
  OBVIOUS
<1>0. mirrored \in [Node -> SUBSET Key] /\ None \notin Node
  BY HandlerAssumption DEF TypeOK, KeyboardsTypeOK, HandlerAssumption
<1> USE DEF ThreadInv, keyboardVars, mainVars, runVars, nodeVars
<1>1. CASE RunBegins
  BY <1>1 DEF RunBegins
<1>2. CASE Prepared
  BY <1>2 DEF Prepared
<1>3. ASSUME NEW n \in Node, OpenNode(n) PROVE ThreadInv'
  BY <1>3 DEF OpenNode
<1>4. ASSUME NEW n \in Node, ReadEvent(n) PROVE ThreadInv'
  <2>1. \A m \in Node : mirrored'[m] # {} => mirrored[m] # {} \/ m \in grabbed \cap mirror \cap open
    BY <1>0, <1>4 DEF ReadEvent, Forward
  <2>2. UNCHANGED <<thread, open, grabbed, mirror, warming, asked>> /\ thread = "loop"
    BY <1>4 DEF ReadEvent, InLoop
  <2> QED
    BY <2>1, <2>2
<1>5. ASSUME NEW n \in Node, Resync(n) PROVE ThreadInv'
  <2>1. \A m \in Node : mirrored'[m] # {} => mirrored[m] # {} \/ m \in grabbed \cap mirror \cap open
    BY <1>0, <1>5 DEF Resync
  <2>2. UNCHANGED <<thread, open, grabbed, mirror, warming, asked>> /\ thread = "loop"
    BY <1>5 DEF Resync, InLoop
  <2> QED
    BY <2>1, <2>2
<1>6. ASSUME NEW n \in Node, RetireNode(n) PROVE ThreadInv'
  BY <1>0, <1>6 DEF RetireNode, InLoop
<1>7. ASSUME NEW n \in Node, AskForKeys(n) PROVE ThreadInv'
  BY <1>7 DEF AskForKeys, InLoop
<1>8. CASE LookForEvents
  BY <1>8 DEF LookForEvents
<1>9. CASE Grab
  BY <1>0, <1>9 DEF Grab
<1>10. CASE PollFails
  BY <1>10 DEF PollFails
<1>11. CASE ReleaseNodes
  BY <1>11 DEF ReleaseNodes, InLoop
<1>12. CASE RunEnds
  BY <1>12 DEF RunEnds
<1> QED
  BY <1>1, <1>2, <1>3, <1>4, <1>5, <1>6, <1>7, <1>8, <1>9, <1>10, <1>11, <1>12 DEF Run

\* Nodes, grabs and mirrors are the thread's own.
THEOREM ThreadStates == Spec => [](TypeOK /\ ThreadInv)
<1>1. Init => ThreadInv
  BY DEF Init, KeyboardsInit, ThreadInv
<1>2. TypeOK /\ ThreadInv /\ [Next]_vars => ThreadInv'
  <2> SUFFICES ASSUME TypeOK, ThreadInv, [Next]_vars PROVE ThreadInv'
    OBVIOUS
  <2>1. CASE Types \/ UNCHANGED vars \/ \E n \in Node : MirrorFails(n)
    <3>1. UNCHANGED <<thread, open, grabbed, mirror, warming, asked, mirrored>>
      BY <2>1 DEF vars, keyboardVars, runVars, nodeVars, MirrorFails, Types, Typing,
                  Presses, Releases, KeyRepeats, Overflows, Unplugged, PluggedIn
    <3> QED
      BY <3>1 DEF ThreadInv
  <2>2. CASE Main
    <3>1. /\ UNCHANGED <<open, grabbed, mirror, warming, asked, mirrored>>
          /\ thread' = thread \/ (thread = "off" /\ thread' = "started")
      BY <2>2, MainLeavesNodes
         DEF Main, ChangeHotkeys, Restart, Halt, Sets, Halted, Starts, SetOsdLayoutKeysActive,
             Stop, keyboardVars, runVars, nodeVars
    <3> QED
      BY <3>1 DEF ThreadInv
  <2> QED
    BY <2>1, <2>2, ThreadRun DEF Next
<1> QED
  BY <1>1, <1>2, InputTypeCorrect, PTL DEF Spec

-----------------------------------------------------------------------------
(* Stopping and restarting: proofs.                                        *)

\* The main thread looks at whether the thread is off before it sets anything.
LEMMA RestartMain == ~SlowStop /\ TypeOK /\ RestartInv /\ Main => RestartInv'
<1> SUFFICES ASSUME ~SlowStop, TypeOK, RestartInv, Main PROVE RestartInv'
  OBVIOUS
<1>1. UNCHANGED snapshot
  BY MainLeavesNodes
<1> USE DEF RestartInv, Stop, Stopped, runVars, mainVars
<1>2. CASE \E c \in Config : ChangeHotkeys(c)
  BY <1>1, <1>2 DEF ChangeHotkeys
<1>3. CASE Restart
  BY <1>1, <1>3 DEF Restart
<1>4. CASE Halt
  BY <1>1, <1>4 DEF Halt
<1>5. CASE Sets
  BY <1>1, <1>5 DEF Sets
<1>6. CASE Halted
  BY <1>1, <1>6 DEF Halted
<1>7. CASE Starts
  BY <1>1, <1>7 DEF Starts
<1>8. CASE SetOsdLayoutKeysActive
  BY <1>1, <1>8 DEF SetOsdLayoutKeysActive
<1> QED
  BY <1>2, <1>3, <1>4, <1>5, <1>6, <1>7, <1>8 DEF Main

\* The thread reads the configuration when it starts and goes through its
\* states in order.
LEMMA RestartRun == TypeOK /\ RestartInv /\ Run => RestartInv'
<1> SUFFICES ASSUME TypeOK, RestartInv, Run PROVE RestartInv'
  OBVIOUS
<1>1. CASE RunBegins
  BY <1>1 DEF RunBegins, RestartInv, mainVars
<1>2. CASE Prepared
  <2>1. running' => running
    <3>1. PICK polling \in BOOLEAN : running' = (running /\ (polling \/ open = {}))
      BY <1>2 DEF Prepared
    <3> QED
      BY <3>1, Zenon
  <2> QED
    BY <1>2, <2>1 DEF Prepared, RestartInv, mainVars
<1>3. CASE ~RunBegins /\ ~Prepared
  <2>1. /\ UNCHANGED <<main, config, snapshot>>
        /\ running' \in {running, FALSE}
        /\ \/ thread' \in {thread, "off"}
           \/ thread' = "settling" /\ thread # "off"
    BY <1>3 DEF Run, OpenNode, ReadEvent, Resync, RetireNode, AskForKeys, LookForEvents, Grab,
                PollFails, ReleaseNodes, RunEnds, InLoop, mainVars, runVars
  <2>2. running' => running
    BY <2>1, Zenon
  <2> QED
    BY <2>1, <2>2 DEF RestartInv
<1> QED
  BY <1>1, <1>2, <1>3

\* If stop() waits until the thread has ended, a run always works with the
\* configuration in force, and after stop() the keyboards are the desktop's.
THEOREM RunsAreFresh == ASSUME ~SlowStop PROVE Spec => []RunsFreshConfig
<1>1. Init => RestartInv
  BY DEF Init, RestartInv
<1>2. TypeOK /\ RestartInv /\ [Next]_vars => RestartInv'
  <2> SUFFICES ASSUME TypeOK, RestartInv, [Next]_vars PROVE RestartInv'
    OBVIOUS
  <2>1. CASE Types \/ UNCHANGED vars \/ \E n \in Node : MirrorFails(n)
    <3>1. UNCHANGED <<main, config, running, thread, snapshot>>
      BY <2>1 DEF vars, mainVars, runVars, MirrorFails, Types
    <3> QED
      BY <3>1 DEF RestartInv
  <2> QED
    BY <2>1, RestartMain, RestartRun DEF Next
<1>3. ThreadInv /\ RestartInv => RunsFreshConfig
  BY DEF ThreadInv, RestartInv, RunsFreshConfig
<1> QED
  BY <1>1, <1>2, <1>3, ThreadStates, PTL DEF Spec

-----------------------------------------------------------------------------
(* Queues of events.                                                       *)

\* Another event keeps the end of the queue and the keys in step.
LEMMA FollowsAppend ==
  ASSUME NEW q \in Seq(Event), NEW keys \in SUBSET Key, NEW e \in Event, Follows(q, keys)
  PROVE  Follows(Append(q, e), Moved(keys, e))
<1> DEFINE r == Append(q, e)
<1>1. /\ Len(r) = Len(q) + 1 /\ r[Len(q) + 1] = e /\ Len(q) \in Nat
      /\ \A i \in 1 .. Len(q) : r[i] = q[i]
  OBVIOUS
<1>2. \A i \in 1 .. Len(r) : i \in 1 .. Len(q) \/ i = Len(q) + 1
  BY <1>1
<1>3. e = [key |-> e.key, value |-> e.value] /\ Len(q) + 1 \in 1 .. Len(r)
  BY <1>1 DEF Event
<1> HIDE DEF r
<1>4. ASSUME NEW i \in 1 .. Len(q), r[i].value # 0
      PROVE  \/ r[i].key \in Moved(keys, e)
             \/ \E j \in 1 .. Len(r) : j > i /\ r[j] = [key |-> r[i].key, value |-> 0]
  <2>1. CASE \E j \in 1 .. Len(q) : j > i /\ q[j] = [key |-> q[i].key, value |-> 0]
    BY <1>1, <2>1
  <2>2. CASE q[i].key \in keys /\ (e.key # q[i].key \/ e.value # 0)
    BY <1>1, <2>2 DEF Moved
  <2>3. CASE e.key = q[i].key /\ e.value = 0
    BY <1>1, <1>3, <2>3
  <2> QED
    BY <1>1, <1>4, <2>1, <2>2, <2>3 DEF Follows
<1>5. e.value # 0 => e.key \in Moved(keys, e)
  BY DEF Moved
<1> QED
  BY <1>1, <1>2, <1>4, <1>5 DEF Follows, r

\* A release that waits goes on waiting when more comes.
LEMMA ReleasedAppend ==
  ASSUME NEW q \in Seq(Event), NEW e \in Event, NEW k \in Key
  PROVE  /\ Released(q, k) => Released(Append(q, e), k)
         /\ e = [key |-> k, value |-> 0] => Released(Append(q, e), k)
<1> DEFINE r == Append(q, e)
<1>1. /\ \A i \in DOMAIN q : i \in DOMAIN r /\ r[i] = q[i]
      /\ Len(q) + 1 \in DOMAIN r /\ r[Len(q) + 1] = e
  OBVIOUS
<1> HIDE DEF r
<1> QED
  BY <1>1 DEF Released, r

\* Reading the first event leaves what comes after it.
LEMMA FollowsTail ==
  ASSUME NEW q \in Seq(Event), q # <<>>, NEW keys \in SUBSET Key, Follows(q, keys)
  PROVE  /\ Follows(Tail(q), keys)
         /\ Head(q).value # 0 => Head(q).key \in keys \/ Released(Tail(q), Head(q).key)
<1> DEFINE r == Tail(q)
<1>1. /\ Len(q) \in Nat /\ Len(q) >= 1 /\ Head(q) = q[1] /\ Len(r) = Len(q) - 1
      /\ DOMAIN r = 1 .. Len(r)
      /\ \A i \in 1 .. Len(r) : r[i] = q[i + 1]
  OBVIOUS
<1>2. \A j \in 1 .. Len(q) : j > 1 => j - 1 \in 1 .. Len(r) /\ r[j - 1] = q[j]
  BY <1>1
<1> HIDE DEF r
<1>3. ASSUME NEW i \in 1 .. Len(r), r[i].value # 0
      PROVE  \/ r[i].key \in keys
             \/ \E j \in 1 .. Len(r) : j > i /\ r[j] = [key |-> r[i].key, value |-> 0]
  <2>1. i + 1 \in 1 .. Len(q) /\ r[i] = q[i + 1]
    BY <1>1
  <2>2. CASE q[i + 1].key \in keys
    BY <2>1, <2>2
  <2>3. CASE \E j \in 1 .. Len(q) : j > i + 1 /\ q[j] = [key |-> q[i + 1].key, value |-> 0]
    <3>1. PICK j \in 1 .. Len(q) : j > i + 1 /\ q[j] = [key |-> q[i + 1].key, value |-> 0]
      BY <2>3
    <3>2. j - 1 \in 1 .. Len(r) /\ j - 1 > i /\ r[j - 1] = q[j]
      BY <1>1, <1>2, <3>1
    <3> QED
      BY <2>1, <3>1, <3>2
  <2> QED
    BY <1>3, <2>1, <2>2, <2>3 DEF Follows
<1>4. ASSUME q[1].value # 0 PROVE q[1].key \in keys \/ Released(r, q[1].key)
  <2>1. 1 \in 1 .. Len(q)
    BY <1>1
  <2>2. CASE q[1].key \in keys
    BY <2>2
  <2>3. CASE \E j \in 1 .. Len(q) : j > 1 /\ q[j] = [key |-> q[1].key, value |-> 0]
    BY <1>1, <1>2, <2>3 DEF Released
  <2> QED
    BY <1>4, <2>1, <2>2, <2>3 DEF Follows
<1> QED
  BY <1>1, <1>3, <1>4 DEF Follows, r

\* A release is read or still waits.
LEMMA ReleasedTail ==
  ASSUME NEW q \in Seq(Event), q # <<>>, NEW k, Released(q, k)
  PROVE  Head(q) = [key |-> k, value |-> 0] \/ Released(Tail(q), k)
<1>1. PICK i \in DOMAIN q : q[i] = [key |-> k, value |-> 0]
  BY DEF Released
<1>2. CASE i = 1
  BY <1>1, <1>2
<1>3. CASE i # 1
  <2>1. i - 1 \in DOMAIN Tail(q) /\ Tail(q)[i - 1] = q[i]
    BY <1>3
  <2> QED
    BY <1>1, <2>1 DEF Released
<1> QED
  BY <1>2, <1>3

\* What is pending in terms of the queue.
LEMMA PendingIs ==
  ASSUME NEW n, NEW k
  PROVE  Accounted(n, k) <=> k \in down[n] \/ Released(queue[n], k) \/ n \in dropped \cup broken
BY DEF Accounted, ReleasePending, Released

\* An event moves a key and is queued at an open node.
LEMMA TypedEvent ==
  ASSUME TypeOK, EventsEnd, NEW n \in Node, NEW e \in Event,
         down' = [down EXCEPT ![n] = Moved(down[n], e)],
         queue' = IF n \in open THEN [queue EXCEPT ![n] = Append(queue[n], e)] ELSE queue,
         UNCHANGED <<open, dropped, broken>>
  PROVE  /\ EventsEnd'
         /\ \A m \in open, k \in Key : Accounted(m, k) => Accounted(m, k)'
<1>1. /\ queue \in [Node -> Seq(Event)] /\ down \in [Node -> SUBSET Key] /\ open \in SUBSET Node
  BY DEF TypeOK, KeyboardsTypeOK
<1>2. \A m \in Node : m # n => queue'[m] = queue[m] /\ down'[m] = down[m]
  BY <1>1
<1>3. down'[n] = Moved(down[n], e)
  BY <1>1
<1>4. CASE n \in open
  <2>1. queue'[n] = Append(queue[n], e)
    BY <1>1, <1>4
  <2>2. Follows(queue'[n], down'[n])
    BY <1>1, <1>3, <2>1, FollowsAppend DEF EventsEnd
  <2>3. EventsEnd'
    BY <1>2, <1>4, <2>2 DEF EventsEnd
  <2>4. ASSUME NEW k \in Key, k \in down[n] \/ Released(queue[n], k)
        PROVE  k \in down'[n] \/ Released(queue'[n], k)
    <3>1. Released(queue[n], k) => Released(queue'[n], k)
      BY <1>1, <2>1, ReleasedAppend
    <3>2. e = [key |-> k, value |-> 0] => Released(queue'[n], k)
      BY <1>1, <2>1, ReleasedAppend
    <3>3. e # [key |-> k, value |-> 0] /\ k \in down[n] => k \in Moved(down[n], e)
      BY DEF Moved, Event
    <3> QED
      BY <1>3, <2>4, <3>1, <3>2, <3>3
  <2>5. ASSUME NEW m \in open, NEW k \in Key, Accounted(m, k) PROVE Accounted(m, k)'
    <3>1. k \in down[m] \/ Released(queue[m], k) \/ m \in dropped \cup broken
      BY <2>5, PendingIs
    <3>2. k \in down'[m] \/ Released(queue'[m], k) \/ m \in dropped' \cup broken'
      BY <1>1, <1>2, <2>4, <3>1
    <3> QED
      BY <3>2 DEF Accounted, ReleasePending, Released
  <2> QED
    BY <2>3, <2>5
<1>5. CASE n \notin open
  <2>1. queue' = queue /\ queue[n] = <<>>
    BY <1>5 DEF EventsEnd
  <2>2. Follows(queue'[n], down'[n])
    BY <2>1 DEF Follows
  <2>3. EventsEnd'
    BY <1>2, <2>1, <2>2 DEF EventsEnd
  <2>4. \A m \in open : m # n
    BY <1>5
  <2> QED
    BY <1>1, <1>2, <2>3, <2>4 DEF Accounted, ReleasePending
<1> QED
  BY <1>4, <1>5

\* Whatever the keyboards do, what was accounted for remains so.
LEMMA TypesAccounts ==
  TypeOK /\ EventsEnd /\ Types =>
    /\ EventsEnd'
    /\ \A m \in open, k \in Key : Accounted(m, k) => Accounted(m, k)'
<1> SUFFICES ASSUME TypeOK, EventsEnd, Types
             PROVE  /\ EventsEnd'
                    /\ \A m \in open, k \in Key : Accounted(m, k) => Accounted(m, k)'
  OBVIOUS
<1>1. PICK n \in Node :
        \/ \E k \in Key : Presses(n, k) \/ Releases(n, k) \/ KeyRepeats(n, k)
        \/ Overflows(n) \/ Unplugged(n) \/ PluggedIn(n)
  BY DEF Types, Typing
<1>2. /\ queue \in [Node -> Seq(Event)] /\ down \in [Node -> SUBSET Key] /\ open \in SUBSET Node
  BY DEF TypeOK, KeyboardsTypeOK
<1>3. ASSUME NEW k \in Key
      PROVE  /\ [key |-> k, value |-> 0] \in Event /\ [key |-> k, value |-> 1] \in Event
             /\ [key |-> k, value |-> 2] \in Event
             /\ Moved(down[n], [key |-> k, value |-> 0]) = down[n] \ {k}
             /\ Moved(down[n], [key |-> k, value |-> 1]) = down[n] \cup {k}
             /\ Moved(down[n], [key |-> k, value |-> 2]) = down[n] \cup {k}
  BY DEF Event, Moved
<1>4. ASSUME NEW k \in Key, Presses(n, k)
      PROVE  /\ EventsEnd'
             /\ \A m \in open, l \in Key : Accounted(m, l) => Accounted(m, l)'
  <2> DEFINE e == [key |-> k, value |-> 1]
  <2>1. /\ down' = [down EXCEPT ![n] = down[n] \cup {k}]
        /\ queue' = IF n \in open THEN [queue EXCEPT ![n] = Append(queue[n], e)] ELSE queue
        /\ UNCHANGED <<open, dropped, broken>>
    BY <1>2, <1>4 DEF Presses, Delivers
  <2>2. e \in Event /\ Moved(down[n], e) = down[n] \cup {k}
    BY <1>3
  <2> HIDE DEF e
  <2> QED
    BY <2>1, <2>2, TypedEvent
<1>5. ASSUME NEW k \in Key, Releases(n, k)
      PROVE  /\ EventsEnd'
             /\ \A m \in open, l \in Key : Accounted(m, l) => Accounted(m, l)'
  <2> DEFINE e == [key |-> k, value |-> 0]
  <2>1. /\ down' = [down EXCEPT ![n] = down[n] \ {k}]
        /\ queue' = IF n \in open THEN [queue EXCEPT ![n] = Append(queue[n], e)] ELSE queue
        /\ UNCHANGED <<open, dropped, broken>>
    BY <1>2, <1>5 DEF Releases, Delivers
  <2>2. e \in Event /\ Moved(down[n], e) = down[n] \ {k}
    BY <1>3
  <2> HIDE DEF e
  <2> QED
    BY <2>1, <2>2, TypedEvent
<1>6. ASSUME NEW k \in Key, KeyRepeats(n, k)
      PROVE  /\ EventsEnd'
             /\ \A m \in open, l \in Key : Accounted(m, l) => Accounted(m, l)'
  <2> DEFINE e == [key |-> k, value |-> 2]
  <2>1. /\ k \in down[n] /\ n \in open
        /\ down' = down
        /\ queue' = [queue EXCEPT ![n] = Append(queue[n], e)]
        /\ UNCHANGED <<open, dropped, broken>>
    BY <1>2, <1>6 DEF KeyRepeats
  <2>2. e \in Event /\ Moved(down[n], e) = down[n]
    <3>1. down[n] \cup {k} = down[n]
      BY <2>1
    <3> QED
      BY <1>3, <3>1
  <2> HIDE DEF e
  <2>3. down' = [down EXCEPT ![n] = Moved(down[n], e)]
    BY <1>2, <2>1, <2>2
  <2> QED
    BY <2>1, <2>2, <2>3, TypedEvent
<1>7. CASE Overflows(n) \/ Unplugged(n)
  <2>1. /\ \A m \in Node : m # n => queue'[m] = queue[m] /\ down'[m] = down[m]
        /\ queue'[n] = <<>> /\ open' = open
        /\ dropped \subseteq dropped' /\ broken \subseteq broken'
        /\ n \in open => n \in dropped' \cup broken'
    BY <1>2, <1>7 DEF Overflows, Unplugged
  <2>2. Follows(queue'[n], down'[n])
    BY <2>1 DEF Follows
  <2>3. EventsEnd'
    BY <2>1, <2>2 DEF EventsEnd
  <2> QED
    BY <1>2, <2>1, <2>3 DEF Accounted, ReleasePending
<1>8. CASE PluggedIn(n)
  <2>1. UNCHANGED <<queue, down, open, dropped, broken>>
    BY <1>8 DEF PluggedIn
  <2> QED
    BY <2>1 DEF EventsEnd, Accounted, ReleasePending
<1> QED
  BY <1>1, <1>4, <1>5, <1>6, <1>7, <1>8

\* Reading an event: its release is the only thing that can be missed.
LEMMA ReadAccounts ==
  ASSUME TypeOK, EventsEnd, NEW n \in Node, ReadEvent(n), NEW e, e = Head(queue[n])
  PROVE  /\ e \in Event
         /\ EventsEnd'
         /\ e.value # 0 => Accounted(n, e.key)'
         /\ \A m \in Node, k \in Key :
              Accounted(m, k) /\ ~(m = n /\ e = [key |-> k, value |-> 0]) => Accounted(m, k)'
<1>1. /\ queue[n] \in Seq(Event) /\ queue[n] # <<>> /\ queue \in [Node -> Seq(Event)]
      /\ queue' = [queue EXCEPT ![n] = Tail(queue[n])]
      /\ UNCHANGED <<down, open, dropped, broken>>
      /\ down[n] \in SUBSET Key /\ n \in open
  BY DEF TypeOK, KeyboardsTypeOK, ReadEvent
<1>2. e \in Event /\ queue'[n] = Tail(queue[n]) /\ \A m \in Node : m # n => queue'[m] = queue[m]
  BY <1>1
<1>3. Follows(queue'[n], down'[n]) /\ (e.value # 0 => e.key \in down'[n] \/ Released(queue'[n], e.key))
  BY <1>1, <1>2, FollowsTail DEF EventsEnd
<1>4. EventsEnd'
  BY <1>1, <1>2, <1>3 DEF EventsEnd
<1>5. e.value # 0 => Accounted(n, e.key)'
  BY <1>3 DEF Accounted, ReleasePending, Released
<1>6. ASSUME NEW m \in Node, NEW k \in Key, Accounted(m, k), ~(m = n /\ e = [key |-> k, value |-> 0])
      PROVE  Accounted(m, k)'
  <2>1. k \in down[m] \/ Released(queue[m], k) \/ m \in dropped \cup broken
    BY <1>6, PendingIs
  <2>2. m = n /\ Released(queue[m], k) => Released(queue'[m], k)
    BY <1>1, <1>2, <1>6, ReleasedTail
  <2>3. k \in down'[m] \/ Released(queue'[m], k) \/ m \in dropped' \cup broken'
    BY <1>1, <1>2, <2>1, <2>2
  <2> QED
    BY <2>3 DEF Accounted, ReleasePending, Released
<1> QED
  BY <1>2, <1>4, <1>5, <1>6

\* The queues and the keys remain in step whatever the thread does.
LEMMA RunEvents == TypeOK /\ EventsEnd /\ Run => EventsEnd'
<1> SUFFICES ASSUME TypeOK, EventsEnd, Run PROVE EventsEnd'
  OBVIOUS
<1>1. ASSUME NEW n \in Node, ReadEvent(n) PROVE EventsEnd'
  BY <1>1, ReadAccounts
<1>2. CASE ~\E n \in Node : ReadEvent(n)
  <2>1. queue \in [Node -> Seq(Event)] /\ down' = down
    BY <1>2 DEF TypeOK, KeyboardsTypeOK, Run, RunBegins, Prepared, OpenNode, Resync, RetireNode,
                AskForKeys, LookForEvents, Grab, PollFails, ReleaseNodes, RunEnds, keyboardVars
  <2>2. \A m \in Node : queue'[m] \in {queue[m], <<>>} /\ (m \in open /\ m \notin open' => queue'[m] = <<>>)
    BY <1>2, <2>1 DEF Run, RunBegins, Prepared, OpenNode, Resync, RetireNode,
                AskForKeys, LookForEvents, Grab, PollFails, ReleaseNodes, RunEnds, keyboardVars
  <2>3. \A keys : Follows(<<>>, keys)
    BY DEF Follows
  <2> QED
    BY <2>1, <2>2, <2>3 DEF EventsEnd
<1> QED
  BY <1>1, <1>2

\* Every queue ends with what the keys of its node are.
THEOREM QueuesEndWithTheKeys == Spec => []EventsEnd
<1>1. Init => EventsEnd
  BY DEF Init, KeyboardsInit, EventsEnd, Follows
<1>2. TypeOK /\ EventsEnd /\ [Next]_vars => EventsEnd'
  <2> SUFFICES ASSUME TypeOK, EventsEnd, [Next]_vars PROVE EventsEnd'
    OBVIOUS
  <2>1. CASE Main \/ UNCHANGED vars \/ \E n \in Node : MirrorFails(n)
    <3>1. UNCHANGED <<queue, down, open>>
      BY <2>1, MainLeavesNodes DEF vars, keyboardVars, MirrorFails
    <3> QED
      BY <3>1 DEF EventsEnd
  <2> QED
    BY <2>1, RunEvents, TypesAccounts DEF Next
<1> QED
  BY <1>1, <1>2, InputTypeCorrect, PTL DEF Spec

-----------------------------------------------------------------------------
(* Modifiers.                                                              *)

\* The thread: a press makes a modifier held and known, its release ends both,
\* and what is dropped unread is excepted.
LEMMA GhostRun == TypeOK /\ ThreadInv /\ EventsEnd /\ GhostInv /\ Run => GhostInv'
<1> SUFFICES ASSUME TypeOK, ThreadInv, EventsEnd, GhostInv, Run PROVE GhostInv'
  OBVIOUS
<1>0. /\ known \in [Node -> SUBSET Key] /\ down \in [Node -> SUBSET Key]
      /\ queue \in [Node -> Seq(Event)]
      /\ open \in SUBSET Node /\ held \in SUBSET ModifierKeys /\ ModifierKeys \in SUBSET Key
  BY HandlerAssumption DEF TypeOK, KeyboardsTypeOK, HandlerAssumption
<1>1. CASE RunBegins
  <2>1. thread' # "loop" /\ open' = {}
    BY <1>1 DEF RunBegins, ThreadInv, keyboardVars
  <2> QED
    BY <2>1 DEF GhostInv
<1>2. CASE Prepared
  <2>1. /\ thread = "opening" /\ thread' # "opening" /\ held' = Seed /\ lost' = {}
        /\ UNCHANGED <<open, known, broken, down, queue, dropped>>
    BY <1>2 DEF Prepared, keyboardVars
  <2>2. \A k \in Seed : \E n \in open : k \in known[n]
    BY DEF Seed
  <2>3. \A n \in open : \A k : Accounted(n, k) => Accounted(n, k)'
    BY <2>1 DEF Accounted, ReleasePending
  <2> QED
    BY <2>1, <2>2, <2>3 DEF GhostInv
<1>3. ASSUME NEW n \in Node, OpenNode(n) PROVE GhostInv'
  <2>1. /\ thread = "opening" /\ thread' = "opening"
        /\ UNCHANGED <<broken, down, queue, dropped>>
        /\ open' \subseteq open \cup {n}
        /\ \/ known' = [known EXCEPT ![n] = down[n]]
           \/ UNCHANGED <<open, known>>
    BY <1>3 DEF OpenNode
  <2>2. \A m \in open' : \A k \in known'[m] : k \in down[m] \/ (m \in open /\ k \in known[m])
    BY <1>0, <2>1
  <2>3. \A m, k : Accounted(m, k) => Accounted(m, k)'
    BY <2>1 DEF Accounted, ReleasePending
  <2>4. \A m, k : k \in down[m] => Accounted(m, k)
    BY DEF Accounted
  <2> QED
    BY <2>1, <2>2, <2>3, <2>4 DEF GhostInv
<1>4. ASSUME NEW n \in Node, ReadEvent(n) PROVE GhostInv'
  <2>0. PICK e : e = Head(queue[n])
    OBVIOUS
  <2>1. /\ thread = "loop" /\ n \in open /\ UNCHANGED <<thread, open, broken>>
        /\ known' = [known EXCEPT ![n] = Moved(known[n], e)]
        /\ lost' = lost \ {e.key}
        /\ held' = IF e.key \in ModifierKeys /\ e.value = 1 THEN held \cup {e.key}
                   ELSE IF e.key \in ModifierKeys /\ e.value = 0 THEN held \ {e.key}
                   ELSE held
    BY <1>4, <2>0 DEF ReadEvent, InLoop, Forgets, TracksModifier, runVars
  <2>2. /\ e \in Event /\ (e.value # 0 => Accounted(n, e.key)')
        /\ \A m \in Node, k \in Key :
             Accounted(m, k) /\ ~(m = n /\ e = [key |-> k, value |-> 0]) => Accounted(m, k)'
    BY <1>4, <2>0, ReadAccounts
  <2>3. e.key \in Key
    BY <2>2 DEF Event
  <2>4. ASSUME NEW k \in held' \ lost', broken = {}
        PROVE  \E m \in open : k \in known'[m] /\ Accounted(m, k)'
    <3>1. k \in Key
      BY <1>0, <2>1, <2>2, <2>3, <2>4
    <3>2. CASE k = e.key /\ e.value # 0
      <4>1. known'[n] = known[n] \cup {k} /\ Accounted(n, k)'
        BY <1>0, <2>1, <2>2, <3>2 DEF Moved
      <4> QED
        BY <2>1, <4>1
    <3>3. CASE k = e.key /\ e.value = 0
      BY <1>0, <2>1, <2>4, <3>3
    <3>4. CASE k # e.key
      <4>1. k \in held \ lost
        BY <2>1, <2>4, <3>4
      <4>2. PICK m \in open : k \in known[m] /\ Accounted(m, k)
        BY <2>1, <2>4, <4>1 DEF GhostInv
      <4>3. e # [key |-> k, value |-> 0]
        BY <3>4
      <4>4. k \in known'[m]
        BY <1>0, <2>1, <3>4, <4>2 DEF Moved
      <4> QED
        BY <1>0, <2>2, <3>1, <4>2, <4>3, <4>4
    <3> QED
      BY <3>2, <3>3, <3>4
  <2> QED
    BY <2>1, <2>4 DEF GhostInv
<1>5. ASSUME NEW n \in Node, Resync(n) PROVE GhostInv'
  <2>1. /\ thread = "loop" /\ UNCHANGED <<thread, open, broken, held, down>>
        /\ known' = [known EXCEPT ![n] = down[n]]
        /\ lost' = lost \cup ((known[n] \ down[n]) \cap ModifierKeys)
        /\ dropped' = dropped \ {n}
        /\ queue' = [queue EXCEPT ![n] = <<>>]
    BY <1>5 DEF Resync, InLoop, runVars
  <2>2. ASSUME NEW k \in held' \ lost', broken = {}
        PROVE  \E m \in open : k \in known'[m] /\ Accounted(m, k)'
    <3>1. PICK m \in open : k \in known[m] /\ Accounted(m, k)
      BY <2>1, <2>2 DEF GhostInv
    <3>2. CASE m = n
      <4>1. k \in down[n]
        BY <1>0, <2>1, <2>2, <3>1, <3>2
      <4> QED
        BY <1>0, <2>1, <3>1, <3>2, <4>1 DEF Accounted
    <3>3. CASE m # n
      <4>1. queue'[m] = queue[m] /\ known'[m] = known[m] /\ (m \in dropped => m \in dropped')
        BY <1>0, <2>1, <3>3
      <4>2. Accounted(m, k)'
        BY <2>1, <3>1, <4>1 DEF Accounted, ReleasePending
      <4> QED
        BY <3>1, <4>1, <4>2
    <3> QED
      BY <3>2, <3>3
  <2> QED
    BY <2>1, <2>2 DEF GhostInv
<1>6. ASSUME NEW n \in Node, RetireNode(n) PROVE GhostInv'
  <2>1. thread' = "loop" /\ held' = {}
    BY <1>6 DEF RetireNode, InLoop, runVars
  <2> QED
    BY <2>1 DEF GhostInv
<1>7. ASSUME NEW n \in Node, AskForKeys(n) PROVE GhostInv'
  <2> DEFINE unread == {queue[n][i].key : i \in DOMAIN queue[n]} \cap ModifierKeys
  <2>1. /\ thread = "loop" /\ UNCHANGED <<thread, open, broken, held, down, known, dropped>>
        /\ lost' = lost \cup unread
        /\ queue' = [queue EXCEPT ![n] = <<>>]
    BY <1>7 DEF AskForKeys, InLoop, runVars
  <2>2. \A k \in ModifierKeys : Released(queue[n], k) => k \in unread
    BY DEF Released
  <2> HIDE DEF unread
  <2>3. ASSUME NEW k \in held' \ lost', broken = {}
        PROVE  \E m \in open : k \in known'[m] /\ Accounted(m, k)'
    <3>1. PICK m \in open : k \in known[m] /\ Accounted(m, k)
      BY <2>1, <2>3 DEF GhostInv
    <3>2. k \in down[m] \/ Released(queue[m], k) \/ m \in dropped \cup broken
      BY <3>1, PendingIs
    <3>3. ~(m = n /\ Released(queue[m], k))
      BY <1>0, <2>1, <2>2, <2>3
    <3>4. m # n => queue'[m] = queue[m]
      BY <1>0, <2>1
    <3>5. k \in down'[m] \/ Released(queue'[m], k) \/ m \in dropped' \cup broken'
      BY <2>1, <3>2, <3>3, <3>4
    <3> QED
      BY <2>1, <3>1, <3>5 DEF Accounted, ReleasePending, Released
  <2> QED
    BY <2>1, <2>3 DEF GhostInv
<1>8. CASE LookForEvents \/ Grab \/ PollFails
  <2>1. UNCHANGED <<thread, open, broken, held, lost, down, known, dropped, queue>>
    BY <1>8 DEF LookForEvents, Grab, PollFails, keyboardVars, runVars, nodeVars, historyVars
  <2> QED
    BY <2>1 DEF GhostInv, Accounted, ReleasePending
<1>9. CASE ReleaseNodes \/ RunEnds
  <2>1. thread' \notin {"opening", "loop"}
    BY <1>9 DEF ReleaseNodes, RunEnds
  <2> QED
    BY <2>1 DEF GhostInv
<1> QED
  BY <1>1, <1>2, <1>3, <1>4, <1>5, <1>6, <1>7, <1>8, <1>9 DEF Run

\* A modifier counts as held only while it is down on an open node, or the
\* node has still to tell that it is not; but for modifiers of which the last
\* event was dropped unread.
THEOREM NoGhostModifiers == Spec => []NoGhostModifier
<1>1. Init => GhostInv
  BY DEF Init, GhostInv
<1>2. TypeOK /\ ThreadInv /\ EventsEnd /\ GhostInv /\ [Next]_vars => GhostInv'
  <2> SUFFICES ASSUME TypeOK, ThreadInv, EventsEnd, GhostInv, [Next]_vars PROVE GhostInv'
    OBVIOUS
  <2>0. /\ known \in [Node -> SUBSET Key] /\ open \in SUBSET Node
        /\ held \in SUBSET Key
    BY HandlerAssumption DEF TypeOK, KeyboardsTypeOK, HandlerAssumption
  <2>1. CASE Main \/ UNCHANGED vars \/ \E n \in Node : MirrorFails(n)
    <3>1. /\ UNCHANGED <<open, held, lost, down, known, dropped, queue>>
          /\ broken \subseteq broken'
          /\ thread' = thread \/ thread' = "started"
      BY <2>1, MainLeavesNodes
         DEF vars, keyboardVars, runVars, nodeVars, historyVars, MirrorFails, Main, ChangeHotkeys,
             Restart, Halt, Sets, Halted, Starts, SetOsdLayoutKeysActive, Stop
    <3>2. \A m, k : Accounted(m, k) => Accounted(m, k)'
      BY <3>1 DEF Accounted, ReleasePending
    <3> QED
      BY <3>1, <3>2 DEF GhostInv
  <2>2. CASE Types
    <3>1. /\ UNCHANGED <<thread, open, held, lost, known>>
          /\ broken \subseteq broken'
      BY <2>2 DEF Types, Typing, Presses, Releases, KeyRepeats, Overflows, Unplugged, PluggedIn,
                  runVars, nodeVars
    <3>2. \A m \in open, k \in Key : Accounted(m, k) => Accounted(m, k)'
      BY <2>2, TypesAccounts
    <3> QED
      BY <2>0, <3>1, <3>2 DEF GhostInv
  <2> QED
    BY <2>1, <2>2, GhostRun DEF Next
<1>3. GhostInv => NoGhostModifier
  BY DEF GhostInv, NoGhostModifier, Accounted
<1> QED
  BY <1>1, <1>2, <1>3, ThreadStates, QueuesEndWithTheKeys, PTL DEF Spec

-----------------------------------------------------------------------------
(* Keys on mirrors.                                                        *)

\* Nothing but an event or a resynchronisation puts a key on a mirror.
LEMMA MirrorKept ==
  ASSUME TypeOK, ThreadInv, MirrorInv, UNCHANGED <<snapshot, known>>,
         \A m \in Node : mirrored'[m] \in {mirrored[m], {}},
         resynced' = resynced \/ \A m \in Node : resynced'[m] = resynced[m] \cap mirrored'[m],
         \A m \in open, k \in Key : m \in grabbed /\ mirrored'[m] # {} /\ Accounted(m, k)
                                      => Accounted(m, k)'
  PROVE  MirrorInv'
<1>1. mirrored \in [Node -> SUBSET Key] /\ open \in SUBSET Node
  BY DEF TypeOK, KeyboardsTypeOK
<1>2. ASSUME NEW m \in Node, NEW k \in mirrored'[m]
      PROVE  /\ k \in mirrored[m] /\ k \in Key /\ m \in open
             /\ Accounted(m, k) => Accounted(m, k)'
             /\ Swallowed(m, k) => Swallowed(m, k)'
  <2>1. k \in mirrored[m] /\ mirrored'[m] # {} /\ m \in open \cap grabbed /\ k \in Key
    BY <1>1, <1>2 DEF ThreadInv
  <2>2. k \in resynced[m] => k \in resynced'[m]
    BY <1>2
  <2> QED
    BY <2>1, <2>2 DEF Swallowed
<1> QED
  BY <1>2 DEF MirrorInv

\* Reading an event: it is forwarded or, with its key among the excepted ones,
\* kept back.
LEMMA MirrorRead ==
  ASSUME TypeOK, ThreadInv, EventsEnd, MirrorInv, NEW n \in Node, ReadEvent(n)
  PROVE  MirrorInv'
<1>1. PICK e : e = Head(queue[n])
  OBVIOUS
<1> DEFINE live == n \in grabbed \cap mirror
           kept == e.key \notin ModifierKeys /\ Consumed(snapshot, e)
<1>2. /\ known \in [Node -> SUBSET Key] /\ mirrored \in [Node -> SUBSET Key]
      /\ resynced \in [Node -> SUBSET Key]
  BY DEF TypeOK, KeyboardsTypeOK
<1>3. /\ UNCHANGED snapshot
      /\ known' = [known EXCEPT ![n] = Moved(known[n], e)]
      /\ mirrored' = IF live /\ ~kept THEN [mirrored EXCEPT ![n] = Moved(mirrored[n], e)]
                     ELSE mirrored
      /\ resynced' = [m \in Node |-> resynced[m] \cap mirrored'[m]]
  BY <1>1 DEF ReadEvent, Forward, Forgets, runVars
<1>4. /\ e \in Event /\ e.key \in Key
      /\ e.value # 0 => Accounted(n, e.key)'
      /\ \A m \in Node, k \in Key :
           Accounted(m, k) /\ ~(m = n /\ e = [key |-> k, value |-> 0]) => Accounted(m, k)'
  <2>1. e \in Event
    BY <1>1, ReadAccounts
  <2> QED
    BY <1>1, <2>1, ReadAccounts DEF Event
<1>5. \A m \in Node : \A k \in mirrored'[m] : Swallowed(m, k) => Swallowed(m, k)'
  BY <1>3 DEF Swallowed
<1>6. kept /\ e.value = 0 =>
        /\ e.key \in snapshot.layout \cup snapshot.scenes \cup snapshot.media
        /\ e.key \notin ModifierKeys
  BY DEF Consumed, ReleaseConsumed
<1>7. ~kept /\ e.value # 0 /\ e.key \notin ModifierKeys =>
        e.key \notin snapshot.scenes \cup snapshot.media
  BY DEF Consumed, PressConsumed, Hotkeys
<1> HIDE DEF live, kept
<1>8. ASSUME NEW m \in Node, NEW k \in mirrored'[m], m # n \/ k # e.key
      PROVE  /\ Accounted(m, k)' \/ Swallowed(m, k)'
             /\ k \in known'[m] \/ Swallowed(m, k)'
             /\ k \in snapshot.scenes \cup snapshot.media => k \in ModifierKeys \/ Swallowed(m, k)'
  <2>1. k \in mirrored[m] /\ k \in Key
    BY <1>2, <1>3, <1>8 DEF Moved
  <2>2. k \in known[m] => k \in known'[m]
    BY <1>2, <1>3, <1>8 DEF Moved
  <2>3. ~(m = n /\ e = [key |-> k, value |-> 0])
    BY <1>8
  <2> QED
    BY <1>4, <1>5, <2>1, <2>2, <2>3 DEF MirrorInv
<1>9. ASSUME e.key \in mirrored'[n]
      PROVE  /\ Accounted(n, e.key)' \/ Swallowed(n, e.key)'
             /\ e.key \in known'[n] \/ Swallowed(n, e.key)'
             /\ e.key \in snapshot.scenes \cup snapshot.media =>
                  e.key \in ModifierKeys \/ Swallowed(n, e.key)'
  <2>1. CASE live /\ ~kept
    <3>1. e.value # 0
      BY <1>2, <1>3, <1>9, <2>1 DEF Moved
    <3> QED
      BY <1>2, <1>3, <1>4, <1>7, <2>1, <3>1 DEF Moved
  <2>2. CASE ~(live /\ ~kept)
    <3>1. e.key \in mirrored[n]
      BY <1>3, <1>9, <2>2
    <3>2. kept
      BY <2>2, <3>1 DEF ThreadInv, live
    <3>3. CASE e.value # 0
      BY <1>2, <1>3, <1>4, <1>5, <1>9, <3>1, <3>3 DEF Moved, MirrorInv
    <3>4. CASE e.value = 0
      <4>1. Swallowed(n, e.key)
        BY <1>6, <3>1, <3>2, <3>4 DEF MirrorInv, Swallowed
      <4> QED
        BY <1>5, <1>9, <4>1
    <3> QED
      BY <3>3, <3>4
  <2> QED
    BY <2>1, <2>2
<1> QED
  BY <1>3, <1>8, <1>9 DEF MirrorInv

\* A resynchronisation releases what libevdev knew to be down and is not.
LEMMA MirrorResync ==
  ASSUME TypeOK, ThreadInv, MirrorInv, NEW n \in Node, Resync(n)
  PROVE  MirrorInv'
<1> DEFINE live == n \in grabbed \cap mirror
           up == known[n] \ down[n]
           fresh == down[n] \ known[n]
<1>1. /\ known \in [Node -> SUBSET Key] /\ mirrored \in [Node -> SUBSET Key]
      /\ resynced \in [Node -> SUBSET Key] /\ down \in [Node -> SUBSET Key]
      /\ queue \in [Node -> Seq(Event)]
  BY DEF TypeOK, KeyboardsTypeOK
<1>2. /\ UNCHANGED <<snapshot, down, broken>>
      /\ known' = [known EXCEPT ![n] = down[n]]
      /\ mirrored' = IF live THEN [mirrored EXCEPT ![n] = (mirrored[n] \ up) \cup fresh]
                     ELSE mirrored
      /\ resynced' = [resynced EXCEPT ![n] = (resynced[n] \cup fresh) \cap mirrored'[n]]
      /\ dropped' = dropped \ {n}
      /\ queue' = [queue EXCEPT ![n] = <<>>]
  BY <1>1 DEF Resync, runVars
<1>3. \A m \in Node : \A k \in mirrored'[m] : Swallowed(m, k) => Swallowed(m, k)'
  BY <1>1, <1>2 DEF Swallowed
<1>4. ASSUME NEW m \in Node, NEW k \in mirrored'[m], m # n
      PROVE  /\ Accounted(m, k)' \/ Swallowed(m, k)'
             /\ k \in known'[m] \/ Swallowed(m, k)'
             /\ k \in snapshot.scenes \cup snapshot.media => k \in ModifierKeys \/ Swallowed(m, k)'
  <2>1. k \in mirrored[m] /\ known'[m] = known[m] /\ queue'[m] = queue[m]
    BY <1>1, <1>2, <1>4
  <2>2. Accounted(m, k) => Accounted(m, k)'
    BY <1>2, <1>4, <2>1 DEF Accounted, ReleasePending
  <2> QED
    BY <1>3, <2>1, <2>2 DEF MirrorInv
<1>5. ASSUME NEW k \in mirrored'[n]
      PROVE  /\ Accounted(n, k)' \/ Swallowed(n, k)'
             /\ k \in known'[n] \/ Swallowed(n, k)'
             /\ k \in snapshot.scenes \cup snapshot.media => k \in ModifierKeys \/ Swallowed(n, k)'
  <2>1. live
    BY <1>2, <1>5 DEF ThreadInv
  <2>2. CASE k \in fresh
    <3>1. k \in down'[n] /\ k \in known'[n] /\ k \in resynced'[n]
      BY <1>1, <1>2, <1>5, <2>1, <2>2
    <3> QED
      BY <1>2, <3>1 DEF Accounted, Swallowed
  <2>3. CASE k \notin fresh
    <3>1. k \in mirrored[n] /\ k \notin up
      BY <1>1, <1>2, <1>5, <2>1, <2>3
    <3>2. k \in down[n] \/ Swallowed(n, k)
      BY <3>1 DEF MirrorInv
    <3>3. k \in down[n] => Accounted(n, k)' /\ k \in known'[n]
      BY <1>1, <1>2 DEF Accounted
    <3> QED
      BY <1>3, <1>5, <3>1, <3>2, <3>3 DEF MirrorInv
  <2> QED
    BY <2>2, <2>3
<1> QED
  BY <1>2, <1>4, <1>5 DEF MirrorInv

LEMMA MirrorRun == TypeOK /\ ThreadInv /\ EventsEnd /\ MirrorInv /\ Run => MirrorInv'
<1> SUFFICES ASSUME TypeOK, ThreadInv, EventsEnd, MirrorInv, Run PROVE MirrorInv'
  OBVIOUS
<1>1. /\ mirrored \in [Node -> SUBSET Key] /\ queue \in [Node -> Seq(Event)]
      /\ open \in SUBSET Node /\ resynced \in [Node -> SUBSET Key]
  BY DEF TypeOK, KeyboardsTypeOK
<1>2. CASE RunBegins \/ \E n \in Node : OpenNode(n)
  <2>1. grabbed = {} /\ mirrored' = mirrored
    BY <1>2 DEF RunBegins, OpenNode, ThreadInv, keyboardVars
  <2>2. \A m \in Node : mirrored'[m] = {}
    BY <2>1 DEF ThreadInv
  <2> QED
    BY <2>2 DEF MirrorInv
<1>3. ASSUME NEW n \in Node, ReadEvent(n) \/ Resync(n) PROVE MirrorInv'
  BY <1>3, MirrorRead, MirrorResync
<1>4. ASSUME NEW n \in Node, RetireNode(n) PROVE MirrorInv'
  <2>1. /\ UNCHANGED <<snapshot, known, down>>
        /\ \A m \in Node : mirrored'[m] = IF m = n THEN {} ELSE mirrored[m]
        /\ resynced' = [m \in Node |-> resynced[m] \cap mirrored'[m]]
        /\ \A m \in Node : m # n => queue'[m] = queue[m]
        /\ dropped' = dropped \ {n} /\ broken' = broken \ {n}
    BY <1>1, <1>4 DEF RetireNode, Forgets, runVars
  <2>2. \A m \in open, k \in Key : mirrored'[m] # {} /\ Accounted(m, k) => Accounted(m, k)'
    BY <1>1, <2>1 DEF Accounted, ReleasePending
  <2> QED
    BY <2>1, <2>2, MirrorKept
<1>5. ASSUME NEW n \in Node, AskForKeys(n) PROVE MirrorInv'
  <2>1. /\ UNCHANGED <<snapshot, known, mirrored, resynced, down, dropped, broken>>
        /\ n \notin grabbed
        /\ \A m \in Node : m # n => queue'[m] = queue[m]
    BY <1>1, <1>5 DEF AskForKeys, ThreadInv, runVars
  <2>2. \A m \in open, k \in Key : m \in grabbed /\ Accounted(m, k) => Accounted(m, k)'
    BY <1>1, <2>1 DEF Accounted, ReleasePending
  <2> QED
    BY <2>1, <2>2, MirrorKept
<1>6. CASE Prepared \/ LookForEvents \/ Grab \/ PollFails \/ RunEnds
  <2>1. UNCHANGED <<snapshot, known, mirrored, resynced, down, dropped, broken, queue>>
    BY <1>6 DEF Prepared, LookForEvents, Grab, PollFails, RunEnds, keyboardVars, nodeVars, runVars,
                historyVars
  <2> QED
    BY <2>1 DEF MirrorInv, Swallowed, Accounted, ReleasePending
<1>7. CASE ReleaseNodes
  <2>1. \A m \in Node : mirrored'[m] = {}
    BY <1>7 DEF ReleaseNodes
  <2> QED
    BY <2>1 DEF MirrorInv
<1> QED
  BY <1>2, <1>3, <1>4, <1>5, <1>6, <1>7 DEF Run

\* No key is left held on a mirror: whatever modifiers, configurations, the
\* OSD, overflows and unplugging do between its press and its release, it is
\* held or its release is on the way.  Excepted are keys of the OSD layout,
\* and scene and media keys put there by a resynchronisation.
THEOREM NoStuckKeys == Spec => []NoStuckKey
<1>1. Init => MirrorInv
  BY DEF Init, KeyboardsInit, MirrorInv
<1>2. TypeOK /\ ThreadInv /\ EventsEnd /\ MirrorInv /\ [Next]_vars => MirrorInv'
  <2> SUFFICES ASSUME TypeOK, ThreadInv, EventsEnd, MirrorInv, [Next]_vars PROVE MirrorInv'
    OBVIOUS
  <2>1. CASE Main \/ UNCHANGED vars \/ \E n \in Node : MirrorFails(n)
    <3>1. /\ UNCHANGED <<snapshot, known, mirrored, resynced, down, dropped, queue>>
          /\ broken \subseteq broken'
      BY <2>1, MainLeavesNodes
         DEF vars, keyboardVars, runVars, nodeVars, historyVars, MirrorFails
    <3> QED
      BY <3>1 DEF MirrorInv, Swallowed, Accounted, ReleasePending
  <2>2. CASE Types
    <3>1. UNCHANGED <<snapshot, known, mirrored, resynced>>
      BY <2>2 DEF Types, Typing, Presses, Releases, KeyRepeats, Overflows, Unplugged, PluggedIn,
                  runVars, nodeVars
    <3>2. \A m \in open, k \in Key : Accounted(m, k) => Accounted(m, k)'
      BY <2>2, TypesAccounts
    <3> QED
      BY <3>1, <3>2, MirrorKept
  <2> QED
    BY <2>1, <2>2, MirrorRun DEF Next
<1>3. MirrorInv => NoStuckKey
  BY DEF MirrorInv, NoStuckKey, Accounted, Swallowed
<1> QED
  BY <1>1, <1>2, <1>3, ThreadStates, QueuesEndWithTheKeys, PTL DEF Spec
=============================================================================
