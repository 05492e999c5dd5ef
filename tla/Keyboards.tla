----------------------------- MODULE Keyboards -----------------------------
(***************************************************************************)
(* Input nodes as InputHandler (inputhandler.cpp) sees them through evdev, *)
(* libevdev and uinput: keys that go down and up, the kernel's queue for   *)
(* an open node, exclusive grabs, and what the desktop believes is down.   *)
(* None of it is code of this repository; it is modelled from how          *)
(* InputHandler uses it.                                                   *)
(*                                                                         *)
(* While a node is not grabbed the desktop sees its keys directly; while   *)
(* it is, the desktop sees only what InputHandler writes to the mirror.    *)
(***************************************************************************)
EXTENDS Integers, Sequences, FiniteSets

CONSTANTS
  Node,      \* input nodes (/dev/input/event*)
  Key,       \* key codes
  KeysOf,    \* the keys a node has
  Repeats,   \* keys that are held long enough to repeat
  Lossy,     \* nodes whose event buffer may overflow
  Fragile,   \* nodes that may be unplugged, or whose mirror may fail
  MaxQueue   \* bound: events waiting at a node

ASSUME KeyboardAssumption ==
  /\ KeysOf \in [Node -> SUBSET Key]
  /\ Repeats \subseteq Key
  /\ Lossy \subseteq Node
  /\ Fragile \subseteq Node
  /\ MaxQueue \in Nat

VARIABLES
  plugged,   \* nodes that exist
  down,      \* per node: keys physically down
  desk,      \* per node: keys the desktop believes to be down on the node itself
  open,      \* nodes InputHandler has open
  grabbed,   \* nodes it has grabbed
  broken,    \* open nodes whose next poll reports an error or a hang-up
  queue,     \* per node: events waiting for InputHandler
  dropped,   \* open nodes whose buffer overflowed
  mirrored   \* per node: keys the desktop believes to be down on its mirror

keyboardVars == <<plugged, down, desk, open, grabbed, broken, queue, dropped, mirrored>>

\* An input_event of type EV_KEY: released, pressed or repeated.
Event == [key : Key, value : {0, 1, 2}]

KeyboardsTypeOK ==
  /\ plugged \in SUBSET Node
  /\ down \in [Node -> SUBSET Key]
  /\ desk \in [Node -> SUBSET Key]
  /\ open \in SUBSET Node
  /\ grabbed \in SUBSET Node
  /\ broken \in SUBSET Node
  /\ queue \in [Node -> Seq(Event)]
  /\ dropped \in SUBSET Node
  /\ mirrored \in [Node -> SUBSET Key]

KeyboardsInit ==
  /\ plugged = Node
  /\ down = [n \in Node |-> {}]
  /\ desk = [n \in Node |-> {}]
  /\ open = {} /\ grabbed = {} /\ broken = {} /\ dropped = {}
  /\ queue = [n \in Node |-> <<>>]
  /\ mirrored = [n \in Node |-> {}]

\* A key of a node after an event of it.
Moved(keys, e) == IF e.value = 0 THEN keys \ {e.key} ELSE keys \cup {e.key}

\* The kernel delivers an event to InputHandler, and to the desktop unless the
\* node is grabbed.
Delivers(n, e) ==
  /\ n \in open => Len(queue[n]) < MaxQueue
  /\ queue' = IF n \in open THEN [queue EXCEPT ![n] = Append(@, e)] ELSE queue
  /\ desk' = IF n \in grabbed THEN desk ELSE [desk EXCEPT ![n] = Moved(@, e)]

Presses(n, k) ==
  /\ n \in plugged /\ k \in KeysOf[n] \ down[n]
  /\ down' = [down EXCEPT ![n] = @ \cup {k}]
  /\ Delivers(n, [key |-> k, value |-> 1])
  /\ UNCHANGED <<plugged, open, grabbed, broken, dropped, mirrored>>

Releases(n, k) ==
  /\ k \in down[n]
  /\ down' = [down EXCEPT ![n] = @ \ {k}]
  /\ Delivers(n, [key |-> k, value |-> 0])
  /\ UNCHANGED <<plugged, open, grabbed, broken, dropped, mirrored>>

\* A held key repeats; the desktop repeats keys by itself.
KeyRepeats(n, k) ==
  /\ n \in open /\ k \in down[n] \cap Repeats
  /\ Len(queue[n]) < MaxQueue
  /\ queue' = [queue EXCEPT ![n] = Append(@, [key |-> k, value |-> 2])]
  /\ UNCHANGED <<plugged, down, desk, open, grabbed, broken, dropped, mirrored>>

\* The buffer of a node that is read too late is dropped (SYN_DROPPED).
Overflows(n) ==
  /\ n \in Lossy \cap open /\ queue[n] # <<>>
  /\ queue' = [queue EXCEPT ![n] = <<>>]
  /\ dropped' = dropped \cup {n}
  /\ UNCHANGED <<plugged, down, desk, open, grabbed, broken, mirrored>>

\* The kernel lifts all keys of a node that goes.
Unplugged(n) ==
  /\ n \in plugged \cap Fragile
  /\ plugged' = plugged \ {n}
  /\ down' = [down EXCEPT ![n] = {}]
  /\ desk' = [desk EXCEPT ![n] = {}]
  /\ queue' = [queue EXCEPT ![n] = <<>>]
  /\ broken' = IF n \in open THEN broken \cup {n} ELSE broken
  /\ UNCHANGED <<open, grabbed, dropped, mirrored>>

PluggedIn(n) ==
  /\ n \notin plugged /\ n \notin broken
  /\ plugged' = plugged \cup {n}
  /\ UNCHANGED <<down, desk, open, grabbed, broken, queue, dropped, mirrored>>

Typing ==
  \E n \in Node :
    \/ \E k \in Key : Presses(n, k) \/ Releases(n, k) \/ KeyRepeats(n, k)
    \/ Overflows(n)
    \/ Unplugged(n)
    \/ PluggedIn(n)
=============================================================================
