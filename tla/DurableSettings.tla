-------------------------- MODULE DurableSettings --------------------------
(***************************************************************************)
(* What the configuration promises, whatever happens to the process or to  *)
(* the disk: there are the settings in use, whole at every moment, and     *)
(* what the next start will find.  That changes, while the program runs,   *)
(* only into the settings in use or into an imported document, and not     *)
(* into the former while it is sealed, because it could not be read or     *)
(* kept.  A start uses what it finds, or the defaults and then seals it.   *)
(***************************************************************************)
CONSTANTS
    DefaultJson,    \* the settings of a program that has found none
    IsDocument(_),  \* what a start can read
    Found(_),       \* the settings that what is stored gives
    Sound(_)        \* whole settings

VARIABLES
    running,
    working,    \* the settings in use
    stored,     \* what the next start will find
    sealed      \* stored must not be replaced by what is in use

vars == <<running, working, stored, sealed>>

Init == ~running /\ ~sealed /\ working = DefaultJson

Start ==
    /\ ~running /\ running'
    /\ UNCHANGED stored
    /\ \/ sealed' /\ working' = DefaultJson
       \/ ~sealed' /\ working' = Found(stored)
    /\ Sound(working')

Change ==
    /\ running /\ working' # working
    /\ UNCHANGED <<running, stored, sealed>>
    /\ Sound(working')

Persist ==
    /\ running /\ ~sealed
    /\ stored' = working
    /\ UNCHANGED <<running, working, sealed>>

\* An import lifts the seal.
Import ==
    /\ running /\ ~sealed' /\ vars' # vars
    /\ UNCHANGED running
    /\ IsDocument(stored') /\ working' = Found(stored')
    /\ Sound(working')

\* The program ends, in order or not.
Stop ==
    /\ running /\ ~running'
    /\ working' = DefaultJson /\ ~sealed'
    /\ UNCHANGED stored

\* Somebody edits the file while the program is not running.
Edit ==
    /\ ~running /\ stored' # stored
    /\ UNCHANGED <<running, working, sealed>>

Next == Start \/ Change \/ Persist \/ Import \/ Stop \/ Edit

Spec == Init /\ [][Next]_vars
=============================================================================
