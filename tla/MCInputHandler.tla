--------------------------- MODULE MCInputHandler ---------------------------
(***************************************************************************)
(* Instances of InputHandler for TLC: values of the constants that a .cfg  *)
(* cannot write.                                                           *)
(***************************************************************************)
EXTENDS InputHandlerClaims

CONSTANTS
  keyboard, pad,  \* nodes
  ctrl, volup     \* keys

\* The keyboard has the hotkey; the pad next to it only a modifier.
TwoNodes == [n \in {keyboard, pad} |-> IF n = pad THEN {ctrl} ELSE {volup}]
OneNode == [n \in {keyboard} |-> {volup}]

OneModifier == [k \in {ctrl} |-> "Ctrl"]

\* One key in turn bound to a profile that requires Ctrl, and to a scene and
\* the OSD layout; and to the layout only.
Bound == [profiles |-> {[modifiers |-> {"Ctrl"}, keys |-> {volup}]},
          scenes |-> {}, media |-> {}, layout |-> {}]
Rebound == [profiles |-> {}, scenes |-> {volup}, media |-> {}, layout |-> {volup}]
Moving == [profiles |-> {}, scenes |-> {}, media |-> {}, layout |-> {volup}]
Configs == {Bound, Rebound}
OneConfig == {Moving}
=============================================================================
