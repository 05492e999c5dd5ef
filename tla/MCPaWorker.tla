---------------------------- MODULE MCPaWorker ----------------------------
(***************************************************************************)
(* Instances of PaWorker for TLC: values of the constants that a .cfg      *)
(* cannot write.                                                           *)
(***************************************************************************)
EXTENDS PaWorkerClaims

CONSTANTS player, browser, speakers, headset

\* One application, and two.
OneApp == {player}
TwoApps == {player, browser}

\* Its streams.
OneStream == {1}
TwoStreams == {1, 2}
OneStreamAppOf == [s \in OneStream |-> player]
OneAppOf == [s \in TwoStreams |-> player]
TwoAppsOf == [s \in TwoStreams |-> IF s = 1 THEN player ELSE browser]

\* The names it is asked for by: one; a name and an alias; a name for each.
OneName == {1}
TwoNames == {1, 2}
OneDenotes == [k \in OneName |-> player]
AliasDenotes == [k \in TwoNames |-> player]
TwoDenotes == [k \in TwoNames |-> IF k = 1 THEN player ELSE browser]
OneTarget == [x \in OneApp |-> 1]
TwoTargets == [x \in TwoApps |-> IF x = player THEN 1 ELSE 2]

\* Requests: a step down or up; limits given in order, and the wrong way round.
UpDown == {-1, 1}
FullRange == {<<0, MaxVolume>>}
Reversed == {<<MaxVolume, 1>>}

\* Routes and mutes are asked for one at a time.
OneKind ==
    \/ \A k \in Name : pendingMutes[k] = None /\ ~appMutes[k]
    \/ \A k \in Name : pendingSinks[k] = None /\ k \notin pendingSinkClears
=============================================================================
