--------------------------- MODULE PaWorkerClaims ---------------------------
(***************************************************************************)
(* What ARCHITECTURE.md says of the audio worker and the code does not     *)
(* keep.  Each statement is refuted by a run of its own; the README says   *)
(* what the counterexample is.                                             *)
(***************************************************************************)
EXTENDS PaWorker

\* "Snapshot identity ... prevents two streams belonging to one app from
\* overwriting each other": a stream that was given its volume back keeps it
\* for the rest of the restore (doToggleDucking falls back to setAppVolume).
RestoredStreamKeepsItsVolume ==
  [][phase = "restore" /\ restoring'.entries # restoring.entries =>
       \A s \in restoring.done : Live(s) => vol'[s] = vol[s]]_vars

\* "stores desired volume/mute in PaWorker; applies when app reconnects": a
\* parked volume is applied once its application plays, if it keeps playing
\* and the daemon stays.
ParkedVolumeReachesItsStream ==
  \A k \in Name :
    (HasVolume(k) /\ Active \cap StreamsOf(k) # {})
      ~> (~HasVolume(k) \/ ~paUp \/ Active \cap StreamsOf(k) = {})
=============================================================================
