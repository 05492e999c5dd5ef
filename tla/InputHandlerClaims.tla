------------------------ MODULE InputHandlerClaims ------------------------
(***************************************************************************)
(* What ARCHITECTURE.md and the comments say of the keyboard thread and    *)
(* the code does not keep; a run refutes it and the README tells how.      *)
(***************************************************************************)
EXTENDS InputHandler

\* "its release must reach the device that sent the press", "consumed only
\* while the OSD overlay is visible; otherwise events pass through uinput": a
\* key the desktop sees held on a mirror is held or its release is on the way.
\* The OSD appearing between press and release makes the code eat the release.
ReleaseReachesItsMirror ==
  \A n \in Node : \A k \in mirrored[n] \ down[n] : ReleasePending(n, k)
=============================================================================
