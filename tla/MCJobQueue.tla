----------------------------- MODULE MCJobQueue -----------------------------
(* Instances of JobQueue for TLC. *)
EXTENDS JobQueue

CONSTANTS s1, s2

\* A worker that dies at startup executes nothing more.
FaultAtStartup == {"startup"}

FaultsWhileRunning ==
    {"heartbeat", "mark_done", "mark_failed", "sidecar", "supersede"}
=============================================================================
