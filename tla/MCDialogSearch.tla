--------------------------- MODULE MCDialogSearch ---------------------------
(* Instances of DialogSearch for TLC. *)
EXTENDS DialogSearch, TLC

CONSTANTS fast, full, other, d1, d2

\* Two of the searches of a search-all job.
Kinds == fast :> "fast" @@ full :> "history"
Histories == full :> "history" @@ other :> "history"

\* The fast search of the first instance has found its source in the index before.
FullWide == fast :> {d1} @@ full :> {d1, d2}
Both == full :> {d1, d2} @@ other :> {d1, d2}
AllWide == fast :> {d1, d2} @@ full :> {d1, d2}
=============================================================================
