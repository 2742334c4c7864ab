----------------------------- MODULE ResourceLife -----------------------------
(***************************************************************************)
(* What deliveries promise about the rows of resources and their links,    *)
(* whoever delivers them and however often: a row only moves along Moves,  *)
(* and a link that is not in doubt is accepted once by the remote, before  *)
(* any of its rows says delivered, which then stays so.                    *)
(***************************************************************************)
EXTENDS Naturals

CONSTANTS
    Resource,   \* rows of the table resources
    Link,
    LinkOf      \* the link of a row

VARIABLES
    status,     \* the status of each row
    accepted,   \* how often the remote has accepted each link
    doubted     \* links of which the table may not tell what became of them

Outcomes == {"delivered", "link_invalid", "delivery_failed_retryable",
             "delivery_failed_final"}
Present == Outcomes \cup {"pending", "skipped", "failed"}
States == Present \cup {"absent"}

\* A user may ask for any row again: each may get a new verdict.
Moves ==
    {<<"absent", "pending">>,                       \* found
     <<"pending", "failed">>}                       \* given up before a verdict
    \cup Present \X Outcomes                        \* delivered, or tried
    \cup (Present \ {"delivered"}) \X {"skipped"}   \* no longer needed

Init ==
    /\ status = [r \in Resource |-> "absent"]
    /\ accepted = [l \in Link |-> 0]
    /\ doubted = {}

RowsMove ==
    /\ status' \in [Resource -> States]
    /\ \A r \in Resource :
         /\ status'[r] # status[r] => <<status[r], status'[r]>> \in Moves
         /\ status'[r] = "delivered" => accepted[LinkOf[r]] > 0
         /\ status[r] = "delivered" /\ LinkOf[r] \notin doubted
              => status'[r] = "delivered"

LinksAreAccepted ==
    /\ doubted \subseteq doubted'
    /\ \A l \in Link :
         /\ accepted'[l] >= accepted[l]
         /\ accepted'[l] # accepted[l] /\ l \notin doubted'
              => accepted[l] = 0 /\ accepted'[l] = 1

Next == RowsMove /\ LinksAreAccepted

Spec == Init /\ [][Next]_<<status, accepted, doubted>>
=============================================================================
