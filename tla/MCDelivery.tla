----------------------------- MODULE MCDelivery -----------------------------
(* Instances of Delivery for TLC. *)
EXTENDS Delivery, TLC

CONSTANTS r1, r2, l1, s1, s2, c1, c2, c3, main, job

\* Two subscriptions found the same link.
SameLink == r1 :> l1 @@ r2 :> l1
OneLink == r1 :> l1
OneSubscriptionEach == r1 :> s1 @@ r2 :> s2
OneSubscription == r1 :> s1

\* Two searches of one search-all job, and a user at the routes.
SearchesAndRoute == c1 :> "search" @@ c2 :> "search" @@ c3 :> "direct"
SearchesAndRouteLoops == c1 :> job @@ c2 :> job @@ c3 :> main
SearchesAndRouteTargets == c1 :> {r1} @@ c2 :> {r2} @@ c3 :> {r1}

\* What finds two rows, and the retry job.
SearchAndRetry == c1 :> "search" @@ c2 :> "retry"
AttachAndRetry == c1 :> "attach" @@ c2 :> "retry"
TwoLoops == c1 :> main @@ c2 :> job
TwoRowsAndRetryTargets == c1 :> {r1, r2} @@ c2 :> {}
OneRowAndRetryTargets == c1 :> {r1} @@ c2 :> {}

\* A message yields a row, and a user asks for it twice.
TwoRequests == c1 :> "attach" @@ c2 :> "direct" @@ c3 :> "direct"
TwoRequestsLoops == c1 :> main @@ c2 :> main @@ c3 :> main
TwoRequestsTargets == c1 :> {r1} @@ c2 :> {r1} @@ c3 :> {r1}

\* The backoff windows grow with retry_count; here they are all one tick.
OneBackoff == 0 :> 1
FourBackoffs == 0 :> 1 @@ 1 :> 1 @@ 2 :> 1 @@ 3 :> 1
=============================================================================
