SPECIFICATION DeliverySpec
CONSTANTS
    r1 = r1
    r2 = r2
    l1 = l1
    s1 = s1
    s2 = s2
    c1 = c1
    c2 = c2
    c3 = c3
    main = main
    job = job
    Resource = {r1}
    NoResource = NoResource
    Link = {l1}
    LinkOf <- OneLink
    Subscription = {s1}
    SubOf <- OneSubscription
    Searched = {s1}
    Caller = {c1, c2, c3}
    LoopOf <- TwoRequestsLoops
    Role <- TwoRequests
    Target <- TwoRequestsTargets
    Verdicts = {"accepted"}
    RetryCap = 0
    Backoff <- OneBackoff
    PendingAge = 1
    MaxAge = 1
    MaxCrashes = 0
    MaxFaults = 0
INVARIANTS NotForwardedTwice
