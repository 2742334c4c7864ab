SPECIFICATION DeliveryFairSpec
CONSTANTS
    r1 = r1
    r2 = r2
    l1 = l1
    s1 = s1
    s2 = s2
    c1 = c1
    c2 = c2
    c3 = c3
    main = main
    job = job
    Resource = {r1, r2}
    NoResource = NoResource
    Link = {l1}
    LinkOf <- SameLink
    Subscription = {s1, s2}
    SubOf <- OneSubscriptionEach
    Searched = {s1}
    Caller = {c1, c2}
    LoopOf <- TwoLoops
    Role <- SearchAndRetry
    Target <- TwoRowsAndRetryTargets
    Verdicts = {"accepted", "temporary"}
    RetryCap = 0
    Backoff <- OneBackoff
    PendingAge = 1
    MaxAge = 1
    MaxCrashes = 1
    MaxFaults = 1
PROPERTIES PendingSettles FailureIsRetried
