SPECIFICATION DeliveryFairSpec
CONSTANTS
    r1 = r1
    r2 = r2
    l1 = l1
    s1 = s1
    s2 = s2
    c1 = c1
    c2 = c2
    c3 = c3
    main = main
    job = job
    Resource = {r1}
    NoResource = NoResource
    Link = {l1}
    LinkOf <- OneLink
    Subscription = {s1}
    SubOf <- OneSubscription
    Searched = {s1}
    Caller = {c1, c2}
    LoopOf <- TwoLoops
    Role <- AttachAndRetry
    Target <- OneRowAndRetryTargets
    Verdicts = {"accepted", "final"}
    RetryCap = 3
    Backoff <- FourBackoffs
    PendingAge = 1
    MaxAge = 1
    MaxCrashes = 0
    MaxFaults = 0
PROPERTIES FinalIsRetried
