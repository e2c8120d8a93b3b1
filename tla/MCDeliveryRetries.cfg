SPECIFICATION FairSpec
CONSTANTS
    Jobs = {j1}
    Subscriptions = {s1, s2}
    Callbacks = {c1}
    CallbackOf <- OneCallback
    maxAttempts = 2
    jobMaxAttempts = 2
    workerConcurrency = 1
    perCallbackConcurrency = 1
    failureThreshold = 4
    maxStalledCount = 0
    MaxOpsRetries = 0
    RedisMayFail = TRUE
INVARIANTS
    PostBudget
    FailuresAreBacked
PROPERTIES
    JobsSettle
