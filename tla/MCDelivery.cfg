SPECIFICATION Spec
CONSTANTS
    Jobs = {j1}
    Subscriptions = {s1, s2}
    Callbacks = {s1, s2}
    CallbackOf <- OwnCallback
    maxAttempts = 1
    jobMaxAttempts = 1
    workerConcurrency = 1
    perCallbackConcurrency = 1
    failureThreshold = 2
    maxStalledCount = 1
    MaxOpsRetries = 1
    RedisMayFail = FALSE
SYMMETRY Symmetry
INVARIANTS
    TypeOK
    NotLost
    SettledMeansQuiet
PROPERTIES
    PromiseSpec
