SPECIFICATION Spec
CONSTANTS
    Jobs = {j1}
    Subscriptions = {s1}
    Callbacks = {c1}
    CallbackOf <- OneCallback
    maxAttempts = 3
    jobMaxAttempts = 1
    workerConcurrency = 1
    perCallbackConcurrency = 1
    failureThreshold = 10
    maxStalledCount = 0
    MaxOpsRetries = 0
    RedisMayFail = FALSE
PROPERTIES
    PermanentFailsImmediately
