SPECIFICATION Spec
CONSTANTS
    r1 = r1
    r2 = r2
    r3 = r3
    d1 = d1
    a = a
    b = b
    t1 = t1
    Requests = {r1, r2, r3}
    Clients = {r1, r2, r3, d1}
    Topics = {t1}
    Callbacks = {a, b}
    TopicOf <- Topic
    CallbackOf <- Callback
    Keys <- KeySet
    KeyOf <- Key
    Forms <- SomeForms
    PoolSize = 2
    MaxEvents = 1
    MaxFaults = 1
INVARIANTS
    TypeOK
    DuplicatesNeedRace
    ActivatedIsStored
    FailureNeedsRace
    PendingTracksRequests
PROPERTY
    EveryRequestEnds
CHECK_DEADLOCK FALSE
