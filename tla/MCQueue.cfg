SPECIFICATION Spec
CONSTANTS
    m1 = m1
    m2 = m2
    all = all
    purge = purge
    Messages = {m1, m2}
    Retriers = {all}
    Purgers = {purge}
    MaxWaiting = 1
    Concurrency = 1
    Limit = 2
    BatchSize = 2
    MaxCrashes = 1
INVARIANTS
    TypeOK
    QueueBounded
    CountsConserved
    SnapshotIsCurrent
    CountedWasEnqueued
PROPERTIES
    OperatorsEnd
CHECK_DEADLOCK FALSE
