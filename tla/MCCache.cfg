SPECIFICATION FairSpec
CONSTANTS
    Topics = {t1}
    Callbacks = {a, b}
    Processes = {p1}
    Tasks = {k1, k2}
    MaxNow = 1
    MaxChanges = 2
    MaxFaults = 1
INVARIANTS
    TypeOK
    StaleHasCause
PROPERTIES
    EmptyHeals
