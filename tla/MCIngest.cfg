SPECIFICATION Spec
CONSTANTS
    s1 = s1
    s2 = s2
    t1 = t1
    a1 = a1
    l1 = l1
    Subs = {s1, s2}
    TopicOf <- TopicOfSub
    Announcers = {a1}
    Leavers = {l1}
    SubOf <- SubOfRequest
    Before <- RowsBefore
    LeaseOf <- LeaseOfRequest
    MaxNow = 2
    MaxFaults = 1
INVARIANTS
    TypeOK
    RegistryMissesOnlyCutOff
PROPERTIES
    SyncCutsOnlyUnseen
    EventuallyServed
CHECK_DEADLOCK FALSE
