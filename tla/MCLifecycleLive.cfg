SPECIFICATION FairSpec
CONSTANTS
    s1 = s1
    s2 = s2
    u1 = u1
    sw = sw
    jb = jb
    gn = gn
    in1 = in1
    li1 = li1
    li2 = li2
    cl = cl
    Callbacks = {a}
    Threads = {s1, u1, sw}
    KindOf <- Kind
    ProcessOf <- Split
    Leases = {1}
    MaxNow = 3
    MaxAborts = 1
INVARIANTS
    NeverUnderSubscriber
    AnnouncedIsSubscribed
PROPERTIES
    EventuallyUnsubscribed
CHECK_DEADLOCK FALSE
