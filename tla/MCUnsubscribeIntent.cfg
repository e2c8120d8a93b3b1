SPECIFICATION Spec
CONSTANTS
    s1 = s1
    s2 = s2
    u1 = u1
    sw = sw
    jb = jb
    gn = gn
    in1 = in1
    li1 = li1
    li2 = li2
    cl = cl
    Callbacks = {a}
    Threads = {s1, u1}
    KindOf <- Kind
    ProcessOf <- Split
    Leases = {1}
    MaxNow = 2
    MaxAborts = 0
PROPERTIES
    DeleteOnlyWhenConfirmed
CHECK_DEADLOCK FALSE
