SPECIFICATION FairSpec
CONSTANTS
    Calls = {c1, c2, c3, c4, c5}
    max = 2
INVARIANTS
    TypeOK
    PermitsBalanced
    AtMostMax
    NoIdlePermit
PROPERTIES
    NoOvertaking
    NoStarvation
    GateSpec
