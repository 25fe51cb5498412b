SPECIFICATION FairSpec
CONSTANTS
    Controller = {c1, c2, c3}
    Launcher = {l1, l2}
    PID = {p1, p2}
    none = none
    stranger = stranger
INVARIANTS
    ConductorIsNamed
    
PROPERTIES
    LaunchIsEffective
    OneConductor
    LockIsPassedOn
    OverRunIsLeft
CHECK_DEADLOCK FALSE
