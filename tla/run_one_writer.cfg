SPECIFICATION Spec
CONSTANTS
    run = run
    ctl = ctl
    o1 = o1
    o2 = o2
    a1 = a1
    s1 = s1
    s2 = s2
    Creator = run
    Controller = ctl
    Observers = {}
    Responders = {}
    Stoppers = {}
    Detach = TRUE
    FailClosed = FALSE
    Patient = FALSE
    LaunchFails = TRUE
    MaxCrashes = 1
INVARIANT LifecycleTypeOK
PROPERTY TableRespected
