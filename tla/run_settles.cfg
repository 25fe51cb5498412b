SPECIFICATION FairSpec
CONSTANTS
    run = run
    ctl = ctl
    o1 = o1
    o2 = o2
    a1 = a1
    s1 = s1
    s2 = s2
    Creator = run
    Controller = ctl
    Observers = {o1}
    Responders = {}
    Stoppers = {}
    Detach = TRUE
    FailClosed = FALSE
    Patient = TRUE
    LaunchFails = FALSE
    MaxCrashes = 1
PROPERTY ActiveRunSettles
