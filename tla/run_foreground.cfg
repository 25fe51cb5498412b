SPECIFICATION Spec
CONSTANTS
    run = run
    ctl = ctl
    o1 = o1
    o2 = o2
    a1 = a1
    s1 = s1
    s2 = s2
    Creator = run
    Controller = ctl
    Observers = {}
    Responders = {a1}
    Stoppers = {s1}
    Detach = FALSE
    FailClosed = FALSE
    Patient = FALSE
    LaunchFails = FALSE
    MaxCrashes = 0
INVARIANT CompletedIsDone
