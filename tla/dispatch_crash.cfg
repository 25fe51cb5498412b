SPECIFICATION FairSpec
CONSTANTS
    r1 = r1
    r2 = r2
    t1 = t1
    t2 = t2
    t3 = t3
    s1 = s1
    s2 = s2
    c1 = c1
    c2 = c2
    o1 = o1
    Runs = {r1}
    Controllers = {c1}
    Observers = {}
    RunOf <- OneController
    Tasks = {t1, t2}
    Slots = {s1, s2}
    OwnerOf <- OneRun2
    SlotOf <- SameSlot
    DependsOn <- NoParents
    Wave = 1
    MaxSequences = 1
    MaxReplacements = 1
    MaxTries = 2
    MaxCrashes = 2
INVARIANT OneWorkerPerSlot
 
PROPERTY CreditsReturnedWhileActive
