SPECIFICATION FairSpec
CONSTANTS
    Requests <- MCRequests
    Injected <- MCInjected
    Driver = driver
    Observer = observer
    MaxFaults = 1
    Overlap = FALSE
INVARIANTS
    ReviewTypeOK
    FinalWaitsForAcceptance
    CompletedIsAccepted
    
    ReviewsBounded
    
PROPERTY RunSettles
