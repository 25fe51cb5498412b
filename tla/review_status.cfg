SPECIFICATION Spec
CONSTANTS
    Requests <- MCRequests
    Injected <- MCInjected
    Driver = driver
    Observer = observer
    MaxFaults = 0
    Overlap = FALSE
PROPERTY CheckingKeepsRunning
