SPECIFICATION Spec
CONSTANTS
    t1 = t1
    Session = {s1, s2}
    Task = {t1}
    TaskOf <- TwoAttempts
    Child = {c1, c2}
    MaxChildren = 2
    MaxAsk = 2
    none = none
    Admitter = {a1, a2}
    Supervisor = {a1}
    Wave = 2
    MaxSequences = 2
SYMMETRY Children
INVARIANTS
    AdmissionTypeOK
    
    CeilingKept
    BudgetKept
    WorkerWithinBudget
    
    NoCreditLeaks
