CONSTANTS
    a1 = a1
    a2 = a2
    Alerts = {a1, a2}
    m1 = m1
    m2 = m2
    Messages = {m1, m2}
    w1 = w1
    w2 = w2
    Workers = {w1, w2}
    None = None
    MaxReceive = 2
    known = known
    new = new
    ModelVerdicts = {known, new}
    CapVerdict = cap
    BatchSize = 2
    DailyCap = 1
    LastDay = 1
SPECIFICATION WorkerSpec
INVARIANTS
    WorkerAloneTypeOK
    TriagedHasVerdict
    DeletedHasVerdict
    CallsWithinCap
    DeclinedMeansExhausted
PROPERTY VerdictFinal
SYMMETRY Symmetry
CHECK_DEADLOCK FALSE
