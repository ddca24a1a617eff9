CONSTANTS
    a1 = a1
    a2 = a2
    Alerts = {a1, a2}
    m1 = m1
    m2 = m2
    Messages = {m1, m2}
    w1 = w1
    Workers = {w1}
    None = None
    MaxReceive = 2
    ModelVerdicts = {"known"}
    CapVerdict = "cap"
    BatchSize = 2
    DailyCap = 1
    LastDay = 0
SPECIFICATION FairWorkerSpec
PROPERTIES
    Disposed
    EventuallyJudged
CHECK_DEADLOCK FALSE
