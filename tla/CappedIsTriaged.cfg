CONSTANTS
    a1 = a1
    Alerts = {a1}
    m1 = m1
    Messages = {m1}
    w1 = w1
    Workers = {w1}
    None = None
    MaxReceive = 3
    ModelVerdicts = {"known", "new"}
    CapVerdict = "cap"
    BatchSize = 2
    DailyCap = 1
    LastDay = 1
SPECIFICATION WorkerSpec
INVARIANT CappedIsTriaged
CHECK_DEADLOCK FALSE
