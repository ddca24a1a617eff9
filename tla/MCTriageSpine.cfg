CONSTANTS
    r1 = r1
    f = f
    m1 = m1
    m2 = m2
    m3 = m3
    Messages = {m1, m2, m3}
    w1 = w1
    Workers = {w1}
    o1 = o1
    o2 = o2
    Operators = {o1, o2}
    None = None
    Requests <- MCRequests
    Payload <- MCPayload
    Alerts <- MCAlerts
    MaxReceive = 1
    Window = 0
    LastTick = 0
    LostAnswers = 0
    ModelVerdicts = {"known"}
    CapVerdict = "cap"
    BatchSize = 2
    DailyCap = 1
    LastDay = 0
SPECIFICATION Spec
INVARIANTS
    TypeOK
    UnjudgedIsAlive
PROPERTY LedgerSpec
SYMMETRY Symmetry
CHECK_DEADLOCK FALSE
