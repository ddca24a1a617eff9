CONSTANTS
    r1 = r1
    r2 = r2
    f = f
    g = g
    m1 = m1
    m2 = m2
    m3 = m3
    m4 = m4
    Messages = {m1, m2, m3, m4}
    None = None
    Requests <- MCRequests
    Payload <- MCPayload
    Alerts <- MCAlerts
    MaxReceive = 1
    Window = 1
    LastTick = 2
    LostAnswers = 1
SPECIFICATION IngestSpec
INVARIANTS
    IngestAloneTypeOK
    DuplicateOnlyByRace
    OccurrencesAddUp
    EnqueuedOnceStored
    AcceptedIsEnqueued
CHECK_DEADLOCK FALSE
SYMMETRY Symmetry
