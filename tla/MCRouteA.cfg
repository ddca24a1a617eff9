CONSTANTS
    w1 = w1
    Webhooks = {w1}
    Size <- MCSize
    Attempts = 2
    MaxLog = 2
SPECIFICATION FairSpec
INVARIANTS
    TypeOK
    CommittedIsSettled
    AcceptedIsProduced
PROPERTY AcceptedEventuallySettled
CHECK_DEADLOCK FALSE
