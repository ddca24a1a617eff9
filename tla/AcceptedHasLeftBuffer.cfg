CONSTANTS
    w1 = w1
    Webhooks = {w1}
    Size <- MCSize
    Attempts = 2
    MaxLog = 2
SPECIFICATION Spec
INVARIANT AcceptedHasLeftBuffer
CHECK_DEADLOCK FALSE
