SPECIFICATION Spec
CONSTANTS
    SendLimit = 3
    CloseLimit = 2
    ReadLimit = 1
INVARIANTS
    OneWriteAtATime
    WireInOrder
    CloseNotifiedOnce
PROPERTIES
    SentIsWrittenOrClosed
    ClosedIsReleased
CHECK_DEADLOCK FALSE
