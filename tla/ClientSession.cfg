SPECIFICATION Spec
CONSTANTS
    MagicSize = 2
    HeaderSize = 3
    PrefixSize = 1
    ChunkSize = 2
    MaxDataSize = 5
    MaxFrames = 3
    MessageCount = 3
    Payloads = {0, 2, 5, 6}
    JunkSizes = {0, 3}
    ReadSize = 8
INVARIANTS
    DeliveredInOrder
    RoundTrip
    DecoderKeepsPlace
    LeftoverIsShort
PROPERTIES
    LossNeedsPartialFrame
CHECK_DEADLOCK FALSE
