SPECIFICATION FairSpec
CONSTANTS
    Messages = {"one", "two", "big"}
    ToWire <- MCToWire
    FromWire <- MCFromWire
    MaxFrameBytes = 2
    Junk <- MCJunk
    Garbage = Garbage
    MaxAttempts = 3
INVARIANTS TypeOK Delivered VerdictIsRight
PROPERTIES ReaderEnds ImplementsMessageChannel
CHECK_DEADLOCK FALSE
