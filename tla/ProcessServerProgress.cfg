SPECIFICATION FairSpec
CONSTANTS
    MaxId = 5
    RequestIds = {1}
    ReplyIds = {2, 4}
    ParentBodies <- CommandKinds
    DiagnosticLengths = {30, 5000}
    MaxFrames = 4
    MaxQueue = 1
    MaxCalls = 7
INVARIANTS TypeOK CallbackIdsFresh
PROPERTIES CommandsAnswered PoisonEnds ClosedInputEnds
CHECK_DEADLOCK FALSE
