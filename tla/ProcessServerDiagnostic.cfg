SPECIFICATION Spec
CONSTANTS
    MaxId = 99
    RequestIds = {1}
    ReplyIds = {2, 4}
    ParentBodies <- CommandKinds
    DiagnosticLengths = {30, 5000}
    MaxFrames = 3
    MaxQueue = 1
    MaxCalls = 1
INVARIANTS DiagnosticFits
CHECK_DEADLOCK FALSE
