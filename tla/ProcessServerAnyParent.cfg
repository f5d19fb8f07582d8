SPECIFICATION Spec
CONSTANTS
    MaxId = 99
    RequestIds = {1}
    ReplyIds = {2, 4}
    ParentBodies <- AllKinds
    DiagnosticLengths = {30, 5000}
    MaxFrames = 6
    MaxQueue = 2
    MaxCalls = 2
INVARIANTS ThreadDiscipline EngineMatchesState CleanExitReleases FramesAccounted
PROPERTIES PoisonSilences ImplementsHostProtocol ImplementsGuestContract
CHECK_DEADLOCK FALSE
