SPECIFICATION Spec
CONSTANTS
    MaxDepth = 3
    MaxJobs = 1
INVARIANTS
    InterruptIsReported
