SPECIFICATION FairSpec
CONSTANTS
    MaxDepth = 3
    MaxJobs = 1
INVARIANTS
    TypeOK
    PayloadIsBounded
    DeadlineIsHonest
PROPERTIES
    CallsReturnUnlessAbsorbed
