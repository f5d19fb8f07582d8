SPECIFICATION FairSpec
CONSTANTS
    MaxDepth = 3
    MaxJobs = 1
PROPERTIES
    CallsReturn
