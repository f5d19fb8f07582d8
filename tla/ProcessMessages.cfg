SPECIFICATION ValuesSpec
CONSTANTS
    MaxDepth = 2
    MaxValues = 10
    MaxContainer = 4
    MaxString = 3
    MaxBytes = 14
    MaxContent = 14
    TextSize <- MCTextSize
    Invalid = {"nan", "no handle", "no code"}
    LocalValues <- MCLocalValues
    Openings <- MCOpenings
    Tokens <- MCTokens
    MaxTokens = 4
    MaxId = 4
    MaxMessage = 2
    Blank = {"", "space"}
    Codes = {"word"}
    Candidates <- MCCandidates
    MaxInteger = 4
    Unpaired = {"lone"}
    Scripts <- MCScripts
    Edits <- MCEdits
    MaxEdits = 2
INVARIANTS Bounded RoundTrip Canonical LimitsExact MessageArrives NothingLost
INVARIANTS PathsAreSimple Unfolds HandedBack
CHECK_DEADLOCK FALSE
