CONSTANTS
    Boards <- LargestBoards
    Entries = {1, 2}
    MaxVersions = 2
    MaxFlight = 2
    MaxCalls = 1
    NoData = NoData
SPECIFICATION FairSpec
INVARIANTS
    WriteIsSeen
    ShownIsAsked
PROPERTIES
    NeverGoesBack
    SpinnerEnds
    CatchesUp
