CONSTANTS
    Hooks <- AllHooks
    Filters <- AllFilters
    Offered <- Picked
    Ordinary = Ordinary
    SystemTree = SystemTree
    MaxStreams = 3
    MaxVisits = 2
    MaxMessages <- Received
    MaxPolls = 2
    MaxLapses = 1
    Buffer = 2
    Keep = 2
    AtEnd = AtEnd
SPECIFICATION Spec
INVARIANTS
    InOrder
    OneStream
    StillHeard
CHECK_DEADLOCK FALSE
