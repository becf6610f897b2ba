SPECIFICATION Spec
CONSTANTS
    MaxLen = 3
    MaxInput = 2
    Mechanisms = {"plain"}
    Auths <- MCAuths
    None = None
INVARIANTS
    TypeOK
    LoadIsNormalised
    NothingLost
    IdKept
    SecondLoadAgrees
    ACLMeansKeys
    LoadKeepsMechanism
CHECK_DEADLOCK FALSE
