SPECIFICATION Spec
CONSTANTS
    MaxLen = 1
    MaxInput = 2
    Mechanisms = {"plain"}
    Auths <- MCAuths
    None = None
INVARIANT
    MechanismSurvives
CHECK_DEADLOCK FALSE
