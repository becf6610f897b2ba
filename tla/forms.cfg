CONSTANTS
    MaxEdits = 3
    MaxTyped = 2
    NoProfile = NoProfile
    Closed = Closed
SPECIFICATION Spec
INVARIANTS
    TypeOK
    MechanismMatchesSecrets
PROPERTIES
    EditKeepsTheRest
    ClearedIsGone
