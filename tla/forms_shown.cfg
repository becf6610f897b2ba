CONSTANTS
    MaxEdits = 2
    MaxTyped = 2
    NoProfile = NoProfile
    Closed = Closed
SPECIFICATION Spec
PROPERTIES
    CredentialsAsShown
