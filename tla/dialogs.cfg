CONSTANTS
    Dialogs <- AllDialogs
    Entries = {1, 2}
    MaxOpenings = 3
    MaxCalls = 2
SPECIFICATION Spec
INVARIANTS
    SubmittedIsTyped
    
