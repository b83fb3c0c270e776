SPECIFICATION Spec
CONSTANTS
    MaxIds = 4
    MaxCalls = 5
    MaxNesting = 2
    Inputs <- MCInputs
    null = null
INVARIANTS HandlesAreSound FirstCompletionDecides
PROPERTY HandlesKeepTheLog
CHECK_DEADLOCK FALSE
