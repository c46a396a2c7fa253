SPECIFICATION Spec
CONSTANTS
    JobStates <- MCJobStates
    PageSize = 1
    InitHeld <- MCInitHeld
    MaxHeld = 2
    MaxMoves = 2
    TellsTotal = TRUE
INVARIANT CountIsReported
CHECK_DEADLOCK FALSE
