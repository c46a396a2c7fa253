SPECIFICATION FairSpec
CONSTANTS
    JobStates <- MCJobStates
    PageSize = 1
    InitHeld <- MCInitHeld
    MaxHeld = 2
    MaxMoves = 2
    TellsTotal = FALSE
INVARIANT TypeOK
INVARIANT NumbersWereTrue
INVARIANT SumIsClose
PROPERTY GivingUpFrees
CHECK_DEADLOCK FALSE
