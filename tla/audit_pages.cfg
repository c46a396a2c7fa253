SPECIFICATION FairSpec
CONSTANTS
    NotGiven = NotGiven
    NotANumber = NotANumber
    Reader = {d1}
    Event <- MCEvent
    IdAfter <- MCIdAfter
    Old <- MCOld
    Limit <- MCLimit
    DefaultLimit = 2
    MaxTime = 2
INVARIANT TypeOK
INVARIANT NothingMissed
INVARIANT RepeatsNeedArrivals
PROPERTY ReadingEnds
CHECK_DEADLOCK FALSE
