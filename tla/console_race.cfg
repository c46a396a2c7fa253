SPECIFICATION Spec
CONSTANTS
    r1 = r1
    r2 = r2
    r3 = r3
    Absent = Absent
    Nil = Nil
    NoToken = NoToken
    BadId = BadId
    Empty = ""
    Text <- MCText
    Trim <- MCTrim
    User <- MCUser
    InitUsers <- MCInitUsers
    Req <- ThreeReq
    NewId <- MCNewId
    Requests <- RaceRequests
    InitTokens <- AdminTokens
    StoreMayFail = FALSE
PROPERTY SelfToggleNeedsRace
PROPERTY LockoutNeedsRace
CHECK_DEADLOCK FALSE
SYMMETRY RaceSymmetry
