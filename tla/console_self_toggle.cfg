SPECIFICATION Spec
CONSTANTS
    r1 = r1
    r2 = r2
    r3 = r3
    Absent = Absent
    Nil = Nil
    NoToken = NoToken
    BadId = BadId
    Empty = ""
    Text <- MCText
    Trim <- MCTrim
    User <- MCUser
    InitUsers <- MCInitUsers
    Req <- TwoReq
    NewId <- MCNewId
    Requests <- SelfPatchRequests
    InitTokens <- AdminTokens
    StoreMayFail = FALSE
PROPERTY NoSelfToggle
CHECK_DEADLOCK FALSE
