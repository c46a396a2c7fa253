SPECIFICATION Spec
CONSTANTS
    r1 = r1
    r2 = r2
    r3 = r3
    Absent = Absent
    Nil = Nil
    NoToken = NoToken
    BadId = BadId
    Empty = ""
    Text <- MCText
    Trim <- MCTrim
    User <- MCUser
    InitUsers <- MCInitUsers
    Req <- TwoReq
    NewId <- MCNewId
    Requests <- AllRequests
    InitTokens <- AllTokens
    StoreMayFail = TRUE
INVARIANT TypeOK
INVARIANT EffectNeedsEntitlement
INVARIANT StatusTellsEffect
INVARIANT AuditIsTruthful
PROPERTY OnlyAskedColumns KeepsPromise
CHECK_DEADLOCK FALSE
