SPECIFICATION FairSpec
CONSTANTS
    r1 = r1
    r2 = r2
    u1 = u1
    Req = {r1, r2}
    User = {u1}
    Row <- MCRow
    Method <- MCMethod
    StoreMayFail = TRUE
    MaxSends = 2
    MaxRedirected = 1
    MaxChanges = 1
INVARIANT TypeOK
INVARIANT EffectNeedsRole
INVARIANT ToldIsTrue
INVARIANT AuditTellsOutcome
INVARIANT AuditLossNeedsCause
PROPERTY GivingUpFrees
CHECK_DEADLOCK FALSE
