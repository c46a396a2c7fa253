SPECIFICATION FairServeSpec
CONSTANTS
    h1 = h1
    Slot = {h1}
    Absent = Absent
    Empty = ""
    Text <- MCText
    Trim <- MCTrim
    User <- MCUser
    InitUsers <- MCInitUsers
    Server <- MCServer
    Command <- MCCommand
    Config <- MCConfig
    Input <- MCInput
    NewId <- MCNewId
    Address <- MCAddress
    GFire <- MCGFire
    MaxMishaps = 2
INVARIANT ServeTypeOK
INVARIANT ReadyIsSeeded
INVARIANT OneAdminPerAddress
INVARIANT CommandIsHonest
INVARIANT CutOffNeedsExcuse
PROPERTY SignalEnds
PROPERTY BrokenEnds
PROPERTY StartComesUp
