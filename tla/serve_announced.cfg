SPECIFICATION ServeSpec
CONSTANTS
    h1 = h1
    Slot = {h1}
    Absent = Absent
    Empty = ""
    Text <- MCText
    Trim <- MCTrim
    User <- MCUser
    InitUsers <- MCInitUsers
    Server <- MCServer
    Command <- MCCommand
    Config <- MCConfig
    Input <- MCInput
    NewId <- MCNewId
    Address <- MCAddress
    GFire <- MCGFire
    MaxMishaps = 0
INVARIANT AnnouncedIsBound
