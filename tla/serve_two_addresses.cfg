SPECIFICATION ServeSpec
CONSTANTS
    h1 = h1
    Slot = {h1}
    Absent = Absent
    Empty = ""
    Text <- MCText
    Trim <- MCTrim
    User <- MCUser
    InitUsers <- MCInitUsers
    Server <- TwoServers
    Command <- NoCommand
    Config <- TwoConfig
    Input <- NoInput
    NewId <- TwoIds
    Address <- TwoAddress
    GFire <- TwoGFire
    MaxMishaps = 0
PROPERTY BootstrapOnlyWhenEmpty
