SPECIFICATION UpsdSpec
CONSTANTS
    Clients = {k1, k2}
    MaxConn = 3
    Limit = 1
    Commands <- SessionCommands
    LoginAllowed = TRUE
    Hosts = {h1, h2}
    Folded <- TwoCases
    UpsFiles <- UpsConfs
    UserFiles <- UsersConfs
    Logins <- Presented
    Delay = 1
    MaxIds = 2
    Askers = {h1, h2}
    SetVars <- SomeVars
    SetValues <- SomeValues
    N = 4
    External = {2, 4}
    Detailed = {2}
    StatusVar = 4
    Values = {"on", "ON", "quoted"}
    Usual = "on"
    EnumValues = {"on"}
    Fold <- MCFold
    Special = {"quoted"}
    Wait = "WAIT"
    Garbled = "garbled"
    Ranges <- MCRanges
    Flags = {"RW"}
    Cmds = {1, 2, 3}
    ArgLimit = 2
    WordLimit = 3
    DestSizes = {2, 3, 4, 9}
    MaxChars = 5
    a = a
    b = b
    p = p
    q = q
SYMMETRY Symmetry
INVARIANT SessionsSafe
INVARIANT TablesSafe
INVARIANT TrackingSafe
 
PROPERTY FsdSticks
CHECK_DEADLOCK FALSE
