SPECIFICATION DriverSpec
CONSTANTS
    MaxAsks = 2
    MaxTerms = 2
    MaxQueries = 1
    MaxNoise = 2
    Statuses = {0, 3}
    Files <- MCFiles
    CommandLines <- MCCommandLines
    Program = "hid"
    FixedVars = {"fixed"}
    LooseVars = {"loose"}
    FlagVars = {"flag"}
    Levels = {1, 2}
    MaxEdits = 1
    Lowered <- MCLowered
    Offers <- MCOffers
    Custom <- MCCustom
    Names <- MCNames
INVARIANTS
    HandledMeansAccepted
CHECK_DEADLOCK FALSE
