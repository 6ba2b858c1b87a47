SPECIFICATION LifecycleSpec
CONSTANTS
    Buffers = {b1, b2}
    Idents = {i1, i2}
    NoImage = NoImage
    Expiry = 2
    Retry = 1
    Images = {v1, v2}
    NoPromise = NoPromise
    StartTasks = {1, 2}
    MaxPairs = 3
    DeviceSettings = {"s1", "s2"}
    Handles = {1, 2}
    Clients = {k1, k2}
    MaxConn = 2
    Limit = 1
    Commands <- Queries
    LoginAllowed = TRUE
CHECK_DEADLOCK FALSE
INVARIANTS
    StageSafe
    BootSafe
    
    
    ListSound
PROPERTIES
    LiveStageKept
    ExpiredDropped
    ConfirmedByRunning
    
    TasksEnd
    SilentShed
