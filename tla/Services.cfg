SPECIFICATION ServicesSpec
CONSTANTS
    home = home
    other = other
    homeKey = homeKey
    Open = Open
    Unset = Unset
    Submissions <- MCSubmissions
    Working <- MCSubmissions
    MaxRetries = 1
    MaxEvents = 1
    TokenNames <- Names
    TokenIds = {1, 2, 3}
    TokenSecrets = {1, 2, 3}
    TokenCapacity = 2
    Writers = {w1, w2}
    LogCapacity = 2
    LogWindow = 1
    MaxUptime = 1
    MaxStored = 3
    TimeServers = {"s1", "s2"}
CHECK_DEADLOCK FALSE
INVARIANTS
    WifiSafe
    TokensSafe
    LogSafe
    
    
PROPERTY
    LogIsBoundedQueue
