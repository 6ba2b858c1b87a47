SPECIFICATION DevicesFairSpec
CONSTANTS
    Good = {A}
    Broken = {}
    Foreign = {F}
    DelaySet = FALSE
    NoDev = NoDev
    Dangling = Dangling
    Addrs = {h1}
    NoHandle = NoHandle
    Reports = 1
    MaxGen = 4
    MaxErrs = 1
    home = home
    homeKey = homeKey
    Open = Open
    Unset = Unset
    Submissions <- MCOneSubmission
    Working <- MCOneSubmission
    MaxRetries = 1
    MaxEvents = 1
PROPERTIES
    HidLive
    InitReturns
