SPECIFICATION PathSpec
CONSTANTS
    Good = {A, B}
    Broken = {X}
    Foreign = {}
    DelaySet = TRUE
    NoDev = NoDev
    Dangling = Dangling
    Addrs = {h1, h2}
    NoHandle = NoHandle
    Reports = 2
    MaxGen = 4
    MaxErrs = 1
    Vars = {status}
    Status = status
    Values = {on}
    Absent = Absent
    Wait = Wait
    Conns = {c1, c2}
    NoConn = NoConn
    BufCap = 2
    MaxAge = 3
    ReqCap = 1
SYMMETRY Symmetry
INVARIANTS
    HidSafe
    OneDeviceAtATime
    LinkSafe
    
