SPECIFICATION LinkFairSpec
CONSTANTS
    Vars = {status, other}
    Status = status
    Values = {on}
    Absent = Absent
    Wait = Wait
    Conns = {c1}
    NoConn = NoConn
    BufCap = 1
    MaxAge = 2
    ReqCap = 2

PROPERTY LinkLive
