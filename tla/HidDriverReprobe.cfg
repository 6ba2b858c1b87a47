SPECIFICATION HidSpec
CONSTANTS
    Good = {A, B}
    Broken = {}
    Foreign = {}
    DelaySet = TRUE
    NoDev = NoDev
    Dangling = Dangling
    Addrs = {h1}
    NoHandle = NoHandle
    Reports = 1
    MaxGen = 4
    MaxErrs = 0
INVARIANTS
    ReprobeIsBroad
