SPECIFICATION HidSpec
CONSTANTS
    Good = {A}
    Broken = {X}
    Foreign = {F}
    DelaySet = FALSE
    NoDev = NoDev
    Dangling = Dangling
    Addrs = {h1}
    NoHandle = NoHandle
    Reports = 1
    MaxGen = 4
    MaxErrs = 0
INVARIANTS
    StartSurvives
