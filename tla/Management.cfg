SPECIFICATION MCSpec
CONSTANTS
  Passwords = {p1, p2}
  Browsers = {b1, b2}
  None = None
  Foreign = Foreign
  IdleLimit = 1
  Cooldown = 1
  MaxFailures = 2
  Settings <- MCSettings
  PollInterval = 1
  PollFreq = 1
  Charges = {0, 1, 2}
  Hover = 2
  MaxTime = 3
SYMMETRY Symmetry
INVARIANTS
  ManagementSafe
  
PROPERTIES
  CredentialIsRegister
  ExpiredNotRevived
