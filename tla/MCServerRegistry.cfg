\* The code's 30 and 60 seconds, in steps of ten.
CONSTANTS
  Heartbeat = 3
  Timeout = 6
  Resend = 2
  Numbers = {1, 2}
  Parts = 2
  MaxStarts = 3
  MaxVersions = 2
  MaxLosses = 2
SPECIFICATION FairSpec
INVARIANTS ListedInTime
PROPERTIES NewestListReaches
