SPECIFICATION PoolFairSpec
CONSTANTS
  Caller = caller
  Workers = {w1, w2}
  MaxCount = 2
  GenMod = 2
  MayBlock = TRUE
  SelfWakes = TRUE
  Nobody = nobody
INVARIANTS
  JobRaceFree
  NoWakeMissed
  AtMostOnce
PROPERTIES
  CallsReturn
  IdlePoolSleeps
  ForkJoins
