CONSTANTS
  Player = {p, q, r}
  None = none
  Address = {home, away}
  Motion = {kick}
  Kick = {kick}
  Mootable = {kick}
  NoCalls = {0, 1, 2}
  CountTicks = 1
  MaxCalls = 2
  MaxTime = 2
SPECIFICATION Spec
INVARIANTS RoomForBallot OneBallotPerAddress PassedByMajority
PROPERTIES NotAskedAgain
SYMMETRY Symmetry
