CONSTANTS
  Player = {w, p, q}
  Watcher = w
  Modes = {"coop", "survival", "team"}
  MaxSeats = 2
  MaxWire = 2
SPECIFICATION FairSpec
INVARIANTS NoIdleSeat CopyFollows
PROPERTIES NoOvertaking NeverOverfull InLineGetsIn
