CONSTANTS
  Player = {w, p, q}
  Watcher = w
  Modes = {"team"}
  MaxSeats = 2
  MaxWire = 2
SPECIFICATION Spec
INVARIANT OpenSlotsFill
