\* What the server misses: two units, one controller start.
SPECIFICATION Spec
CONSTANTS
  u1 = u1  u2 = u2
  Units <- MCUnits
  Strangers <- MCNone
  MaxControllerBoots = 1
  MaxUnitBoots = 2
  MaxMoves = 1
  MaxFrames = 2
  MaxUnanswered = 2
  MaxDisturbances = 3
INVARIANT NothingMissing
CHECK_DEADLOCK FALSE
