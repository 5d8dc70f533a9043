\* Two units that both start, or one of them and a door that moves; one frame on the way and
\* a heartbeat of each unit at a time. No symmetry, for liveness.
SPECIFICATION LimitedSpec
CONSTANTS
  u1 = u1  u2 = u2
  Units <- MCUnits
  Strangers <- MCNone
  MaxControllerBoots = 1
  MaxUnitBoots = 2
  MaxMoves = 1
  MaxFrames = 1
  MaxUnanswered = 1
  MaxDisturbances = 2
INVARIANTS RegisteredMeansKnown OpenIsAnyLock
PROPERTIES HandshakeEnds ReportedAfterReconnect
CHECK_DEADLOCK FALSE
