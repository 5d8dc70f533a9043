\* One device with two attributes, two permits (4 in the code), one try (3).
SPECIFICATION Spec
CONSTANTS
  d1 = d1  d2 = d2  a1 = a1  a2 = a2  w1 = w1  w2 = w2
  NoWorker = NoWorker
  NoKey = NoKey
  Devices <- MCOneDevice
  Attrs <- MCAttrs
  Workers <- MCWorkers
  Permits = 2
  Tries = 1
  WriteWaits = 2
  MaxTx = 3
  MaxBus = 1
  MaxCopies = 1
  MaxItems = 2
INVARIANTS TableMatchesWorkers PermitsConserved
PROPERTIES ImplementsService
SYMMETRY MCSymmetry
CHECK_DEADLOCK FALSE
