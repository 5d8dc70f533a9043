\* What a read hands out, with the same instance as CanDevice.cfg.
SPECIFICATION Spec
CONSTANTS
  d1 = d1  d2 = d2  a1 = a1  a2 = a2  w1 = w1  w2 = w2
  NoWorker = NoWorker
  NoKey = NoKey
  Devices <- MCOneDevice
  Attrs <- MCAttrs
  Workers <- MCWorkers
  Permits = 2
  Tries = 1
  WriteWaits = 2
  MaxTx = 3
  MaxBus = 1
  MaxCopies = 1
  MaxItems = 2
INVARIANT ReadAnswersItsAttribute
SYMMETRY MCSymmetry
CHECK_DEADLOCK FALSE
