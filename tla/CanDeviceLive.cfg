\* One permit, so that calls queue for it, and retries; no symmetry, for liveness.
SPECIFICATION FairSpec
CONSTANTS
  d1 = d1  d2 = d2  a1 = a1  a2 = a2  w1 = w1  w2 = w2
  NoWorker = NoWorker
  NoKey = NoKey
  Devices <- MCOneDevice
  Attrs <- MCAttrs
  Workers <- MCWorkers
  Permits = 1
  Tries = 2
  WriteWaits = 2
  MaxTx = 2
  MaxBus = 1
  MaxCopies = 3
  MaxItems = 2
INVARIANT OkMeansExecuted
PROPERTY EveryCallAnswered
CHECK_DEADLOCK FALSE
