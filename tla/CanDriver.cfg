\* A sender that pushes faster than the bus sends, two mailboxes (3 in the cell), two mails
\* (36 in the code), errors on the bus while a frame is sent or received.
SPECIFICATION FairSpec
CONSTANTS
  s1 = s1
  Poller = Poller
  NoThread = NoThread
  Senders <- MCSenders
  TxMails = 2
  RxMails = 1
  Mailboxes = {0, 1}
  FifoDepth = 1
  SemMax = 2
  MaxFrames = 4
  MaxArrivals = 2
  MaxErrors = 1
INVARIANTS OneCopyUnlessThrown PoolMatchesQueue ReceptionArmed BusyMeansInterrupt
PROPERTY QueueDrains
CHECK_DEADLOCK FALSE
