\* Requests: two threads and six frames, two mailboxes (3 in the cell), two mails (36 in the
\* code), an error on the bus. Reports: two cards, one report on the way.
SPECIFICATION TrafficSpec
CONSTANTS
  s1 = s1
  s2 = s2
  Poller = Poller
  NoThread = NoThread
  NoEntry = NoEntry
  Senders <- MCSenders
  Plan <- MCPlan
  TxMails = 2
  RxMails = 1
  Mailboxes = {0, 1}
  FifoDepth = 1
  SemMax = 1
  MaxFrames = 6
  MaxArrivals = 0
  MaxErrors = 1
  Cards = {a, b}
  NoCard = NoCard
  NoId = NoId
  MaxWay = 1
INVARIANTS HandedOver ServerKnowsCard
CHECK_DEADLOCK FALSE
