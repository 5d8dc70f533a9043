\* CAN: three entries, two of them segmented, two slots (29 in the code), a frame lost by the
\* controller, an error on the bus, a heartbeat. Lock: 5 ms to wait and a period of 3 ms (500
\* and 100 in the code). Data and names: three places (10), two cards or supplies, two names,
\* one power cut. Four notices.
SPECIFICATION UnitSpec
CONSTANTS
  Slots = {3, 4}
  Segments <- MCSegments
  MaxBeats = 1
  MaxErrors = 1
  MaxLosses = 1
  LOCK_WAIT_MS = 5
  LOCK_IDLE = 9
  Period = 3
  SUPPLIES_NUM = 3
  Values = {0, 1, 2}
  Torn = Torn
  MaxRequests = 2
  MaxCards = 2
  MaxPowerCuts = 1
  Names = {"a", "b"}
  MaxChanges = 4
  MaxPowerFails = 1
  MaxNotices = 4
INVARIANTS WholeEntries OnlyBeatsInterfere OnTimeBounded OpenMeansOff
INVARIANTS StoreKept NamesShown OneSectorHolds NoticeShown
PROPERTIES TransmitReturns
CHECK_DEADLOCK FALSE
