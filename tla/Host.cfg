\* Stream: three frames, two buffers, one connection lost and one made again. Line: a buffer of five
\* bytes (0x400), three requests; three messages of two threads. Settings: two changes, one
\* power failure, three boots, 56 bytes (0x4000). Files: words of three bytes (4), chunks of
\* six (0x100), files of two chunks, of a chunk and part of a word, and of a chunk and a byte;
\* two slots (4), two uploads, one update, a late answer, a loss and a restart.
SPECIFICATION HostSpec
CONSTANTS
  Payloads <- MCPayloads
  RX_BUFFER_NUM = 2
  MaxFrames = 3
  MaxConnections = 2
  bufferSize = 5
  Requests <- MCRequests
  MaxRequestsIn = 3
  LineThreads = {"comm", "update"}
  MaxMessages = 3
  NewSettings = {"a"}
  USER_SIZE = 56
  MacAddresses <- MCMacAddresses
  MaxSettings = 2
  MaxPowerLosses = 1
  MaxBoots = 3
  Files = {1, 2, 3}
  FileSize <- MCFileSize
  BlankSize = 24
  SlotNum = 2
  WORD = 3
  CHUNK = 6
  HEADER = 6
  LEAST = 1
  MaxUploads = 2
  MaxUpdates = 1
  MaxLates = 1
  MaxLosses = 1
  MaxRestarts = 1
INVARIANTS CommandsInStep LineHanded SentWhole
INVARIANTS SettingsKept IdentityLeft ReadyIsWhole PassMeansFile CleanUploads UpdateReadsFile
CHECK_DEADLOCK FALSE
