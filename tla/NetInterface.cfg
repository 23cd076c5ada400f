CONSTANTS
  TUN_QUEUES = 2
  Backlog = 1
  Threads = {t1, t2}
  Requests <- GrowAndExit
  MacAddr <- MCMacAddr
  Content <- MCContent
  ZeroMac = "00:00:00:00:00:00"
  ZeroContent = "zeros"
  NoRequest = NoRequest
  NoThread = NoThread
  NULL = NULL
SPECIFICATION FairSpec
INVARIANTS
  TypeOK
  BusyIsHeld
  AvailableNeverFails
  FirstQueueHasReader
  EnsuredSize
  SizeIsReal
  IntactUnlessShared
PROPERTY SendReturns
