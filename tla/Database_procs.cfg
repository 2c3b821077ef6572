CONSTANTS
  server = server
  tdb = tdb
  Procs = {server, tdb}
  Threads = {t1, t2}
  NoRec = NoRec
  NoName = NoName
  NoInfo = NoInfo
  MaxSlot = 5
  MaxCalls = 2
  MaxCrashes = 0
  Faults = {}
  ProcOf <- OneThreadEach
  UNames <- Names
  Infos <- Details
  Ops <- ProcOps
  InitFiles <- SomeFiles
SPECIFICATION FairSpec
INVARIANT OneShiftAtATime
PROPERTIES ScanSeesFrozenFile EveryCallReturns
