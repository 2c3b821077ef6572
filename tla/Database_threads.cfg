CONSTANTS
  server = server
  tdb = tdb
  Procs = {server}
  Threads = {t1, t2}
  NoRec = NoRec
  NoName = NoName
  NoInfo = NoInfo
  MaxSlot = 5
  MaxCalls = 2
  MaxCrashes = 1
  Faults = {}
  ProcOf <- OneProcess
  UNames <- Names
  Infos <- Details
  Ops <- CoreOps
  InitFiles <- SomeFiles
SPECIFICATION Spec
SYMMETRY Symmetry
INVARIANTS TypeOK OneIdentityPerUid NewIdIsUnused HistoryHasNoGaps
PROPERTY JournalOnlyGrows
