CONSTANTS
  server = server
  tdb = tdb
  Procs = {server}
  Threads = {t1, t2}
  NoRec = NoRec
  NoName = NoName
  NoInfo = NoInfo
  MaxSlot = 5
  MaxCalls = 2
  MaxCrashes = 0
  Faults = {}
  ProcOf <- OneProcess
  UNames <- Names
  Infos <- Details
  Ops <- EveryCase
  InitFiles <- SomeFiles
SYMMETRY Symmetry
SPECIFICATION ApartSpec
INVARIANT UsersAreConsistent
PROPERTIES ImplementsAtomicStore UpdateKeepsNames
