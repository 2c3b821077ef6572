CONSTANTS
  server = server
  tdb = tdb
  Procs = {server}
  Threads = {t1}
  NoRec = NoRec
  NoName = NoName
  NoInfo = NoInfo
  MaxSlot = 5
  MaxCalls = 3
  MaxCrashes = 2
  Faults = {"open", "write"}
  ProcOf <- OneProcess
  UNames <- Names
  Infos <- Details
  Ops <- EveryCase
  InitFiles <- SomeFiles
SPECIFICATION Spec
INVARIANT DoublesOnlyByCrash
PROPERTY OnlyTargetsVanish
