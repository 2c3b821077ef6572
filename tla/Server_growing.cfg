CONSTANTS
  server = server
  Procs = {server}
  Threads = {t1, t2}
  NoRec = NoRec
  NoName = NoName
  NoInfo <- NoDetails
  MaxSlot = 5
  MaxCalls = 20
  MaxCrashes = 1
  MaxSessions = 4
  MaxRequests = 2
  Faults = {"open", "write"}
  ProcOf <- OneProcess
  UNames <- Names
  Infos <- Details
  Ops = {}
  InitFiles <- Banks
  Requests <- Growing
SPECIFICATION ServerSpec
SYMMETRY Symmetry
INVARIANTS ListsAreFilled ScanMissesNothing StoredIffReported
PROPERTIES OthersAreLeftAlone RecordsStay
