CONSTANTS
  server = server
  Procs = {server}
  Threads = {t1}
  NoRec = NoRec
  NoName = NoName
  NoInfo <- NoDetails
  MaxSlot = 5
  MaxCalls = 20
  MaxCrashes = 0
  MaxSessions = 2
  MaxRequests = 4
  Faults = {}
  ProcOf <- OneProcess
  UNames <- Names
  Infos <- Details
  Ops = {}
  InitFiles <- Banks
  Requests <- Everything
SPECIFICATION ServerSpec
INVARIANT BooksBalance
PROPERTY RightsAreModified
