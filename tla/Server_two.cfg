CONSTANTS
  server = server
  Procs = {server}
  Threads = {t1, t2}
  NoRec = NoRec
  NoName = NoName
  NoInfo <- NoDetails
  MaxSlot = 5
  MaxCalls = 20
  MaxCrashes = 0
  MaxSessions = 4
  MaxRequests = 2
  Faults = {}
  ProcOf <- OneProcess
  UNames <- Names
  Infos <- Details
  Ops = {}
  InitFiles <- Banks
  Requests <- Contended
SPECIFICATION FairServerSpec
INVARIANTS SessionNamesItsUser BalanceNeverNegative SuccessIsLogged
           JournalNamesOwner DetailsAreComplete
PROPERTY EveryRequestIsAnswered
