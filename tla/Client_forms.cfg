\* One client at the terminal, two choices of the menu after the login.
CONSTANTS
  MenuLines   <- MCMenuLines
  NumberLines <- MCNumberLines
  TextLines   <- MCTextLines
  LineMax     = 4
  Data        <- MCData
  MaxItems    = 2
  MaxRounds   = 2
SPECIFICATION Spec
INVARIANTS
  SentAsMeant
  ReportIsTrue
  ListsShowWhatWasSent
  EverythingIsPrinted
  LinesMeet
PROPERTIES
  LeavesForAReason
  EveryRoundEnds
