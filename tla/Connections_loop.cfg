\* Two connections: descriptors are used again, and run out once.
CONSTANTS
  Conns       = {c1, c2}
  Threads     <- MCThreads
  MaxFds      = 2
  Backlog     = 1
  MaxFailures = 1
  Nobody      = Nobody
SPECIFICATION Spec
INVARIANTS
  ConnectionsTypeOK
  OneThreadEach
  OnlyOverrunsStrand
  AnswersGoToTheAsker
  ActsOnRequest
PROPERTIES
  GoesDownForAReason
  EveryoneIsServed
