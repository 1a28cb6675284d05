SPECIFICATION FairSpec
CONSTANTS
  sA = sA sB = sB a1 = a1 a2 = a2 b1 = b1
  Server = {sA, sB}
  Worker = {a1, a2, b1}
  Home <- ByLetter
  Remover = {sB}
  MaxRuns = 3
  MaxFaults = 1
INVARIANTS  RootIsFirst TurnsCountUp
PROPERTIES FollowUpsEnd
CHECK_DEADLOCK FALSE
