SPECIFICATION FairSpec
CONSTANTS
  Caller = {c1, c2}
  Worker = {w1}
  Run = {r1}
  Key = {}
  Degraded = {}
  OldRun = {}
  QueueLimit = 1
  HubMayFail = TRUE
  Calls = {"start", "cancel", "await"}
  None = None
INVARIANTS
  Inv
  NoLostWakeup
PROPERTIES
  
  WaiterReturns
  CancelStopsAgy
