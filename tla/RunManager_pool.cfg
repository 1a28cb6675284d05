SPECIFICATION Spec
CONSTANTS
  Caller = {c1}
  Worker = {w1, w2}
  Run = {r1, r2}
  Key = {}
  Degraded = {}
  OldRun = {}
  QueueLimit = 1
  HubMayFail = FALSE
  Calls = {"start", "cancel", "shutdown"}
  None = None
SYMMETRY Symmetry
\* After Exit the threads have stopped.
CHECK_DEADLOCK FALSE
INVARIANTS
  TypeOK
  ConcurrencyLimit
  KillIsReported
  ResultOutlivesEviction
  RestartFindsItSettled
  ShutdownReachesEveryRun
PROPERTIES
  SettledOnce
