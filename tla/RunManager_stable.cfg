SPECIFICATION Spec
CONSTANTS
  Caller = {c1}
  Worker = {w1}
  Run = {r1}
  Key = {}
  Degraded = {}
  OldRun = {}
  QueueLimit = 1
  HubMayFail = FALSE
  Calls = {"start", "cancel", "await"}
  None = None
PROPERTIES
  TerminalIsStable
