SPECIFICATION Spec
CONSTANTS
  Caller = {c1, c2}
  Worker = {w1}
  Run = {r1, r2, o1}
  Key = {k1, kd}
  Degraded = {kd}
  OldRun = {o1}
  QueueLimit = 1
  HubMayFail = FALSE
  Calls = {"start"}
  None = None
SYMMETRY Symmetry
INVARIANTS
  
  KeyLeadsToManagedRun
PROPERTIES
  ImplementsLedger
