SPECIFICATION FairSpec
CONSTANTS
  hA = hA hB = hB x = x a1 = a1 b1 = b1 b2 = b2
  Nobody = Nobody
  Hub = {hA, hB}
  Foreign = {x}
  Thread = {a1, b1}
  Host <- ByLetter
  Pid <- Pids
  MaxFaults = 1
PROPERTIES ForeignSpared WellUndisturbed LiveRecordKept 
CHECK_DEADLOCK FALSE
