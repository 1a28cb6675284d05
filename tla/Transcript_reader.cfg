SPECIFICATION Spec
CONSTANTS
  hA = hA
  hB = hB
  s1 = s1
  a1 = a1
  a2 = a2
  b1 = b1
  b2 = b2
  Hub = {hA, hB}
  Session = {s1}
  Reader = {a1, b1, b2}
  HubOf <- ByLetter
  OwnerOf <- AllOfA
  Dash = None
  Ticks = FALSE
  Removers = {}
  Mortal = {hA, hB}
  MaxFaults = 1
  MaxEvents = 4
  None = None
INVARIANTS
  FollowsLog

  
