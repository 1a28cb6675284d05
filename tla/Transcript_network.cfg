SPECIFICATION Spec
CONSTANTS
  hA = hA
  hB = hB
  s1 = s1
  a1 = a1
  a2 = a2
  b1 = b1
  b2 = b2
  Hub = {hA, hB}
  Session = {s1}
  Reader = {b1}
  HubOf <- ByLetter
  OwnerOf <- AllOfA
  Dash = hB
  Ticks = TRUE
  Removers = {}
  Mortal = {hA}
  MaxFaults = 1
  MaxEvents = 3
  None = None
INVARIANTS
  TakenOnce
  

  
