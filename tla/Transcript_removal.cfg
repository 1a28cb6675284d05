SPECIFICATION Spec
CONSTANTS
  hA = hA
  hB = hB
  s1 = s1
  a1 = a1
  a2 = a2
  b1 = b1
  b2 = b2
  Hub = {hA}
  Session = {s1}
  Reader = {a1, a2}
  HubOf <- ByLetter
  OwnerOf <- AllOfA
  Dash = None
  Ticks = TRUE
  Removers = {a2}
  Mortal = {}
  MaxFaults = 0
  MaxEvents = 5
  None = None
INVARIANTS
  TypeOK
  
PROPERTIES
  SettlesOnlyTheDead
