SPECIFICATION SchedSpec
CONSTANTS
  Canceller = {c1, c2}
  None = None
INVARIANTS
  TypeOK
  AnswerIsEarned
  KilledIsNotUsed
  OneAgyAtATime
PROPERTIES
  CancelEnds
  Settles
