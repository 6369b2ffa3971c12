SPECIFICATION FairSpec
CONSTANTS
  NumCases = 1
  MaxAttempts = 2
  d1 = d1
  d2 = d2
  Digests <- OneDigest
  Package = d1
  BaseInput <- MCBaseInput
  None = None
  Damaged = Damaged
  Procs = {p1, p2}
  Readers = {r1}
  MaxTampers = 0
INVARIANTS NoFalseAlarm InspectionIsTrue
PROPERTIES EveryCommandEnds
