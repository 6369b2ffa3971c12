SPECIFICATION Spec
CONSTANTS
  NumCases = 2
  MaxAttempts = 1
  d1 = d1
  d2 = d2
  Digests <- OneDigest
  Package = d1
  BaseInput <- MCBaseInput
  None = None
  Damaged = Damaged
  Procs = {p1}
  Readers = {}
  MaxTampers = 0
PROPERTIES InterruptStopsTheRun
