SPECIFICATION Spec
CONSTANTS
  NumCases = 2
  MaxAttempts = 2
  d1 = d1
  d2 = d2
  Digests <- OneDigest
  Package = d1
  BaseInput <- MCBaseInput
  None = None
  Damaged = Damaged
  Procs = {p1}
  Readers = {}
  MaxTampers = 0
INVARIANTS RunsOnce
PROPERTIES UnknownBlocksTheBatch KeepsPromise
