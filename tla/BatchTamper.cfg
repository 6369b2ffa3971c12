SPECIFICATION Spec
CONSTANTS
  NumCases = 1
  MaxAttempts = 3
  d1 = d1
  d2 = d2
  Digests <- TwoDigests
  Package = d1
  BaseInput <- MCBaseInput
  None = None
  Damaged = Damaged
  Procs = {p1}
  Readers = {}
  MaxTampers = 1
INVARIANTS RetriesOnlyFailures RecordedIsReal CompleteIsEarned NothingWrittenOff InputsAreFrozen
PROPERTIES SavedIsFinal
