SPECIFICATION FairSpec
CONSTANTS
  NumSteps = 2
  Capacity = 1
  Platforms = {TRUE, FALSE}
  MaxBackground = 2
INVARIANTS EventsTellTheRun OneStepAfterCancel NothingLeftRunning
PROPERTIES KeepsPromise RunEnds
CHECK_DEADLOCK FALSE
