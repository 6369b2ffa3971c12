SPECIFICATION ConsoleSpec
CONSTANTS
  Procs = {p1, p2}
  Readers = {r1}
  x = x
  y = y
  Paths = {x, y}
  Offered <- MCOffered
  MaxAttempts = 1
  None = None
INVARIANTS CompletionIsTrue ExitIsHonest OutputsAreKept ViewIsTrue
PROPERTIES KeepsRegister EveryVerifyEnds
