SPECIFICATION ConsoleSpec
CONSTANTS
  Procs = {p1}
  Readers = {r1}
  x = x
  y = y
  Paths = {x, y}
  Offered <- MCOffered
  MaxAttempts = 1
  None = None
PROPERTIES InterruptedIsInspectable
