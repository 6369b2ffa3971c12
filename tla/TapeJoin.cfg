SPECIFICATION Spec
CONSTANTS
  Writers = {w1}
  Readers = {}
  Bodies = {x}
  MaxEvents = 2
  MaxLosses = 0
  None = None
  Fragment = Fragment
  Finish = Finish
INVARIANTS AcceptedIsReadable
