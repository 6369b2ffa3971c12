SPECIFICATION Spec
CONSTANTS
  x = x
  y = y
  w1 = w1
  w2 = w2
  Writers = {w1, w2}
  Readers = {r1}
  Bodies = {x, y}
  MaxEvents = 2
  MaxLosses = 1
  None = None
  Fragment = Fragment
  Finish = Finish
SYMMETRY MCSymmetry
INVARIANTS AcceptedIsKept FinishedIsComplete ReadIsComplete
PROPERTIES KeepsLog
