SPECIFICATION EitherSpec
CONSTANTS
  e1 = e1
  e2 = e2
  s = s
  x = x
  a = a
  b = b
  Exporters = {e1, e2}
  Scripts = {s}
  Fixtures = {x}
  Contents = {0, 1}
  Runs <- MCRuns
  StepIds <- MCStepIds
  Receipts <- MCReceipts
  MaxEdits = 1
  FileNames = {a, b}
  Bytes = {0, 1}
  MaxChanges = 3
  Missing = Missing
  Workflow = Workflow
  Absent = Absent
  None = None
SYMMETRY Commands
INVARIANTS CopiesHoldStill ReviewIsOneMoment ExportIsCurrent ReceiptVouches
CHECK_DEADLOCK FALSE
