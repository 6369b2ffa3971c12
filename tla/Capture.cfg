SPECIFICATION FairSpec
CONSTANTS
  NumPaths = 2
  a = a
  Contents = {a}
  Workspaces <- MCWorkspaces
  Absent = Absent
  RawCapacity = 2
  ChangeCapacity = 1
  MaxEvents = 5
  MaxEdits = 2
  None = None
INVARIANTS PublishedIsWhole EveryChangeIsNamed
PROPERTIES CaptureEnds
CHECK_DEADLOCK FALSE
