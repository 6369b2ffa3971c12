SPECIFICATION Spec
CONSTANTS
  Absent = 0
  Name <- MCName
  Written <- MCWritten
  Contents = {1, 2}
  CommandLines <- MCCommandLines
  Dangerous <- MCDangerous
  Malformed = {}
  Drives = {"C:"}
  Prefixed = {"C:x"}
  Colons = {"C:", "C:x"}
  Backslashed <- MCBackslashed
  Controlled = {"bell"}
  Placeholders <- MCPlaceholders
  Works <- MCWorks
  HandMoves <- MCHandMoves
  MayFail = {2}
  MaxEdits = 2
INVARIANTS TapeTellsTheFiles EveryEventIsCited OnlyTheseFail OutputsAreTheRecorded LintMeansAllowed ProposalsStayInside
CHECK_DEADLOCK FALSE
