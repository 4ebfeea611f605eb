SPECIFICATION MCSpec
CONSTANTS
  File = {f1, f2}
  Content = {a, b}
  PathRank <- MCPathRank
  Dir <- MCTree
  Instant = {2}
  Front = {"cli"}
  Calls = {"record", "restore", "restore-at", "undo"}
  MayFail = TRUE
  CallsApart = {TRUE}
  ClockMayStepBack = FALSE
  MaxCalls = 4
  MaxEdits = 1
  MaxClock = 6
  Absent = Absent
  NoWindow = NoWindow
  Hash = {"h1", "h2"}
  ShortCut = {1, 6, 7, 13}
  MaxAppends = 3
  MaxTorn = 1
  LogClock = 2
  Far = 1000
  f1 = f1
  f2 = f2
  a = a
  b = b
SYMMETRY MCSymmetry
CHECK_DEADLOCK FALSE
INVARIANT UndoIsExact
INVARIANT BatchRewinds
INVARIANT WindowInv
INVARIANT LogFileInv
INVARIANT TimelineInv
