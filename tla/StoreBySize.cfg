CONSTANTS
  p1 = p1
  p2 = p2
  f1 = f1
  f2 = f2
  small = small
  large = large
  Proc = {p1, p2}
  File = {f1, f2}
  Content = {small, large}
  Size <- MCSize
  PathRank <- MCPathRank
  MaxFileBytes = 2
  MaxAge = 1
  MaxBytes = 1
  Ops = {"record", "restore", "gc-by-size"}
  MaxOps = 4
  MaxClock = 2
  ClockMayStepBack = FALSE
  Absent = Absent
  NoHash = NoHash
  NoProc = NoProc
SPECIFICATION Spec
SYMMETRY MCSymmetry
INVARIANT RestoreHasSafeguard
INVARIANT BudgetOrFloor
 
PROPERTY NewestSurvives
