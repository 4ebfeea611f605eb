CONSTANTS
  p1 = p1
  p2 = p2
  f1 = f1
  f2 = f2
  small = small
  large = large
  Proc = {p1, p2}
  File = {f1}
  Content = {small, large}
  Size <- MCSize
  PathRank <- MCPathRank1
  MaxFileBytes = 2
  MaxAge = 0
  MaxBytes = 1
  Ops = {"record", "restore", "gc"}
  MaxOps = 4
  MaxClock = 3
  ClockMayStepBack = FALSE
  Absent = Absent
  NoHash = NoHash
  NoProc = NoProc
SPECIFICATION Spec
SYMMETRY MCSymmetry
INVARIANTS
  RestoreHasSafeguard
