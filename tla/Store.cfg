CONSTANTS
  p1 = p1
  p2 = p2
  f1 = f1
  f2 = f2
  small = small
  large = large
  Proc = {p1, p2}
  File = {f1}
  Content = {small, large}
  Size <- MCSize
  PathRank <- MCPathRank1
  MaxFileBytes = 1
  MaxAge = 0
  MaxBytes = 1
  Ops = {"record", "restore", "get", "gc"}
  MaxOps = 4
  MaxClock = 2
  ClockMayStepBack = TRUE
  Absent = Absent
  NoHash = NoHash
  NoProc = NoProc
SPECIFICATION Spec
SYMMETRY MCSymmetry
INVARIANT RecordCaptures
INVARIANT SafeguardFirst
INVARIANT LockedGetFinds
INVARIANT CollectionIsExact
INVARIANT ObjectsBacked
PROPERTY ImplementsHistory
