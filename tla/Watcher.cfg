SPECIFICATION SafetySpec
CONSTANTS
    top = top  outer = outer  inner = inner  f = f  g = g
    Dir = {top, outer, inner}
    File = {f, g}
    Root = top
    Parent <- Tree
    None = None
    MaxChanges = 5
    Refusable = {top, outer, inner}
    SweepFails = {"moved", "gone"}
    UnreadableDirs = {top, outer, inner}
    Unscannable = {}
    CaptureFails = FALSE
    EventsLost = FALSE
    Polling = TRUE
    AllowPartial = FALSE
    EarlierRuns = FALSE
    ScopeDir = {"root", "src", "logs", "store", "backup"}
    ScopeFile = {"a", "b", "c", "rev", "old"}
    ScopeRoot = "root"
    ScopeParent <- ScopeTree
    ScopeAbove <- TreeAbove
    Default = {"store"}
    Temp = {"backup"}
    Lists <- MCLists
    Unwatchable = {"src", "logs", "store", "backup"}
CHECK_DEADLOCK FALSE
INVARIANT WatcherInv
INVARIANT Whole
INVARIANT FilesAreRecorded
INVARIANT ApartInv
