SPECIFICATION MCFairSpec
CONSTANTS
    top = top  outer = outer  inner = inner  f = f  g = g
    Dir = {top, outer}
    File = {f, g}
    Root = top
    Parent <- Shallow
    None = None
    MaxChanges = 3
    Refusable = {outer}
    SweepFails = {}
    UnreadableDirs = {}
    Unscannable = {}
    CaptureFails = FALSE
    EventsLost = FALSE
    Polling = TRUE
    AllowPartial = FALSE
    EarlierRuns = FALSE
    ScopeDir = {"root", "src", "logs", "store", "backup"}
    ScopeFile = {"a", "b", "c", "rev", "old"}
    ScopeRoot = "root"
    ScopeParent <- ScopeTree
    ScopeAbove <- TreeAbove
    Default = {"store"}
    Temp = {"backup"}
    Lists <- MCLists
    Unwatchable = {"src", "logs", "store", "backup"}
CHECK_DEADLOCK FALSE
PROPERTY CalmSettles
PROPERTY PolledIsFollowed
