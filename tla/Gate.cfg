SPECIFICATION Spec
CONSTANTS
    c1 = c1  c2 = c2  long = long
    Content = {c1, c2, long}
    Size <- ThreeSizes
    Gone = Gone
    None = None
    Grains = {1, 2}
    Lags = {0}
    HasCtimes = {TRUE, FALSE}
    DefaultSlop = 3
    Debounce = 0
    CaptureTicks = 2
    KeepsMtime = {"idle"}
    FirstTick = 3
    LastTick = 9
    MaxWrites = 3
CHECK_DEADLOCK FALSE
INVARIANT QuietIsRecorded
PROPERTY NeverAvoidsACapture
