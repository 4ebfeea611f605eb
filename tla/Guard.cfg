SPECIFICATION MCSpec
CONSTANTS
    Texts <- MCTexts
    Edits <- FilePaths
    Default <- MCDefault
    UserRules <- MCUserRules
    Store = ".salvager"
    Sinks <- MCSinks
    Nothing = Nothing
    Content = {c1, c2, c3}
    Gone = Gone
    Debounce = 1
    MaxTime = 8
SYMMETRY Contents
CHECK_DEADLOCK FALSE
INVARIANT VerdictInv
 
 
INVARIANT PointInv
