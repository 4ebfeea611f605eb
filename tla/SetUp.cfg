SPECIFICATION MCSpec
CONSTANTS
    a = a
    b = b
    c = c
    old = old
    Proc = {a, b, c}
    Data <- MCData
    New <- MCNew
    Mode = {rw, private, open}
    Default = open
    Private = private
    Part = Part
    Absent = Absent
    NoFile = NoFile
    Word = {"w1", "w2"}
    UserHook = {"lint"}
    Documents <- FewTexts
    Settings <- SomeSettings
    Registrations <- AllScopes
    Editable = {}
    MaxEdits = 2
    MaxRuns = 3
    MaxLen = 9
CHECK_DEADLOCK FALSE
INVARIANT TextInv
INVARIANT UserHooksKept
PROPERTY IsRegister
PROPERTY RunTwice
 
