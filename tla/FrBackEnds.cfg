SPECIFICATION BackEndSpec
CONSTANTS
    a = a
    b = b
    Files = {a, b}
    BackEnds <- AllBackEnds
    Destinations <- Occupied
    Ops <- AllOps
    Scripts <- NoScripts
    ExitCodes = {0, 1, 3, Killed}
    Killed = Killed
    Running = Running
    NoChild = NoChild
    NCharsets = 1
INVARIANTS
    ReplacesOnlyWhatWasAskedUnless
    SuccessMeansDoneUnless
\* One operation is looked at.
CHECK_DEADLOCK FALSE
