SPECIFICATION FairSpec
CONSTANTS
    Ops <- MCOps
    Scripts <- MCScripts
    ExitCodes = {0, 1, 2, Killed}
    Killed = Killed
    Running = Running
    NoChild = NoChild
    NCharsets = 2
    MaxCommands = 3
INVARIANTS
    StickyCommandsRunUnlessCut
PROPERTIES
    StopHonoured
    Finishes
