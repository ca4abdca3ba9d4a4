SPECIFICATION TarSpec
CONSTANTS
    Ops <- TarOps
    Scripts <- NoScripts
    ExitCodes = {0, 1, 2, Killed}
    Killed = Killed
    Running = Running
    NoChild = NoChild
    Absent = Absent
    Formats = {"gzip", "compress", "other"}
    NCharsets = 3
INVARIANTS
    RestoresNameUnless
    SuccessMeansDone
\* Once the archive is torn or removed nothing more is asked of it.
CHECK_DEADLOCK FALSE
