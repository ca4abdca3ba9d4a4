SPECIFICATION ListingSpec
CONSTANTS
    BackEnds = {"sevenz", "ace", "alz", "ar", "arj", "cpio", "dpkg", "gzip", "iso", "lha",
                "lrzip", "rar", "rpm", "tar", "unstuff", "zip", "zoo"}
    Archives <- MCArchives
    Order <- MCOrder
    MaxRestarts = 2
    MaxText = 2
    Null = Null
    Now <- MCNow
    Summer <- MCSummer
    FileTimes <- MCFileTimes
INVARIANTS
    NothingMissingUnless
    CrashesOnlyOnCutLinesUnlessArj
    FoundAgainUnlessMixed
    DatedUnless
\* One archive is opened.
CHECK_DEADLOCK FALSE
