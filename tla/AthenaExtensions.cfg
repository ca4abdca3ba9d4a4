SPECIFICATION ExtensionsSpec
CONSTANTS
    Files = {f1, f2}
    Names = {n1, n2}
    None = None
    MaxRefs = 2
    MaxRequests = 2
    Selectable <- MCSelectable
    Preferences <- MCPreferences
    Offers <- MCOffers
    MaxNested = 1
    MaxMenus = 2
    Directories <- MCDirectories
    Shown = {1, 2}
    Emblems = {"new", "web"}
    MaxPages = 2
SYMMETRY Symmetry
INVARIANTS
    TwoWayUnlessMissed EmblemsCurrentUnless MenusDoAsTheySayUnless
    PythonSafeUnless PythonAnswersUnless
CHECK_DEADLOCK FALSE
