SPECIFICATION FairSpec
CONSTANTS
    None = None
    MaxIdle = 3
    MaxQueue = 2
INVARIANTS
    EmblemsTrackedUnlessRaced
PROPERTIES
    RecoversUnlessLone
