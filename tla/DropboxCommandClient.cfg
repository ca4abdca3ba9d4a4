SPECIFICATION FairSpec
CONSTANTS
    FileRequests = {f1}
    GeneralRequests = {g1}
    Directories = {f1}
    Reset = Reset
    None = None
    Replies <- MCReplies
    MaxArgs = 2
    MaxAttempts = 2
    MaxIdle = 2
    MaxResets = 1
INVARIANTS
    AnswersMatchUnlessSwallowed
PROPERTIES
    IsRequestService
    EveryRequestAnswered
