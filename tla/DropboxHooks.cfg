SPECIFICATION HooksFairSpec
CONSTANTS
    Messages <- MCMessages
    MaxArgs = 2
    MaxConnections = 2
    MaxSent = 2
INVARIANTS
    DispatchedInOrder
PROPERTIES
    Delivered
