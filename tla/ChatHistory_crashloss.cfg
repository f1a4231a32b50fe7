SPECIFICATION Spec
CONSTANTS
    MaxMsg = 2
    MaxParts = 2
    Features = {"crash"}
INVARIANT NoContentLost
CHECK_DEADLOCK FALSE
