SPECIFICATION Spec
CONSTANTS
    MaxMsg = 2
    MaxParts = 2
    Features = {"fork"}
INVARIANT FinalizedOnce
CHECK_DEADLOCK FALSE
