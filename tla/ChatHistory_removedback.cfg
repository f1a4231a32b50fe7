SPECIFICATION Spec
CONSTANTS
    MaxMsg = 4
    MaxParts = 2
    Features = {"error", "clear"}
INVARIANT RemovedStaysRemoved
CHECK_DEADLOCK FALSE
