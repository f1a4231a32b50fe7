SPECIFICATION MCSpec
CONSTANTS
    main = main a = a b = b c = c Scenarios = {"waits"}
    Root = main Tasks = {a, b} Waits = {v1}
    ParentOf <- Chain
    MaxParallel = 1 MaxDepth = 2 MaxNudges = 1 MaxRuns = 2
    Users = {} Features = {"timeout"}
PROPERTY FinalizedBeforeRemoved
CHECK_DEADLOCK FALSE
