SPECIFICATION MCSpec
CONSTANTS
    main = main a = a b = b c = c Scenarios = {"waits"}
    Root = main Tasks = {a, b, c} Waits = {v1}
    ParentOf <- Fork
    MaxParallel = 2 MaxDepth = 2 MaxNudges = 1 MaxRuns = 2
    Users = {} Features = {}
INVARIANT ReportsLast
CHECK_DEADLOCK FALSE
