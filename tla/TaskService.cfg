SPECIFICATION MCSpec
CONSTANTS
    main = main a = a b = b c = c Scenarios = {"waits", "faults", "failures", "refusals", "breaks", "stops", "resumes"}
    Root = main Tasks = {a, b} Waits = {v1}
    ParentOf <- Chain
    MaxParallel = 1 MaxDepth = 2 MaxNudges = 1 MaxRuns = 3
    Users = {} Features = {"timeout"}
INVARIANTS TypeOK NoOrphan UntimedWaitForTheQueue NobodyIsForgotten
PROPERTIES ReportsAreFinal RunningWaitsEnd
CHECK_DEADLOCK FALSE
