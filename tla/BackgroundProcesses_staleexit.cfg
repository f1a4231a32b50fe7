SPECIFICATION ProcessesSpec
CONSTANTS
    Proc = {1, 2}
    KillsFail = FALSE
INVARIANT ExitedHasEnded
CHECK_DEADLOCK FALSE
