SPECIFICATION MCSpec
CONSTANTS
    MaxMsg = 5
    MaxParts = 2
    Features = {"abort", "compact", "clear", "truncate", "edit"}
    Start = {s1, s2, s3}
    Stops = {}
    NoStream = NoStream
    MayFail = TRUE
    MayOverlap = TRUE
    Reader = {"bash_output", "task_await"}
    MaxBytes = 3
    Proc = {1, 2}
    KillsFail = TRUE
INVARIANTS TypesHold RowsInOrder CounterAhead ContentStays RemovedStaysRemoved
INVARIANTS OneAtATime CanBeFound AbortIsLast
INVARIANTS ToolsStayOpen NoServerLost OutputOnceInOrder RunningIsKnown
INVARIANTS StopsHold OptOutHolds RetriesGoOn
PROPERTIES UserRowsStay BoundariesStay
CHECK_DEADLOCK FALSE
