--------------------------- MODULE MCTaskService ----------------------------
(* TaskService for TLC: one run over several instances, which differ in    *)
(* what may happen besides streams that end.  A behaviour keeps the        *)
(* instance it starts with, so the state spaces add up.  The extended      *)
(* module is the instance of the configuration, where waits time out and   *)
(* everything the program does is fair; a task below a task in all of them *)
(* but Resumes, where the nesting limit leaves one task, and the user who  *)
(* stops and resumes it.                                                   *)
EXTENDS TaskService, TLC

CONSTANTS main, a, b, c, Scenarios

\* a is created by the user's workspace, b by a, and c, too
Chain == a :> main @@ b :> a
Fork == a :> main @@ b :> a @@ c :> a

VARIABLES
    scenario,
    stranded    \* history variable: the calls that waited for a task when it was
                \* set back to interrupted, since its resumption had failed

Faults == INSTANCE TaskService WITH Features <- {"error", "crash"}
Failures == INSTANCE TaskService WITH Features <- {"error", "crash", "fail", "patch"}, MaxRuns <- 1
Refusals == INSTANCE TaskService WITH Features <- {"error", "fail"},
                MaxParallel <- 2, MaxRuns <- 2, MaxNudges <- 0
Breaks == INSTANCE TaskService WITH Features <- {"terminate", "fail", "error"}, MaxRuns <- 1
Stops == INSTANCE TaskService WITH Features <- {"stop", "user"}, MaxRuns <- 1, Users <- {main}
Resumes == INSTANCE TaskService WITH Features <- {"stop", "user", "fail"}, Users <- {a}, MaxDepth <- 1

\* the bound of the instance Refusals: the files of reports are written
Written == \A t \in Tasks : handler[t].at = "persist" /\ handler'[t].at # "persist" => t \in artifact'

MCInit ==
    /\ scenario \in Scenarios /\ stranded = {}
    /\ Init

SetBack(t) == t \in resuming \ resuming' /\ status[t] = "running" /\ status'[t] = "interrupted"

MCNext ==
    /\ UNCHANGED scenario
    /\ \/ scenario = "waits" /\ Next
       \/ scenario = "faults" /\ Faults!Next
       \/ scenario = "failures" /\ Failures!Next
       \/ scenario = "refusals" /\ Refusals!Next /\ Written
       \/ scenario = "breaks" /\ Breaks!Next
       \/ scenario = "stops" /\ Stops!Next
       \/ scenario = "resumes" /\ Resumes!Next
    /\ stranded' = stranded \cup UNION {WaitsFor(t) : t \in {u \in Tasks : SetBack(u)}}

\* what the program does by itself is fair: promises settle, timers fire, and
\* streams end
AWaits(A) == scenario = "waits" /\ A
MCFairness ==
    /\ WF_vars(AWaits(MutexStep)) /\ WF_vars(AWaits(RootStep))
    /\ \A t \in Tasks : WF_vars(AWaits(HandlerStep(t)))
    /\ \A v \in Waits : WF_vars(AWaits(WaitRead(v))) /\ WF_vars(AWaits(WaitTimeout(v)))
    /\ \A w \in Workspaces : WF_vars(AWaits(StreamEnds(w)))

MCSpec == MCInit /\ [][MCNext]_<<vars, scenario, stranded>> /\ MCFairness
-----------------------------------------------------------------------------
(* A wait without a timeout waits for a queued task, unless the task is    *)
(* terminated meanwhile.                                                   *)
UntimedWaitForTheQueue ==
    scenario # "breaks" => UntimedAreQueued

(* Who waits for a task that has ended for good has been told, whatever    *)
(* streams, restarts and file operations fail, if nobody stops or          *)
(* terminates it - unless the call waited while the task was marked        *)
(* running for a resumption that failed: the mark is taken back "to        *)
(* preserve fail-fast interrupted semantics", but the call is not told.    *)
NobodyIsForgotten ==
    scenario \in {"waits", "faults", "failures", "refusals"} =>
        \A t \in Tasks : Ended(t) => WaitsFor(t) \subseteq stranded

(* A running task that waits for a task it created gets an answer: neither *)
(* the limit nor the mutex nor the queue keeps both waiting for ever.      *)
RunningWaitsEnd == \A v \in Waits : AWaits(RunningWait(v)) ~> wait[v].at = "over"

(* "This prevents deadlocks where a task spawns a nested task in the       *)
(* foreground while maxParallelAgentTasks is low": a queued task somebody  *)
(* waits for is started.                                                   *)
AwaitedTasksStart == \A v \in Waits : AWaits(wait[v].at = "unstarted") ~> wait[v].at # "unstarted"

(* Stream ends are serialised "to avoid races when finalizing reported     *)
(* tasks and cleanup state transitions": what a cleanup removes is on disk *)
(* and has been delivered.                                                 *)
FinalizedBeforeRemoved ==
    [][\A t \in DOMAIN status :
          status[t] = "reported" /\ status'[t] = "removed" /\ mutex.kind # "terminate"
          => t \in heard /\ t \in artifact]_vars
=============================================================================
