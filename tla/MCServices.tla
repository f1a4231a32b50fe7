----------------------------- MODULE MCServices -----------------------------
(* ChatHistory, the larger instance of StreamManager and the smaller       *)
(* services for TLC, in one run, for safety.  A behaviour keeps the        *)
(* scenario it starts with, and only the variables of that scenario move,  *)
(* so the state spaces add up instead of multiplying.  ChatHistory has     *)
(* four scenarios that differ in their features; the configuration gives   *)
(* those of "removals", and the constants of the other modules extended.   *)
EXTENDS ChatHistory, StreamManager, ProcessOutput, BackgroundProcesses

VARIABLES
    scenario,
    enabled, entries, current, name, dead, closed, leases, idle, call, closing, crossed, troubles,
    file, last, answered, memory, phase, answering, stream, jobs, begun, sent, failed, acts, raced,
    userStopped, missedStop, optedOut, owed

mcpVars == <<enabled, entries, current, name, dead, closed, leases, idle, call, closing, crossed,
             troubles>>
retryVars == <<file, last, answered, memory, phase, answering, stream, jobs, begun, sent, failed,
               acts, raced, userStopped, missedStop, optedOut, owed>>

Turns == INSTANCE ChatHistory WITH MaxMsg <- 4, MaxParts <- 2,
            Features <- {"abort", "error", "compact"}
Crashes == INSTANCE ChatHistory WITH MaxMsg <- 4, MaxParts <- 2,
            Features <- {"abort", "error", "compact", "crash"}
Forks == INSTANCE ChatHistory WITH MaxMsg <- 3, MaxParts <- 2,
            Features <- {"fork", "abort", "compact"}
Mcp == INSTANCE McpServerManager WITH Turn <- 1..3, Server <- 1..2, MaxInstances <- 3,
            MaxTroubles <- 2, stopped <- closed
Messages == INSTANCE AutoRetry WITH MaxSent <- 2, MaxFailed <- 1, MaxActs <- 2,
               active <- answering
Failures == INSTANCE AutoRetry WITH MaxSent <- 1, MaxFailed <- 3, MaxActs <- 1,
               active <- answering

History == {"turns", "removals", "crashes", "forks"}
Retry == {"messages", "failures"}

\* A component that has no part in the scenario has no state.
Off == 0
McpIdle ==
    /\ enabled = Off /\ entries = Off /\ current = Off /\ name = Off /\ dead = Off
    /\ closed = Off /\ leases = Off /\ idle = Off /\ call = Off /\ closing = Off
    /\ crossed = Off /\ troubles = Off
RetryIdle ==
    /\ file = Off /\ last = Off /\ answered = Off /\ memory = Off /\ phase = Off
    /\ answering = Off /\ stream = Off /\ jobs = Off /\ begun = Off /\ sent = Off
    /\ failed = Off /\ acts = Off /\ raced = Off /\ userStopped = Off
    /\ missedStop = Off /\ optedOut = Off /\ owed = Off

MCInit ==
    /\ scenario \in History \cup {"starts", "mcp", "output", "processes"} \cup Retry
    /\ IF scenario = "turns" THEN Turns!Init
       ELSE IF scenario = "crashes" THEN Crashes!Init
       ELSE IF scenario = "forks" THEN Forks!Init
       ELSE Init
    /\ IF scenario = "mcp" THEN Mcp!Init ELSE McpIdle
    /\ StreamsInit /\ OutputInit /\ ProcessesInit
    /\ IF scenario \in Retry THEN Messages!Init ELSE RetryIdle

\* Nothing is claimed of retries once two calls used the preference file at
\* once, nor of output once a read was decoded to something else: such a
\* behaviour ends there.
MCNext ==
    /\ UNCHANGED scenario
    /\ \/ /\ \/ scenario = "turns" /\ Turns!Next
             \/ scenario = "removals" /\ Next
             \/ scenario = "crashes" /\ Crashes!Next
             \/ scenario = "forks" /\ Forks!Next
          /\ UNCHANGED <<streamVars, mcpVars, outputVars, processVars, retryVars>>
       \/ /\ scenario = "starts" /\ StreamsNext
          /\ UNCHANGED <<vars, mcpVars, outputVars, processVars, retryVars>>
       \/ /\ scenario = "mcp" /\ Mcp!Next
          /\ UNCHANGED <<vars, streamVars, outputVars, processVars, retryVars>>
       \/ /\ scenario = "output" /\ ~torn /\ OutputNext
          /\ UNCHANGED <<vars, streamVars, mcpVars, processVars, retryVars>>
       \/ /\ scenario = "processes" /\ ProcessesNext
          /\ UNCHANGED <<vars, streamVars, mcpVars, outputVars, retryVars>>
       \/ /\ scenario \in Retry /\ ~raced
          /\ \/ scenario = "messages" /\ Messages!Next
             \/ scenario = "failures" /\ Failures!Next
          /\ UNCHANGED <<vars, streamVars, mcpVars, outputVars, processVars>>

MCSpec ==
    MCInit /\ [][MCNext]_<<vars, streamVars, mcpVars, outputVars, processVars, retryVars,
                           scenario>>

-----------------------------------------------------------------------------
(* Every component has its type.  (The bound on messages, part of the      *)
(* types of the chat, is the removals' own.)                               *)
TypesHold ==
    /\ scenario = "removals" => TypeOK
    /\ scenario = "starts" => StreamsTypeOK
    /\ scenario = "mcp" => Mcp!TypeOK
    /\ scenario = "output" => OutputTypeOK
    /\ scenario = "processes" => ProcessesTypeOK
    /\ scenario = "messages" => Messages!TypeOK
    /\ scenario = "failures" => Failures!TypeOK

(* Whatever turns, restarts and removals do, the rows of chat.jsonl are    *)
(* ordered by sequence.  A fork whose commit was decided before a          *)
(* compaction can append a row below the boundary: it is left out.         *)
RowsInOrder == scenario # "forks" => SequencesIncrease

(* Content that reached the disk is there when nobody is at work; crashes  *)
(* and forks are apart.                                                    *)
ContentStays ==
    /\ scenario = "turns" => Turns!NoContentLost
    /\ scenario = "removals" => NoContentLost

(* Without a stop, whatever starts and failures overlap, one stream at a   *)
(* time runs, and the one that runs can be found (StreamManager).          *)
OneAtATime == scenario = "starts" => OneLive
CanBeFound == scenario = "starts" => Registered

(* The tools of a turn are not closed under it (McpServerManager).         *)
ToolsStayOpen == scenario = "mcp" => Mcp!ToolsStayOpen

(* No MCP server runs that the manager has lost (McpServerManager).        *)
NoServerLost == scenario = "mcp" => Mcp!NoServerLost

(* A turn the user stopped is not retried by itself (AutoRetry).           *)
StopsHold == scenario \in Retry => Messages!StopsHold

(* Whoever opted out of automatic retry gets none (AutoRetry).             *)
OptOutHolds == scenario \in Retry => Messages!OptOutHolds

(* A failed turn that may be retried is not forgotten (AutoRetry).         *)
RetriesGoOn == scenario \in Retry => Messages!RetriesGoOn
=============================================================================
