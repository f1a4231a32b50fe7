---------------------------- MODULE MCProgress -----------------------------
(* MutexMap, StreamManager and AgentSession for TLC where they must go on: *)
(* one run over small instances, since the liveness properties look at the *)
(* whole graph of states.  A behaviour keeps the instance it starts with,  *)
(* and only the variables of its component move, so the state spaces add   *)
(* up.  In "mutex" calls take two keys; "stop" has two starts of a stream  *)
(* and a stop; "turns" is a session with a send, an edit, an interrupt or  *)
(* a retry, and failures, "compaction" the same with a second send, which  *)
(* is a compaction, instead of the edit, and "queue" all three without     *)
(* interrupts, retries and failures.                                       *)
EXTENDS AgentSession, MutexMap

CONSTANTS
    k1, k2,         \* the keys
    s1, s2, p1,     \* two starts and a stop
    m1, m2, e1, r1  \* two messages, an edit and a retry

VARIABLES
    scenario,
    turn, starting, active, holder, started, loc, state, abortedStreams, soft, some, retried, cancel,
    target, stopped, events, told

streamVars == <<turn, starting, active, holder, started, loc, state, abortedStreams, soft, some,
                retried, cancel, target, stopped, events, told>>

\* an operation that holds k1 may take k2, never the other way round
Ordered == {<<k1, k2>>}

S == {s1, s2}
Streams == INSTANCE StreamManager WITH Start <- S, Stops <- {p1}, NoStream <- None,
              MayFail <- TRUE, MayOverlap <- TRUE,
              pending <- starting, aborted <- abortedStreams
Queue == INSTANCE AgentSession WITH Features <- {}

MCInit ==
    /\ \/ scenario = "mutex" /\ MutexInit
       \/ scenario \in {"stop", "turns", "compaction", "queue"} /\ MutexInit /\ keyOf = [c \in Op |-> k1]
    /\ Init /\ Streams!StreamsInit

MCNext ==
    /\ UNCHANGED scenario
    /\ \/ scenario = "mutex" /\ MutexNext /\ UNCHANGED <<vars, streamVars>>
       \/ scenario = "stop" /\ Streams!StreamsNext /\ UNCHANGED <<vars, mutexVars>>
       \/ /\ \/ scenario = "turns" /\ Next /\ ~ Sent(m2)'
             \/ scenario = "compaction" /\ Next /\ ~ Sent(e1)'
             \/ scenario = "queue" /\ Queue!Next /\ job'[r1] = "none"
          /\ UNCHANGED <<mutexVars, streamVars>>

\* Of the streams: promises settle and file operations return. A provider may
\* stream for ever, but its stream ends once it is aborted.
AStop(A) == scenario = "stop" /\ A
StopFairness ==
    /\ \A c \in S \cup {p1} : WF_streamVars(AStop(Streams!CancelStep(c)))
    /\ \A s \in S : WF_streamVars(AStop(Streams!StartStep(s))) /\ WF_streamVars(AStop(Streams!ProcessStep(s)))
    /\ \A s \in S : WF_streamVars(AStop(abortedStreams[s] /\ Streams!Break(s)))
TurnFairness ==
    /\ WF_vars(scenario \in {"turns", "compaction"} /\ ProgramStep)
    /\ WF_vars(scenario = "queue" /\ Queue!ProgramStep)

MCSpec ==
    /\ MCInit /\ [][MCNext]_<<vars, mutexVars, streamVars, scenario>>
    /\ MutexFairness /\ StopFairness /\ TurnFairness

-----------------------------------------------------------------------------
TypesHold == Streams!StreamsTypeOK /\ TypeOK

(* A start the user has been told is aborted never becomes a stream        *)
(* (StreamManager).                                                        *)
ToldNeverStarts == Streams!ToldNeverStarts

(* Every call of startStream and every cancellation returns, they do not   *)
(* wait for each other, and a running stream that was aborted is reported  *)
(* as over.                                                                *)
StartsReturn == \A s \in S : AStop(started[s] = "pending") ~> started[s] = "done"
CancelsReturn ==
    \A c \in S \cup {p1} : AStop(c \in DOMAIN cancel /\ cancel[c] # "none") ~> AStop(cancel[c] = "none")
AbortsAreReported ==
    \A s \in S : AStop(Streams!Live(s) /\ abortedStreams[s])
                 ~> Streams!Has(s, "abort") \/ Streams!Has(s, "end") \/ Streams!Has(s, "error")
=============================================================================
