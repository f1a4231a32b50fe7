--------------------------- MODULE StreamManager ----------------------------
(***************************************************************************)
(* The streams of one workspace: StreamManager.startStream, the processing *)
(* of a stream, hard and soft stops, and the bookkeeping AIService keeps of*)
(* a start in progress.  A stream bears the name of the call that starts   *)
(* it.  A step ends at an await; what a call does up to its first await is *)
(* part of the caller's step.  Partial and history writes are left to the  *)
(* module ChatHistory: here they are awaits.                               *)
(***************************************************************************)
EXTENDS Naturals, Sequences

CONSTANTS
    Start,      \* calls of AIService.streamMessage
    Stops,      \* calls of AIService.stopStream
    NoStream,   \* no stream
    MayFail,    \* whether providers and the runtime may fail
    MayOverlap  \* whether a start may be called while the session has a turn

ASSUME NoneAssumption == NoStream \notin Start
ASSUME DistinctAssumption == Start \cap Stops = {}
ASSUME FlagsAssumption == MayFail \in BOOLEAN /\ MayOverlap \in BOOLEAN

VARIABLES
    turn,       \* AgentSession.turnPhase, "streaming" standing for COMPLETING too
    pending,    \* pendingStreamStarts.get(workspaceId)
    active,     \* workspaceStreams.get(workspaceId)
    holder,     \* the start that holds the workspace's AsyncMutex
    started,    \* started[s]: where call s is in streamMessage and startStream
    loc,        \* loc[s]: where stream s is in processStreamWithCleanup
    state,      \* state[s]: StreamState
    aborted,    \* aborted[s]: the abort controller of s has fired
    soft,       \* soft[s]: softInterrupt.pending
    some,       \* some[s]: the stream has received a part
    retried,    \* retried[s]: an empty stream has been retried
    cancel,     \* cancel[c]: where call c is in cancelStreamSafely
    target,     \* target[c]: the stream c cancels
    stopped,    \* the calls of stopStream made
    events,     \* events[s]: what was emitted of stream s
    told        \* history variable: starts the user was told are aborted

calls == <<pending, holder, started, stopped, told>>
streams == <<loc, state, aborted, soft, some, retried>>
cancels == <<cancel, target>>
streamVars == <<turn, active, events, calls, streams, cancels>>

\* stream-abort ends the session's turn only when its stream was announced;
\* leaving sendMessage ends a turn that is still being prepared
AbortTurn == turn' = IF turn = "streaming" THEN "idle" ELSE turn
LeaveTurn == turn' = IF turn = "preparing" THEN "idle" ELSE turn

Live(s) == loc[s] \in {"stream", "softflush", "flush", "ending", "failing"}
IsStreaming == active # NoStream /\ state[active] = "STREAMING"

StreamsInit ==
    /\ turn = "idle" /\ pending = NoStream /\ active = NoStream /\ holder = NoStream
    /\ started = [s \in Start |-> "none"]
    /\ loc = [s \in Start |-> "none"]
    /\ state = [s \in Start |-> "IDLE"]
    /\ aborted = [s \in Start |-> FALSE]
    /\ soft = [s \in Start |-> FALSE]
    /\ some = [s \in Start |-> FALSE]
    /\ retried = [s \in Start |-> FALSE]
    /\ cancel = [c \in Start \cup Stops |-> "none"]
    /\ target = [c \in Start \cup Stops |-> NoStream]
    /\ stopped = {}
    /\ events = [s \in Start |-> <<>>]
    /\ told = {}

-----------------------------------------------------------------------------
(* Operators named ...Bug are mistakes the mutation runs put in the place  *)
(* of the operator that follows; no action uses them.                      *)

(* Cancelling a stream: cancelStreamSafely and cleanupAbortedStream.       *)

\* up to the first await.  No await separates COMPLETED from the deletion of
\* the stream's entry, so a stream found in the map has not completed.
CancelBegin(c, s) ==
    /\ target' = [target EXCEPT ![c] = s]
    /\ cancel' = [cancel EXCEPT ![c] = "flush"]
    /\ state' = [state EXCEPT ![s] = "STOPPING"]

\* the flush of the partial is over: abort
CancelAbort(c) ==
    /\ cancel[c] = "flush"
    /\ aborted' = [aborted EXCEPT ![target[c]] = TRUE]
    /\ cancel' = [cancel EXCEPT ![c] = "join"]
    /\ UNCHANGED <<turn, active, events, calls, loc, state, soft, some, retried, target>>

\* the stream's processing is not awaited
CancelJoinEarlyBug(c) ==
    /\ cancel[c] = "join"
    /\ cancel' = [cancel EXCEPT ![c] = "usage"]
    /\ UNCHANGED <<turn, active, events, calls, streams, target>>

\* await streamInfo.processingPromise
CancelJoin(c) ==
    /\ cancel[c] = "join" /\ loc[target[c]] = "done"
    /\ cancel' = [cancel EXCEPT ![c] = "usage"]
    /\ UNCHANGED <<turn, active, events, calls, streams, target>>

\* the usage is recorded: emit stream-abort, drop whatever entry there is
CancelEmit(c) ==
    /\ cancel[c] = "usage"
    /\ cancel' = [cancel EXCEPT ![c] = "none"]
    /\ events' = [events EXCEPT ![target[c]] = Append(@, "abort")]
    /\ active' = NoStream /\ AbortTurn
    /\ UNCHANGED <<calls, streams, target>>

-----------------------------------------------------------------------------
(* AIService.streamMessage and StreamManager.startStream.                  *)

StartCall(s) ==
    /\ started[s] = "none"
    /\ MayOverlap \/ turn = "idle"
    /\ started' = [started EXCEPT ![s] = "pending"]
    /\ pending' = s /\ turn' = "preparing"
    /\ UNCHANGED <<active, events, holder, stopped, told, streams, cancels>>

\* streamMessage returns: the mutex is released, the start no longer pending
Return(s) ==
    /\ started' = [started EXCEPT ![s] = "done"]
    /\ holder' = IF holder = s THEN NoStream ELSE holder
    /\ pending' = IF pending = s THEN NoStream ELSE pending
    /\ UNCHANGED <<stopped, told>>

\* startStream does not take the mutex
AcquireUnlockedBug(s) ==
    /\ started[s] = "pending"
    /\ holder' = s
    /\ \/ /\ active = NoStream
          /\ started' = [started EXCEPT ![s] = "tempdir"]
          /\ UNCHANGED <<state, cancels>>
       \/ /\ active # NoStream
          /\ started' = [started EXCEPT ![s] = "cancelling"]
          /\ CancelBegin(s, active)
    /\ UNCHANGED <<turn, active, events, pending, stopped, told,
                   loc, aborted, soft, some, retried>>

\* the mutex is acquired and ensureStreamSafety looks for a stream
Acquire(s) ==
    /\ started[s] = "pending" /\ holder = NoStream
    /\ holder' = s
    /\ \/ /\ active = NoStream
          /\ started' = [started EXCEPT ![s] = "tempdir"]
          /\ UNCHANGED <<state, cancels>>
       \/ /\ active # NoStream
          /\ started' = [started EXCEPT ![s] = "cancelling"]
          /\ CancelBegin(s, active)
    /\ UNCHANGED <<turn, active, events, pending, stopped, told,
                   loc, aborted, soft, some, retried>>

Cancelled(s) ==
    /\ started[s] = "cancelling" /\ cancel[s] = "none"
    /\ started' = [started EXCEPT ![s] = "tempdir"]
    /\ UNCHANGED <<turn, active, events, pending, holder, stopped, told, streams, cancels>>

\* the caller's abort is looked at before the temporary directory is made only
RegisterAnywayBug(s) ==
    /\ started[s] = "tempdir"
    /\ active' = s
    /\ loc' = [loc EXCEPT ![s] = "stream"]
    /\ state' = [state EXCEPT ![s] = "STREAMING"]
    /\ events' = [events EXCEPT ![s] = Append(@, "start")]
    /\ Return(s)
    /\ turn' = "streaming"
    /\ UNCHANGED <<aborted, soft, some, retried, cancels>>

\* createStreamAtomically, and processStreamWithCleanup up to its first await
Register(s) ==
    /\ started[s] = "tempdir" /\ ~ aborted[s]
    /\ active' = s
    /\ loc' = [loc EXCEPT ![s] = "stream"]
    /\ state' = [state EXCEPT ![s] = "STREAMING"]
    /\ events' = [events EXCEPT ![s] = Append(@, "start")]
    /\ Return(s)
    /\ turn' = "streaming"
    /\ UNCHANGED <<aborted, soft, some, retried, cancels>>

\* the start was aborted while it was being prepared, or waiting in startStream
StartAborted(s) ==
    /\ started[s] \in {"pending", "tempdir"} /\ aborted[s]
    /\ LeaveTurn
    /\ Return(s)
    /\ UNCHANGED <<active, events, streams, cancels>>

\* the error leaves startStream without releasing the mutex
StartFailsLockedBug(s) ==
    /\ MayFail /\ started[s] = "tempdir"
    /\ active' = NoStream /\ LeaveTurn
    /\ started' = [started EXCEPT ![s] = "done"]
    /\ pending' = IF pending = s THEN NoStream ELSE pending
    /\ UNCHANGED <<holder, stopped, told, events, streams, cancels>>

\* the directory cannot be made: the entry, whoever's, is dropped
StartFails(s) ==
    /\ MayFail /\ started[s] = "tempdir"
    /\ active' = NoStream /\ LeaveTurn
    /\ Return(s)
    /\ UNCHANGED <<events, streams, cancels>>

-----------------------------------------------------------------------------
(* processStreamWithCleanup.                                               *)

PartArrives(s) ==
    /\ loc[s] = "stream" /\ ~ aborted[s] /\ ~ some[s]
    /\ some' = [some EXCEPT ![s] = TRUE]
    /\ UNCHANGED <<turn, active, events, calls, loc, state, aborted, soft, retried, cancels>>

\* checkSoftCancelStream at the end of a block or a step
SoftCheck(s) ==
    /\ loc[s] = "stream" /\ ~ aborted[s] /\ soft[s]
    /\ state' = [state EXCEPT ![s] = "STOPPING"]
    /\ loc' = [loc EXCEPT ![s] = "softflush"]
    /\ UNCHANGED <<turn, active, events, calls, aborted, soft, some, retried, cancels>>

\* the soft interrupt aborts but starts no cleanup
SoftAbortSilentBug(s) ==
    /\ loc[s] = "softflush"
    /\ aborted' = [aborted EXCEPT ![s] = TRUE]
    /\ loc' = [loc EXCEPT ![s] = "stream"]
    /\ UNCHANGED <<turn, active, events, calls, state, soft, some, retried, cancels>>

\* the flush is over: abort, and clean up without waiting
SoftAbort(s) ==
    /\ loc[s] = "softflush"
    /\ aborted' = [aborted EXCEPT ![s] = TRUE]
    /\ loc' = [loc EXCEPT ![s] = "stream"]
    /\ cancel' = [cancel EXCEPT ![s] = "join"]
    /\ target' = [target EXCEPT ![s] = s]
    /\ UNCHANGED <<turn, active, events, calls, state, soft, some, retried>>

\* the loop does not look at the abort signal
BreakDeafBug(s) ==
    /\ loc[s] = "stream" /\ ~ aborted[s]
    /\ loc' = [loc EXCEPT ![s] = "flush"]
    /\ UNCHANGED <<turn, active, events, calls, state, aborted, soft, some, retried, cancels>>

\* the provider's stream is over, or the loop has seen the abort: last flush
Break(s) ==
    /\ loc[s] = "stream"
    /\ loc' = [loc EXCEPT ![s] = "flush"]
    /\ UNCHANGED <<turn, active, events, calls, state, aborted, soft, some, retried, cancels>>

\* the finally block: the entry, whoever's, is dropped
Finally(s) ==
    /\ active' = NoStream
    /\ loc' = [loc EXCEPT ![s] = "done"]

FlushedAborted(s) ==
    /\ loc[s] = "flush" /\ aborted[s]
    /\ Finally(s)
    /\ UNCHANGED <<turn, events, calls, state, aborted, soft, some, retried, cancels>>

\* deletePartial, updateHistory and the usage follow
FlushedDone(s) ==
    /\ loc[s] = "flush" /\ ~ aborted[s] /\ some[s]
    /\ loc' = [loc EXCEPT ![s] = "ending"]
    /\ UNCHANGED <<turn, active, events, calls, state, aborted, soft, some, retried, cancels>>

\* a stream without parts is tried once more
FlushedRetry(s) ==
    /\ loc[s] = "flush" /\ ~ aborted[s] /\ ~ some[s] /\ ~ retried[s] /\ ~ soft[s]
    /\ retried' = [retried EXCEPT ![s] = TRUE]
    /\ loc' = [loc EXCEPT ![s] = "stream"]
    /\ UNCHANGED <<turn, active, events, calls, state, aborted, soft, some, cancels>>

Failing(s) ==
    /\ state' = [state EXCEPT ![s] = "ERROR"]
    /\ loc' = [loc EXCEPT ![s] = "failing"]
    /\ UNCHANGED <<turn, active, events, calls, aborted, soft, some, retried, cancels>>

FlushedEmpty(s) ==
    /\ loc[s] = "flush" /\ ~ aborted[s] /\ ~ some[s] /\ (retried[s] \/ soft[s])
    /\ Failing(s)

\* handleStreamFailure, up to the write of the error
Fail(s) ==
    /\ MayFail /\ loc[s] = "stream"
    /\ Failing(s)

\* the error is on disk and emitted; the finally block follows
FailEmit(s) ==
    /\ loc[s] = "failing"
    /\ events' = [events EXCEPT ![s] = Append(@, "error")]
    /\ turn' = "idle"
    /\ Finally(s)
    /\ UNCHANGED <<calls, state, aborted, soft, some, retried, cancels>>

\* the stream ends in a state nobody tests for
CompleteUnknownBug(s) ==
    /\ loc[s] = "ending"
    /\ state' = [state EXCEPT ![s] = "DONE"]
    /\ events' = [events EXCEPT ![s] = Append(@, "end")]
    /\ turn' = "idle"
    /\ Finally(s)
    /\ UNCHANGED <<calls, aborted, soft, some, retried, cancels>>

\* the history is written: stream-end, whether or not the stream was aborted
\* meanwhile; the finally block follows
Complete(s) ==
    /\ loc[s] = "ending"
    /\ state' = [state EXCEPT ![s] = "COMPLETED"]
    /\ events' = [events EXCEPT ![s] = Append(@, "end")]
    /\ turn' = "idle"
    /\ Finally(s)
    /\ UNCHANGED <<calls, aborted, soft, some, retried, cancels>>

-----------------------------------------------------------------------------
(* AIService.stopStream and StreamManager.stopStream.                      *)

\* a start in progress is aborted; the user is told at once unless a stream runs
AbortPending ==
    /\ aborted' = IF pending = NoStream THEN aborted ELSE [aborted EXCEPT ![pending] = TRUE]
    /\ told' = IF pending = NoStream \/ IsStreaming THEN told ELSE told \cup {pending}

StopCall(p) == p \notin stopped /\ stopped' = stopped \cup {p}

\* no stream: a stream-abort without a message is emitted
StopNothing(p) ==
    /\ StopCall(p) /\ active = NoStream
    /\ AbortPending /\ AbortTurn
    /\ UNCHANGED <<active, events, pending, holder, started, loc, state, soft, some, retried, cancels>>

StopSoft(p) ==
    /\ StopCall(p) /\ active # NoStream
    /\ AbortPending
    /\ soft' = [soft EXCEPT ![active] = TRUE]
    /\ IF told' = told THEN UNCHANGED turn ELSE AbortTurn
    /\ UNCHANGED <<active, events, pending, holder, started, loc, state, some, retried, cancels>>

StopHard(p) ==
    /\ StopCall(p) /\ active # NoStream
    /\ AbortPending
    /\ CancelBegin(p, active)
    /\ IF told' = told THEN UNCHANGED turn ELSE AbortTurn
    /\ UNCHANGED <<active, events, pending, holder, started, loc, soft, some, retried>>

-----------------------------------------------------------------------------
CancelStep(c) == CancelAbort(c) \/ CancelJoin(c) \/ CancelEmit(c)

StartStep(s) == Acquire(s) \/ Cancelled(s) \/ Register(s) \/ StartAborted(s) \/ StartFails(s)

ProcessStep(s) ==
    \/ SoftAbort(s) \/ FlushedAborted(s) \/ FlushedDone(s) \/ FlushedRetry(s)
    \/ FlushedEmpty(s) \/ FailEmit(s) \/ Complete(s)

ProviderStep(s) == PartArrives(s) \/ SoftCheck(s) \/ Break(s) \/ Fail(s)

StreamsNext ==
    \/ \E c \in Start \cup Stops : CancelStep(c)
    \/ \E s \in Start : StartCall(s) \/ StartStep(s) \/ ProcessStep(s) \/ ProviderStep(s)
    \/ \E p \in Stops : StopNothing(p) \/ StopSoft(p) \/ StopHard(p)

StreamsSpec == StreamsInit /\ [][StreamsNext]_streamVars

-----------------------------------------------------------------------------
StreamsTypeOK ==
    /\ turn \in {"idle", "preparing", "streaming"}
    /\ {pending, active, holder} \subseteq Start \cup {NoStream}
    /\ started \in [Start -> {"none", "pending", "cancelling", "tempdir", "done"}]
    /\ loc \in [Start -> {"none", "stream", "softflush", "flush", "ending",
                          "failing", "done"}]
    /\ state \in [Start -> {"IDLE", "STREAMING", "STOPPING", "ERROR", "COMPLETED"}]
    /\ {aborted, soft, some, retried} \subseteq [Start -> BOOLEAN]
    /\ cancel \in [Start \cup Stops -> {"none", "flush", "join", "usage"}]
    /\ target \in [Start \cup Stops -> Start \cup {NoStream}]
    /\ stopped \subseteq Stops /\ told \subseteq Start
    /\ events \in [Start -> Seq({"start", "end", "error", "abort"})]

Has(s, e) == \E i \in DOMAIN events[s] : events[s][i] = e

(* "Only one active stream per workspace at any time" (streamManager.ts,   *)
(* class comment).                                                         *)
OneLive == \A s, t \in Start : Live(s) /\ Live(t) => s = t

(* A stream that runs can be found, and so be stopped (cancelStreamSafely: *)
(* no delete may "delete the new stream's entry instead").                 *)
Registered == \A s \in Start : Live(s) => active = s

(* A stream-abort is emitted only when the stream's processing is over:    *)
(* nothing but a further abort follows it, and a stream that was announced *)
(* ends or fails at most once.                                             *)
Closing == {"end", "error", "abort"}
InOrder(e) ==
    \A i, j \in DOMAIN e :
        i < j => e[j] \in Closing /\ (e[i] \in Closing => e[j] = "abort")
AbortIsLast == \A s \in Start : InOrder(events[s])

(* A start the user has been told is aborted never becomes a stream        *)
(* (startStream: "avoid starting the stream entirely").                    *)
ToldNeverStarts == \A s \in told : events[s] = <<>>
=============================================================================
