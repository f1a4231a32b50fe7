---------------------------- MODULE AgentSession -----------------------------
(***************************************************************************)
(* The turns of one workspace: AgentSession with its MessageQueue, the     *)
(* busy check and the interrupts of WorkspaceService, and the automatic    *)
(* retry.  A call is a sendMessage or a resumeStream, named after the first*)
(* message it sends or after the retry.  A step ends at an await.  Streams *)
(* are seen through the events AIService emits; how StreamManager comes to *)
(* emit them is the module of that name.                                   *)
(***************************************************************************)
EXTENDS Naturals, FiniteSets, SequencesExt

CONSTANTS
    Msg,        \* messages the user sends
    Edits,      \* those that edit a message sent before
    Compact,    \* those that ask for compaction
    Retry,      \* firings of the retry timer
    User,       \* calls of WorkspaceService.interruptStream
    None,
    MaxOutside, \* bound: interrupts and retries together
    Features    \* what may happen: "fail", "refuse", "sendnow", "restore"

ASSUME SubsetsAssumption == Edits \subseteq Msg /\ Compact \subseteq Msg \ Edits
ASSUME MaxOutsideAssumption == MaxOutside \in Nat
ASSUME DistinctAssumption == Msg \cap Retry = {} /\ None \notin Msg \cup Retry

Call == Msg \cup Retry

VARIABLES
    phase,      \* turnPhase
    queue,      \* messageQueue
    defer,      \* deferQueuedFlushUntilAfterEdit
    compacting, \* activeCompactionRequest # undefined
    timer,      \* retryManager.isRetryPending
    job,        \* job[c]: where call c is
    batch,      \* batch[c]: the messages call c sends as one
    flushed,    \* calls of sendQueuedMessages whose turn has not begun
    goal,       \* goal[c]: the row the edit c replaces
    stream,     \* stream[c]: the stream call c has started; stream[None] is the
                \* stream-abort emitted when there is nothing to stop
    aborted,    \* calls whose start or stream is to be aborted
    pending,    \* pendingStreamStarts
    user,       \* user[u]: where interrupt u is
    history,    \* user rows of the chat, each named by its call
    gone        \* history variable: messages refused, returned to the input,
                \* dropped with the queue or removed from the history

turns == <<phase, job>>
messages == <<queue, batch, flushed, history, gone>>
aborts == <<aborted, pending, user>>
edits == <<defer, goal>>
vars == <<turns, messages, aborts, edits, compacting, timer, stream>>

Init ==
    /\ phase = "idle" /\ queue = <<>> /\ history = <<>>
    /\ defer = FALSE /\ compacting = FALSE /\ timer = FALSE
    /\ job = [c \in Call |-> "none"]
    /\ batch = [c \in Call |-> <<>>]
    /\ flushed = {}
    /\ goal = [c \in Edits |-> None]
    /\ stream = [c \in Call \cup {None} |-> IF c = None THEN "over" ELSE "none"]
    /\ aborted = {}
    /\ pending = None
    /\ user = [u \in User |-> "none"]
    /\ gone = {}

Unsent == {"stopping", "stopped", "waiting", "woken", "truncating", "sending"}
Outside == Cardinality({u \in User : user[u] # "none"})
           + Cardinality({r \in Retry : job[r] # "none"})
Running(c) == stream[c] = "running"
Sent(m) == \/ m \in gone \/ m \in ToSet(queue)
           \/ \E c \in Call : m \in ToSet(batch[c])

-----------------------------------------------------------------------------
(* Operators named ...Bug are mistakes the mutation runs put in the place  *)
(* of the operator that follows; no action uses them.                      *)

\* idle is entered without waking those who wait for it
EnterAsleepBug(p, j) == phase' = p /\ job' = j

\* setTurnPhase: entering IDLE wakes whoever waits for it
Enter(p, j) ==
    /\ phase' = p
    /\ job' = IF p = "idle"
              THEN [c \in Call |-> IF j[c] = "waiting" THEN "woken" ELSE j[c]]
              ELSE j

\* the turn ends only if it is still in phase p
EnterIdleFrom(p, j) == Enter(IF phase = p THEN "idle" ELSE phase, j)

Discard(ms) == gone' = gone \cup ms

\* clearQueue
ClearQueue == queue' = <<>> /\ Discard(ToSet(queue))

\* the queue is not cleared
FlushTwiceBug(j, p) ==
    IF queue = <<>>
    THEN Enter(p, j) /\ UNCHANGED <<queue, batch, flushed>>
    ELSE /\ batch' = [batch EXCEPT ![queue[1]] = queue]
         /\ flushed' = flushed \cup {queue[1]}
         /\ Enter("preparing", [j EXCEPT ![queue[1]] = "sending"])
         /\ UNCHANGED queue

\* sendQueuedMessages, from a handler that leaves the phase p otherwise
Flush(j, p) ==
    IF queue = <<>>
    THEN Enter(p, j) /\ UNCHANGED <<queue, batch, flushed>>
    ELSE /\ batch' = [batch EXCEPT ![queue[1]] = queue]
         /\ flushed' = flushed \cup {queue[1]}
         /\ queue' = <<>>
         /\ Enter("preparing", [j EXCEPT ![queue[1]] = "sending"])

-----------------------------------------------------------------------------
(* WorkspaceService.sendMessage and AgentSession.sendMessage.              *)

\* idle: the message is sent at once
SendDirect(m) ==
    /\ m \notin Edits /\ ~ Sent(m) /\ phase = "idle"
    /\ batch' = [batch EXCEPT ![m] = <<m>>]
    /\ job' = [job EXCEPT ![m] = "sending"]
    /\ UNCHANGED <<phase, queue, flushed, history, gone, aborts, edits, compacting, timer, stream>>

\* the parts are queued as a list
EnqueueListBug(m) ==
    /\ m \notin Edits /\ ~ Sent(m) /\ phase # "idle"
    /\ queue' = Append(queue, <<m>>)
    /\ UNCHANGED <<turns, batch, flushed, history, gone, aborts, edits, compacting, timer, stream>>

\* busy: it is queued, unless it asks for compaction behind other messages
Enqueue(m) ==
    /\ m \notin Edits /\ ~ Sent(m) /\ phase # "idle"
    /\ IF m \in Compact /\ queue # <<>>
       THEN Discard({m}) /\ UNCHANGED queue
       ELSE queue' = Append(queue, m) /\ UNCHANGED gone
    /\ UNCHANGED <<turns, batch, flushed, history, aborts, edits, compacting, timer, stream>>

\* rows the user may edit: those behind the last compaction
Editable == {i \in DOMAIN history : \A j \in i..Len(history) : history[j] \notin Compact}

\* an edit interrupts the turn, unless it is completing already; the queue of
\* an idle session goes back to the input
EditCall(e) ==
    /\ e \in Edits /\ ~ Sent(e)
    /\ batch' = [batch EXCEPT ![e] = <<e>>]
    /\ \E i \in Editable : goal' = [goal EXCEPT ![e] = history[i]]
    /\ \/ /\ phase = "idle" /\ ClearQueue
          /\ job' = [job EXCEPT ![e] = "truncating"] /\ UNCHANGED <<defer, timer>>
       \/ /\ phase = "completing" /\ defer' = TRUE
          /\ job' = [job EXCEPT ![e] = "waiting"] /\ UNCHANGED <<queue, gone, timer>>
       \/ /\ phase \in {"preparing", "streaming"} /\ timer' = FALSE
          /\ job' = [job EXCEPT ![e] = "stopping"] /\ UNCHANGED <<queue, gone, defer>>
    /\ UNCHANGED <<phase, flushed, history, aborts, compacting, stream>>

\* stopStream: the start in progress and the running stream are aborted; if
\* none runs, a stream-abort is emitted all the same
Stop ==
    /\ aborted' = aborted \cup {c \in Call : c = pending \/ Running(c)}
    /\ stream' = IF (\E c \in Call : Running(c)) \/ stream[None] # "over"
                 THEN stream ELSE [stream EXCEPT ![None] = "aborted"]

\* stopStream waits for the stream it aborts
StopReturned == \A c \in aborted : ~ Running(c)

\* the partial is deleted: stopStream
EditStop(e) ==
    /\ job[e] = "stopping"
    /\ Stop
    /\ job' = [job EXCEPT ![e] = "stopped"]
    /\ UNCHANGED <<phase, messages, pending, user, edits, compacting, timer>>

\* stopStream has returned: wait until the session is idle
EditWait(e) ==
    /\ job[e] = "stopped" /\ StopReturned
    /\ defer' = TRUE
    /\ job' = [job EXCEPT ![e] = IF phase = "idle" THEN "woken" ELSE "waiting"]
    /\ UNCHANGED <<phase, messages, goal, aborts, compacting, timer, stream>>

\* the flag that defers the flush is never taken back
EditGoesStuckBug(e) ==
    /\ job[e] = "woken"
    /\ ClearQueue
    /\ job' = [job EXCEPT ![e] = "truncating"]
    /\ UNCHANGED <<phase, batch, flushed, history, defer, goal, aborts, compacting, timer, stream>>

\* the session was idle: the queue goes back to the input
EditGoes(e) ==
    /\ job[e] = "woken"
    /\ defer' = FALSE
    /\ ClearQueue
    /\ job' = [job EXCEPT ![e] = "truncating"]
    /\ UNCHANGED <<phase, batch, flushed, history, goal, aborts, compacting, timer, stream>>

\* truncateAfterMessage; a row that is gone is ignored
Truncate(e) ==
    /\ job[e] = "truncating"
    /\ IF goal[e] \in ToSet(history)
       THEN LET i == CHOOSE i \in DOMAIN history : history[i] = goal[e]
                cut == SubSeq(history, i, Len(history))
            IN /\ history' = SubSeq(history, 1, i - 1)
               /\ Discard(UNION {ToSet(batch[c]) : c \in ToSet(cut)})
       ELSE UNCHANGED <<history, gone>>
    /\ job' = [job EXCEPT ![e] = "sending"]
    /\ goal' = [goal EXCEPT ![e] = None]
    /\ UNCHANGED <<phase, queue, batch, flushed, aborts, defer, compacting, timer, stream>>

\* validation or the write of the message fails; the caller is told, but
\* nobody is when the queue was flushed
Refused(c) ==
    /\ "refuse" \in Features /\ c \in flushed \cup Edits /\ job[c] = "sending"
    /\ Discard(ToSet(batch[c])) /\ flushed' = flushed \ {c}
    /\ IF c \in flushed
       THEN EnterIdleFrom("preparing", [job EXCEPT ![c] = "done"])
       ELSE job' = [job EXCEPT ![c] = "done"] /\ UNCHANGED phase
    /\ UNCHANGED <<queue, batch, history, aborts, edits, compacting, timer, stream>>

\* appendToHistory
Persist(c) ==
    /\ job[c] = "sending"
    /\ history' = Append(history, c)
    /\ job' = [job EXCEPT ![c] = "persisted"]
    /\ UNCHANGED <<phase, queue, batch, flushed, gone, aborts, edits, compacting, timer, stream>>

\* the turn begins
Prepare(c) ==
    /\ job[c] = "persisted"
    /\ timer' = FALSE /\ flushed' = flushed \ {c}
    /\ Enter("preparing", [job EXCEPT ![c] = "preparing"])
    /\ UNCHANGED <<queue, batch, history, gone, aborts, edits, compacting, stream>>

\* the retry timer fires; a session that is busy has it scheduled again
RetryFires(r) ==
    /\ r \in Retry /\ job[r] = "none" /\ Outside < MaxOutside /\ timer /\ phase = "idle"
    /\ timer' = FALSE
    /\ Enter("preparing", [job EXCEPT ![r] = "preparing"])
    /\ UNCHANGED <<messages, aborts, edits, compacting, stream>>

-----------------------------------------------------------------------------
(* streamWithHistory and the events of the stream.                         *)

\* the partial is committed and the history read: AIService.streamMessage
StreamMessage(c) ==
    /\ job[c] = "preparing" /\ history # <<>>
    /\ compacting' = (Last(history) \in Compact)
    /\ pending' = c
    /\ job' = [job EXCEPT ![c] = "starting"]
    /\ UNCHANGED <<phase, messages, aborted, user, edits, timer, stream>>

\* an empty history: nothing to stream
NothingToStream(c) ==
    /\ job[c] = "preparing" /\ history = <<>>
    /\ EnterIdleFrom("preparing", [job EXCEPT ![c] = "done"])
    /\ UNCHANGED <<messages, aborts, edits, compacting, timer, stream>>

Unpend(c) == pending' = IF pending = c THEN None ELSE pending

\* startStream finds a stream: it is cancelled first
CancelOther(c) ==
    /\ job[c] = "starting"
    /\ \E d \in Call : Running(d) /\ d \notin aborted /\ aborted' = aborted \cup {d}
    /\ UNCHANGED <<turns, messages, pending, user, edits, compacting, timer, stream>>

\* stream-start
StreamStarts(c) ==
    /\ job[c] = "starting" /\ c \notin aborted /\ ~ \E d \in Call : Running(d)
    /\ stream' = [stream EXCEPT ![c] = "running"]
    /\ Unpend(c)
    /\ Enter("streaming", [job EXCEPT ![c] = "done"])
    /\ UNCHANGED <<messages, aborted, user, edits, compacting, timer>>

\* the start was aborted: no stream, the turn is over
StartAborted(c) ==
    /\ job[c] = "starting" /\ c \in aborted
    /\ Unpend(c) /\ aborted' = aborted \ {c}
    /\ EnterIdleFrom("preparing", [job EXCEPT ![c] = "done"])
    /\ UNCHANGED <<messages, user, edits, compacting, timer, stream>>

\* handleStreamError up to its awaits: a failed compaction drops the queue
Fails ==
    /\ IF compacting THEN ClearQueue ELSE UNCHANGED <<queue, gone>>
    /\ compacting' = FALSE

StartFails(c) ==
    /\ "fail" \in Features /\ job[c] = "starting" /\ c \notin aborted
    /\ Fails
    /\ Unpend(c)
    /\ Enter("completing", [job EXCEPT ![c] = "failing"])
    /\ UNCHANGED <<batch, flushed, history, aborted, user, edits, timer, stream>>

\* a runtime that is not ready: only the retry is scheduled
RuntimeFails(c) ==
    /\ "fail" \in Features /\ job[c] = "starting" /\ c \notin aborted
    /\ compacting' = FALSE /\ timer' \in BOOLEAN
    /\ Unpend(c)
    /\ EnterIdleFrom("preparing", [job EXCEPT ![c] = "done"])
    /\ UNCHANGED <<messages, aborted, user, edits, stream>>

\* a retry is scheduled unless the error forbids it
FailHandled(j) ==
    /\ timer' \in BOOLEAN
    /\ Enter("idle", j)
    /\ UNCHANGED <<messages, aborts, edits, compacting>>

StartFailHandled(c) ==
    /\ job[c] = "failing"
    /\ FailHandled([job EXCEPT ![c] = "done"])
    /\ UNCHANGED stream

StreamFails(c) ==
    /\ "fail" \in Features /\ Running(c)
    /\ stream' = [stream EXCEPT ![c] = "failed"] /\ aborted' = aborted \ {c}
    /\ Fails
    /\ Enter("completing", job)
    /\ UNCHANGED <<batch, flushed, history, pending, user, edits, timer>>

StreamFailHandled(c) ==
    /\ stream[c] = "failed"
    /\ stream' = [stream EXCEPT ![c] = "over"]
    /\ FailHandled(job)

\* stream-end; a late abort does not prevent it
StreamEnds(c) ==
    /\ Running(c)
    /\ stream' = [stream EXCEPT ![c] = "ended"]
    /\ timer' = FALSE /\ aborted' = aborted \ {c}
    /\ Enter("completing", job)
    /\ UNCHANGED <<messages, pending, user, edits, compacting>>

\* stream-end forgets to leave the phase
EndHandledStuckBug(c) ==
    /\ stream[c] = "ended"
    /\ stream' = [stream EXCEPT ![c] = "over"]
    /\ compacting' = FALSE
    /\ IF defer THEN UNCHANGED <<queue, batch, flushed, turns>> ELSE Flush(job, phase)
    /\ UNCHANGED <<history, gone, aborts, edits, timer>>

\* its handler, behind its awaits: the queue is sent, unless an edit waits
EndHandled(c) ==
    /\ stream[c] = "ended"
    /\ stream' = [stream EXCEPT ![c] = "over"]
    /\ compacting' = FALSE
    /\ IF defer
       THEN EnterIdleFrom("completing", job) /\ UNCHANGED <<queue, batch, flushed>>
       ELSE Flush(job, IF phase = "completing" THEN "idle" ELSE phase)
    /\ UNCHANGED <<history, gone, aborts, edits, timer>>

\* the stream is over; AIService commits or deletes the partial
StreamAborts(c) ==
    /\ Running(c) /\ c \in aborted /\ aborted' = aborted \ {c}
    /\ stream' = [stream EXCEPT ![c] = "aborted"]
    /\ UNCHANGED <<turns, messages, pending, user, edits, compacting, timer>>

\* stream-abort outside of STREAMING changes nothing
AbortIgnored(c) ==
    /\ stream[c] = "aborted" /\ phase # "streaming"
    /\ stream' = [stream EXCEPT ![c] = "over"]
    /\ UNCHANGED <<turns, messages, aborts, edits, compacting, timer>>

AbortArrives(c) ==
    /\ stream[c] = "aborted" /\ phase = "streaming"
    /\ stream' = [stream EXCEPT ![c] = "closing"]
    /\ Fails
    /\ Enter("completing", job)
    /\ UNCHANGED <<batch, flushed, history, aborts, edits, timer>>

\* its handler: an abort is not retried, the turn is over
AbortHandled(c) ==
    /\ stream[c] = "closing"
    /\ stream' = [stream EXCEPT ![c] = "over"]
    /\ timer' = FALSE
    /\ Enter("idle", job)
    /\ UNCHANGED <<messages, aborts, edits, compacting>>

-----------------------------------------------------------------------------
(* WorkspaceService.interruptStream.                                       *)

Interrupt(u, how) ==
    /\ user[u] = "none" /\ Outside < MaxOutside /\ how \in Features \cap {"restore", "sendnow"}
    /\ user' = [user EXCEPT ![u] = how]
    /\ timer' = FALSE
    /\ Stop
    /\ UNCHANGED <<turns, messages, pending, edits, compacting>>

\* descendant tasks are stopped: the queue goes back to the input
InterruptRestores(u) ==
    /\ user[u] = "restore" /\ StopReturned
    /\ user' = [user EXCEPT ![u] = "done"]
    /\ ClearQueue
    /\ UNCHANGED <<turns, batch, flushed, history, aborted, pending, edits, compacting, timer, stream>>

\* or is sent at once
InterruptSends(u) ==
    /\ user[u] = "sendnow" /\ StopReturned
    /\ user' = [user EXCEPT ![u] = "done"]
    /\ Flush(job, phase)
    /\ UNCHANGED <<history, gone, aborted, pending, edits, compacting, timer, stream>>

-----------------------------------------------------------------------------
CallStep(c) ==
    \/ Persist(c) \/ Prepare(c) \/ StreamMessage(c) \/ NothingToStream(c)
    \/ CancelOther(c) \/ StreamStarts(c) \/ StartAborted(c) \/ StartFailHandled(c)

EditStep(e) == EditStop(e) \/ EditWait(e) \/ EditGoes(e) \/ Truncate(e)

StreamStep(c) ==
    \/ StreamEnds(c) \/ EndHandled(c) \/ StreamFailHandled(c)
    \/ StreamAborts(c)

AbortStep(c) == AbortIgnored(c) \/ AbortArrives(c) \/ AbortHandled(c)

UserStep(u) == InterruptRestores(u) \/ InterruptSends(u)

ProgramStep ==
    \/ \E c \in Call : CallStep(c) \/ StreamStep(c)
    \/ \E c \in Call \cup {None} : AbortStep(c)
    \/ \E e \in Edits : EditStep(e)
    \/ \E u \in User : UserStep(u)

Next ==
    \/ ProgramStep
    \/ \E m \in Msg : SendDirect(m) \/ Enqueue(m) \/ Refused(m)
    \/ \E e \in Edits : EditCall(e)
    \/ \E c \in Call : StartFails(c) \/ RuntimeFails(c) \/ StreamFails(c)
    \/ \E r \in Retry : RetryFires(r)
    \/ \E u \in User, how \in Features : Interrupt(u, how)

\* Promises settle, and every stream comes to an end (StreamManager): the
\* event loop does not stand still while a step of the program is possible.
Fairness == WF_vars(ProgramStep)

Spec == Init /\ [][Next]_vars
FairSpec == Spec /\ Fairness

-----------------------------------------------------------------------------
TypeOK ==
    /\ phase \in {"idle", "preparing", "streaming", "completing"}
    /\ queue \in Seq(Msg) /\ history \in Seq(Msg)
    /\ {defer, compacting, timer} \subseteq BOOLEAN
    /\ job \in [Call -> Unsent \cup {"none", "persisted", "preparing", "starting",
                                     "failing", "done"}]
    /\ batch \in [Call -> Seq(Msg)]
    /\ flushed \subseteq Msg
    /\ goal \in [Edits -> Msg \cup {None}]
    /\ stream \in [Call \cup {None} -> {"none", "running", "ended", "failed", "aborted",
                                       "closing", "over"}]
    /\ aborted \subseteq Call
    /\ pending \in Call \cup {None}
    /\ user \in [User -> {"none", "restore", "sendnow", "done"}]
    /\ gone \subseteq Msg

(* A message is in one place: queued, on its way in one call, a row of the *)
(* history, or gone for a reason (returned to the input, refused, removed  *)
(* by an edit, lost).  None is sent twice, none vanishes unnoticed.        *)
Places(m) ==
    {<<"queue", i>> : i \in {i \in DOMAIN queue : queue[i] = m}}
    \cup {<<"call", c>> : c \in {c \in Call : job[c] \in Unsent /\ m \in ToSet(batch[c])}}
    \cup {<<"row", i>> : i \in {i \in DOMAIN history : m \in ToSet(batch[history[i]])}}
    \cup (IF m \in gone THEN {<<"gone">>} ELSE {})
OnePlace == \A m \in Msg : Cardinality(Places(m)) = IF Sent(m) THEN 1 ELSE 0

(* Nobody waits for an idle session that is idle already (waitForIdle and  *)
(* the waiters of setTurnPhase).                                           *)
WaitersAreBusy == \A c \in Call : job[c] = "waiting" => phase # "idle"

(* The flush of the queue is deferred only while an edit waits: "Tell      *)
(* stream-end to skip sendQueuedMessages() so the edit truncates first".   *)
DeferredForEdit == defer => \E e \in Edits : job[e] \in {"waiting", "woken"}

(* "Tell stream-end to skip sendQueuedMessages() so the edit truncates     *)
(* first": from the edit on, the queue is not sent into the turns that the *)
(* edit removes.                                                           *)
EditTruncatesFirst ==
    [][\A e \in Edits : job[e] \in {"stopping", "stopped", "waiting", "woken"}
           => flushed' \subseteq flushed]_vars

(* "don't leave the session stuck in PREPARING": whatever fails or is      *)
(* stopped, the session becomes idle again.                                *)
TurnsEnd == []<>(phase = "idle")
=============================================================================
