------------------------------ MODULE AutoRetry ------------------------------
(***************************************************************************)
(* Automatic retry of one workspace: services/retryManager.ts and the part *)
(* of services/agentSession.ts that schedules, resumes, abandons and, after*)
(* a restart, recovers a turn that did not get its answer.                 *)
(*                                                                         *)
(* The user may stop a turn or opt out of retries while a failure is being *)
(* handled, a retry prepares or the preference is still read; the opt-out  *)
(* and the mark of an abandoned turn are kept in a file that several calls *)
(* read and write.                                                         *)
(*                                                                         *)
(* A call that awaits something is a job.  A write is taken when it lands, *)
(* and the code behind it runs then.  RetryManager's generations are not   *)
(* there: whatever advances them also clears the one timer.  Backoff is    *)
(* the time a timer takes.  Messages are sent to an idle session only.     *)
(***************************************************************************)
EXTENDS Naturals, FiniteSets

CONSTANTS
    MaxSent,    \* bound: messages the user sends
    MaxFailed,  \* bound: attempts that fail
    MaxActs     \* bound: stops, choices and restarts together

VARIABLES
    file,       \* the preference file; a missing file is Default
    last,       \* the last user message of the history, 0 for none
    answered,   \* it has its complete answer
    memory,     \* RetryManager and the session's copy of the file
    phase,      \* turnPhase
    active,     \* activeStreamUserMessageId, 0 when undefined
    stream,     \* StreamManager has a live stream
    jobs,       \* the calls under way
    begun,      \* the startup recovery of this process has begun
    sent, failed, acts,
    userStopped,    \* history: the user stopped the turn, and has not sent or opted in since
    missedStop,    \* history: a stop met a call it cannot reach, or a restart a call under way
    optedOut,   \* history: the user opted out, and has not sent or opted in since
    raced,      \* history: two calls used the file at once, one wrote it before it was read, or a
                \* restart met a use
    owed        \* history: the turn failed in a way worth a retry

ghosts == <<userStopped, missedStop, optedOut, owed>>
retryVars == <<file, last, answered, memory, phase, active, stream, jobs, begun, sent, failed, acts,
               raced, ghosts>>

None == 0
Any == MaxSent + 1      \* abandoned, whatever the message
Default == [enabled |-> TRUE, abandoned |-> None]

Fresh == [preference |-> "unknown", abandoned |-> None, enabled |-> TRUE, timer |-> FALSE,
          resume |-> FALSE]

(* at: what the job awaits.  ok: a failure may be retried, a choice is to  *)
(* opt in, a turn was found unfinished.  aborted, pending: of an attempt   *)
(* in streamMessage.  quiet: a failure that leaves the phase alone.  file: *)
(* what was read or is to be written.                                      *)
Job(kind, at) == [kind |-> kind, at |-> at, msg |-> None, ok |-> FALSE, aborted |-> FALSE,
                  pending |-> FALSE, quiet |-> FALSE, reason |-> "none", file |-> Default]

Init ==
    /\ file = Default /\ last = None /\ answered = TRUE
    /\ memory = Fresh /\ phase = "IDLE" /\ active = None /\ stream = FALSE
    /\ jobs = {} /\ begun = FALSE
    /\ sent = 0 /\ failed = 0 /\ acts = 0
    /\ userStopped = FALSE /\ missedStop = FALSE /\ optedOut = FALSE /\ raced = FALSE /\ owed = FALSE

Becomes(j, k) == jobs' = (jobs \ {j}) \cup {k}
Finishes(j) == jobs' = jobs \ {j}
UsesFile(j) == j.at \in {"loading", "loaded", "clearing", "saving", "settling"}
Act == acts < MaxActs /\ acts' = acts + 1

-----------------------------------------------------------------------------
(* RetryManager and the session's copy, as functions of the memory.        *)
CancelBug(m) == m  \* Mutant: the timer keeps running.

Cancel(m) == [m EXCEPT !.timer = FALSE]
SetEnabled(m, on) == [m EXCEPT !.enabled = on, !.timer = @ /\ on]
Preferring(m, on) == [m EXCEPT !.preference = IF on THEN "on" ELSE "off"]

HandleStreamFailure(m, retryable) == IF m.enabled THEN [m EXCEPT !.timer = retryable] ELSE m

\* loadAutoRetryEnabledPreference, behind its read
Loaded(m, f) == [Preferring(SetEnabled(m, f.enabled), f.enabled) EXCEPT !.abandoned = f.abandoned]

\* persistAutoRetryState: what is written
\* Mutant: a mark is written without the opt-out.
PersistedBug(m) == [enabled |-> m.preference # "off" \/ m.abandoned # None, abandoned |-> m.abandoned]

Persisted(m) == [enabled |-> m.preference # "off", abandoned |-> m.abandoned]

Abandon(m, msg) == [m EXCEPT !.abandoned = IF msg = None THEN Any ELSE msg]
Unabandon(m) == [m EXCEPT !.abandoned = None]

\* updateStartupAutoRetryAbandonFromFailure, and whether it writes
Marked(m, retryable, msg) == IF retryable THEN Unabandon(m) ELSE Abandon(m, msg)
Marks(m, retryable) == ~retryable \/ m.abandoned # None

-----------------------------------------------------------------------------
(* The user sends a message.                                               *)
Send ==
    /\ phase = "IDLE" /\ ~\E j \in jobs : j.kind = "send" /\ j.at # "starting"
    /\ sent < MaxSent /\ sent' = sent + 1
    /\ jobs' = jobs \cup {[Job("send", "accepting") EXCEPT !.msg = sent + 1]}
    /\ UNCHANGED <<file, last, answered, memory, phase, active, stream, begun, failed, acts, ghosts>>

OptsBackIn(j, m) ==
    LET on == Preferring(SetEnabled(Cancel(m), TRUE), TRUE) IN
    /\ memory' = on
    /\ Becomes(j, [j EXCEPT !.at = "saving", !.file = Persisted(on)])
    /\ optedOut' = FALSE /\ owed' = FALSE

\* its row is written: a fresh send ends what was abandoned, and opts back in
Accepted(j) ==
    /\ j.kind = "send" /\ j.at = "accepting"
    /\ last' = j.msg /\ answered' = FALSE
    /\ userStopped' = FALSE /\ missedStop' = FALSE
    /\ IF memory.abandoned = None
       THEN OptsBackIn(j, memory)
       ELSE /\ memory' = Unabandon(memory)
            /\ Becomes(j, [j EXCEPT !.at = "clearing", !.file = Persisted(memory')])
            /\ UNCHANGED <<optedOut, owed>>
    /\ UNCHANGED <<file, phase, active, stream, begun, sent, failed, acts>>

Cleared(j) ==
    /\ j.kind = "send" /\ j.at = "clearing"
    /\ file' = j.file
    /\ OptsBackIn(j, memory)
    /\ UNCHANGED <<last, answered, phase, active, stream, begun, sent, failed, acts, userStopped,
                   missedStop>>

Prepare(j) ==
    /\ j.kind = "send" /\ j.at = "saving"
    /\ file' = j.file
    /\ memory' = [memory EXCEPT !.resume = TRUE]
    /\ phase' = "PREPARING" /\ active' = None
    /\ Becomes(j, Job("send", "reading"))
    /\ UNCHANGED <<last, answered, stream, begun, sent, failed, acts, ghosts>>

-----------------------------------------------------------------------------
\* Mutant: a retry that finds the session busy is given up.
TimerFiresBug ==
    /\ memory.timer
    /\ memory' = Cancel(memory)
    /\ IF phase = "IDLE"
       THEN phase' = "PREPARING" /\ active' = None /\ jobs' = jobs \cup {Job("retry", "reading")}
       ELSE UNCHANGED <<phase, active, jobs>>
    /\ UNCHANGED <<file, last, answered, stream, begun, sent, failed, acts, ghosts>>

\* the timer, and retryActiveStream up to its first await
TimerFires ==
    /\ memory.timer
    /\ IF phase = "IDLE"
       THEN /\ memory' = Cancel(memory)
            /\ phase' = "PREPARING" /\ active' = None
            /\ jobs' = jobs \cup {Job("retry", "reading")}
       ELSE memory' = HandleStreamFailure(Cancel(memory), TRUE) /\ UNCHANGED <<phase, active, jobs>>
    /\ UNCHANGED <<file, last, answered, stream, begun, sent, failed, acts, ghosts>>

-----------------------------------------------------------------------------
(* An attempt, of a send, a retry or a resumption.                         *)
LeavePreparing == phase' = IF phase = "PREPARING" THEN "IDLE" ELSE phase

\* a retry that got past the start ends what was abandoned
RetryStarted(j) ==
    IF j.kind = "retry" /\ memory.abandoned # None
    THEN /\ memory' = Unabandon(memory)
         /\ Becomes(j, [Job("retry", "settling") EXCEPT !.file = Persisted(memory')])
    ELSE Finishes(j) /\ UNCHANGED memory

\* a read of the history fails: a send reports it, a retry is scheduled again
ReadFails(j) ==
    /\ j.at = "reading"
    /\ failed < MaxFailed /\ failed' = failed + 1
    /\ LeavePreparing
    /\ IF j.kind # "retry"
       THEN Finishes(j) /\ UNCHANGED memory
       ELSE /\ memory' = Marked(HandleStreamFailure(memory, TRUE), TRUE, active)
            /\ IF Marks(memory, TRUE)
               THEN Becomes(j, [Job("retry", "settling") EXCEPT !.file = Persisted(memory')])
               ELSE Finishes(j)
    /\ UNCHANGED <<file, last, answered, active, stream, begun, sent, acts, ghosts>>

StreamMessage(j) ==
    /\ j.at = "reading"
    /\ active' = last
    /\ jobs' = {IF k.at = "starting" THEN [k EXCEPT !.pending = FALSE] ELSE k : k \in jobs \ {j}}
               \cup {[j EXCEPT !.at = "starting", !.pending = TRUE]}
    /\ UNCHANGED <<file, last, answered, memory, phase, stream, begun, sent, failed, acts, ghosts>>

\* startStream ends the stream before it
StreamStarts(j) ==
    /\ j.at = "starting" /\ ~j.aborted
    /\ ~stream
    /\ stream' = TRUE /\ phase' = "STREAMING"
    /\ RetryStarted(j)
    /\ UNCHANGED <<file, last, answered, active, begun, sent, failed, acts, ghosts>>

CancelsOther(j) ==
    /\ j.at = "starting" /\ ~j.aborted
    /\ stream /\ stream' = FALSE
    /\ jobs' = jobs \cup {[Job("abort", "forwarding") EXCEPT !.reason = "system"]}
    /\ UNCHANGED <<file, last, answered, memory, phase, active, begun, sent, failed, acts, ghosts>>

\* streamMessage returns Ok to a start that was stopped
StartReturns(j) ==
    /\ j.at = "starting" /\ j.aborted
    /\ LeavePreparing
    /\ RetryStarted(j)
    /\ UNCHANGED <<file, last, answered, active, stream, begun, sent, failed, acts, ghosts>>

-----------------------------------------------------------------------------
(* Failures, aborts and ends.                                              *)
PhaseAfter(j) ==
    CASE ~j.quiet -> "IDLE"
      [] j.quiet /\ j.kind = "error" /\ phase = "PREPARING" -> "IDLE"
      [] OTHER -> phase

\* behind the preference: schedule, mark, write the mark, and leave the turn
Settle(j, m, others) ==
    LET scheduled == HandleStreamFailure(m, j.ok) IN
    IF j.reason # "system" /\ Marks(m, j.ok)
    THEN /\ memory' = Marked(scheduled, j.ok, j.msg)
         /\ jobs' = others \cup {[j EXCEPT !.at = "settling", !.file = Persisted(memory')]}
         /\ phase' = IF j.quiet THEN phase ELSE "COMPLETING"
    ELSE memory' = scheduled /\ jobs' = others /\ phase' = PhaseAfter(j)

\* handleStreamFailureForAutoRetry and what follows it
Handle(j, m, others) ==
    /\ active' = None
    /\ IF m.preference = "unknown"
       THEN /\ jobs' = others \cup {[j EXCEPT !.at = "loading"]}
            /\ phase' = IF j.quiet THEN phase ELSE "COMPLETING"
            /\ memory' = m
       ELSE Settle(j, m, others)

Failure(retryable, quiet) ==
    [Job("error", "handling") EXCEPT !.msg = active, !.ok = retryable, !.quiet = quiet]

Fails(others, quiet) ==
    /\ failed < MaxFailed /\ failed' = failed + 1
    /\ \E retryable \in BOOLEAN :
        /\ Handle(Failure(retryable, quiet), memory, others)
        /\ owed' = (retryable /\ ~userStopped /\ ~optedOut /\ ~\E k \in others : k.kind = "abort")
    /\ UNCHANGED <<file, last, answered, begun, sent, acts, userStopped, missedStop, optedOut>>

\* streamMessage fails; a runtime that does not start is handled without the phase
StartFails(j) ==
    /\ j.at = "starting" /\ ~j.aborted
    /\ \E runtime \in BOOLEAN : Fails(jobs \ {j}, runtime)
    /\ UNCHANGED stream

StreamFails ==
    /\ stream /\ stream' = FALSE
    /\ Fails(jobs, FALSE)

HandlerLoads(j) ==
    /\ j.at = "loaded" /\ j.kind \in {"error", "abort"}
    /\ Settle(j, Loaded(memory, j.file), jobs \ {j})
    /\ UNCHANGED <<file, last, answered, active, stream, begun, sent, failed, acts, ghosts>>

\* the last write of a handler, a retry or a choice
Settles(j) ==
    /\ j.at = "settling"
    /\ file' = j.file
    /\ IF j.kind = "end" THEN Becomes(j, Job("end", "completing")) ELSE Finishes(j)
    /\ phase' = IF j.kind \in {"error", "abort"} THEN PhaseAfter(j) ELSE phase
    /\ UNCHANGED <<last, answered, memory, active, stream, begun, sent, failed, acts, ghosts>>

\* a stream-abort that is not about a stream under way only marks the turn
MarkAborted(reason, m, others) ==
    /\ IF reason = "system"
       THEN jobs' = others /\ memory' = m
       ELSE /\ memory' = Abandon(m, active)
            /\ jobs' = others \cup {[Job("abort", "settling") EXCEPT !.quiet = TRUE,
                                                                  !.file = Persisted(memory')]}
    /\ UNCHANGED <<phase, active>>

AbortEvent(j, m, others) ==
    IF phase = "STREAMING"
    THEN Handle([j EXCEPT !.msg = active], m, others)
    ELSE MarkAborted(j.reason, m, others)

AbortArrives(j) ==
    /\ j.kind = "abort" /\ j.at = "forwarding"
    /\ AbortEvent(j, memory, jobs \ {j})
    /\ UNCHANGED <<file, last, answered, stream, begun, sent, failed, acts, ghosts>>

StreamEnds ==
    /\ stream /\ stream' = FALSE
    /\ answered' = TRUE
    /\ phase' = "COMPLETING"
    /\ memory' = Unabandon(Cancel(memory))
    /\ jobs' = jobs \cup {IF memory.abandoned # None
                          THEN [Job("end", "settling") EXCEPT !.file = Persisted(memory')]
                          ELSE Job("end", "completing")}
    /\ owed' = FALSE
    /\ UNCHANGED <<file, last, active, begun, sent, failed, acts, userStopped, missedStop, optedOut>>

\* compaction is looked after, and the turn's state is reset
Completed(j) ==
    /\ j.kind = "end" /\ j.at = "completing"
    /\ Finishes(j)
    /\ active' = None
    /\ phase' = IF phase = "COMPLETING" THEN "IDLE" ELSE phase
    /\ UNCHANGED <<file, last, answered, memory, stream, begun, sent, failed, acts, ghosts>>

-----------------------------------------------------------------------------
(* What the user does.                                                     *)

\* calls that a stop does not reach: they have nothing to abort yet, or no more
BeyondStop(j) ==
    \/ j.kind \in {"send", "resume"} /\ ~j.pending
    \/ j.kind = "retry"
    \/ j.kind = "error" /\ j.at \in {"loading", "loaded"}
    \/ j.kind = "startup"

\* interruptStream; whatever it finds, a stream-abort comes behind file operations
Stop ==
    /\ Act
    /\ LET pending == {j \in jobs : j.pending}
           others == (jobs \ pending) \cup {[j EXCEPT !.aborted = TRUE] : j \in pending}
           coming == [Job("abort", "forwarding") EXCEPT !.reason = "user"]
           m == Cancel(memory)
       IN  IF pending # {} /\ ~stream
           THEN AbortEvent(coming, m, others \cup {coming})
           ELSE memory' = m /\ jobs' = others \cup {coming} /\ UNCHANGED <<phase, active>>
    /\ stream' = FALSE
    /\ userStopped' = TRUE /\ owed' = FALSE
    /\ missedStop' = (missedStop \/ \E j \in jobs : BeyondStop(j))
    /\ UNCHANGED <<file, last, answered, begun, sent, failed, optedOut>>

\* resumeStream, asked for by the user
Resume ==
    /\ phase = "IDLE" /\ ~answered /\ ~\E j \in jobs : j.kind = "resume"
    /\ Act
    /\ memory' = [memory EXCEPT !.resume = TRUE]
    /\ phase' = "PREPARING" /\ active' = None
    /\ jobs' = jobs \cup {Job("resume", "reading")}
    /\ userStopped' = FALSE /\ missedStop' = FALSE
    /\ UNCHANGED <<file, last, answered, stream, begun, sent, failed, optedOut, owed>>

\* setAutoRetryEnabled, behind the preference
Chosen(on, m, others) ==
    LET chosen == Preferring(SetEnabled(m, on), on) IN
    /\ memory' = chosen
    /\ jobs' = others \cup {[Job("choice", "settling") EXCEPT !.ok = on, !.file = Persisted(chosen)]}
    /\ optedOut' = ~on
    /\ owed' = (owed /\ on)

Choose ==
    /\ Act
    /\ \E on \in BOOLEAN :
        IF memory.preference = "unknown"
        THEN /\ jobs' = jobs \cup {[Job("choice", "loading") EXCEPT !.ok = on]}
             /\ UNCHANGED <<memory, optedOut, owed>>
        ELSE Chosen(on, memory, jobs)
    /\ UNCHANGED <<file, last, answered, phase, active, stream, begun, sent, failed, userStopped, missedStop>>

ChoiceLoads(j) ==
    /\ j.kind = "choice" /\ j.at = "loaded"
    /\ Chosen(j.ok, Loaded(memory, j.file), jobs \ {j})
    /\ UNCHANGED <<file, last, answered, phase, active, stream, begun, sent, failed, acts, userStopped,
                   missedStop>>

\* readFile, before its result is looked at
ReadFile(j) ==
    /\ j.at = "loading"
    /\ Becomes(j, [j EXCEPT !.at = "loaded", !.file = file])
    /\ UNCHANGED <<file, last, answered, memory, phase, active, stream, begun, sent, failed, acts,
                   ghosts>>

-----------------------------------------------------------------------------
(* A restart, and the recovery of the turn it finds.                       *)
Restart ==
    /\ Act
    /\ memory' = Fresh /\ phase' = "IDLE" /\ active' = None /\ stream' = FALSE
    /\ jobs' = {} /\ begun' = FALSE
    /\ missedStop' = (missedStop \/ jobs # {} \/ stream)
    /\ raced' = (raced \/ \E j \in jobs : UsesFile(j))
    /\ owed' = FALSE
    /\ UNCHANGED <<file, last, answered, sent, failed, userStopped, optedOut>>

Busy == phase # "IDLE" \/ stream

\* a session that is busy handles its failures itself
Recover ==
    /\ ~begun /\ begun' = TRUE
    /\ IF Busy \/ memory.preference = "off"
       THEN UNCHANGED jobs
       ELSE jobs' = jobs \cup {Job("startup", IF memory.preference = "on" THEN "history" ELSE "loading")}
    /\ missedStop' = (missedStop \/ \E j \in jobs : j.kind = "abort")
    /\ UNCHANGED <<file, last, answered, memory, phase, active, stream, sent, failed, acts, userStopped,
                   optedOut, owed>>

RecoveryLoads(j) ==
    /\ j.kind = "startup" /\ j.at = "loaded"
    /\ memory' = Loaded(memory, j.file)
    /\ IF j.file.enabled THEN Becomes(j, Job("startup", "history")) ELSE Finishes(j)
    /\ UNCHANGED <<file, last, answered, phase, active, stream, begun, sent, failed, acts, ghosts>>

RecoveryReads(j) ==
    /\ j.kind = "startup" /\ j.at = "history"
    /\ Becomes(j, [j EXCEPT !.at = "decide", !.msg = last, !.ok = ~answered])
    /\ UNCHANGED <<file, last, answered, memory, phase, active, stream, begun, sent, failed, acts,
                   ghosts>>

Recovers(j, m) ==
    /\ memory' = IF Busy THEN m ELSE HandleStreamFailure(m, TRUE)
    /\ Finishes(j)

RecoveryDecides(j) ==
    /\ j.kind = "startup" /\ j.at = "decide"
    /\ IF ~j.ok \/ memory.abandoned \in {Any, j.msg}
       THEN Finishes(j) /\ UNCHANGED memory
       ELSE IF memory.resume
            THEN Recovers(j, memory)
            ELSE Becomes(j, [j EXCEPT !.at = "deriving"]) /\ UNCHANGED memory
    /\ UNCHANGED <<file, last, answered, phase, active, stream, begun, sent, failed, acts, ghosts>>

RecoveryDerives(j) ==
    /\ j.kind = "startup" /\ j.at = "deriving"
    /\ Recovers(j, [memory EXCEPT !.resume = TRUE])
    /\ UNCHANGED <<file, last, answered, phase, active, stream, begun, sent, failed, acts, ghosts>>

-----------------------------------------------------------------------------
JobStep(j) ==
    \/ Accepted(j) \/ Cleared(j) \/ Prepare(j)
    \/ ReadFails(j) \/ StreamMessage(j) \/ StreamStarts(j) \/ CancelsOther(j) \/ StartReturns(j)
    \/ StartFails(j) \/ HandlerLoads(j) \/ Settles(j) \/ AbortArrives(j) \/ Completed(j)
    \/ ChoiceLoads(j) \/ ReadFile(j)
    \/ RecoveryLoads(j) \/ RecoveryReads(j) \/ RecoveryDecides(j) \/ RecoveryDerives(j)

\* the file has no lock, and a mark written before it was read drops an opt-out
Races ==
    raced' = (\/ raced
              \/ Cardinality({j \in jobs' : UsesFile(j)}) > 1
              \/ memory'.preference = "unknown" /\ \E j \in jobs' : j.at \in {"clearing", "settling"})

Next ==
    \/ Restart
    \/ /\ \/ \E j \in jobs : JobStep(j)
          \/ Send \/ TimerFires \/ StreamFails \/ StreamEnds
          \/ Stop \/ Resume \/ Choose \/ Recover
       /\ Races

Spec == Init /\ [][Next]_retryVars

-----------------------------------------------------------------------------
File == [enabled : BOOLEAN, abandoned : 0..Any]

TypeOK ==
    /\ file \in File
    /\ last \in 0..MaxSent /\ answered \in BOOLEAN
    /\ memory \in [preference : {"unknown", "on", "off"}, abandoned : 0..Any, enabled : BOOLEAN,
                   timer : BOOLEAN, resume : BOOLEAN]
    /\ phase \in {"IDLE", "PREPARING", "STREAMING", "COMPLETING"}
    /\ active \in 0..MaxSent
    /\ \A j \in jobs : j.file \in File /\ j.msg \in 0..MaxSent

(* A turn the user stopped is not retried by itself, not after a restart   *)
(* either, until the user sends or resumes: "Explicit user interruption    *)
(* should immediately stop any pending auto-retry loop."  A stop that      *)
(* meets a call it cannot reach, and a restart in the middle of one, are   *)
(* left out.                                                               *)
StopsHold == userStopped /\ ~missedStop /\ ~raced => ~memory.timer

(* Whoever opted out of retries gets none, whatever fails and however      *)
(* often the program restarts, until a send or a choice opts in again.     *)
OptOutHolds == optedOut /\ ~raced => ~memory.timer

(* A failed turn that may be retried is not forgotten: when nothing is     *)
(* under way any more, a retry is scheduled.                               *)
RetriesGoOn == owed /\ ~raced /\ jobs = {} /\ ~stream => memory.timer
=============================================================================
