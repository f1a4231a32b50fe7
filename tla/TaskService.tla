---------------------------- MODULE TaskService -----------------------------
(***************************************************************************)
(* Sub-agent tasks (services/taskService.ts).  A workspace that streams    *)
(* creates tasks: child workspaces with a stream of their own, that end by *)
(* reporting to their parent.  TaskService keeps their status in the       *)
(* configuration, queues those above the parallel limit, lets the parent   *)
(* wait for a report, delivers it, resumes the parent, interrupts the      *)
(* subtree of a workspace the user stops, and removes what has reported.   *)
(*                                                                         *)
(* One action per stretch between two awaits.  `mutex` serialises create,  *)
(* the scheduler, terminations and cascades; a lock per workspace          *)
(* serialises the handlers of its stream events; nothing orders the two.   *)
(* An edit of the configuration is one action (edits that overlap are left *)
(* out), and so is what a promise's continuation does before any file      *)
(* operation or timer can run.                                             *)
(***************************************************************************)
EXTENDS Integers, Sequences, FiniteSets, SequencesExt

CONSTANTS
    Root,           \* the workspace of the user's conversation
    Tasks,          \* task workspaces, created or not
    ParentOf,       \* ParentOf[t]: the workspace whose tool call creates t
    Waits,          \* calls of waitForAgentReport
    MaxParallel,    \* maxParallelAgentTasks
    MaxDepth,       \* maxTaskNestingDepth
    MaxNudges,      \* MAX_CONSECUTIVE_PARENT_AUTO_RESUMES
    MaxRuns,        \* bound: streams of one workspace
    Users,          \* bound: the workspaces the user acts on
    Features        \* what may happen besides streams that end

Workspaces == Tasks \cup {Root}
Feature == {"user", "stop", "error", "timeout", "terminate", "fail", "patch", "crash"}

\* the ancestors of w: what is in every set that has the parent of w, and the
\* parent of each task it has
WithParents(S) == \A t \in Tasks \cap S : ParentOf[t] \in S
Above == [w \in Workspaces |-> IF w = Root THEN {} ELSE
    {u \in Workspaces : \A S \in SUBSET Workspaces : ParentOf[w] \in S /\ WithParents(S) => u \in S}]
Depth == [w \in Workspaces |-> Cardinality(Above[w])]

ASSUME TreeAssumption ==
    /\ Root \notin Tasks /\ IsFiniteSet(Tasks)
    /\ ParentOf \in [Tasks -> Workspaces]
    /\ \A t \in Tasks : t \notin Above[t]
ASSUME LimitAssumption == MaxParallel \in Nat \ {0} /\ MaxDepth \in Nat
                          /\ MaxNudges \in Nat /\ MaxRuns \in Nat \ {0}
ASSUME FeaturesAssumption == Features \subseteq Feature /\ Users \subseteq Workspaces

VARIABLES
    status,     \* status[t]: taskStatus in config.json; "none" before, "removed" after
    born,       \* the tasks by createdAt
    streaming,  \* the workspaces that stream (AIService.isStreaming)
    mail,       \* the workspaces with a message queued behind their stream
    runs,       \* runs[w]: streams started
    events,     \* events[w]: what waits for the workspace's event lock
    handler,    \* handler[w]: the holder of that lock and what it has read
    mutex,      \* the holder of TaskService.mutex and what it is at
    sched,      \* who has called maybeStartQueuedTasks and waits for the mutex
    asked,      \* hard interrupts whose cascade waits for the mutex
    resuming,   \* interrupted tasks marked running, whose send is under way
    wait,       \* wait[v]: a call of waitForAgentReport
    artifact,   \* the tasks whose report is on disk
    cache,      \* completedReportsByTaskId
    halted,     \* interruptedParentWorkspaceIds
    nudges,     \* consecutiveAutoResumes of the root
    apart,      \* userBackgroundedTaskIds
    patching,   \* reported tasks whose patch is being generated
    boot,       \* initialize after a restart, and what is left of its work
    heard       \* history variable: tasks whose report reached the parent

stream == <<streaming, mail, runs>>
config == <<status, born>>
memory == <<cache, halted, nudges, apart, patching>>
vars == <<config, stream, events, handler, mutex, sched, asked, resuming, wait,
          artifact, memory, boot, heard>>

-----------------------------------------------------------------------------
Idle == [at |-> "idle", was |-> "none", kind |-> "none", busy |-> FALSE, on |-> Root, todo |-> <<>>]
Free == [kind |-> "free", at |-> "none", task |-> Root, todo |-> <<>>]
Up == [at |-> "up", todo |-> <<>>]
NoWait == [at |-> "idle", task |-> Root, got |-> "none"]

Its(w) == IF w = Root THEN "root" ELSE status[w]
Present(w) == Its(w) \notin {"none", "removed"}
Under(w) == {t \in Tasks : Present(t) /\ w \in Above[t]}
HasActive(w) == \E t \in Under(w) : status[t] \in {"queued", "running", "awaiting_report"}
Pending(v) == wait[v].at \in {"unstarted", "timed"}
WaitsFor(t) == {v \in Waits : Pending(v) /\ wait[v].task = t}
WaitsBy(w) == {v \in Waits : wait[v].at \notin {"idle", "over"} /\ ParentOf[wait[v].task] = w}
ForegroundAwaiting(t) == \E v \in Waits : Pending(v) /\ ParentOf[wait[v].task] = t

ActiveBug == {t \in Tasks : Present(t) /\ (status[t] \in {"running", "awaiting_report"} \/ t \in streaming)}

\* countActiveAgentTasks
Active ==
    {t \in Tasks : Present(t) /\
        IF status[t] = "running" THEN ~ ForegroundAwaiting(t)
        ELSE status[t] = "awaiting_report" \/ t \in streaming}
Full == Cardinality(Active) >= MaxParallel

Leaf(t) == \A k \in Tasks : ParentOf[k] = t => ~ Present(k)

\* the waits of V end, with a report or an error
End(V, how) == [v \in Waits |-> IF v \in V THEN [wait[v] EXCEPT !.at = "over", !.got = how]
                                ELSE wait[v]]
\* setTaskStatus(t, "running") starts the timeouts of those who wait for the start
StartTimers(t) == [v \in Waits |-> IF wait[v].at = "unstarted" /\ wait[v].task = t
                                   THEN [wait[v] EXCEPT !.at = "timed"] ELSE wait[v]]

Init ==
    /\ status = [t \in Tasks |-> "none"] /\ born = <<>>
    /\ streaming = {} /\ mail = {} /\ runs = [w \in Workspaces |-> 0]
    /\ events = [w \in Workspaces |-> <<>>]
    /\ handler = [w \in Workspaces |-> Idle]
    /\ mutex = Free /\ sched = {} /\ asked = {} /\ resuming = {}
    /\ wait = [v \in Waits |-> NoWait]
    /\ artifact = {} /\ cache = {} /\ halted = {} /\ nudges = 0 /\ apart = {}
    /\ patching = {} /\ boot = Up
    /\ heard = {}

-----------------------------------------------------------------------------
(* Streams and the messages that start them (AgentSession, AIService).     *)

Interrupted(w) == Its(w) = "interrupted"
Sendable(w) == Its(w) \notin {"none", "removed", "queued", "interrupted"}

Begin(w) ==
    /\ runs[w] < MaxRuns
    /\ streaming' = streaming \cup {w}
    /\ runs' = [runs EXCEPT ![w] = @ + 1]
    /\ UNCHANGED mail

\* workspaceService.sendMessage: an interrupted task is marked running first;
\* a message to a busy session is queued; a send may be refused
Send(w) ==
    \/ /\ w \in streaming
       /\ mail' = IF Interrupted(w) THEN mail ELSE mail \cup {w}
       /\ UNCHANGED <<streaming, runs, status, resuming>>
    \/ /\ w \notin streaming /\ Interrupted(w)
       /\ status' = [status EXCEPT ![w] = "running"]
       /\ resuming' = resuming \cup {w}
       /\ UNCHANGED stream
    \/ /\ w \notin streaming /\ Sendable(w)
       /\ Begin(w)
       /\ UNCHANGED <<status, resuming>>
    \/ /\ w \notin streaming /\ ~ Interrupted(w)
       /\ "fail" \in Features \/ ~ Sendable(w) \/ runs[w] = MaxRuns
       /\ UNCHANGED <<stream, status, resuming>>

\* the send behind markInterruptedTaskRunning starts the stream, or
\* restoreInterruptedTaskAfterResumeFailure takes the mark back
ResumeSent(t) ==
    /\ t \in resuming
    /\ resuming' = resuming \ {t}
    /\ \/ t \notin streaming /\ Sendable(t) /\ Begin(t) /\ UNCHANGED status
       \/ /\ "fail" \in Features \/ t \in streaming \/ ~ Sendable(t) \/ runs[t] = MaxRuns
          /\ status' = [status EXCEPT ![t] = IF @ = "running" THEN "interrupted" ELSE @]
          /\ UNCHANGED stream
    /\ UNCHANGED <<born, events, handler, mutex, sched, asked, wait, artifact, memory, boot, heard>>

\* a tool call of w is under way
Calling(w) ==
    \/ WaitsBy(w) # {}
    \/ mutex.kind \in {"create", "terminate"} /\ mutex.task # Root /\ ParentOf[mutex.task] = w

\* how a stream of w may end: agent_report is refused while descendants are
\* active, and the last stream of the bound does report
Endings(w) ==
    CASE w = Root -> {"stop"}
      [] w # Root /\ HasActive(w) -> {"stop", "cut"}
      [] OTHER -> IF runs[w] = MaxRuns THEN {"report"} ELSE {"report", "stop", "cut"}

\* the lock is free and goes to the next event. A stream does not end meanwhile:
\* that takes file operations, the lock is handed over by continuations alone
Waiting(w) == handler[w].at = "idle" /\ events[w] # <<>>
\* nor does the one the scheduler has just started, until its task is marked:
\* that takes one edit of the configuration, an answer takes the provider
Marking(w) == mutex.kind = "sched" /\ mutex.at = "mark" /\ w = Head(mutex.todo)
Queue(w, e) == events' = [events EXCEPT ![w] = Append(@, e)]

StreamEnds(w) ==
    /\ w \in streaming /\ ~ Calling(w) /\ ~ Waiting(w) /\ ~ Marking(w)
    /\ \E e \in Endings(w) : Queue(w, e)
    /\ mail' = mail \ {w}
    /\ IF w \in mail /\ runs[w] < MaxRuns
       THEN runs' = [runs EXCEPT ![w] = @ + 1] /\ UNCHANGED streaming
       ELSE streaming' = streaming \ {w} /\ UNCHANGED runs
    /\ UNCHANGED <<config, handler, mutex, sched, asked, resuming, wait, artifact, memory, boot, heard>>

StreamFails(w) ==
    /\ "error" \in Features /\ w \in streaming /\ ~ Calling(w) /\ ~ Waiting(w) /\ ~ Marking(w)
    /\ streaming' = streaming \ {w}
    /\ \E e \in {"error", "fatal"} : Queue(w, e)
    /\ UNCHANGED <<config, mail, runs, handler, mutex, sched, asked, resuming, wait, artifact,
                   memory, boot, heard>>

-----------------------------------------------------------------------------
(* The user.                                                               *)

\* resetAutoResumeCount
Reset(w) ==
    /\ halted' = halted \ {w}
    /\ nudges' = IF w = Root THEN 0 ELSE nudges

UserSend(w) ==
    /\ ("user" \in Features /\ w \in Users) \/ (w = Root /\ runs[w] = 0)
    /\ w \notin streaming /\ w \notin resuming /\ Present(w) /\ boot.at \in {"up", "done"}
    /\ Reset(w) /\ Send(w)
    /\ UNCHANGED <<born, events, handler, mutex, sched, asked, wait, artifact, cache, apart,
                   patching, boot, heard>>

\* a message sent while the workspace streams: queued, and the foreground
\* waits are put into the background
UserQueues(w) ==
    /\ "user" \in Features /\ w \in Users /\ w \in streaming /\ w \notin mail
    /\ mail' = mail \cup {w}
    /\ apart' = apart \cup {wait[v].task : v \in {u \in WaitsBy(w) : Pending(u)}}
    /\ wait' = End({u \in WaitsBy(w) : Pending(u)}, "backgrounded")
    /\ UNCHANGED <<config, streaming, runs, events, handler, mutex, sched, asked, resuming,
                   artifact, cache, halted, nudges, patching, boot, heard>>

\* interruptStream, hard: the stream, and the tool calls under way, are
\* aborted; the cascade waits for the mutex
UserStop(w) ==
    /\ "stop" \in Features /\ w \in Users /\ w \notin asked /\ boot.at \in {"up", "done"}
    /\ w \in streaming \/ HasActive(w)
    /\ halted' = halted \cup {w}
    /\ nudges' = IF w = Root THEN 0 ELSE nudges
    /\ streaming' = streaming \ {w} /\ mail' = mail \ {w}
    /\ wait' = End(WaitsBy(w), "aborted")
    /\ asked' = asked \cup {w}
    /\ UNCHANGED <<config, runs, events, handler, mutex, sched, resuming, artifact, cache, apart,
                   patching, boot, heard>>
-----------------------------------------------------------------------------
(* create: under the mutex, validated and either queued or forked and sent. *)

Release == mutex' = Free
Hold(k, a, t, todo) == mutex' = [kind |-> k, at |-> a, task |-> t, todo |-> todo]
Then(a) == mutex' = [mutex EXCEPT !.at = a]
Holding(k, a) == mutex.kind = k /\ mutex.at = a
This == Head(mutex.todo)

CreateBegin(t) ==
    /\ mutex = Free /\ status[t] = "none" /\ ParentOf[t] \in streaming
    /\ Its(ParentOf[t]) # "reported"
    /\ Depth[t] <= MaxDepth
    /\ Hold("create", IF Full THEN "queue" ELSE "fork", t, <<>>)
    /\ UNCHANGED <<config, stream, events, handler, sched, asked, resuming, wait, artifact,
                   memory, boot, heard>>

\* the entry is stored; the fork may fail, and nothing is
CreateStored ==
    /\ Holding("create", "queue") \/ Holding("create", "fork")
    /\ \/ /\ status' = [status EXCEPT ![mutex.task] = IF mutex.at = "queue" THEN "queued" ELSE "running"]
          /\ born' = Append(born, mutex.task)
          /\ IF mutex.at = "queue" THEN Release /\ sched' = sched \cup {Root}
             ELSE Then("send") /\ UNCHANGED sched
       \/ /\ "fail" \in Features /\ mutex.at = "fork"
          /\ Release /\ UNCHANGED <<config, sched>>
    /\ UNCHANGED <<stream, events, handler, asked, resuming, wait, artifact, memory, boot, heard>>

\* the first message starts the stream, or rollbackFailedTaskCreate removes the entry
CreateSent ==
    /\ Holding("create", "send") /\ Release
    /\ \/ Begin(mutex.task) /\ UNCHANGED status
       \/ /\ "fail" \in Features
          /\ status' = [status EXCEPT ![mutex.task] = "removed"] /\ UNCHANGED stream
    /\ UNCHANGED <<born, events, handler, sched, asked, resuming, wait, artifact, memory, boot, heard>>

-----------------------------------------------------------------------------
(* maybeStartQueuedTasks; Root in sched: calls nobody waits for.           *)

\* the tasks of S by createdAt
ByAge(S) == {s \in SetToSeqs(S) : \A i, j \in DOMAIN s :
    i < j => \E k, l \in DOMAIN born : k < l /\ born[k] = s[i] /\ born[l] = s[j]}
Are(s) == {t \in Tasks : status[t] = s}
Served(w) == w \notin sched /\ ~ (mutex.kind = "sched" /\ mutex.task = w)
Next1 == mutex' = IF Tail(mutex.todo) = <<>> THEN Free
                  ELSE [mutex EXCEPT !.at = "pick", !.todo = Tail(@)]

SchedBegin(c) ==
    /\ mutex = Free /\ c \in sched
    /\ sched' = sched \ {c}
    /\ IF Full \/ Are("queued") = {} THEN UNCHANGED mutex
       ELSE \E queue \in ByAge(Are("queued")) : Hold("sched", "pick", c, queue)
    /\ UNCHANGED <<config, stream, events, handler, asked, resuming, wait, artifact, memory, boot, heard>>

SchedPick ==
    /\ Holding("sched", "pick")
    /\ CASE Full -> Release
         [] ~ Full /\ status[This] # "queued" -> Next1
         [] OTHER -> Then("recheck")
    /\ UNCHANGED <<config, stream, events, handler, sched, asked, resuming, wait, artifact,
                   memory, boot, heard>>

\* capacity again behind the file operations; a task of a project that is
\* no longer trusted is interrupted; a fork that fails leaves it queued
SchedRecheck ==
    /\ Holding("sched", "recheck")
    /\ \/ /\ IF Full THEN Release ELSE Then("send")
          /\ UNCHANGED <<status, wait, apart>>
       \/ /\ "fail" \in Features /\ ~ Full /\ Next1
          /\ status' = [status EXCEPT ![This] = "interrupted"]
          /\ wait' = End(WaitsFor(This), "error") /\ apart' = apart \ {This}
       \/ /\ "fail" \in Features /\ ~ Full /\ Next1
          /\ UNCHANGED <<status, wait, apart>>
    /\ UNCHANGED <<born, stream, events, handler, sched, asked, resuming, artifact, cache, halted,
                   nudges, patching, boot, heard>>

\* sendMessage starts the stream or fails
SchedSend ==
    /\ Holding("sched", "send")
    /\ \/ Begin(This) /\ Then("mark")
       \/ "fail" \in Features /\ Next1 /\ UNCHANGED stream
    /\ UNCHANGED <<config, events, handler, sched, asked, resuming, wait, artifact, memory, boot, heard>>

SchedMarkBug ==
    /\ Holding("sched", "mark") /\ Next1
    /\ status' = [status EXCEPT ![This] = "running"]
    /\ UNCHANGED <<born, stream, events, handler, sched, asked, resuming, wait, artifact, memory, boot,
                   heard>>

\* setTaskStatus starts the timeouts
SchedMark ==
    /\ Holding("sched", "mark") /\ Next1
    /\ status' = [status EXCEPT ![This] = "running"]
    /\ wait' = StartTimers(This)
    /\ UNCHANGED <<born, stream, events, handler, sched, asked, resuming, artifact, memory, boot, heard>>

-----------------------------------------------------------------------------
(* terminateAllDescendantAgentTasks, for a hard interrupt, and             *)
(* terminateDescendantAgentTask, a tool: leaves first, under the mutex.    *)

LeavesFirst(S) == {s \in SetToSeqs(S) : \A i, j \in DOMAIN s : i < j => Depth[s[i]] >= Depth[s[j]]}
Done(a) == IF Tail(mutex.todo) = <<>> THEN Release /\ sched' = sched \cup {Root}
           ELSE mutex' = [mutex EXCEPT !.at = a, !.todo = Tail(@)] /\ UNCHANGED sched
Halt(w) ==
    /\ streaming' = streaming \ {w}
    /\ wait' = End(WaitsBy(w), "aborted")
    /\ UNCHANGED runs

CascadeBegin(w) ==
    /\ mutex = Free /\ w \in asked
    /\ asked' = asked \ {w}
    /\ IF Under(w) = {} THEN UNCHANGED mutex
       ELSE \E todo \in LeavesFirst(Under(w)) : Hold("cascade", "stop", w, todo)
    /\ UNCHANGED <<config, stream, events, handler, sched, resuming, wait, artifact, memory, boot, heard>>

CascadeStop ==
    /\ Holding("cascade", "stop") /\ Then("edit")
    /\ Halt(This) /\ mail' = mail \ {This}
    /\ UNCHANGED <<config, events, handler, sched, asked, resuming, artifact, memory, boot, heard>>

CascadeEditBug ==
    /\ Holding("cascade", "edit") /\ Done("stop")
    /\ status' = [status EXCEPT ![This] = IF Present(This) THEN "interrupted" ELSE @]
    /\ wait' = End(WaitsFor(This), "error") /\ apart' = apart \ {This}
    /\ UNCHANGED <<born, stream, events, handler, asked, resuming, artifact, cache, halted, nudges,
                   patching, boot, heard>>

\* a report that is already there is preserved
CascadeEdit ==
    /\ Holding("cascade", "edit") /\ Done("stop")
    /\ IF status[This] = "reported" THEN UNCHANGED <<status, wait, apart>>
       ELSE /\ status' = [status EXCEPT ![This] = IF Present(This) THEN "interrupted" ELSE @]
            /\ wait' = End(WaitsFor(This), "error") /\ apart' = apart \ {This}
    /\ UNCHANGED <<born, stream, events, handler, asked, resuming, artifact, cache, halted, nudges,
                   patching, boot, heard>>

Terminate(t) ==
    /\ "terminate" \in Features /\ mutex = Free
    /\ ParentOf[t] \in streaming /\ Present(t)
    /\ \E todo \in LeavesFirst({t} \cup Under(t)) : Hold("terminate", "stop", t, todo)
    /\ UNCHANGED <<config, stream, events, handler, sched, asked, resuming, wait, artifact,
                   memory, boot, heard>>

TerminateStop ==
    /\ Holding("terminate", "stop") /\ Then("reject")
    /\ Halt(This) /\ UNCHANGED mail
    /\ UNCHANGED <<config, events, handler, sched, asked, resuming, artifact, memory, boot, heard>>

TerminateReject ==
    /\ Holding("terminate", "reject") /\ Then("remove")
    /\ cache' = cache \ {This} /\ apart' = apart \ {This}
    /\ wait' = End(WaitsFor(This), "error")
    /\ UNCHANGED <<config, stream, events, handler, sched, asked, resuming, artifact, halted,
                   nudges, patching, boot, heard>>

\* workspaceService.remove
RemoveWorkspace(t) ==
    /\ status' = [status EXCEPT ![t] = "removed"]
    /\ streaming' = streaming \ {t} /\ mail' = mail \ {t}
    /\ UNCHANGED <<born, runs>>

TerminateRemove ==
    /\ Holding("terminate", "remove")
    /\ \/ RemoveWorkspace(This) /\ Done("stop")
       \/ "fail" \in Features /\ Release /\ UNCHANGED <<config, stream, sched>>
    /\ UNCHANGED <<events, handler, asked, resuming, wait, artifact, memory, boot, heard>>
-----------------------------------------------------------------------------
(* waitForAgentReport.                                                     *)

Register(v, t) ==
    /\ wait' = [wait EXCEPT ![v] = [at |-> IF status[t] = "queued" THEN "unstarted" ELSE "timed",
                                   task |-> t, got |-> "none"]]
    /\ sched' = IF status[t] = "queued" THEN sched \cup {Root} ELSE sched
    /\ IF status[t] = "awaiting_report" THEN Queue(t, "prompt") ELSE UNCHANGED events

\* a tool call of the task's parent, which knows the task when create returns
WaitCall(v, t) ==
    /\ wait[v] = NoWait /\ status[t] # "none" /\ ParentOf[t] \in streaming
    /\ ~ (mutex.kind = "create" /\ mutex.task = t)
    /\ \/ /\ t \in cache
          /\ wait' = [wait EXCEPT ![v] = [at |-> "over", task |-> t, got |-> "report"]]
          /\ heard' = heard \cup {t}
          /\ UNCHANGED <<apart, sched, events>>
       \/ /\ t \notin cache /\ status[t] \in {"removed", "reported", "interrupted"}
          /\ wait' = [wait EXCEPT ![v] = [at |-> "reading", task |-> t, got |-> status[t]]]
          /\ apart' = apart \ {t}
          /\ UNCHANGED <<heard, sched, events>>
       \/ /\ t \notin cache /\ status[t] \in {"queued", "running", "awaiting_report"}
          /\ Register(v, t)
          /\ apart' = apart \ {t}
          /\ UNCHANGED heard
    /\ UNCHANGED <<config, stream, handler, mutex, asked, resuming, artifact, cache, halted, nudges,
                   patching, boot>>

\* the report's file is read; then what the configuration said before counts,
\* and for an interrupted task that still streams what it says now
WaitRead(v) ==
    LET t == wait[v].task IN
    /\ wait[v].at = "reading"
    /\ \/ /\ t \in artifact
          /\ wait' = End({v}, "report") /\ cache' = cache \cup {t} /\ heard' = heard \cup {t}
          /\ UNCHANGED <<sched, events>>
       \/ /\ t \notin artifact /\ ~ (wait[v].got = "interrupted" /\ t \in streaming)
          /\ wait' = End({v}, IF wait[v].got = "interrupted" THEN "error" ELSE "not found")
          /\ UNCHANGED <<cache, heard, sched, events>>
       \/ /\ t \notin artifact /\ wait[v].got = "interrupted" /\ t \in streaming
          /\ IF status[t] \in {"removed", "reported"}
             THEN wait' = [wait EXCEPT ![v].got = status[t]] /\ UNCHANGED <<sched, events>>
             ELSE Register(v, t)
          /\ UNCHANGED <<cache, heard>>
    /\ UNCHANGED <<config, stream, handler, mutex, asked, resuming, artifact, halted, nudges,
                   apart, patching, boot>>

WaitTimeout(v) ==
    /\ "timeout" \in Features /\ wait[v].at = "timed"
    /\ wait' = End({v}, "timeout")
    /\ UNCHANGED <<config, stream, events, handler, mutex, sched, asked, resuming, artifact, memory,
                   boot, heard>>

-----------------------------------------------------------------------------
(* The handlers of a workspace's stream events, under its event lock.      *)

Move(w, a) == handler' = [handler EXCEPT ![w].at = a]
Leave(w) == handler' = [handler EXCEPT ![w] = Idle]
Clean(w, x) == handler' = [handler EXCEPT ![w].at = "cleanup", ![w].on = x]
At(w, a) == handler[w].at = a
TakeEvent(w) == events' = [events EXCEPT ![w] = Tail(@)]
RejectBug(t) == UNCHANGED wait /\ apart' = apart \ {t}
Reject(t) == wait' = End(WaitsFor(t), "error") /\ apart' = apart \ {t}

ActiveUnder(w) == {t \in Under(w) : status[t] \in {"queued", "running", "awaiting_report"}}

RootEndBug ==
    /\ Waiting(Root) /\ TakeEvent(Root)
    /\ HasActive(Root) /\ Root \notin streaming /\ ~ (ActiveUnder(Root) \subseteq apart)
    /\ nudges' = nudges + 1 /\ Move(Root, "nudge")
    /\ UNCHANGED <<config, stream, mutex, sched, asked, resuming, wait, artifact, cache, halted, apart,
                   patching, boot, heard>>

\* handleStreamEnd of the user's workspace: it may not end while tasks work;
\* else the children that have reported are looked at again
RootEnd ==
    /\ Waiting(Root) /\ TakeEvent(Root)
    /\ IF Head(events[Root]) # "stop"
       THEN UNCHANGED <<handler, apart, nudges>>
       ELSE IF ~ HasActive(Root)
       THEN /\ \E todo \in ByAge({t \in Are("reported") : ParentOf[t] = Root}) :
                handler' = [handler EXCEPT ![Root].at = "sweep", ![Root].todo = todo]
            /\ UNCHANGED <<apart, nudges>>
       ELSE /\ apart' = IF Root \in streaming \cup halted THEN apart ELSE apart \ ActiveUnder(Root)
            /\ IF \/ Root \in streaming \cup halted \/ ActiveUnder(Root) \subseteq apart
                  \/ Root \in mail \/ nudges >= MaxNudges
               THEN UNCHANGED <<handler, nudges>>
               ELSE nudges' = nudges + 1 /\ Move(Root, "nudge")
    /\ UNCHANGED <<config, stream, mutex, sched, asked, resuming, wait, artifact, cache, halted,
                   patching, boot, heard>>

Nudge ==
    /\ At(Root, "nudge") /\ Leave(Root) /\ Send(Root)
    /\ UNCHANGED <<born, events, mutex, sched, asked, wait, artifact, memory, boot, heard>>

\* requestReportedChildCleanupRechecks: one child after the other, under its lock
Sweeping == \E t \in Tasks : handler[t].kind = "sweep" \/ "sweep" \in ToSet(events[t])
RootSweep ==
    /\ At(Root, "sweep") /\ ~ Sweeping
    /\ IF handler[Root].todo = <<>> THEN Leave(Root) /\ UNCHANGED events
       ELSE /\ Queue(Head(handler[Root].todo), "sweep")
            /\ handler' = [handler EXCEPT ![Root].todo = Tail(@)]
    /\ UNCHANGED <<config, stream, mutex, sched, asked, resuming, wait, artifact, memory, boot, heard>>

\* promptTaskForRequiredCompletionTool
Promptable(t) == status[t] = "awaiting_report" /\ ~ HasActive(t) /\ t \notin streaming

\* handleStreamEnd of a task, handleTaskStreamError and the cleanup rechecks:
\* the status and the active descendants are read here, and used below
TaskEvent(t) ==
    LET e == Head(events[t])
        Step(a) == handler' = [handler EXCEPT ![t] =
            [at |-> a, was |-> status[t], kind |-> e, busy |-> HasActive(t), on |-> t, todo |-> <<>>]]
        ended == e \in {"report", "stop", "cut"}
        failed == e \in {"error", "fatal"} /\ status[t] = "awaiting_report" /\ ~ HasActive(t)
    IN
    /\ Waiting(t) /\ TakeEvent(t)
    /\ \/ ended /\ status[t] = "interrupted" /\ e # "report" /\ Reject(t)
          /\ UNCHANGED <<handler, status>>
       \/ ended /\ status[t] = "interrupted" /\ e = "report" /\ Step("mark")
          /\ UNCHANGED <<wait, apart, status>>
       \/ ended /\ status[t] = "reported" /\ Step("cleanup")
          /\ UNCHANGED <<wait, apart, status>>
       \/ ended /\ status[t] \notin {"interrupted", "reported", "removed"} /\ Step("plan")
          /\ UNCHANGED <<wait, apart, status>>
       \/ e \in {"recheck", "sweep"} /\ Step("cleanup") /\ UNCHANGED <<wait, apart, status>>
       \/ (e = "prompt" \/ (e = "error" /\ failed)) /\ Promptable(t) /\ Step("ask")
          /\ UNCHANGED <<wait, apart, status>>
       \/ e = "fatal" /\ failed /\ Reject(t)
          /\ status' = [status EXCEPT ![t] = "interrupted"] /\ UNCHANGED handler
       \/ \/ e \in {"error", "fatal"} /\ ~ failed
          \/ e \in {"prompt", "error"} /\ ~ Promptable(t)
          \/ ended /\ status[t] = "removed"
          /\ UNCHANGED <<handler, wait, apart, status>>
    /\ UNCHANGED <<born, stream, mutex, sched, asked, resuming, artifact, cache, halted, nudges,
                   patching, boot, heard>>

\* setTaskStatus does not look at the status it replaces
SetStatus(t, s) ==
    /\ status' = [status EXCEPT ![t] = IF @ = "removed" THEN @ ELSE s]
    /\ wait' = IF s = "running" THEN StartTimers(t) ELSE wait

\* behind isPlanLikeTaskWorkspace: no report while descendants work; a report
\* is finalized; else the task must be asked for one
PlanRead(t) ==
    LET h == handler[t] IN
    /\ At(t, "plan")
    /\ CASE h.busy ->
              /\ Leave(t)
              /\ IF h.was = "awaiting_report" THEN SetStatus(t, "running") ELSE UNCHANGED <<status, wait>>
         [] ~ h.busy /\ (h.kind = "report" \/ (h.kind = "stop" /\ h.was # "awaiting_report")) ->
              Move(t, "mark") /\ UNCHANGED <<status, wait>>
         [] OTHER ->
              IF h.was = "awaiting_report"
              THEN (IF Promptable(t) THEN Move(t, "ask") ELSE Leave(t)) /\ UNCHANGED <<status, wait>>
              ELSE /\ SetStatus(t, "awaiting_report")
                   /\ IF status[t] = "removed" THEN Leave(t) ELSE Move(t, "check")
    /\ UNCHANGED <<born, stream, events, mutex, sched, asked, resuming, artifact, memory, boot, heard>>

PromptCheck(t) ==
    /\ At(t, "check")
    /\ IF Promptable(t) THEN Move(t, "ask") ELSE Leave(t)
    /\ UNCHANGED <<config, stream, events, mutex, sched, asked, resuming, wait, artifact, memory,
                   boot, heard>>

Ask(t) ==
    /\ At(t, "ask") /\ Leave(t) /\ Send(t)
    /\ UNCHANGED <<born, events, mutex, sched, asked, wait, artifact, memory, boot, heard>>
-----------------------------------------------------------------------------
(* finalizeAgentTaskReport, still under the task's event lock.             *)

\* what follows: nothing after an interruption, else cleanupReportedLeafTask
Finished(t) == IF handler[t].was = "interrupted" THEN Leave(t) ELSE Clean(t, t)

MarkReported(t) ==
    /\ At(t, "mark")
    /\ apart' = apart \ {t}
    /\ IF status[t] = "reported" THEN Finished(t) /\ UNCHANGED status
       ELSE /\ status' = [status EXCEPT ![t] = IF Present(t) THEN "reported" ELSE @]
            /\ Move(t, "persist")
    /\ UNCHANGED <<born, stream, events, mutex, sched, asked, resuming, wait, artifact, cache, halted,
                   nudges, patching, boot, heard>>

\* the report's file, in the directories of the ancestors the index still
\* has, or not, which is only logged; then the generation of a patch starts
Persist(t) ==
    /\ At(t, "persist") /\ Move(t, "deliver")
    /\ \/ artifact' = IF Present(t) THEN artifact \cup {t} ELSE artifact
       \/ "fail" \in Features /\ UNCHANGED artifact
    /\ patching' = IF "patch" \in Features /\ Present(t) THEN patching \cup {t} ELSE patching
    /\ UNCHANGED <<config, stream, events, mutex, sched, asked, resuming, wait, cache, halted,
                   nudges, apart, boot, heard>>

PatchDone(t) ==
    /\ t \in patching
    /\ patching' = patching \ {t} /\ Queue(t, "recheck")
    /\ UNCHANGED <<config, stream, handler, mutex, sched, asked, resuming, wait, artifact, cache,
                   halted, nudges, apart, boot, heard>>

\* resolveWaiters, then maybeStartQueuedTasks, which is awaited
Resolve(t) ==
    /\ cache' = cache \cup {t} /\ apart' = apart \ {t}
    /\ wait' = End(WaitsFor(t), "report")
    /\ sched' = sched \cup {t}
    /\ handler' = [handler EXCEPT ![t].at = "slot", ![t].busy = WaitsFor(t) # {}]

\* deliverReportToParent: to who waits, or as a message of the parent's history
Deliver(t) ==
    /\ At(t, "deliver")
    /\ heard' = heard \cup {t}
    /\ IF WaitsFor(t) # {} THEN Resolve(t) ELSE Move(t, "resolve") /\ UNCHANGED <<cache, apart, wait, sched>>
    /\ UNCHANGED <<config, stream, events, mutex, asked, resuming, artifact, halted, nudges, patching,
                   boot>>

ResolveLate(t) ==
    /\ At(t, "resolve") /\ Resolve(t)
    /\ UNCHANGED <<config, stream, events, mutex, asked, resuming, artifact, halted, nudges, patching,
                   boot, heard>>

\* the parent is resumed when nobody waited and nothing is left to wait for
ParentResume(t) ==
    LET p == ParentOf[t] IN
    /\ At(t, "slot") /\ Served(t)
    /\ nudges' = IF p = Root /\ ~ HasActive(p) THEN 0 ELSE nudges
    /\ IF \/ ~ Present(p) \/ p \in halted \/ handler[t].busy
          \/ HasActive(p) \/ p \in streaming
       THEN Finished(t)
       ELSE Move(t, "resume")
    /\ UNCHANGED <<config, stream, events, mutex, sched, asked, resuming, wait, artifact, cache, halted,
                   apart, patching, boot, heard>>

ResumeParent(t) ==
    /\ At(t, "resume") /\ Finished(t) /\ Send(ParentOf[t])
    /\ UNCHANGED <<born, events, mutex, sched, asked, wait, artifact, memory, boot, heard>>

-----------------------------------------------------------------------------
(* cleanupReportedLeafTask: the task, then upwards what has become a leaf. *)

CleanableBug(x) == Its(x) = "reported" /\ x \notin streaming /\ x \notin patching

Cleanable(x) ==
    Its(x) = "reported" /\ x \notin streaming /\ Leaf(x) /\ x \notin patching

CleanupCheck(w) ==
    /\ At(w, "cleanup")
    /\ IF Cleanable(handler[w].on) THEN Move(w, "remove") ELSE Leave(w)
    /\ UNCHANGED <<config, stream, events, mutex, sched, asked, resuming, wait, artifact, memory,
                   boot, heard>>

CleanupRemove(w) ==
    LET x == handler[w].on IN
    /\ At(w, "remove")
    /\ \/ RemoveWorkspace(x) /\ Clean(w, ParentOf[x])
       \/ "fail" \in Features /\ Leave(w) /\ UNCHANGED <<config, stream>>
    /\ UNCHANGED <<events, mutex, sched, asked, resuming, wait, artifact, memory, boot, heard>>

-----------------------------------------------------------------------------
(* A restart, and initialize: the queue, then from one reading of the      *)
(* configuration what awaits a report, what was running, what has reported *)
(* (its patch, then its cleanup).                                          *)

Crash ==
    /\ "crash" \in Features /\ boot = Up
    /\ streaming' = {} /\ mail' = {}
    /\ events' = [w \in Workspaces |-> <<>>]
    /\ handler' = [w \in Workspaces |-> Idle]
    /\ mutex' = Free /\ sched' = {Root} /\ asked' = {} /\ resuming' = {}
    /\ wait' = End({v \in Waits : wait[v].at # "idle"}, "lost")
    /\ cache' = {} /\ halted' = {} /\ nudges' = 0 /\ apart' = {} /\ patching' = {}
    /\ boot' = [at |-> "slots", todo |-> <<>>]
    /\ UNCHANGED <<config, runs, artifact, heard>>

Alone(s) == {t \in Are(s) : ~ HasActive(t)}
For(s, what) == [i \in DOMAIN s |-> <<what, s[i]>>]

BootRead ==
    /\ boot.at = "slots" /\ Served(Root)
    /\ \E checks \in ByAge(Alone("awaiting_report")), asks \in ByAge(Alone("running")),
          done \in ByAge(Are("reported")) :
       boot' = [at |-> "tasks",
                todo |-> For(checks, "check") \o For(asks, "ask")
                         \o For(IF "patch" \in Features THEN done ELSE <<>>, "patch")
                         \o For(done, "cleanup")]
    /\ UNCHANGED <<config, stream, events, handler, mutex, sched, asked, resuming, wait, artifact,
                   memory, heard>>

BootStep ==
    LET what == Head(boot.todo)[1]
        t == Head(boot.todo)[2]
        Drop == boot' = [boot EXCEPT !.todo = Tail(@)]
        Instead(w, x) == boot' = [boot EXCEPT !.todo = <<<<w, x>>>> \o Tail(@)]
        Same == UNCHANGED <<status, born, stream, resuming>>
    IN
    /\ boot.at = "tasks" /\ boot.todo # <<>>
    /\ CASE what = "check" -> (IF Promptable(t) THEN Instead("ask", t) ELSE Drop) /\ Same
         [] what = "ask" -> Drop /\ Send(t) /\ UNCHANGED born
         [] what = "patch" -> Drop /\ Same
         [] what = "cleanup" -> (IF Cleanable(t) THEN Instead("remove", t) ELSE Drop) /\ Same
         [] what = "remove" -> Instead("cleanup", ParentOf[t]) /\ RemoveWorkspace(t) /\ UNCHANGED resuming
    /\ patching' = IF what = "patch" THEN patching \cup {t} ELSE patching
    /\ UNCHANGED <<events, handler, mutex, sched, asked, wait, artifact, cache, halted, nudges, apart,
                   heard>>

BootDone ==
    /\ boot.at = "tasks" /\ boot.todo = <<>>
    /\ boot' = [boot EXCEPT !.at = "done"]
    /\ UNCHANGED <<config, stream, events, handler, mutex, sched, asked, resuming, wait, artifact,
                   memory, heard>>

-----------------------------------------------------------------------------
\* what the program does by itself, and a stream that ends
MutexStep ==
    \/ CreateStored \/ CreateSent
    \/ (\E c \in Workspaces : SchedBegin(c)) \/ SchedPick \/ SchedRecheck \/ SchedSend \/ SchedMark
    \/ (\E w \in Workspaces : CascadeBegin(w)) \/ CascadeStop \/ CascadeEdit
    \/ TerminateStop \/ TerminateReject \/ TerminateRemove
HandlerStep(t) ==
    \/ TaskEvent(t) \/ PlanRead(t) \/ PromptCheck(t) \/ Ask(t)
    \/ MarkReported(t) \/ Persist(t) \/ Deliver(t) \/ ResolveLate(t)
    \/ ParentResume(t) \/ ResumeParent(t) \/ CleanupCheck(t) \/ CleanupRemove(t)
    \/ PatchDone(t) \/ ResumeSent(t)
RootStep == RootEnd \/ RootSweep \/ Nudge
BootNext == BootRead \/ BootStep \/ BootDone

UserStep == \E w \in Workspaces : UserSend(w) \/ UserQueues(w) \/ UserStop(w)
ToolStep ==
    \/ \E t \in Tasks : CreateBegin(t) \/ Terminate(t)
    \/ \E v \in Waits, t \in Tasks : WaitCall(v, t)

Next ==
    \/ UserStep \/ ToolStep \/ MutexStep \/ RootStep \/ BootNext \/ Crash
    \/ \E t \in Tasks : HandlerStep(t)
    \/ \E v \in Waits : WaitRead(v) \/ WaitTimeout(v)
    \/ \E w \in Workspaces : StreamEnds(w) \/ StreamFails(w)

Spec == Init /\ [][Next]_vars

\* every promise settles, streams end, timers fire; the user and the model are
\* free
Fairness ==
    /\ WF_vars(MutexStep) /\ WF_vars(RootStep) /\ WF_vars(BootNext)
    /\ \A t \in Tasks : WF_vars(HandlerStep(t))
    /\ \A v \in Waits : WF_vars(WaitRead(v)) /\ WF_vars(WaitTimeout(v))
    /\ \A w \in Workspaces : WF_vars(StreamEnds(w))

FairSpec == Spec /\ Fairness
-----------------------------------------------------------------------------
Status == {"none", "queued", "running", "awaiting_report", "interrupted", "reported", "removed"}
Event == {"report", "stop", "cut", "error", "fatal", "prompt", "recheck", "sweep"}
Step == {"idle", "nudge", "plan", "check", "ask", "mark", "persist", "deliver", "resolve", "slot",
         "resume", "cleanup", "remove", "sweep"}
TypeOK ==
    /\ status \in [Tasks -> Status] /\ born \in Seq(Tasks)
    /\ streaming \subseteq Workspaces /\ mail \subseteq Workspaces
    /\ runs \in [Workspaces -> 0 .. MaxRuns]
    /\ events \in [Workspaces -> Seq(Event)]
    /\ handler \in [Workspaces -> [at : Step, was : Status, kind : Event \cup {"none"},
                                    busy : BOOLEAN, on : Workspaces, todo : Seq(Tasks)]]
    /\ mutex \in [kind : {"free", "create", "sched", "cascade", "terminate"},
                  at : {"none", "queue", "fork", "send", "pick", "recheck", "mark", "stop", "edit", "reject", "remove"},
                  task : Workspaces, todo : Seq(Tasks)]
    /\ sched \subseteq Workspaces /\ asked \subseteq Workspaces /\ resuming \subseteq Tasks
    /\ wait \in [Waits -> [at : {"idle", "reading", "unstarted", "timed", "over"}, task : Workspaces,
                           got : Status \cup {"report", "error", "not found", "timeout", "aborted",
                                             "backgrounded", "lost"}]]
    /\ artifact \subseteq Tasks /\ cache \subseteq Tasks /\ halted \subseteq Workspaces
    /\ nudges \in 0 .. MaxNudges /\ apart \subseteq Tasks /\ patching \subseteq Tasks
    /\ boot \in [at : {"up", "slots", "tasks", "done"},
                 todo : Seq({"check", "ask", "patch", "cleanup", "remove"} \X Workspaces)]
    /\ heard \subseteq Tasks

\* No task outlives the workspace that created it: a cleanup, a termination
\* and a creation never leave a child without its parent.
NoOrphan == \A t \in Tasks : Present(t) => Present(ParentOf[t])

\* A wait without a timeout is a wait for a queued task: whatever takes a task
\* out of the queue starts the timeouts or ends the waits.
UntimedAreQueued == \A v \in Waits : wait[v].at = "unstarted" => status[wait[v].task] = "queued"

\* "Never allow a task to finish/report while it still has active descendant
\* tasks": the handler looks at them before it awaits something else.
ReportsLast == \A t \in Tasks : status[t] = "reported" => ~ HasActive(t)

\* Who waits for a task that has ended for good is told: no wait is left when
\* nothing is under way that could answer it.
Ended(t) ==
    /\ status[t] \in {"interrupted", "reported", "removed"}
    /\ t \notin streaming /\ t \notin resuming
    /\ handler[t] = Idle /\ events[t] = <<>>
    /\ mutex.kind \notin {"cascade", "terminate"}
NobodyHangs == \A t \in Tasks : Ended(t) => WaitsFor(t) = {}

\* No cascade, stream error, restart or resumption takes a report back.
ReportsAreFinal ==
    [][\A t \in DOMAIN status : status[t] = "reported" => status'[t] \in {"reported", "removed"}]_vars

\* a running task waits for a task it has created
RunningWait(v) == wait[v].at # "idle" /\ Its(ParentOf[wait[v].task]) = "running"
=============================================================================
