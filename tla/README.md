# Formal models of mux

mux runs coding agents in parallel: each *workspace* has one conversation with a
model, persisted in a session directory and served by a Node process
(`src/src/node`) to a desktop window, a web client, an editor or a command line.
This directory holds TLA+ models of the parts of that process whose correctness
depends on the order in which things happen, the TLC configurations that check
them on small instances, and proofs, checked by TLAPS, of what matters most.

All paths below are relative to the repository; `services/` abbreviates
`src/node/services/`. `PROJECT.json` maps every definition to the lines it
translates.

## 1. The system

Node runs one event loop, so code between two `await`s is atomic and everything
else interleaves: two requests of the user, a stream and the request that stops
it, a timer, a fork. The hard behaviours of mux are of this kind. The models
therefore have one rule of granularity: **a step ends at an await**, and what a
call does up to its first await belongs to the step of its caller.

### 1.1 Components

| component | state | operations | hard behaviours |
|---|---|---|---|
| Keyed mutex (`utils/concurrency/mutexMap.ts`, `workspaceFileLocks.ts`) | one promise per key | `withLock` | lost lock, leaked entry, nested calls that wait for each other |
| History (`services/historyService.ts`) | `chat.jsonl`, `partial.json`, the counter of the next sequence | append, update, delete, truncate, clear, `commitPartial` | decisions taken on what was read before an await; a crash between two files; a counter rebuilt from the file |
| Streams (`services/streamManager.ts`) | one entry per workspace, its abort controller and its state | `startStream`, `stopStream`, the processing loop | starts and stops that overlap; an entry dropped by somebody else; an abort during the last writes |
| Stream assembly (`services/aiService.ts`) | pending starts | `streamMessage`, `stopStream`, forwarding of events | a stop before there is a stream; the partial committed or deleted behind the abort |
| Session (`services/agentSession.ts`, `messageQueue.ts`) | turn phase, queue, waiters, the flag that defers the flush | `sendMessage`, edits, `resumeStream`, `sendQueuedMessages`, handlers of stream events | messages lost or sent twice; a session stuck in a phase; an edit against the end of the turn it edits |
| Automatic retry (`services/retryManager.ts`, `services/agentSession.ts`) | a timer, a preference file with the opt-out and the abandoned turn | schedule, cancel, fire, opt out, recover after a restart | a stop against a failure that is being handled; a retry of a session that is busy; a file that several calls read and write |
| Workspace service (`services/workspaceService.ts`) | metadata, sessions | send, interrupt, truncate, fork, create, archive, remove | the busy check against the send behind it; fork of a workspace that streams |
| Compaction (`services/compactionHandler.ts`, `compactionMonitor.ts`) | pending follow-up, processed requests | `handleCompletion`, the boundary | a boundary rewritten by a late update; a failure with messages queued |
| Sub-agent tasks (`services/taskService.ts`) | task status, queue, waiters, reports | create, start, report, interrupt, clean up | the parallel limit against awaited starts; reports against timeouts; cascades |
| Initialisation (`services/initStateManager.ts`) | hook state, waiters | start, append, end, wait | a second init against the end of the first |
| Questions and delegated calls (`services/askUserQuestionManager.ts`, `delegatedToolCallManager.ts`) | pending calls | register, answer, cancel | answer against cancel; repeated ids |
| Background processes (`services/backgroundProcessManager.ts`, `backgroundProcessExecutor.ts`) | processes by id, their directories, read positions | spawn, migrate, read, terminate, clean up | two readers of one output; a clean-up against spawns and refreshes; an id used again |
| Idle compaction, heartbeats (`services/idleCompactionService.ts`, `heartbeatService.ts`) | queue, timers | check, run, stop | a workspace used after it was found idle |
| MCP servers (`services/mcpServerManager.ts`) | a cache entry of servers per workspace, leases | get tools, restart, retry, acquire, release, idle shutdown | restarts and shutdowns against turns that hold tools; a retry that outlives its entry |
| Server discovery (`services/serverLockfile.ts`) | the lock file | acquire, read, release | two processes, one of them dead |
| OAuth flows, server authentication | flows, sessions, tokens | start, wait, finish | late callbacks and timeouts |
| Configuration, metadata, usage | JSON files | edit, save, record | lost updates |
| Runtimes, worktrees, terminals, tools, browsers | external programs | — | mostly I/O |
| Clients, shared definitions, API, command line, analytics | views of the above | — | no decisions of their own on the state above |

### 1.2 How they interact

```
 user ── WorkspaceService ── AgentSession ── AIService ── StreamManager ── provider
            │  fork,clear        │ phase,queue   │ pending start   │ stream entry
            │                    │               │                 │
            └──────────── HistoryService (chat.jsonl, partial.json) ┘
                                 │ every write under workspaceFileLocks (MutexMap)
```

Calls go to the right; events (`stream-start`, `-end`, `-abort`, `error`) come
back to the left. AIService puts work of its own before the events it forwards:
behind an abort it commits or deletes the partial first. HistoryService is
shared by everything, and only its single operations are locked.

```
 tool call ── TaskService ── WorkspaceService.sendMessage of the task's workspace
    │             ▲ stream ends of every task, under a lock per workspace
    ├── BackgroundProcessManager.getOutput      (bash_output, task_await)
    └── MCP tools ── McpServerManager, fetched before a stream and leased while it runs
```

A task is a workspace with a session of its own: TaskService creates it, sends its
first message when the parallel limit allows, and hears of the ends of its streams.

### 1.3 What makes each part correct

* The mutex: one operation per key, in order of arrival; no leak; everybody gets a turn.
* The history: sequences increase and are never reused; what was streamed and
  reached the disk is not lost; what the user removed does not come back; only
  the user removes what the user wrote; a compaction boundary stays one; a
  finished reply is never again an interrupted one.
* The streams: at most one runs and it can be found; an abort is announced last;
  a start that the user was told is aborted does not stream; nothing waits for ever.
* The session: a message is in exactly one place; the session becomes idle
  again; nobody waits for an idle session that is idle; an edit truncates before
  anything else is sent.
* The retries: a turn that failed is retried until it is answered; one that the user
  stopped, and one whose user opted out, is not, restarts included.
* The tasks: a task reports after those below it; a report is final, on disk before
  the task is removed, and reaches whoever waits; nobody waits for a task that has
  ended; a wait does not keep the task it waits for from starting; no task outlives
  its parent.
* The background processes: output is returned once and in order; a process that
  runs can be found and terminated; a process reported as exited has ended.
* The MCP servers: the tools of a turn stay open under it; no server runs that
  nothing can stop.

`PROJECT.json` lists the hazards at their lines, with the properties that cover
them or the reason why none does yet.

## 2. Modules

| module | models | used by |
|---|---|---|
| `FifoLock` | abstract: per key a queue whose head may run | `MutexMap` |
| `MutexMap` | `withLock` with its promises, nested calls included | `MCProgress`, `MutexMapProofs` |
| `ChatHistory` | `chat.jsonl`, `partial.json`, the counter, and everybody who writes them | `MCServices`, `ChatHistoryProofs` |
| `StreamManager` | the streams of a workspace and their cancellation | `MCProgress`, `MCServices`, `StreamManagerProofs` |
| `AgentSession` | the turns of a workspace, its queue, edits, interrupts | `MCProgress`, `AgentSessionProofs` |
| `AutoRetry` | automatic retry: the timer, failures, stops, the preference file, recovery | `MCServices`, `AutoRetryProofs` |
| `TaskService` | sub-agent tasks: limit, queue, waits, reports, cascades, removal, restart | `MCTaskService`, `TaskServiceProofs` |
| `McpServerManager` | the MCP servers of a workspace and the turns that use them | `MCServices`, `McpServerManagerProofs` |
| `ProcessOutput` | `getOutput` of one background process | `MCServices`, `ProcessesProofs` |
| `BackgroundProcesses` | ids, spawns, terminations and clean-ups of background processes | `MCServices`, `ProcessesProofs` |
| `MCProgress`, `MCServices`, `MCTaskService` | the instances TLC explores | — |
| `MutexMapProofs`, `ChatHistoryProofs`, `StreamManagerProofs`, `AgentSessionProofs`, `AutoRetryProofs`, `McpServerManagerProofs`, `ProcessesProofs`, `TaskServiceProofs` | theorems | — |

`ChatHistory`, `StreamManager`, `AgentSession` and `AutoRetry` look at the same turn
from different sides, and each keeps what its properties tell apart. `ChatHistory`
has the files and reduces the session to a program counter; `StreamManager` has
the cancellation protocol and reduces files to awaits; `AgentSession` has the
phases and the queue and sees a stream through its events; `AutoRetry` has what
happens to a turn that did not get its answer, and sends only to an idle session. In all modules operators that end in `Bug` are mistakes that
the mutation runs put in the place of the operator that follows them; no action
uses them.

### 2.1 `MutexMap` and `FifoLock`

A promise is named by the call of `withLock` that created it. `locks[k]` is the
map, `prev[c]` the promise `c` awaits (`NoOp` once it is resolved). `JoinChain` is
the code up to the first await, `Begin` the continuation behind it, `Finish` the
`finally` block: it releases the promise and drops the entry if it is still the
caller's own. An operation may throw; `finally` makes that the same step.
`NestedCall` is an operation that calls `withLock` itself; `MayNest` says with
which keys. `arrivals` is a history variable, the calls of a key in order of
arrival, and the refinement mapping: `queue <- arrivals`,
`running <- {c : pc[c] = "running"}`.

### 2.2 `ChatHistory`

A row has an id, a sequence, a role, a number of parts, and the marks `partial`
and `boundary`. The content of a part does not matter; how many there are does,
because `commitPartial` compares them. `worthy` stands for "has a part that may
be committed". Each locked operation of HistoryService is one action, for its
lock is held from the first read to the last write. `commitPartial` is not:
`CommitRead`, `CommitPlan`, `CommitWrite` and `CommitClean` are its awaits. It has
two callers that may overlap, the turn and a fork.

The turn follows `pc` through `AgentSession.sendMessage`, `streamWithHistory`,
`AIService.streamMessage`, the processing of the stream, and one of its ends: the
finish (flush, `deletePartial`, `updateHistory`), a failure that leaves the
partial on disk, an abort that commits it, an abandonment that deletes it, or a
compaction that makes the reply a boundary. Where the history
sent would end with a reply, the synthetic row `[CONTINUE]` is added first (pc `continue`). Where the
compaction does not find the row of its reply it appends a summary with a number of
its own (`SummaryRow`); that branch is there because the code has it, and `SInv` shows
that a session alone with its files never takes it. `Clear`, `Truncate` and `Edit` are the
user's removals with their busy check; `Crash` loses memory and keeps the disk.
Writes of the partial are taken when they are issued, since the file lock serves
them in that order. Left out: `replaceHistory`, and the variants of truncation that
keep a given message (`keepTarget`).

### 2.3 `StreamManager`

`pc[s]` follows a start (pending, cancelling the stream before, making the
directory), `loc[s]` the processing of the stream it becomes, `cancel[c]` a
cancellation, begun by a stop, a later start or the stream itself (soft
interrupt). `pending` is AIService's pending start and `told` the starts whose
abort was announced at once. `active` is `workspaceStreams`: three places delete
it without looking whose entry it is, and the model does the same.

Two facts of the code are used. The guard on `COMPLETED` in `cancelStreamSafely`
is left out, because no await separates that assignment from the deletion of the
entry; and nothing separates the check of the abort signal before registration
from the registration, so `Register` has the check.

### 2.4 `AgentSession`

A *call* is a `sendMessage` or a `resumeStream`, and `job[c]` where it is. A
message belongs to the `queue`, to the `batch` of a call (the flush of a queue
sends several as one), to the `history`, or to `gone`. `stream[c]` is what is
known of the call's stream: running, ended, failed or aborted with its handler
still to run, or over. `stream[None]` is the stream-abort that `stopStream` emits
when it finds no stream.

`Enter` is `setTurnPhase` with its waiters, `Flush` is `sendQueuedMessages` (the
queue is taken and PREPARING entered in one step), `EnterIdleFrom` are the exits
that check the phase they leave. An edit is `EditCall`, `EditStop`, `EditWait`,
`EditGoes`, `Truncate`, then the path of a send. Handlers of events have two steps where they have an await: `StreamEnds` and
`EndHandled`, `StreamFails` and `StreamFailHandled`, `AbortArrives` and
`AbortHandled`. `Interrupt` is WorkspaceService's, followed by the return of the
queue to the input or by its immediate flush.

Left out: compaction started by the token monitor and the follow-up behind a
compaction, agent switches, retries after a context overflow, recovery at
startup (see `AutoRetry`), disposal, the rule that an agent skill does not join a queued batch,
edits of a compaction that runs, and soft interrupts, which are in
`StreamManager`. Direct sends that are refused change nothing and are stuttering
steps. One abort without a stream is in flight at a time.

### 2.5 `AutoRetry`

A call that awaits something is a *job*, a record of what kind of call it is, what
it awaits (`at`) and what it has read. `memory` is RetryManager and the session's
copy of the preference file: `Cancel`, `SetEnabled`, `HandleStreamFailure`,
`Loaded`, `Persisted`, `Abandon` and `Marked` are its methods as functions, and
each action applies those its stretch of code calls. `Accepted`, `Cleared`,
`Prepare` are a send, `StreamMessage` to `StartReturns` an attempt, `Fails`,
`Handle`, `Settle` and `Settles` a failure with its mark in the file, `AbortArrives`
a stream-abort, `Recover` to `RecoveryDerives` the recovery behind a restart.
`Stop`, `Resume`, `Choose` and `Restart` are the user's.

Two simplifications. With `abandonPartial` an await of `deletePartial` lies between
`retryManager.cancel()` and `stopStream` (`agentSession.ts:2971`), where `Stop` is one
step; a stream that fails in between would be a stop that missed the retry, of which
nothing is claimed (`missedStop`). And the rerun that startup recovery defers while the
session is busy (`agentSession.ts:1399`, `1539`) is left out, so that nothing is said of
a recovery that comes after the first turn of a session.

RetryManager's generations are not there: whatever advances them also clears the
one timer. The length of the backoff is the time the timer takes, which may be
any. The file has no lock; once two calls use it at the same time (`raced`)
nothing is claimed and the behaviour ends.

### 2.6 `TaskService`

`status` is the task's status in the configuration and `born` the order of
creation. `mutex` is the holder of TaskService's mutex, which `create`, the
scheduler, terminations and cascades take in turn: `CreateBegin` to `CreateSent`,
`SchedBegin` to `SchedMark`, `CascadeBegin` to `CascadeEdit`, `Terminate` to
`TerminateRemove`. `events[w]` and `handler[w]` are the lock that serialises the
handlers of one workspace's stream ends, and the handler under way: `TaskEvent`
takes the next event, `PlanRead` and `PromptCheck` are what the handler decides
behind its awaits, `MarkReported` to `ResumeParent` the finalization of a report,
`CleanupCheck` and `CleanupRemove` the climb that removes reported leaves. A free
lock goes to whoever waits for it before anything slower happens: no stream of a
workspace ends while an event waits for its free lock (`Waiting`). `wait`
is a call of `waitForAgentReport`: without a timeout while its task is queued
(`unstarted`), then with one. `Active` is `countActiveAgentTasks`, with its
exception for tasks that wait in the foreground. `Above` is the ancestors of a
workspace; `ByAge` and `LeavesFirst` are the orders a sort may give. `RootSweep` rechecks, one after the other under the main
workspace's lock, the reported tasks below it. `Crash` loses
memory and streams; `BootRead` to `BootDone` are `initialize`, patches behind the sends.

A second assumption on time: a stream the scheduler has just started does not end
before one edit of the configuration has marked its task as running (`Marking`,
`taskService.ts:3029-3074`).

Left out: the branch of the scheduler for a queued task that already streams
(`taskService.ts:2656`), which no state of the model reaches; best-of groups, the hand-off of plans, tasks preserved under archived
parents, trust and agent definitions; edits of the configuration that overlap.

### 2.7 `McpServerManager`

`entries` is the sequence of all cache entries there have been, because calls hold
on to those that have been replaced, and `current` the cached one. `call[t]` is
the call of `getToolsForWorkspace` of turn `t` with its locals: `CacheHit`, `Defer`
(a new configuration while a stream holds a lease), `Relaunch` (dead servers
replaced under a lease), `Restart`, then `Close`, `StartServer` and an end for each
mode. `EndRetry` drops what it started if its entry was replaced. An aborted
preparation goes on with its call. Where the code has nothing that keeps two
restarts apart (`crossed`) nothing is claimed.

A configuration is the set of the names of its servers: a change of a command or of
headers under one name is not told apart from none. That a workspace becomes idle
between the fetch of its tools and the lease is ruled out as a matter of time (minutes
against a few awaits), so nothing is shown of it. `stopServers` by the removal of a
workspace is left out.

### 2.8 `ProcessOutput` and `BackgroundProcesses`

A byte of `output.log` is what it is (`Byte`: a character of one byte, the two bytes of
another, the end of a line, a byte order mark), and output is named by its position
there, so that "once and in order" can be said of it. A read is decoded on its own:
`Decoded` turns what is not a whole character of the read into a replacement
character and drops a mark that comes first, and the position moves by `ByteLength` of
the *text*, as the code does (`backgroundProcessExecutor.ts:328`,
`streamUtils.ts:25`). When that differs from the bytes read, `torn` is set for good. A
read that fails returns nothing. `reader[r]` has the locals of `getOutput`; `Lock`,
`Read`, `Accumulate`, the decision, `Drain` and `GiveLines` are its steps. An interrupted
call forgets what it has read (`dropped`). A filter is whether the lines read are shown.

`BackgroundProcesses` has the map by id, the processes themselves, their status and the
`exit_code` files of the directories; all processes are given one name, since only
then do ids repeat. `Spawn`, `Launch` and `EnterProcess` are a spawn; `RefreshBegin` and
`RefreshEnd` the look for an exit code; `UserTerminates`, `TimerFires` and `Stopped` a
termination; `Cleanup` and `CleanedUp` the clean-up before a compaction, one at a time:
two that overlap (`backgroundProcessManager.ts:919-936`) delete by id, the later one
perhaps an entry that a spawn has put there since. `terminateAll` is left out.

## 3. Runs

Every run explores its whole state space; none has a state constraint. A run may
hold several *scenarios*: a behaviour keeps the one it starts with and only that
component moves, so the state spaces add up. Components in different scenarios of
one run do not interact.

| run | instance | result |
|---|---|---|
| `progress` | scenarios mutex, stop, turns, compaction, queue; 65,901 states | holds |
| `services` | scenarios turns, removals, crashes, forks, starts, mcp, output, processes, messages, failures; 2,251,367 states | holds |
| `tasks` | scenarios waits, faults, failures, refusals, breaks, stops, resumes; about 1.1 million states | holds |
| `history_removedback`, `history_forkfinal`, `history_crashloss`, `streams_twolive`, `session_edit`, `tasks_deadlock`, `tasks_cleanup`, `tasks_order`, `processes_staleexit` | the smallest instance that shows the finding | violated |

### 3.1 `progress`

Small instances, since liveness looks at the whole graph of states.

* *mutex*: 2 keys, 4 calls, nesting `k1` then `k2`. `MutexTypeOK`,
  `MutualExclusion`, `Chain` (the map holds the last caller's promise and each
  caller awaits the one just before), `NoLeak`, `ImplementsFifoLock` (the abstract
  lock as a property), `EveryCallRuns`. Four calls suffice for a predecessor, a
  holder, a waiter and a nested call at once.
* *stop*: 2 starts and a stop, failures. `ToldNeverStarts`, and the liveness
  properties `StartsReturn`, `CancelsReturn`, `AbortsAreReported`. The stop
  meets each point of the start, the stream, its retry and its end.
* *turns* (a send, an edit, an interrupt or a retry, failures and refusals), *compaction*
  (a second send, which is a compaction, in the place of the edit) and *queue* (all three,
  without interrupts, retries and failures): `OnePlace`, `WaitersAreBusy`, `DeferredForEdit` and
  `TurnsEnd`, the session becomes idle again. The first three are proved for any numbers
  of sends, edits, interrupts and retries (`AgentSessionProofs`).

### 3.2 `services`

* *turns* (4 messages, 2 parts; abort, error, compaction): `RowsInOrder`,
  `CounterAhead`, `ContentStays`, `UserRowsStay`, `BoundariesStay` through every end
  of a turn and its resumption. Four messages are two full turns; two parts are
  the least for which "more parts than" differs from "some parts".
* *removals* (5 messages, 2 parts; abort, compaction, clear, truncate, edit): the
  same, and `RemovedStaysRemoved`: a partial left on disk must not bring back what
  the user removed. Five messages let a turn follow a truncation that follows a turn.
* *crashes* (4 messages; a restart at any await besides): afterwards the counter
  comes from the last row, and a partial that was found is committed by the next
  turn.
* *forks* (3 messages; a fork's commit against the end, the abort and the
  compaction of the turn it copies): `CounterAhead`, `BoundariesStay`, `UserRowsStay`.
* *starts*: 3 starts that may overlap and fail, no stop. `OneAtATime` and
  `CanBeFound`: a start meets one that holds the mutex and one that streams; and
  `AbortIsLast`. What a stop does to the first two is finding 4.
* *mcp* (3 turns, 2 servers, at most 3 instances, 2 edits, deaths or failed starts):
  `ToolsStayOpen`, `NoServerLost`. Three turns and two troubles are the least for a
  retry whose entry is replaced while it runs.
* *output* (2 calls of `getOutput`, 3 bytes): `OutputOnceInOrder`. Three bytes are a
  line and the start of the next, read in pieces, or a character cut between its two
  bytes with a line behind. A behaviour ends where a read was `torn`: nothing is claimed
  after it.
* *processes* (2 processes, kills that may fail): `RunningIsKnown`.
* *messages* (2 sends, 1 failure, 2 stops, choices or restarts) and *failures*
  (1 send, 3 failures, 1 stop, choice or restart): `StopsHold`, `OptOutHolds`,
  `RetriesGoOn`. An opt-out, a failure that writes the mark, a restart and a new
  send are needed for an opt-out to be lost in the file.
* `TypesHold` is the type of whichever component moves.

### 3.3 `tasks`

A user's workspace, a task below it and a task below that, one call that waits; a limit
of one and three streams of each unless said otherwise. The scenarios differ in what may
happen:

| scenario | what may happen | bounds |
|---|---|---|
| *waits* | timeouts; fair | — |
| *faults* | failing streams, a restart | — |
| *failures* | failing streams and file operations, patches, a restart | one stream |
| *refusals* | failing streams, refused sends and failing file operations, save that the files of reports are written (`Written`) | a limit of two, two streams, no nudge |
| *breaks* | terminations, failing file operations and streams | one stream |
| *stops* | the user stops the main workspace and queues in it | one stream |
| *resumes* | the user stops and resumes one task (nesting limit one), file operations fail | — |

A limit of one is the hardest for the queue, and a chain of two has a task that is both
parent and child; a limit of two lets a parent be resumed while its child runs.

* `TypeOK` and `NoOrphan` (no task outlives the workspace that created it), in all;
  `UntimedWaitForTheQueue` (a wait without a timeout waits
  for a queued task), not in *breaks*, where a termination takes a task away;
* `NobodyIsForgotten` (who waits for a task that has ended for good has been told), in
  *waits*, *faults*, *failures* and *refusals*, that is, unless a task is stopped or
  terminated. `stranded` are the calls that waited when a resumption failed and its
  task was set back to interrupted: section 4 says what the code does to them;
* `ReportsAreFinal`: no cascade, error, restart or resumption takes a report back;
* `RunningWaitsEnd`: a running task that waits for a task it created gets an answer.

That a task reports after those below it is not among them: `tasks_order` shows that it
may not, with two tasks below a first (`Fork`), a limit of two, and nothing that fails.

### 3.4 What holds for all runs

Deadlock is not checked in the passing runs: the systems really stop when their calls are
used up or their bounds reached, and say `CHECK_DEADLOCK FALSE`; that nobody waits
for ever is what the liveness properties and `NobodyIsForgotten` say. No run uses
symmetry.

Bounds: `MaxMsg` and `MaxParts` (messages ever created, parts of a reply) in
`ChatHistory`; `MaxOutside` (interrupts and retries together) in `AgentSession`;
`MaxSent`, `MaxFailed`, `MaxActs` in `AutoRetry`; `MaxRuns` (streams of one
workspace) and `MaxNudges` (a limit of the code, made small) in `TaskService`;
`MaxInstances` and `MaxTroubles` in `McpServerManager`; `MaxBytes` in `ProcessOutput`;
the sets of calls elsewhere. `Features`, `MayFail`, `MayOverlap` and `KillsFail` say what
may happen in a run besides the ordinary.

### 3.5 Fairness

* `MutexMap`: weak fairness of `Begin`, since promise continuations run; strong
  fairness of `Finish`, since an operation may make nested calls while it runs
  but makes finitely many, then returns or throws. Without an order on the keys
  (`MayNest` cyclic) TLC finds two operations that wait for each other: that is the
  deadlock the callers of the code have to avoid.
* `StreamManager`: weak fairness of each start, cancellation and processing,
  which are promises that settle (file operations, removal of a directory). None
  of the provider, which may stream for ever, save that the loop ends once the
  stream was aborted: it tests the signal at every part, and the signal also goes
  to the request.
* `AgentSession`: weak fairness of the program as a whole; the event loop runs
  what is ready, and no part of the program can run without end. Streams come to
  an end here, which `StreamManager` shows for those that are aborted. Users,
  retries and failures have no fairness.
* `TaskService`: weak fairness of whoever holds the mutex, of each workspace's
  handler and of the continuations of a wait, which are promises that settle and
  timers that fire; and of the end of each stream, since a task whose agent never
  stops has no answer. None of what a model decides (to create, to wait, to report)
  nor of the user.

## 4. Findings

Each is a run that states what a comment of the code says, and violates it.

1. `history_forkfinal` (`FinalizedOnce`). A fork commits the partial of a workspace
   that streams. It reads the partial, decides by the history, and writes; the
   stream may finish between. The commit then replaces the finished reply with
   the interrupted one of fewer parts, although the comment of `commitPartial`
   says a finalized partial is not committed again.
2. `history_crashloss` (`NoContentLost`). At the end of a stream `partial.json` is
   deleted before `chat.jsonl` is updated. A crash between the two leaves an
   empty placeholder and no partial: the reply is lost, although the flush before
   is there "for crash resilience".
3. `history_removedback` (`RemovedStaysRemoved`). A reply that failed leaves its
   partial on disk. After the user cleared the history the next turn commits it,
   and what was cleared is back.
4. `streams_twolive` (`OneLive`). A hard stop during the last writes of a stream
   finds it unfinished, lets it emit `stream-end`, and then drops "the
   workspace's entry", which may by then be the next stream's. That stream
   cannot be found any more, and a third one runs beside it.
5. `session_edit` (`EditTruncatesFirst`). An edit sets the flag that keeps the end
   of the turn from sending the queue only behind the awaits of its interrupt. A
   turn that ends in between sends the queue into a turn of its own, which the
   edit then removes together with the queued message.
6. `tasks_deadlock` (`AwaitedTasksStart`). A task that ended its stream without a
   report is asked for one, in a stream with its tools. It may create a task there
   and wait for it; it is `awaiting_report`, so the exception for foreground waits
   does not free its slot, and under a limit of one the other is never started.
7. `tasks_cleanup` (`FinalizedBeforeRemoved`). The clean-up of a child climbs to its
   parent under the child's lock, and removes a parent whose own handler has set
   `reported` and is still writing the report: nobody finds it later.
8. `processes_staleexit` (`ExitedHasEnded`). A clean-up forgets a process but leaves
   its directory; the next process of that name gets the same id and finds the
   exit code of the one before. It is reported as exited while it runs.
9. `tasks_order` (`ReportsLast`). The handler of a stream's end says "Never allow a task
   to finish/report while it still has active descendant tasks"
   (`taskService.ts:3427`). It reads the descendants, awaits (the definition of the
   agent, which may be at the other end of an SSH connection), and reports. Of two tasks
   below one, the first reports meanwhile and its handler resumes their parent, whose own
   handler has found nothing below it; the new stream creates the second, and the parent
   reports over it. Nothing fails in this; it needs awaits that take as long as the
   provider's answer.

Seen besides, and kept out of the properties by premises, which are named. Of these a
comment speaks:

* Output that is not read as it was written. A read is decoded by itself and the
  position moves by the length of the text, so a read that ends inside a character of
  several bytes, bytes that are no UTF-8, and a byte order mark move it wrongly, and
  output is skipped or returned twice (`torn`). `getOutput` "Returns only NEW output
  since the last call" (`backgroundProcessManager.ts:485`).
* An interrupted wait for output forgets what it has read, and the position has moved
  (`dropped`; `backgroundProcessManager.ts:627`), although "incomplete line fragments (no
  trailing newline) are kept in buffer for next read" (`:550`, and `:591`). TLC violates
  `NothingIsLost` at once with either.
* Spawns of one name that overlap share an id (`overlapped`), where
  `backgroundProcessManager.ts:167-168` promises unique ones. A process whose kill
  failed is marked `killed` and is then no longer one that `RunningIsKnown` speaks of.
* A `stream-abort` may come after a `stream-end`, which `streamManager.ts:993-995` says
  should not be. `AbortIsLast` allows it: it happens in the behaviours of finding 4.
* Waits nobody answers. A stream that fails leaves a task interrupted; the handler of a
  task below resumes it, and while it counts as running the workspace above may wait for
  it. If the resumption is refused, `restoreInterruptedTaskAfterResumeFailure`
  (`taskService.ts:3172`) sets it back to interrupted and ends no wait. Its comment speaks
  of "fail-fast interrupted semantics" (`:3170`), and another says that no waiter should
  depend on a timeout (`:3519-3523`). These waits are `stranded`, and TLC violates
  `NobodyIsForgotten` in *refusals* without that word (in the other scenarios it holds
  without: a limit of one, or one stream, leaves no room for the wait).

No document says what should happen in these:

* A wait for a task the user has stopped can be left without an answer in the same way
  ({stop}); and `terminateDescendantAgentTask` ends the waits before it removes the task,
  so that one may be registered between ({terminate}).
* Removals and partials of another turn. `commitPartial` finds the row of a partial
  by its sequence number alone (`historyService.ts:921`), and `/clear` starts the
  numbers again. So a fork that read the partial before a `/clear` and commits it
  after the next message was sent overwrites that message; and so does a partial
  that an error left, when its row was cleared. A partial that is committed after a
  truncation and a crash can likewise get a number that was handed out again.
  TLC finds `UserRowsStay` violated with `Features` {fork, clear} and with {error,
  clear} for 4 messages, and `CounterAhead` with {error, truncate, crash} for 5: this
  is what the theorems of `ChatHistoryProofs` exclude by `Steady`, and why the
  scenarios of `services` keep these apart.
* A fork's commit that is late by a compaction. The decision looks for the row behind
  the latest boundary only, so a partial whose row has come to lie before it is
  appended, as a second row with that id and sequence at the end of the file
  (`SequencesIncrease` with {fork, compact} for 3 messages). A restart then rebuilds
  the counter from this row, hands numbers out again, and a reply overwrites a message
  of the user's (`UserRowsStay` with {fork, compact, crash} for 5). Without a crash and
  without removals the user's rows and the boundaries are safe from forks, which is
  the premise `Undisturbed`.
* Two restarts of MCP servers that overlap leave the servers of one of them running
  with nobody to stop them (`crossed`; `mcpServerManager.ts:1232`).
* The mark of an abandoned turn, written before the preference was read, replaces an
  opt-out (`raced`; `agentSession.ts:883`); a retry whose start the user stopped
  clears the mark of the stop (`agentSession.ts:775`); a stop while a failure is
  being handled does not reach the retry that is scheduled behind it (`missedStop`).
* Tasks that lose their parent. The user stops a task `a` while its tool call creates
  `c`: the stream is gone, `a` reports in its next one and is removed in the climb from
  another of its children while the create still has the mutex, which then stores `c`
  (`Users` {a}, two children of `a`, {user, stop}). Or `initialize` asks a task for its
  report that a create is just sending the first message, the task creates one of its
  own, and the create fails and removes it ({crash, fail}). TLC checks `NoOrphan`
  where neither happens, and `NoneIsOrphaned` proves it there (`Quiet`).
* More ways to finding 9: in a chain of three with stream errors (a limit of three) the
  handler of the third resumes the second, which was interrupted, below a first that has
  reported; with a restart, two tasks in the main workspace and one below the first (a
  limit of one), the scheduler starts a queued task that `initialize` then lists as
  running, and asks a second time while the task is about to report. A user who stops a
  workspace or writes to a task that has a task below it takes the order away in a chain
  of two (that a user may do so is no defect).

## 5. Proofs

`tlapm` checks the theorems for every value of the constants, from the named
assumptions of the modules alone (`NoOp`, `None` are not calls; starts and stops
are different things), or from the premise the theorem itself states.

* `MutexMapProofs`. The inductive invariant is `TypeOK /\ Chain /\ RunsUnblocked`.
  Mutual exclusion is not inductive: that nobody else runs is known only because
  a caller awaits the one before it, which is `Chain`, and because whoever runs
  awaits nobody, which is `RunsUnblocked`. `LinkedAppend` and `LinkedTail` show
  that a call that arrives and one that finishes keep a chain a chain;
  `UnblockedIsFirst` that one who awaits nobody is first. Then `Excludes`,
  `LeaksNothing`, and `Refinement`: each step is one of `FifoLock` or a stutter.
  Each call awaits the one just before it: `Chained`.
* `ChatHistoryProofs`. `TypeCorrect`, whatever may happen; and `CounterStaysAhead`
  for everything but crashes, forks included. The other properties are about a row
  over time and hold of a session that is alone with its files (`Steady`: no fork,
  and not both removals and partials left by errors or crashes; section 4 has TLC's
  counterexamples without it): `RowsIncrease`, `CounterSurvivesCrashes`,
  `UserRowsAreKept`, `BoundariesAreKept`, `FinalizedReplies`, `RemovedForGood`, and
  without crashes `ContentIsKept`. The counter survives a crash because it is rebuilt
  from the *last* row, so the rows have to be in order; they are, because whatever
  is written late replaces the row it was made for. That is the heart of `SInv`:
  the reply and the partial are versions of one row, the last of its epoch, and it
  is still there (`Belongs`); a commit's snapshot is the partial (`CommitPhases`), and
  there is none where the turn writes the row itself (`PartialPhases`). `FileSteps`
  reduces every step to one of a few changes of the file, which the properties are
  then read from. For content, `Records` (a partial has no fewer parts than were
  ever kept of its row) and `Committed` say where the longest version is while a
  commit is under way. With forks, and neither removals nor crashes (`Undisturbed`):
  `UserRowsKeptByForks` and `BoundariesKeptByForks`. Rows are then neither in order nor
  unique, and a commit's snapshot is not the partial. What is left is that an id and a
  sequence name the same row, of the rows and of every version of a reply that is
  about (`Named`: the reply, the partial, what two committers have read), and that a
  version that may be deleted is of a message that is over and not a boundary
  (`Unfinished`); so every step is `Harmless`. The lemmas about `Largest`, `First`, `Without` and `SubSeq` come
  first.
* `AgentSessionProofs`. `InOnePlace`, `NobodyWaitsForIdle`, `DeferredWhileWaiting` and
  `TypeCorrect`, for any messages, edits, retries and interrupts. A message in one
  place is not inductive: it could be flushed out of the queue into a batch and
  also be in the history unless a batch moves as a whole. `Located` says so: batches
  are apart, a batch that was not sent is in no row, one that is a row was not
  discarded, and one that is neither is gone. Besides, a retry sends nothing of its
  own (`RetriesSendNothing`), and the queue holds no edit (`Deferral`), so that a flush
  leaves whoever defers it waiting.
* `AutoRetryProofs`. `StopsAreKept`, `OptOutsAreKept`, `NoFailureIsForgotten` and
  `TypeCorrect`, for any numbers of messages, failures, stops, choices and restarts.
  What the user chose and the mark of an abandoned turn live in three places, the
  file, the memory and the calls that read or write the file, and none of the three
  properties is kept by a step alone. As long as no two calls raced for the file,
  one call at most uses it (`Alone`); so what memory and the calls know is what the
  file holds or will hold (`Copy`), and that is what the user chose last (`Opted`). A
  stopped turn is answered, marked as abandoned, or a stream-abort is on its way to
  mark it (`Over`, `Halted`), and the mark is that of the last message (`Current`,
  `CurrentAborts`), so that neither a handler nor the recovery behind a restart
  schedules it. A failure that is owed a retry has an attempt, a timer or a call
  that still asks for the preference (`UnderWay`), and no abort is about that could
  take it away (`Unaborted`). All of this is conditional on `raced`, which is set for
  good; the stop also needs that it met no call it cannot reach (`missedStop`). The
  first half of the module says what each step does to the memory and the calls,
  so that the second does not expand the actions.
* `McpServerManagerProofs`. `NobodyIsLost` and `ToolsAreKept`, for any numbers of
  turns, servers, restarts, deaths and edits, as long as no two restarts cross, and
  `TypeCorrect`. Servers are taken in the order of their names by a minimum, hence
  the premise `Server \subseteq Nat`. That nothing is lost needs what is known of each
  call and the cache (`One`) and of each two calls (`Two`): a retry asks for names that
  are not in the cache and that no other retry asks for, so that what it merges
  displaces nothing; whoever restarts is alone with what it took out; what one call
  has started no other closes. That tools stay open needs besides that a server in
  the cache is the only one of its name (`CacheInv`: a relaunch stops by name), and
  that neither a clean-up nor a restart happens between the call and the end of the
  stream (`Timing`: the lease is held exactly while a stream runs, and until then
  the entry is not idle). All of this is conditional on `crossed`, which is shown to
  be set for good.
* `StreamManagerProofs`. `TypeCorrect`; `Placed` (where a start, its stream and its
  cancellation may be at the same time) and `Logged` (what has been emitted at
  each place) give `AbortsLast` and `ToldIsTrue` for any number of starts and
  stops. `Alone` (whoever streams is the registered one; only a start that holds
  the mutex cancels, and no stream is registered when it goes on) gives `OneStream`,
  one stream at a time, under the premise that there are no stops: finding 4 is why
  the premise is needed.
* `ProcessesProofs`. `OnceInOrder`, for any number of calls of `getOutput` and any
  output, bytes that are no UTF-8 included: until a read is `torn` or a call `dropped` what
  it had read, all that was read is returned once and in order. The invariant adds that
  whoever has left the lock's queue holds the lock and started
  from the present fragment (`OneInside`), and that what it read and has not
  counted begins where the count ends, unless it was decoded to something else
  (`ChunksFollow`): without the second, a count could move past bytes nobody has.
  `NothingReplaced` says that a chunk that is what was written has its own byte length.
  `Continues` and `Cut` are the two facts about
  sequences: reading on extends the positions in order, and cutting the complete
  lines from the rest loses nothing, which needs that `CompleteUpTo` is a place in
  the sequence (`CompleteIsWithin`). The premise is that the name for "nobody" is not
  a call. That the position lies within the file is not claimed: it does not, behind a
  read with replacement characters.
  `KnownWhileRunning`, for any set of processes that
  does not contain 0, which marks a free id. A clean-up drops whatever has the ids
  of what it found, several awaits later; that this takes nothing that runs needs
  that the ids are still theirs (`IdsOfTheirOwn`, which rests on `UniqueIdIsFree`)
  and that each was terminated meanwhile (`MatchedStop`).
  The types of both are `OutputTypeCorrect`, which needs that all a call has read and
  taken over is a byte of the file or a replacement character (`InFile`), and `ProcessesTypeCorrect`: an exit code is
  written under an id, which who runs or is being terminated has had since its spawn
  began (`StartedHaveIds`), overlapping spawns included.

* `TaskServiceProofs`. `TypeCorrect`, `ReportsStay`, `UntimedQueue` and `NoneIsOrphaned`,
  for every tree of tasks. Almost every step is about a task that somebody looked at
  several awaits before, and nothing orders the mutex with the event locks. `Basic`
  says what is still true of such a task: one that is being created is not there, one
  the scheduler is about to start is queued, one a cleanup is about to remove is over,
  one a plan is read for has not reported, and nothing is under way for a task that has
  not started (`Untouched`). From it follows, one lemma for each action, how a status may
  move (`Moves`), and `ReportsStay` is read from that. `UntimedQueue` is for a system
  without `terminateDescendantAgentTask`; `AlwaysUntimed` says what that tool changes (the
  waits end before the removal, but one may be registered between the two).
  `NoneIsOrphaned` needs `Family`: who creates a task streams until it is stored
  (`CreatorKept`), what a handler or `initialize` is about to remove is a leaf and stays
  one (`Removables`), a termination has the children of a task before it on its list
  (`LeavesAreFirst`), and a task whose first message is being sent is not cleaned up,
  since a handler that has reported it waits for the mutex in `maybeStartQueuedTasks`
  (`NewStays`) and, unless there was a restart, it does nothing yet (`NewRuns`): that is
  why the create that fails may remove it. The premise `Quiet` excludes the two ways
  TLC finds to an orphan (section 4). The tree enters by three lemmas: the ancestors of a
  task are its parent and the parent's (`AboveIs`), it lies deeper than its parent
  (`Deeper`), and an order of a set's members has them all (`HasAll`).
  `NobodyWaitsInVain` is about a program that runs undisturbed
  (`Calm`: the user leaves the tasks alone, no stream fails, nothing restarts; timeouts,
  patches and failing file operations may happen) and terminates no task. Such a
  program is `Steady`, for every tree: an interrupted task was never started
  (`Dormant`), and nothing is asked of a task again before it has reported
  (`Rechecked`). The task a call waits
  for is queued, at work, or its handler is about to deliver (`Answered`), and a task that
  may still be taken away by a failed creation has no call waiting (`NewUnawaited`).
  Where streams fail, the waits of section 4 stay without an answer, and with the
  exception for them (`NobodyIsForgotten`) it is checked only. Nothing is proved of the
  order of reports: finding 9 violates it in a program that is `Calm`.

Model-checked only: liveness (`EveryCallRuns`, `StartsReturn`, `CancelsReturn`,
`AbortsAreReported`, `TurnsEnd`, `RunningWaitsEnd`), since the prover has
no support for `ENABLED`; `NobodyIsForgotten` of the tasks where
streams fail and where the program restarts; and that a stop does not disturb `OneStream`
where it does not meet the last writes. Before it was proved, each inductive invariant was
checked by TLC on the instance of its run; `Family` besides on three tasks in a chain
and two below one; `Waited` on a chain of two with timeouts, failures, patches and
messages of the user. The wrappers of
`MCServices` and `MCProgress` (`RowsInOrder`, `ContentStays`, `ToolsStayOpen`,
`OneAtATime`, ...) say in which scenario a property of a component is checked; the theorem
is about the component's own property.

## 6. Plan

Done: the mutex, the history, the streams, the session, the retries, the tasks,
MCP servers, background processes. In order:

1. **An abstract turn.** A module `Turn` (a message is accepted, answered once or
   reported as failed or aborted; the events of one turn end before those of the
   next begin), with `AgentSession` over the events of `StreamManager` as its
   implementation. Properties on the order of messages and on aborts that come
   from the turn before.
2. **Compaction**: `handleCompletion`, the follow-up that is dispatched behind it
   and survives a restart, compaction by the token monitor. Extends `AgentSession`.
3. **What the modelled components lack**: foreground processes and their move to the
   background; best-of groups and plans of tasks; creation, archiving and removal of
   workspaces, which meet tasks, initialisation and processes.
4. **Small protocols, one module each**: `InitStateManager`,
   `AskUserQuestionManager` and `DelegatedToolCallManager` (one abstract
   specification of a pending call for both), `ServerLockfile` with two processes,
   `IdleCompactionService`, OAuth flows, the connection pool of the SSH runtime.
5. **Files shared by writers**: configuration edits, usage, extension metadata.

Theorems, in order: who waits is told, or is `stranded`, with failing streams; the
refinement of `Turn`.

## 7. Not modelled

Model requests, tools, prompts, token counting, formatting, and the byte layout
of files: data no property looks at. Runtimes, terminals, browsers and git: external
programs. User interfaces: they show the events of the services. Within the
modelled components, what sections 2.4 to 2.8 leave out. The components and reasons
are listed one by one in `PROJECT.json`.

Most of the repository's lines are user interface, tool bodies, runtimes and
schemas; the map covers the services that decide about shared state, and of those
the functions whose steps interleave.
