-------------------------- MODULE TaskServiceProofs --------------------------
(***************************************************************************)
(* What holds of the sub-agent tasks for every tree of tasks, every limit  *)
(* and every choice of Features.                                           *)
(*                                                                         *)
(* A step of TaskService is often about a task that was looked at several  *)
(* awaits before: the mutex holds a list of tasks, a handler the status    *)
(* and the workspace it has read, initialize a list of items.  The         *)
(* invariant Basic says, besides the types, what is still true of such a   *)
(* task: a task created is not there before, what the scheduler is about   *)
(* to start is still queued, what a cleanup is about to remove is over,    *)
(* and nothing is under way for a task that has not started.  From it      *)
(* follows how a status may move (Moves), one lemma for each action.       *)
(*                                                                         *)
(* The invariant Family says what keeps a task from losing its parent: the *)
(* creator streams while the task is created, the task is not cleaned up   *)
(* while its first message is sent, and removals come to the leaves first. *)
(*                                                                         *)
(* A program that runs undisturbed (Calm) is Steady: an interrupted task   *)
(* was never started, and nothing is asked of a task again before it has   *)
(* reported.  Then Waited says why who waits is told (the task he waits    *)
(* for is at work, or its handler about to end the waits).                 *)
(***************************************************************************)
EXTENDS TaskService, TLAPS, FiniteSetTheorems, SequenceTheorems

-----------------------------------------------------------------------------
(* The types, a part for each group of variables.                          *)
HandlerT == [at : Step, was : Status, kind : Event \cup {"none"}, busy : BOOLEAN, on : Workspaces,
             todo : Seq(Tasks)]
MutexT == [kind : {"free", "create", "sched", "cascade", "terminate"},
           at : {"none", "queue", "fork", "send", "pick", "recheck", "mark", "stop", "edit", "reject", "remove"},
           task : Workspaces, todo : Seq(Tasks)]
Answer == Status \cup {"report", "error", "not found", "timeout", "aborted", "backgrounded", "lost"}
WaitT == [at : {"idle", "reading", "unstarted", "timed", "over"}, task : Workspaces, got : Answer]
Item == {"check", "ask", "patch", "cleanup", "remove"} \X Workspaces

ConfigTyped == status \in [Tasks -> Status] /\ born \in Seq(Tasks)
StreamTyped ==
    /\ streaming \subseteq Workspaces /\ mail \subseteq Workspaces
    /\ runs \in [Workspaces -> 0 .. MaxRuns] /\ resuming \subseteq Tasks
EventsTyped == events \in [Workspaces -> Seq(Event)]
HandlerTyped == handler \in [Workspaces -> HandlerT]
MutexTyped == mutex \in MutexT /\ sched \subseteq Workspaces /\ asked \subseteq Workspaces
\* who waits waits for a task
WaitTyped == wait \in [Waits -> WaitT] /\ \A v \in Waits : wait[v].at # "idle" => wait[v].task \in Tasks
SetsTyped ==
    /\ artifact \subseteq Tasks /\ cache \subseteq Tasks /\ heard \subseteq Tasks
    /\ halted \subseteq Workspaces /\ apart \subseteq Tasks /\ patching \subseteq Tasks
    /\ nudges \in 0 .. MaxNudges
BootTyped == boot \in [at : {"up", "slots", "tasks", "done"}, todo : Seq(Item)]

-----------------------------------------------------------------------------
(* What is known of the task a step is about, although it was read, or put *)
(* on a list, several awaits before.                                       *)
Unborn == {"none", "queued"}
Over(x) == x \in Tasks /\ status[x] \in {"reported", "removed"}
Creating == mutex.kind = "create" /\ mutex.at # "send"
Sending == mutex.kind = "create" /\ mutex.at = "send"

\* nothing is about of a task that has not started, unless it is just being marked
Fresh(t) ==
    /\ t \in streaming => Marking(t)
    /\ t \notin resuming \cup patching /\ handler[t].at = "idle" /\ events[t] = <<>>
Untouched == \A t \in Tasks : status[t] \in Unborn => Fresh(t)

MutexPhases ==
    /\ mutex.kind = "create" => mutex.task \in Tasks /\ mutex.at \in {"queue", "fork", "send"}
    /\ Creating => status[mutex.task] = "none"
    /\ Sending => status[mutex.task] \notin Unborn
    /\ mutex.kind \in {"sched", "cascade", "terminate"} => mutex.todo # <<>>
    /\ mutex.kind = "sched" => mutex.at \in {"pick", "recheck", "send", "mark"}
    /\ mutex.kind = "sched" /\ mutex.at # "pick" => status[Head(mutex.todo)] = "queued"
    /\ mutex.kind = "cascade" => mutex.at \in {"stop", "edit"}
    /\ mutex.kind = "terminate" => mutex.at \in {"stop", "reject", "remove"}
    /\ mutex.kind = "terminate" => \A i \in DOMAIN mutex.todo : status[mutex.todo[i]] # "none"
\* whoever has a task has been started
Elder(t) == ParentOf[t] = Root \/ status[ParentOf[t]] \notin Unborn
Lineage ==
    /\ \A t \in Tasks : status[t] # "none" => Elder(t)
    /\ Creating => Elder(mutex.task)
HandlerPhase(t) ==
    /\ handler[t].at # "nudge"
    /\ handler[t].at = "plan" => status[t] # "reported"
    /\ handler[t].at = "remove" => Over(handler[t].on)
    /\ handler[t].at = "cleanup" => handler[t].on = Root \/ status[handler[t].on] # "none"
RootPhase ==
    /\ handler[Root].at \in {"idle", "nudge", "sweep"}
    /\ \A i \in DOMAIN handler[Root].todo : Over(handler[Root].todo[i])
HandlerPhases == RootPhase /\ \A t \in Tasks : HandlerPhase(t)
BootPhases ==
    \A i \in DOMAIN boot.todo :
        /\ boot.todo[i][1] \in {"check", "ask"} => boot.todo[i][2] \in Tasks
        /\ boot.todo[i][1] = "remove" => i = 1 /\ Over(boot.todo[i][2])
        /\ boot.todo[i][1] = "patch" => Over(boot.todo[i][2])
        /\ boot.todo[i][2] = Root \/ status[boot.todo[i][2]] \notin Unborn

Basic ==
    /\ ConfigTyped /\ StreamTyped /\ EventsTyped /\ HandlerTyped /\ MutexTyped /\ WaitTyped
    /\ SetsTyped /\ BootTyped /\ Untouched /\ Lineage /\ MutexPhases /\ HandlerPhases /\ BootPhases

\* how a status may change: nothing becomes queued again, nothing is created
\* twice, and a report is not taken back
Moves ==
    \A t \in Tasks :
        \/ status'[t] = status[t]
        \/ status[t] = "none" /\ status'[t] \in {"queued", "running"} /\ Creating /\ t = mutex.task
        \/ status[t] = "queued" /\ status'[t] \in {"running", "interrupted", "removed"}
        \/ /\ status[t] \in {"running", "awaiting_report", "interrupted"}
           /\ status'[t] \in {"running", "awaiting_report", "interrupted", "reported", "removed"}
        \/ status[t] = "reported" /\ status'[t] = "removed"

-----------------------------------------------------------------------------
(* The tree of workspaces.                                                 *)
LEMMA Tree ==
    /\ Root \notin Tasks /\ Root \in Workspaces
    /\ \A t \in Tasks : t \in Workspaces /\ ParentOf[t] \in Workspaces
    /\ Workspaces = Tasks \cup {Root}
BY TreeAssumption DEF Workspaces

(* The ancestors of a task are its parent and those of its parent.         *)
LEMMA AboveIs ==
    ASSUME NEW t \in Tasks
    PROVE  /\ Above[t] = {ParentOf[t]} \cup Above[ParentOf[t]]
           /\ Above[t] \subseteq Workspaces
<1> DEFINE p == ParentOf[t]
           In(w) == {u \in Workspaces : \A S \in SUBSET Workspaces : ParentOf[w] \in S /\ WithParents(S) => u \in S}
<1>1. t \in Workspaces /\ t # Root /\ p \in Workspaces
    BY Tree
<1>2. Above[t] = In(t)
    BY <1>1 DEF Above
<1>3. CASE p = Root
    <2>1. Above[p] = {}
        BY <1>1, <1>3 DEF Above
    <2>2. WithParents({p})
        BY <1>3, Tree DEF WithParents
    <2>3. In(t) \subseteq {p}
        BY <2>2, <1>1
    <2>4. p \in In(t)
        BY <1>1
    <2> QED
        BY <1>2, <2>1, <2>3, <2>4
<1>4. CASE p # Root
    <2>1. Above[p] = In(p) /\ p \in Tasks
        BY <1>1, <1>4, Tree DEF Above
    <2>2. p \in In(t)
        BY <1>1
    <2>3. ASSUME NEW u \in In(p) PROVE u \in In(t)
        <3> SUFFICES ASSUME NEW S \in SUBSET Workspaces, p \in S, WithParents(S) PROVE u \in S
            BY <2>3
        <3>1. ParentOf[p] \in S
            BY <2>1 DEF WithParents
        <3> QED
            BY <3>1, <2>3
    <2>4. ASSUME NEW u \in In(t), u # p PROVE u \in In(p)
        <3> SUFFICES ASSUME NEW S \in SUBSET Workspaces, ParentOf[p] \in S, WithParents(S) PROVE u \in S
            BY <2>4
        <3>1. WithParents(S \cup {p}) /\ S \cup {p} \in SUBSET Workspaces
            BY <1>1 DEF WithParents
        <3> QED
            BY <3>1, <2>4
    <2> QED
        BY <1>2, <2>1, <2>2, <2>3, <2>4
<1> QED
    BY <1>3, <1>4

(* A task lies deeper than its parent.                                     *)
LEMMA Deeper ==
    ASSUME NEW t \in Tasks, ParentOf[t] \in Tasks
    PROVE  Depth[t] \in Nat /\ Depth[ParentOf[t]] \in Nat /\ Depth[t] > Depth[ParentOf[t]] /\ ParentOf[t] # t
<1> DEFINE p == ParentOf[t]
<1>1. Above[t] = {p} \cup Above[p] /\ Above[p] \subseteq Workspaces /\ p \notin Above[p] /\ t \notin Above[t]
    BY AboveIs, TreeAssumption
<1>2. IsFiniteSet(Workspaces)
    BY TreeAssumption, FS_AddElement DEF Workspaces
<1>3. IsFiniteSet(Above[p])
    BY <1>1, <1>2, FS_Subset
<1>4. Cardinality(Above[p]) \in Nat /\ Cardinality(Above[p] \cup {p}) = Cardinality(Above[p]) + 1
    BY <1>1, <1>3, FS_AddElement, FS_CardinalityType
<1>5. Above[t] = Above[p] \cup {p}
    BY <1>1
<1>6. Depth[t] = Cardinality(Above[t]) /\ Depth[p] = Cardinality(Above[p])
    BY Tree DEF Depth
<1>7. p # t
    BY <1>1
<1> QED
    BY <1>4, <1>5, <1>6, <1>7

(* A sequence of a set's elements has them all.                            *)
LEMMA HasAll ==
    ASSUME NEW S, IsFiniteSet(S), NEW s \in SetToSeqs(S)
    PROVE  s \in Seq(S) /\ (\A x \in S : \E i \in DOMAIN s : s[i] = x) /\ (S # {} => s # <<>>)
<1> DEFINE n == Cardinality(S)
<1>1. n \in Nat
    BY FS_CardinalityType
<1>2. s \in [1..n -> S] /\ \A i, j \in 1..n : i # j => s[i] # s[j]
    BY DEF SetToSeqs
<1>3. s \in Injection(1..n, S)
    BY <1>2 DEF Injection, IsInjective
<1>4. Cardinality(1..n) = n /\ IsFiniteSet(1..n)
    BY <1>1, FS_Interval
<1>5. s \in Surjection(1..n, S)
    BY <1>3, <1>4, FS_Injection
<1>6. \A x \in S : \E i \in 1..n : s[i] = x
    BY <1>5 DEF Surjection
<1>7. s \in Seq(S)
    BY <1>1, <1>2
<1>8. DOMAIN s = 1..n
    BY <1>2
<1>9. S # {} => s # <<>>
    <2> SUFFICES ASSUME NEW x \in S PROVE s # <<>>
        OBVIOUS
    <2>1. PICK i \in 1..n : s[i] = x
        BY <1>6
    <2>2. 1 \in DOMAIN s
        BY <1>1, <1>8, <2>1
    <2>3. DOMAIN <<>> = {}
        OBVIOUS
    <2> QED
        BY <2>2, <2>3
<1> QED
    BY <1>6, <1>7, <1>8, <1>9

-----------------------------------------------------------------------------
(* What the helpers of the actions do.                                     *)
LEMMA EndIs ==
    ASSUME WaitTyped, NEW V, \A v \in V \cap Waits : wait[v].at # "idle",
           NEW how \in Answer, wait' = End(V, how)
    PROVE  WaitTyped'
BY DEF WaitTyped, WaitT, End

LEMMA TimersAre ==
    ASSUME WaitTyped, NEW t \in Tasks, wait' = StartTimers(t)
    PROVE  WaitTyped'
BY DEF WaitTyped, WaitT, StartTimers

(* A message starts the stream of no task that has not started, and makes  *)
(* an interrupted one running at most.                                     *)
Still == \A t \in Tasks : status[t] \in Unborn => status'[t] = status[t]
NoneStarts == \A t \in Tasks : status[t] \in Unborn /\ Fresh(t) =>
    (t \in streaming' => t \in streaming) /\ t \notin resuming'
LEMMA SendIs ==
    ASSUME Basic, NEW w \in Workspaces, Send(w)
    PROVE  /\ status' \in [Tasks -> Status] /\ StreamTyped' /\ Moves /\ Still /\ NoneStarts
           /\ \A t \in Tasks : status'[t] = "reported" => status[t] = "reported"
<1>1. ConfigTyped /\ StreamTyped
    BY DEF Basic
<1>2. CASE w \in streaming /\ UNCHANGED <<streaming, runs, status, resuming>>
              /\ mail' = IF Interrupted(w) THEN mail ELSE mail \cup {w}
    BY <1>1, <1>2 DEF ConfigTyped, StreamTyped, Moves, Still, NoneStarts, Fresh, Marking
<1>3. CASE w \notin streaming /\ Interrupted(w) /\ status' = [status EXCEPT ![w] = "running"]
              /\ resuming' = resuming \cup {w} /\ UNCHANGED stream
    <2>1. w \in Tasks /\ status[w] = "interrupted"
        BY <1>3, Tree DEF Interrupted, Its
    <2>2. status' \in [Tasks -> Status]
        BY <1>1, <1>3, <2>1 DEF ConfigTyped, Status
    <2>3. StreamTyped'
        BY <1>1, <1>3, <2>1 DEF StreamTyped, stream
    <2>4. Moves /\ Still
        BY <1>1, <1>3, <2>1 DEF ConfigTyped, Moves, Still, Unborn
    <2>5. NoneStarts
        BY <1>3, <2>1 DEF NoneStarts, Fresh, Marking, stream, Unborn
    <2>6. \A t \in Tasks : status'[t] = "reported" => status[t] = "reported"
        BY <1>1, <1>3, <2>1 DEF ConfigTyped
    <2> QED
        BY <2>2, <2>3, <2>4, <2>5, <2>6
<1>4. CASE w \notin streaming /\ Sendable(w) /\ Begin(w) /\ UNCHANGED <<status, resuming>>
    <2>1. StreamTyped'
        <3>1. runs[w] \in 0 .. MaxRuns /\ runs[w] < MaxRuns /\ MaxRuns \in Nat
            BY <1>1, <1>4, LimitAssumption DEF StreamTyped, Begin
        <3>2. runs[w] + 1 \in 0 .. MaxRuns
            BY <3>1
        <3> QED
            BY <1>1, <1>4, <3>2 DEF StreamTyped, Begin
    <2>2. \A t \in Tasks : status[t] \in Unborn => t # w
        BY <1>4, Tree DEF Sendable, Its, Unborn
    <2>3. NoneStarts
        BY <1>4, <2>2 DEF NoneStarts, Fresh, Marking, Begin
    <2> QED
        BY <1>1, <1>4, <2>1, <2>3 DEF ConfigTyped, Moves, Still
<1>5. CASE UNCHANGED <<stream, status, resuming>>
    BY <1>1, <1>5 DEF ConfigTyped, StreamTyped, Moves, Still, NoneStarts, Fresh, Marking, stream
<1> QED
    BY <1>2, <1>3, <1>4, <1>5 DEF Send

(* A stream that begins.                                                   *)
LEMMA BeginIs ==
    ASSUME StreamTyped, NEW w \in Workspaces, Begin(w), UNCHANGED resuming
    PROVE  StreamTyped'
<1>1. runs[w] \in 0 .. MaxRuns /\ runs[w] < MaxRuns /\ MaxRuns \in Nat
    BY LimitAssumption DEF StreamTyped, Begin
<1>2. runs[w] + 1 \in 0 .. MaxRuns
    BY <1>1
<1> QED
    BY <1>2 DEF StreamTyped, Begin

(* What moves keep, of whatever else is not touched.                       *)
LEMMA BootKept == ASSUME Basic, status' \in [Tasks -> Status], Moves, UNCHANGED boot PROVE BootPhases'
<1>1. ASSUME NEW i \in DOMAIN boot.todo
      PROVE  /\ boot.todo[i][1] \in {"check", "ask"} => boot.todo[i][2] \in Tasks
             /\ boot.todo[i][1] = "remove" => i = 1 /\ Over(boot.todo[i][2])'
             /\ boot.todo[i][1] = "patch" => Over(boot.todo[i][2])'
             /\ boot.todo[i][2] = Root \/ status'[boot.todo[i][2]] \notin Unborn
    <2>1. boot.todo[i] \in Item
        BY DEF Basic, BootTyped
    <2>2. /\ boot.todo[i][1] \in {"check", "ask"} => boot.todo[i][2] \in Tasks
          /\ boot.todo[i][1] = "remove" => i = 1 /\ Over(boot.todo[i][2])
          /\ boot.todo[i][1] = "patch" => Over(boot.todo[i][2])
          /\ boot.todo[i][2] = Root \/ status[boot.todo[i][2]] \notin Unborn
          /\ boot.todo[i][2] \in Tasks \cup {Root}
        BY <2>1, Tree DEF Basic, BootPhases, Item
    <2> QED
        BY <2>2 DEF Moves, Over, Unborn
<1> QED
    BY <1>1 DEF BootPhases

LEMMA HandlersKept ==
    ASSUME Basic, status' \in [Tasks -> Status], Moves, UNCHANGED handler,
           \A t \in Tasks : handler[t].at = "plan" => status'[t] # "reported"
    PROVE  HandlerPhases'
<1>1. ASSUME NEW t \in Tasks
      PROVE  /\ handler[t].at = "remove" => Over(handler[t].on)'
             /\ handler[t].at = "cleanup" => handler[t].on = Root \/ status'[handler[t].on] # "none"
    <2>1. /\ handler[t].at = "remove" => Over(handler[t].on)
          /\ handler[t].at = "cleanup" => handler[t].on = Root \/ status[handler[t].on] # "none"
          /\ handler[t].on \in Tasks \cup {Root}
        BY Tree DEF Basic, HandlerPhases, HandlerPhase, HandlerTyped, HandlerT
    <2> QED
        BY <2>1 DEF Moves, Over
<1>2. RootPhase'
    BY DEF Basic, HandlerPhases, RootPhase, Over, Moves
<1> QED
    BY <1>1, <1>2 DEF HandlerPhases, HandlerPhase, Basic

LEMMA MutexKept == ASSUME Basic, Moves, Still, UNCHANGED mutex PROVE MutexPhases'
<1>1. MutexPhases /\ mutex \in MutexT
    BY DEF Basic, MutexTyped
<1>2. mutex.kind = "sched" => Head(mutex.todo) \in Tasks
    BY <1>1 DEF MutexPhases, MutexT
<1>3. Creating => status'[mutex.task] = "none"
    BY <1>1 DEF MutexPhases, Creating, Still, Unborn
<1>4. Sending => status'[mutex.task] \notin Unborn
    BY <1>1 DEF MutexPhases, Sending, Moves, Unborn
<1>5. mutex.kind = "sched" /\ mutex.at # "pick" => status'[Head(mutex.todo)] = "queued"
    BY <1>1, <1>2 DEF MutexPhases, Still, Unborn
<1>6. mutex.kind = "terminate" => \A i \in DOMAIN mutex.todo : status'[mutex.todo[i]] # "none"
    <2>1. \A i \in DOMAIN mutex.todo : mutex.todo[i] \in Tasks
        BY <1>1 DEF MutexT
    <2> QED
        BY <1>1, <2>1 DEF MutexPhases, Moves
<1> QED
    BY <1>1, <1>3, <1>4, <1>5, <1>6 DEF MutexPhases, Creating, Sending

LEMMA UntouchedKept ==
    ASSUME Basic, Moves,
           \A t \in Tasks : status[t] \in Unborn /\ status'[t] \in Unborn /\ Fresh(t) => Fresh(t)'
    PROVE  Untouched'
<1>1. \A t \in Tasks : status'[t] \in Unborn => status[t] \in Unborn
    BY DEF Moves, Unborn
<1> QED
    BY <1>1 DEF Basic, Untouched

\* what is being marked is still queued
LEMMA MarkedIs == ASSUME Basic, NEW t, Marking(t) PROVE status[t] = "queued" /\ mutex.kind = "sched" /\ mutex.at = "mark"
BY DEF Marking, Basic, MutexPhases

LEMMA UntouchedPassed ==
    ASSUME Basic, Moves, UNCHANGED <<resuming, patching, handler, events>>,
           mutex.kind # "sched" \/ mutex.at # "mark",
           \A t \in Tasks : status[t] \in Unborn /\ t \in streaming' => t \in streaming
    PROVE  Untouched'
<1>1. \A t \in Tasks : ~ Marking(t)
    BY DEF Marking
<1>2. \A t \in Tasks : status'[t] \in Unborn => status[t] \in Unborn
    BY DEF Moves, Unborn
<1> QED
    BY <1>1, <1>2 DEF Basic, Untouched, Fresh

LEMMA LineageKept ==
    ASSUME Basic, Moves, Creating' => Creating /\ mutex'.task = mutex.task
    PROVE  Lineage'
<1>1. \A t \in Tasks : Elder(t) => Elder(t)'
    BY Tree DEF Elder, Moves, Unborn
<1>2. Creating => mutex.task \in Tasks
    BY DEF Creating, Basic, MutexPhases
<1>3. \A t \in Tasks : status'[t] # "none" => Elder(t)
    BY DEF Basic, Lineage, Moves
<1> QED
    BY <1>1, <1>2, <1>3 DEF Basic, Lineage

(* The mutex is taken, passed on and given back.                           *)
MutexAt == {"none", "queue", "fork", "send", "pick", "recheck", "mark", "stop", "edit", "reject", "remove"}
LEMMA FreeIs == Free \in MutexT
<1>1. <<>> \in Seq(Tasks)
    OBVIOUS
<1> QED
    BY <1>1, Tree DEF Free, MutexT

LEMMA ThenIs == ASSUME mutex \in MutexT, NEW a \in MutexAt, Then(a)
                PROVE mutex' \in MutexT /\ mutex'.kind = mutex.kind /\ mutex'.at = a
                      /\ mutex'.task = mutex.task /\ mutex'.todo = mutex.todo
BY DEF MutexT, MutexAt, Then

LEMMA HoldIs == ASSUME NEW k \in {"create", "sched", "cascade", "terminate"}, NEW a \in MutexAt,
                       NEW w \in Workspaces, NEW todo \in Seq(Tasks), Hold(k, a, w, todo)
                PROVE mutex' \in MutexT /\ mutex'.kind = k /\ mutex'.at = a
                      /\ mutex'.task = w /\ mutex'.todo = todo
BY DEF MutexT, MutexAt, Hold

\* the next task on the list
Passed(a) ==
    /\ mutex' \in MutexT /\ mutex'.kind = mutex.kind /\ mutex'.at = a /\ mutex'.task = mutex.task
    /\ mutex'.todo = Tail(mutex.todo) /\ mutex'.todo # <<>>
    /\ \A i \in DOMAIN mutex'.todo : i + 1 \in DOMAIN mutex.todo /\ mutex'.todo[i] = mutex.todo[i + 1]
LEMMA PassIs ==
    ASSUME mutex \in MutexT, mutex.todo # <<>>, NEW a \in MutexAt,
           mutex' = IF Tail(mutex.todo) = <<>> THEN Free
                    ELSE [mutex EXCEPT !.at = a, !.todo = Tail(@)]
    PROVE  mutex' = Free \/ Passed(a)
<1>1. mutex.todo \in Seq(Tasks)
    BY DEF MutexT
<1>2. Tail(mutex.todo) \in Seq(Tasks)
      /\ \A i \in DOMAIN Tail(mutex.todo) : i + 1 \in DOMAIN mutex.todo /\ Tail(mutex.todo)[i] = mutex.todo[i + 1]
    BY <1>1
<1> QED
    BY <1>2 DEF MutexT, MutexAt, Passed

LEMMA NextIs ==
    ASSUME mutex \in MutexT, mutex.todo # <<>>, Next1
    PROVE  mutex' = Free \/ Passed("pick")
BY PassIs DEF Next1, MutexAt

LEMMA DoneIs ==
    ASSUME mutex \in MutexT, mutex.todo # <<>>, Done("stop")
    PROVE  (mutex' = Free \/ Passed("stop")) /\ (sched \subseteq Workspaces => sched' \subseteq Workspaces)
<1>1. mutex' = IF Tail(mutex.todo) = <<>> THEN Free ELSE [mutex EXCEPT !.at = "stop", !.todo = Tail(@)]
    BY DEF Done, Release
<1> QED
    BY <1>1, PassIs, Tree DEF Done, MutexAt

LEMMA HeadIs == ASSUME mutex \in MutexT, mutex.todo # <<>>
                PROVE This \in Tasks /\ This \in Workspaces
<1>1. mutex.todo \in Seq(Tasks)
    BY DEF MutexT
<1> QED
    BY <1>1, Tree DEF This

(* The handler of one workspace moves.                                     *)
Only(w) == \A u \in Workspaces \ {w} : handler'[u] = handler[u]
LEMMA MoveIs ==
    ASSUME HandlerTyped, NEW w \in Workspaces, NEW a \in Step, Move(w, a)
    PROVE  HandlerTyped' /\ Only(w) /\ handler'[w] = [handler[w] EXCEPT !.at = a]
           /\ handler'[w].at = a /\ handler'[w].on = handler[w].on /\ handler'[w].todo = handler[w].todo
BY DEF HandlerTyped, HandlerT, Move, Only

LEMMA LeaveIs ==
    ASSUME HandlerTyped, NEW w \in Workspaces, Leave(w)
    PROVE  HandlerTyped' /\ Only(w) /\ handler'[w] = Idle /\ handler'[w].at = "idle" /\ handler'[w].todo = <<>>
<1>1. Idle \in HandlerT
    <2>1. <<>> \in Seq(Tasks)
        OBVIOUS
    <2> QED
        BY <2>1, Tree DEF HandlerT, Idle, Step, Status
<1> QED
    BY <1>1 DEF HandlerTyped, Leave, Only, Idle

LEMMA CleanIs ==
    ASSUME HandlerTyped, NEW w \in Workspaces, NEW x \in Workspaces, Clean(w, x)
    PROVE  HandlerTyped' /\ Only(w) /\ handler'[w].at = "cleanup" /\ handler'[w].on = x
<1> DEFINE h == [handler[w] EXCEPT !.at = "cleanup", !.on = x]
<1>1. h \in HandlerT /\ h.at = "cleanup" /\ h.on = x
    <2>1. handler[w] \in HandlerT /\ "cleanup" \in Step
        BY DEF HandlerTyped, Step
    <2> QED
        BY <2>1 DEF HandlerT
<1>2. handler' = [handler EXCEPT ![w] = h]
    BY DEF HandlerTyped, HandlerT, Clean
<1> HIDE DEF h
<1> QED
    BY <1>1, <1>2 DEF HandlerTyped, Only

LEMMA SlotIs ==
    ASSUME HandlerTyped, NEW w \in Workspaces, NEW b \in BOOLEAN,
           handler' = [handler EXCEPT ![w].at = "slot", ![w].busy = b]
    PROVE  HandlerTyped' /\ Only(w) /\ handler'[w].at = "slot" /\ handler'[w].on = handler[w].on
<1> DEFINE h == [handler[w] EXCEPT !.at = "slot", !.busy = b]
<1>1. h \in HandlerT /\ h.at = "slot" /\ h.on = handler[w].on
    <2>1. handler[w] \in HandlerT /\ "slot" \in Step
        BY DEF HandlerTyped, Step
    <2> QED
        BY <2>1 DEF HandlerT
<1>2. handler' = [handler EXCEPT ![w] = h]
    BY DEF HandlerTyped, HandlerT
<1> HIDE DEF h
<1> QED
    BY <1>1, <1>2 DEF HandlerTyped, Only

LEMMA FinishedIs ==
    ASSUME HandlerTyped, NEW t \in Tasks, Finished(t)
    PROVE  HandlerTyped' /\ Only(t)
           /\ (handler'[t].at = "idle" \/ (handler'[t].at = "cleanup" /\ handler'[t].on = t))
BY LeaveIs, CleanIs, Tree DEF Finished

LEMMA HandlersMove ==
    ASSUME Basic, status' \in [Tasks -> Status], Moves, NEW w \in Workspaces, Only(w),
           \A u \in Tasks \ {w} : status'[u] = "reported" => status[u] = "reported",
           IF w = Root THEN RootPhase' ELSE HandlerPhase(w)'
    PROVE  HandlerPhases'
<1>1. ASSUME NEW u \in Tasks, u # w PROVE HandlerPhase(u)'
    <2>1. handler'[u] = handler[u]
        BY <1>1, Tree DEF Only
    <2>2. HandlerPhase(u) /\ handler[u].on \in Tasks \cup {Root}
        BY <1>1, Tree DEF Basic, HandlerPhases, HandlerTyped, HandlerT
    <2> QED
        BY <1>1, <2>1, <2>2 DEF HandlerPhase, Moves, Over
<1>2. RootPhase'
    BY Tree DEF Only, Basic, HandlerPhases, RootPhase, Over, Moves
<1> QED
    BY <1>1, <1>2, Tree DEF HandlerPhases

\* a task whose handler is at work has started
LEMMA AtWork ==
    ASSUME Basic, NEW t \in Tasks, handler[t].at # "idle" \/ events[t] # <<>> \/ t \in patching
    PROVE  status[t] \notin Unborn
BY DEF Basic, Untouched, Fresh, Marking

LEMMA OtherFresh ==
    ASSUME Basic, Moves, NEW t \in Workspaces, t \in Tasks => status[t] \notin Unborn,
           \A u \in Tasks \ {t} : status[u] \in Unborn /\ Fresh(u) => Fresh(u)'
    PROVE  Untouched'
<1>1. \A u \in Tasks : status[u] \in Unborn /\ status'[u] \in Unborn /\ Fresh(u) => Fresh(u)'
    OBVIOUS
<1> QED
    BY <1>1, UntouchedKept

LEMMA SetStatusIs ==
    ASSUME Basic, NEW t \in Tasks, status[t] \notin Unborn \cup {"reported"},
           NEW s \in {"running", "awaiting_report"}, SetStatus(t, s)
    PROVE  status' \in [Tasks -> Status] /\ Moves /\ Still /\ WaitTyped'
           /\ \A u \in Tasks : status'[u] = "reported" => status[u] = "reported"
<1>1. status' \in [Tasks -> Status] /\ Moves /\ Still
      /\ \A u \in Tasks : status'[u] = "reported" => status[u] = "reported"
    BY DEF SetStatus, Basic, ConfigTyped, Moves, Still, Unborn, Status
<1>2. WaitTyped'
    BY TimersAre DEF SetStatus, Basic, WaitTyped
<1> QED
    BY <1>1, <1>2

LEMMA ForIs ==
    ASSUME NEW S \in SUBSET Tasks, IsFiniteSet(S), NEW s \in ByAge(S), NEW what \in {"check", "ask", "patch", "cleanup"}
    PROVE  For(s, what) \in Seq(Item)
           /\ \A i \in DOMAIN For(s, what) : For(s, what)[i][1] = what /\ For(s, what)[i][2] \in S
<1>1. s \in Seq(S)
    BY HasAll DEF ByAge
<1>2. \A i \in DOMAIN s : s[i] \in S /\ <<what, s[i]>> \in Item
    BY <1>1, Tree DEF Item
<1>3. For(s, what) = [i \in 1..Len(s) |-> <<what, s[i]>>]
    BY <1>1 DEF For
<1> QED
    BY <1>1, <1>2, <1>3

-----------------------------------------------------------------------------
(* Streams, and what the user does.                                        *)
LEMMA ResumeSentKeeps == ASSUME Basic, NEW t \in Tasks, ResumeSent(t) PROVE Basic' /\ Moves /\ Still
<1>1. UNCHANGED <<born, mail, events, handler, mutex, sched, asked, wait, artifact, cache, halted,
          nudges, apart, patching, boot, heard>>
    BY DEF ResumeSent, stream, Begin, config, memory
<1>2. Moves
    <2>1. status[t] \notin Unborn
        BY DEF ResumeSent, Basic, Untouched, Fresh, Marking
    <2> QED
        BY <2>1 DEF ResumeSent, Basic, ConfigTyped, Moves, Unborn, Status
<1>3. status' \in [Tasks -> Status] /\ Still
    <2>1. status[t] \notin Unborn
        BY DEF ResumeSent, Basic, Untouched, Fresh, Marking
    <2> QED
        BY <2>1 DEF ResumeSent, Basic, ConfigTyped, Still, Status
<1>4. \A u \in Tasks : status'[u] = "reported" => status[u] = "reported"
    BY DEF ResumeSent, Basic, ConfigTyped
<1>5. EventsTyped' /\ HandlerTyped' /\ MutexTyped' /\ WaitTyped' /\ SetsTyped' /\ BootTyped'
    BY <1>1 DEF Basic, EventsTyped, HandlerTyped, MutexTyped, WaitTyped, SetsTyped, BootTyped
<1>6. ConfigTyped'
    BY <1>1, <1>2, <1>3, <1>4 DEF Basic, ConfigTyped
<1>7. StreamTyped'
    <2>1. CASE Begin(t)
        <3>1. t \in Workspaces
            BY Tree
        <3> QED
            BY <1>1, <2>1, <3>1, LimitAssumption DEF Basic, StreamTyped, Begin, ResumeSent
    <2>2. CASE ~ Begin(t)
        BY <1>1, <2>2 DEF Basic, StreamTyped, stream, ResumeSent
    <2> QED
        BY <2>1, <2>2
<1>8. Untouched'
    <2>1. status[t] \notin Unborn
        BY DEF ResumeSent, Basic, Untouched, Fresh, Marking
    <2>2. \A u \in Tasks : status[u] \in Unborn /\ Fresh(u) => Fresh(u)'
        BY <1>1, <2>1 DEF ResumeSent, Fresh, Marking, Begin, stream
    <2> QED
        BY <1>2, <2>2, UntouchedKept
<1>9. Lineage'
    BY <1>1, <1>2, <1>3, <1>4, LineageKept DEF Creating
<1>10. MutexPhases'
    BY <1>1, <1>2, <1>3, <1>4, MutexKept
<1>11. HandlerPhases'
    BY <1>1, <1>2, <1>3, <1>4, HandlersKept DEF Basic, HandlerPhases, HandlerPhase, ConfigTyped
<1>12. BootPhases'
    BY <1>1, <1>2, <1>3, <1>4, BootKept DEF Basic, ConfigTyped
<1> QED
    BY <1>5, <1>6, <1>7, <1>8, <1>9, <1>10, <1>11, <1>12, <1>2, <1>3, <1>4 DEF Basic

LEMMA StreamEndsKeeps == ASSUME Basic, NEW w \in Workspaces, StreamEnds(w) PROVE Basic' /\ Moves /\ Still
<1>1. UNCHANGED <<status, born, handler, mutex, sched, asked, resuming, wait, artifact, cache,
          halted, nudges, apart, patching, boot, heard>>
    BY DEF StreamEnds, Queue, config, stream, memory
<1>2. Moves /\ Still
    BY <1>1 DEF Moves, Still
<1>3. ConfigTyped' /\ HandlerTyped' /\ MutexTyped' /\ WaitTyped' /\ SetsTyped' /\ BootTyped' /\ Lineage' /\
          MutexPhases' /\ HandlerPhases' /\ BootPhases'
    BY <1>1 DEF Basic, ConfigTyped, HandlerTyped, MutexTyped, WaitTyped, SetsTyped, BootTyped,
        Lineage, MutexPhases, HandlerPhases, BootPhases, Creating, Elder, HandlerPhase, RootPhase, Over,
        Sending
<1>4. StreamTyped'
    BY <1>1, LimitAssumption DEF StreamEnds, Basic, StreamTyped, Queue
<1>5. EventsTyped'
    BY <1>1 DEF StreamEnds, Basic, EventsTyped, Queue, Endings, Event
<1>6. Untouched'
    <2>1. \A u \in Tasks : status[u] \in Unborn => u # w
        BY DEF StreamEnds, Basic, Untouched, Fresh, Marking
    <2> QED
        BY <1>1, <2>1 DEF StreamEnds, Basic, Untouched, Fresh, Marking, Queue, EventsTyped
<1> QED
    BY <1>3, <1>4, <1>5, <1>6, <1>2 DEF Basic

LEMMA StreamFailsKeeps == ASSUME Basic, NEW w \in Workspaces, StreamFails(w) PROVE Basic' /\ Moves /\ Still
<1>1. UNCHANGED <<status, born, mail, runs, handler, mutex, sched, asked, resuming, wait, artifact,
          cache, halted, nudges, apart, patching, boot, heard>>
    BY DEF StreamFails, Queue, config, stream, memory
<1>2. Moves /\ Still
    BY <1>1 DEF Moves, Still
<1>3. ConfigTyped' /\ HandlerTyped' /\ MutexTyped' /\ WaitTyped' /\ SetsTyped' /\ BootTyped' /\ Lineage' /\
          MutexPhases' /\ HandlerPhases' /\ BootPhases'
    BY <1>1 DEF Basic, ConfigTyped, HandlerTyped, MutexTyped, WaitTyped, SetsTyped, BootTyped,
        Lineage, MutexPhases, HandlerPhases, BootPhases, Creating, Elder, HandlerPhase, RootPhase, Over,
        Sending
<1>4. StreamTyped'
    BY <1>1 DEF StreamFails, Basic, StreamTyped, Queue
<1>5. EventsTyped'
    BY <1>1 DEF StreamFails, Basic, EventsTyped, Queue, Event
<1>6. Untouched'
    <2>1. \A u \in Tasks : status[u] \in Unborn => u # w
        BY DEF StreamFails, Basic, Untouched, Fresh, Marking
    <2> QED
        BY <1>1, <2>1 DEF StreamFails, Basic, Untouched, Fresh, Marking, Queue, EventsTyped
<1> QED
    BY <1>3, <1>4, <1>5, <1>6, <1>2 DEF Basic

LEMMA UserSendKeeps == ASSUME Basic, NEW w \in Workspaces, UserSend(w) PROVE Basic' /\ Moves /\ Still
<1>1. UNCHANGED <<born, events, handler, mutex, sched, asked, wait, artifact, cache, apart, patching,
          boot, heard>>
    BY DEF UserSend, Reset, config, stream, memory
<1>2. status' \in [Tasks -> Status] /\ StreamTyped' /\ Moves /\ Still /\ NoneStarts
      /\ \A u \in Tasks : status'[u] = "reported" => status[u] = "reported"
    BY SendIs DEF UserSend
<1>3. EventsTyped' /\ HandlerTyped' /\ MutexTyped' /\ WaitTyped' /\ BootTyped'
    BY <1>1 DEF Basic, EventsTyped, HandlerTyped, MutexTyped, WaitTyped, BootTyped
<1>4. ConfigTyped'
    BY <1>1, <1>2 DEF Basic, ConfigTyped
<1>5. StreamTyped'
    BY <1>2
<1>6. SetsTyped'
    BY <1>1, LimitAssumption DEF UserSend, Basic, SetsTyped, Reset
<1>7. Untouched'
    <2>1. \A u \in Tasks : status[u] \in Unborn /\ Fresh(u) => Fresh(u)'
        BY <1>1, <1>2 DEF NoneStarts, Fresh, Marking
    <2> QED
        BY <1>2, <2>1, UntouchedKept
<1>8. Lineage'
    BY <1>1, <1>2, LineageKept DEF Creating
<1>9. MutexPhases'
    BY <1>1, <1>2, MutexKept
<1>10. HandlerPhases'
    BY <1>1, <1>2, HandlersKept DEF Basic, HandlerPhases, HandlerPhase, ConfigTyped
<1>11. BootPhases'
    BY <1>1, <1>2, BootKept DEF Basic, ConfigTyped
<1> QED
    BY <1>3, <1>4, <1>5, <1>6, <1>7, <1>8, <1>9, <1>10, <1>11, <1>2 DEF Basic

LEMMA UserQueuesKeeps == ASSUME Basic, NEW w \in Workspaces, UserQueues(w) PROVE Basic' /\ Moves /\ Still
<1>1. UNCHANGED <<status, born, streaming, runs, events, handler, mutex, sched, asked, resuming,
          artifact, cache, halted, nudges, patching, boot, heard>>
    BY DEF UserQueues, config, stream, memory
<1>2. Moves /\ Still
    BY <1>1 DEF Moves, Still
<1>3. ConfigTyped' /\ EventsTyped' /\ HandlerTyped' /\ MutexTyped' /\ BootTyped' /\ Untouched' /\ Lineage' /\
          MutexPhases' /\ HandlerPhases' /\ BootPhases'
    BY <1>1 DEF Basic, ConfigTyped, EventsTyped, HandlerTyped, MutexTyped, BootTyped,
        Untouched, Lineage, MutexPhases, HandlerPhases, BootPhases, Creating, Elder, Fresh, Marking,
        HandlerPhase, RootPhase, Over, Sending
<1>4. StreamTyped'
    BY <1>1 DEF UserQueues, Basic, StreamTyped
<1>5. WaitTyped'
    BY EndIs DEF UserQueues, Basic, Pending, Answer, WaitsBy
<1>6. SetsTyped'
    BY <1>1 DEF UserQueues, Basic, SetsTyped, WaitsBy, WaitTyped
<1> QED
    BY <1>3, <1>4, <1>5, <1>6, <1>2 DEF Basic

LEMMA UserStopKeeps == ASSUME Basic, NEW w \in Workspaces, UserStop(w) PROVE Basic' /\ Moves /\ Still
<1>1. UNCHANGED <<status, born, runs, events, handler, mutex, sched, resuming, artifact, cache,
          apart, patching, boot, heard>>
    BY DEF UserStop, config, stream, memory
<1>2. Moves /\ Still
    BY <1>1 DEF Moves, Still
<1>3. ConfigTyped' /\ EventsTyped' /\ HandlerTyped' /\ BootTyped' /\ Lineage' /\ MutexPhases' /\ HandlerPhases' /\
          BootPhases'
    BY <1>1 DEF Basic, ConfigTyped, EventsTyped, HandlerTyped, BootTyped, Lineage, MutexPhases,
        HandlerPhases, BootPhases, Creating, Elder, HandlerPhase, RootPhase, Over, Sending
<1>4. StreamTyped'
    BY <1>1 DEF UserStop, Basic, StreamTyped
<1>5. MutexTyped'
    BY <1>1 DEF UserStop, Basic, MutexTyped
<1>6. WaitTyped'
    BY EndIs DEF UserStop, Basic, WaitsBy, Answer
<1>7. SetsTyped'
    BY <1>1, LimitAssumption DEF UserStop, Basic, SetsTyped
<1>8. Untouched'
    BY <1>1 DEF UserStop, Basic, Untouched, Fresh, Marking
<1> QED
    BY <1>3, <1>4, <1>5, <1>6, <1>7, <1>8, <1>2 DEF Basic

-----------------------------------------------------------------------------
(* Creation.                                                               *)
LEMMA CreateBeginKeeps == ASSUME Basic, NEW t \in Tasks, CreateBegin(t) PROVE Basic' /\ Moves /\ Still
<1>1. UNCHANGED <<status, born, streaming, mail, runs, events, handler, sched, asked, resuming, wait,
          artifact, cache, halted, nudges, apart, patching, boot, heard>>
    BY DEF CreateBegin, Hold, config, stream, memory
<1>2. Moves /\ Still
    BY <1>1 DEF Moves, Still
<1>3. ConfigTyped' /\ StreamTyped' /\ EventsTyped' /\ HandlerTyped' /\ WaitTyped' /\ SetsTyped' /\ BootTyped' /\
          HandlerPhases' /\ BootPhases'
    BY <1>1 DEF Basic, ConfigTyped, StreamTyped, EventsTyped, HandlerTyped, WaitTyped,
        SetsTyped, BootTyped, HandlerPhases, BootPhases, HandlerPhase, RootPhase, Over
<1>4. MutexTyped'
    BY <1>1, Tree DEF CreateBegin, Basic, MutexTyped, Hold, MutexT, Free
<1>5. Lineage'
    <2>1. mutex'.task = t /\ ParentOf[t] \in streaming
        BY DEF CreateBegin, Hold
    <2>2. Elder(t)
        BY <2>1, Tree DEF Elder, Basic, Untouched, Fresh, Marking, CreateBegin, Free
    <2> QED
        BY <1>1, <2>1, <2>2 DEF Basic, Lineage, Elder
<1>6. MutexPhases'
    BY <1>1 DEF CreateBegin, Basic, MutexPhases, Creating, Sending, Hold, Full, Unborn
<1>20. Untouched'
    BY <1>1, <1>2, UntouchedPassed DEF CreateBegin, Free
<1> QED
    BY <1>20, <1>3, <1>4, <1>5, <1>6, <1>2 DEF Basic

LEMMA CreateStoredKeeps == ASSUME Basic, CreateStored PROVE Basic' /\ Moves
<1>1. UNCHANGED <<streaming, mail, runs, events, handler, asked, resuming, wait, artifact, cache,
          halted, nudges, apart, patching, boot, heard>>
    BY DEF CreateStored, Holding, Release, Then, config, stream, memory
<1>2. status' \in [Tasks -> Status] /\ Moves
    <2>1. mutex.task \in Tasks /\ Creating /\ status[mutex.task] = "none"
        BY DEF CreateStored, Holding, Basic, MutexPhases, Creating
    <2> QED
        BY <2>1 DEF CreateStored, config, Basic, ConfigTyped, Moves, Status
<1>3. StreamTyped' /\ EventsTyped' /\ HandlerTyped' /\ WaitTyped' /\ SetsTyped' /\ BootTyped'
    BY <1>1 DEF Basic, StreamTyped, EventsTyped, HandlerTyped, WaitTyped, SetsTyped, BootTyped
<1>4. ConfigTyped'
    <2>1. mutex.task \in Tasks
        BY DEF CreateStored, Holding, Basic, MutexPhases
    <2> QED
        BY <1>2, <2>1 DEF CreateStored, config, Basic, ConfigTyped
<1>5. MutexTyped'
    <2>1. mutex \in MutexT
        BY DEF Basic, MutexTyped
    <2>2. mutex' \in MutexT
        BY <2>1, FreeIs, ThenIs DEF CreateStored, Release, MutexAt
    <2> QED
        BY <1>1, <2>2, Tree DEF CreateStored, Basic, MutexTyped
<1>6. Untouched'
    BY <1>1, <1>2, UntouchedPassed DEF CreateStored, Holding, Basic, MutexPhases
<1>7. Lineage'
    <2>1. Creating' => Creating /\ mutex'.task = mutex.task
        BY DEF CreateStored, Holding, Release, Then, Hold, Next1, Done, Creating, Free, Basic, MutexTyped, MutexT
    <2> QED
        BY <1>2, <2>1, LineageKept
<1>8. MutexPhases'
    <2>1. mutex.task \in Tasks /\ mutex \in MutexT
        BY DEF CreateStored, Holding, Basic, MutexPhases, MutexTyped
    <2>2. CASE mutex' = Free
        BY <2>2 DEF MutexPhases, Free, Creating, Sending
    <2>3. CASE mutex' = [mutex EXCEPT !.at = "send"] /\ status' = [status EXCEPT ![mutex.task] = "running"]
        BY <2>1, <2>3 DEF CreateStored, Holding, Basic, ConfigTyped, MutexPhases, MutexT, Creating, Sending, Unborn
    <2> QED
        BY <2>2, <2>3 DEF CreateStored, Release, Then, Holding
<1>9. HandlerPhases'
    <2>1. \A t \in Tasks : status'[t] = "reported" => status[t] = "reported"
        BY DEF CreateStored, config, Basic, ConfigTyped
    <2> QED
        BY <1>1, <1>2, <2>1, HandlersKept DEF Basic, HandlerPhases, HandlerPhase
<1>10. BootPhases'
    BY <1>1, <1>2, BootKept DEF Basic, ConfigTyped
<1> QED
    BY <1>3, <1>4, <1>5, <1>6, <1>7, <1>8, <1>9, <1>10, <1>2 DEF Basic

LEMMA CreateSentKeeps == ASSUME Basic, CreateSent PROVE Basic' /\ Moves /\ Still
<1>1. UNCHANGED <<born, mail, events, handler, sched, asked, resuming, wait, artifact, cache, halted,
          nudges, apart, patching, boot, heard>>
    BY DEF CreateSent, Holding, Release, stream, Begin, config, memory
<1>2. status' \in [Tasks -> Status] /\ Moves /\ Still /\ status'[mutex.task] \notin Unborn
      /\ \A u \in Tasks : status'[u] = "reported" => status[u] = "reported"
    <2>1. mutex.task \in Tasks /\ status[mutex.task] \notin Unborn
        BY DEF CreateSent, Holding, Basic, MutexPhases, Sending
    <2> QED
        BY <2>1 DEF CreateSent, Basic, ConfigTyped, Moves, Still, Status, Unborn
<1>3. EventsTyped' /\ HandlerTyped' /\ WaitTyped' /\ SetsTyped' /\ BootTyped'
    BY <1>1 DEF Basic, EventsTyped, HandlerTyped, WaitTyped, SetsTyped, BootTyped
<1>4. ConfigTyped'
    BY <1>1, <1>2 DEF Basic, ConfigTyped
<1>5. StreamTyped'
    <2>1. mutex.task \in Workspaces
        BY DEF Basic, MutexTyped, MutexT
    <2>2. CASE Begin(mutex.task)
        BY <1>1, <2>1, <2>2, BeginIs DEF Basic, StreamTyped
    <2>3. CASE UNCHANGED stream
        BY <1>1, <2>3 DEF Basic, StreamTyped, stream
    <2> QED
        BY <2>2, <2>3 DEF CreateSent
<1>6. MutexTyped'
    BY <1>1, Tree DEF CreateSent, Basic, MutexTyped, Holding, Release, stream, Begin, MutexT, Free
<1>7. Untouched'
    <2>1. mutex.kind = "create" /\ status[mutex.task] \notin Unborn
        BY DEF CreateSent, Holding, Sending, Basic, MutexPhases
    <2>2. streaming' \subseteq streaming \cup {mutex.task}
        BY DEF CreateSent, Begin, stream
    <2> QED
        BY <1>1, <1>2, <2>1, <2>2, UntouchedPassed
<1>8. Lineage'
    <2>1. Creating' => Creating /\ mutex'.task = mutex.task
        BY DEF CreateSent, Holding, Release, Hold, Then, Next1, Done, Creating, Free, Basic, MutexTyped, MutexT
    <2> QED
        BY <1>2, <2>1, LineageKept
<1>9. MutexPhases'
    BY DEF CreateSent, Release, Free, MutexPhases, Creating, Sending
<1>10. HandlerPhases'
    BY <1>1, <1>2, HandlersKept DEF Basic, HandlerPhases, HandlerPhase, ConfigTyped
<1>11. BootPhases'
    BY <1>1, <1>2, BootKept DEF Basic, ConfigTyped
<1> QED
    BY <1>3, <1>4, <1>5, <1>6, <1>7, <1>8, <1>9, <1>10, <1>11, <1>2 DEF Basic
-----------------------------------------------------------------------------
(* The scheduler, cascades and terminations.                               *)
LEMMA SeqsOf == ASSUME NEW S, S \subseteq Tasks, NEW s \in Seq(S) PROVE s \in Seq(Tasks)
OBVIOUS

LEMMA UnderIs == ASSUME NEW w PROVE Under(w) \subseteq Tasks /\ IsFiniteSet(Under(w))
<1>1. Under(w) \subseteq Tasks
    BY DEF Under
<1> QED
    BY <1>1, TreeAssumption, FS_Subset

LEMMA AreIs == ASSUME NEW s PROVE Are(s) \subseteq Tasks /\ IsFiniteSet(Are(s))
<1>1. Are(s) \subseteq Tasks
    BY DEF Are
<1> QED
    BY <1>1, TreeAssumption, FS_Subset

LEMMA SchedBeginKeeps == ASSUME Basic, NEW c \in Workspaces, SchedBegin(c) PROVE Basic' /\ Moves /\ Still
<1>1. UNCHANGED <<status, born, streaming, mail, runs, events, handler, asked, resuming, wait,
          artifact, cache, halted, nudges, apart, patching, boot, heard>>
    BY DEF SchedBegin, config, stream, memory
<1>2. Moves /\ Still
    BY <1>1 DEF Moves, Still
<1>3. ConfigTyped' /\ StreamTyped' /\ EventsTyped' /\ HandlerTyped' /\ WaitTyped' /\ SetsTyped' /\ BootTyped' /\
          HandlerPhases' /\ BootPhases'
    BY <1>1 DEF Basic, ConfigTyped, StreamTyped, EventsTyped, HandlerTyped, WaitTyped,
        SetsTyped, BootTyped, HandlerPhases, BootPhases, HandlerPhase, RootPhase, Over
<1>4. MutexTyped'
    <2>1. CASE UNCHANGED mutex
        BY <1>1, <1>2, <2>1, MutexKept DEF Basic, MutexTyped, SchedBegin
    <2>2. CASE ~ UNCHANGED mutex
        <3>1. PICK todo \in ByAge(Are("queued")) : Hold("sched", "pick", c, todo)
            BY <2>2 DEF SchedBegin
        <3>2. IsFiniteSet(Are("queued")) /\ Are("queued") \subseteq Tasks /\ Are("queued") # {}
            BY AreIs, <2>2 DEF SchedBegin
        <3>3. todo \in Seq(Tasks) /\ todo # <<>>
            BY <3>1, <3>2, HasAll, SeqsOf DEF ByAge
        <3>4. mutex' \in MutexT /\ mutex'.kind = "sched" /\ mutex'.at = "pick" /\ mutex'.todo = todo
            BY <3>1, <3>3, HoldIs, Tree DEF MutexAt
        <3> QED
            BY <1>1, <3>3, <3>4 DEF SchedBegin, Basic, MutexTyped, MutexPhases, Creating, Sending
    <2> QED
        BY <2>1, <2>2
<1>5. Lineage'
    <2>1. Creating' => Creating /\ mutex'.task = mutex.task
        BY DEF SchedBegin, Hold, Then, Holding, Release, Next1, Done, Creating, Free, Basic, MutexTyped, MutexT
    <2> QED
        BY <1>2, <2>1, LineageKept
<1>6. MutexPhases'
    <2>1. CASE UNCHANGED mutex
        BY <1>1, <1>2, <2>1, MutexKept DEF Basic, MutexTyped, SchedBegin
    <2>2. CASE ~ UNCHANGED mutex
        <3>1. PICK todo \in ByAge(Are("queued")) : Hold("sched", "pick", c, todo)
            BY <2>2 DEF SchedBegin
        <3>2. IsFiniteSet(Are("queued")) /\ Are("queued") \subseteq Tasks /\ Are("queued") # {}
            BY AreIs, <2>2 DEF SchedBegin
        <3>3. todo \in Seq(Tasks) /\ todo # <<>>
            BY <3>1, <3>2, HasAll, SeqsOf DEF ByAge
        <3>4. mutex' \in MutexT /\ mutex'.kind = "sched" /\ mutex'.at = "pick" /\ mutex'.todo = todo
            BY <3>1, <3>3, HoldIs, Tree DEF MutexAt
        <3> QED
            BY <1>1, <3>3, <3>4 DEF SchedBegin, Basic, MutexTyped, MutexPhases, Creating, Sending
    <2> QED
        BY <2>1, <2>2
<1>20. Untouched'
    BY <1>1, <1>2, UntouchedPassed DEF SchedBegin, Free
<1> QED
    BY <1>20, <1>3, <1>4, <1>5, <1>6, <1>2 DEF Basic

LEMMA SchedPickKeeps == ASSUME Basic, SchedPick PROVE Basic' /\ Moves /\ Still
<1>1. UNCHANGED <<status, born, streaming, mail, runs, events, handler, sched, asked, resuming, wait,
          artifact, cache, halted, nudges, apart, patching, boot, heard>>
    BY DEF SchedPick, Holding, config, stream, memory
<1>2. Moves /\ Still
    BY <1>1 DEF Moves, Still
<1>3. ConfigTyped' /\ StreamTyped' /\ EventsTyped' /\ HandlerTyped' /\ WaitTyped' /\ SetsTyped' /\ BootTyped' /\
          HandlerPhases' /\ BootPhases'
    BY <1>1 DEF Basic, ConfigTyped, StreamTyped, EventsTyped, HandlerTyped, WaitTyped,
        SetsTyped, BootTyped, HandlerPhases, BootPhases, HandlerPhase, RootPhase, Over
<1>4. MutexTyped'
    <2>1. mutex \in MutexT /\ mutex.todo # <<>> /\ mutex.kind = "sched"
        BY DEF SchedPick, Holding, Basic, MutexTyped, MutexPhases
    <2> QED
        BY <1>1, <2>1, FreeIs, ThenIs, NextIs DEF SchedPick, Release, Passed, MutexAt, Basic, MutexTyped
<1>5. Lineage'
    <2>1. mutex \in MutexT /\ mutex.todo # <<>> /\ mutex.kind = "sched"
        BY DEF SchedPick, Holding, Basic, MutexTyped, MutexPhases
    <2>2. ~ Creating'
        BY <2>1, NextIs, DoneIs, ThenIs DEF SchedPick, Release, Free, Passed, MutexAt, Creating
    <2> QED
        BY <1>2, <2>2, LineageKept
<1>6. MutexPhases'
    <2>1. mutex \in MutexT /\ mutex.todo # <<>> /\ mutex.kind = "sched"
        BY DEF SchedPick, Holding, Basic, MutexTyped, MutexPhases
    <2>2. This \in Tasks /\ This \in Workspaces
        BY <2>1, HeadIs
    <2>3. CASE mutex' = Free
        BY <2>3 DEF Free, MutexPhases, Creating, Sending
    <2>4. CASE Passed("pick")
        BY <2>1, <2>4 DEF Passed, MutexPhases, Creating, Sending
    <2>5. CASE Then("recheck") /\ status[This] = "queued"
        BY <1>1, <2>1, <2>5, ThenIs DEF MutexPhases, Creating, Sending, MutexAt, This
    <2> QED
        BY <2>1, <2>3, <2>4, <2>5, NextIs DEF SchedPick, Release
<1>20. Untouched'
    BY <1>1, <1>2, UntouchedPassed DEF SchedPick, Holding
<1> QED
    BY <1>20, <1>3, <1>4, <1>5, <1>6, <1>2 DEF Basic

LEMMA SchedRecheckKeeps == ASSUME Basic, SchedRecheck PROVE Basic' /\ Moves
<1>1. UNCHANGED <<born, streaming, mail, runs, events, handler, sched, asked, resuming, artifact,
          cache, halted, nudges, patching, boot, heard>>
    BY DEF SchedRecheck, Holding, config, stream, memory
<1>2. status' \in [Tasks -> Status] /\ Moves
      /\ \A u \in Tasks : status'[u] = "reported" => status[u] = "reported"
    <2>1. mutex \in MutexT /\ mutex.todo # <<>> /\ mutex.kind = "sched"
        BY DEF SchedRecheck, Holding, Basic, MutexTyped, MutexPhases
    <2>2. This \in Tasks /\ This \in Workspaces
        BY <2>1, HeadIs
    <2>3. status[This] = "queued"
        BY <2>1 DEF SchedRecheck, Holding, Basic, MutexPhases, This
    <2> QED
        BY <2>2, <2>3 DEF SchedRecheck, Basic, ConfigTyped, Moves, Status
<1>3. StreamTyped' /\ EventsTyped' /\ HandlerTyped' /\ BootTyped'
    BY <1>1 DEF Basic, StreamTyped, EventsTyped, HandlerTyped, BootTyped
<1>4. ConfigTyped'
    BY <1>1, <1>2 DEF Basic, ConfigTyped
<1>5. MutexTyped'
    <2>1. mutex \in MutexT /\ mutex.todo # <<>> /\ mutex.kind = "sched"
        BY DEF SchedRecheck, Holding, Basic, MutexTyped, MutexPhases
    <2> QED
        BY <1>1, <2>1, FreeIs, ThenIs, NextIs DEF SchedRecheck, Release, Passed, MutexAt, Basic, MutexTyped
<1>6. WaitTyped'
    <2>1. CASE wait' = End(WaitsFor(This), "error")
        BY <2>1, EndIs DEF Basic, WaitsFor, Pending, Answer
    <2>2. CASE UNCHANGED wait
        BY <2>2 DEF Basic, WaitTyped
    <2> QED
        BY <2>1, <2>2 DEF SchedRecheck
<1>7. SetsTyped'
    BY <1>1 DEF SchedRecheck, Basic, SetsTyped, Holding
<1>8. Untouched'
    BY <1>1, <1>2, UntouchedPassed DEF SchedRecheck, Holding
<1>9. Lineage'
    <2>1. mutex \in MutexT /\ mutex.todo # <<>> /\ mutex.kind = "sched"
        BY DEF SchedRecheck, Holding, Basic, MutexTyped, MutexPhases
    <2>2. ~ Creating'
        BY <2>1, NextIs, DoneIs, ThenIs DEF SchedRecheck, Release, Free, Passed, MutexAt, Creating
    <2> QED
        BY <1>2, <2>2, LineageKept
<1>10. MutexPhases'
    <2>1. mutex \in MutexT /\ mutex.todo # <<>> /\ mutex.kind = "sched"
        BY DEF SchedRecheck, Holding, Basic, MutexTyped, MutexPhases
    <2>2. This \in Tasks /\ This \in Workspaces
        BY <2>1, HeadIs
    <2>3. status[This] = "queued"
        BY <2>1 DEF SchedRecheck, Holding, Basic, MutexPhases, This
    <2>4. CASE mutex' = Free
        BY <2>4 DEF Free, MutexPhases, Creating, Sending
    <2>5. CASE Passed("pick")
        BY <2>1, <2>5 DEF Passed, MutexPhases, Creating, Sending
    <2>6. CASE Then("send") /\ UNCHANGED status
        BY <1>1, <2>1, <2>3, <2>6, ThenIs DEF MutexPhases, Creating, Sending, MutexAt, This
    <2> QED
        BY <2>1, <2>4, <2>5, <2>6, NextIs DEF SchedRecheck, Release
<1>11. HandlerPhases'
    BY <1>1, <1>2, HandlersKept DEF Basic, HandlerPhases, HandlerPhase, ConfigTyped
<1>12. BootPhases'
    BY <1>1, <1>2, BootKept DEF Basic, ConfigTyped
<1> QED
    BY <1>3, <1>4, <1>5, <1>6, <1>7, <1>8, <1>9, <1>10, <1>11, <1>12, <1>2 DEF Basic

LEMMA SchedSendKeeps == ASSUME Basic, SchedSend PROVE Basic' /\ Moves /\ Still
<1>1. UNCHANGED <<status, born, mail, events, handler, sched, asked, resuming, wait, artifact, cache, halted,
          nudges, apart, patching, boot, heard>>
    BY DEF SchedSend, Begin, stream, config, memory
<1>2. Moves /\ Still
    BY <1>1 DEF Moves, Still
<1>3. mutex \in MutexT /\ mutex.todo # <<>> /\ mutex.kind = "sched" /\ mutex.at = "send" /\ status[This] = "queued"
    BY DEF SchedSend, Holding, This, Basic, MutexTyped, MutexPhases
<1>4. This \in Tasks /\ This \in Workspaces
    BY <1>3, HeadIs
<1>5. ConfigTyped' /\ EventsTyped' /\ HandlerTyped' /\ WaitTyped' /\ SetsTyped' /\ BootTyped' /\ HandlerPhases' /\
          BootPhases'
    BY <1>1 DEF Basic, ConfigTyped, EventsTyped, HandlerTyped, WaitTyped, SetsTyped, BootTyped, HandlerPhases,
        BootPhases, HandlerPhase, RootPhase, Over
<1>6. CASE Begin(This) /\ Then("mark")
    <2>1. mutex' \in MutexT /\ mutex'.kind = "sched" /\ mutex'.at = "mark" /\ mutex'.task = mutex.task
          /\ mutex'.todo = mutex.todo
        BY <1>3, <1>6, ThenIs DEF MutexAt
    <2>2. StreamTyped'
        BY <1>1, <1>4, <1>6, BeginIs DEF Basic
    <2>3. MutexTyped'
        BY <1>1, <2>1 DEF Basic, MutexTyped
    <2>4. Untouched'
        <3>1. \A u \in Tasks : status[u] \in Unborn => u \notin streaming
            BY <1>3 DEF Basic, Untouched, Fresh, Marking
        <3>2. \A u \in Tasks : u = This => Marking(u)'
            BY <2>1 DEF Marking, This
        <3>3. \A u \in Tasks : u \in streaming' => u \in streaming \/ u = This
            BY <1>6 DEF Begin
        <3>4. ASSUME NEW u \in Tasks, status'[u] \in Unborn PROVE Fresh(u)'
            <4>1. Fresh(u) /\ u \notin streaming
                BY <1>1, <3>1, <3>4 DEF Basic, Untouched
            <4>2. u \in streaming' => Marking(u)'
                BY <4>1, <3>2, <3>3
            <4> QED
                BY <1>1, <4>1, <4>2 DEF Fresh
        <3> QED
            BY <3>4 DEF Untouched
    <2>5. Lineage' /\ MutexPhases'
        <3>1. status'[Head(mutex'.todo)] = "queued"
            BY <1>1, <1>3, <2>1 DEF This
        <3>2. Lineage'
            BY <1>2, <2>1, LineageKept DEF Creating
        <3> QED
            BY <1>3, <2>1, <3>1, <3>2 DEF MutexPhases, Creating, Sending
    <2> QED
        BY <1>2, <1>5, <2>2, <2>3, <2>4, <2>5 DEF Basic
<1>7. CASE Next1 /\ UNCHANGED stream
    <2>1. mutex' = Free \/ Passed("pick")
        BY <1>3, <1>7, NextIs
    <2>2. StreamTyped' /\ Untouched'
        <3>1. \A u \in Tasks : ~ Marking(u)
            BY <1>3 DEF Marking
        <3> QED
            BY <1>1, <1>7, <3>1 DEF stream, Basic, StreamTyped, Untouched, Fresh
    <2>3. MutexTyped'
        BY <1>1, <2>1, FreeIs DEF Passed, Basic, MutexTyped
    <2>4. Lineage'
        <3>1. ~ Creating'
            BY <1>3, <2>1 DEF Free, Passed, Creating
        <3> QED
            BY <1>2, <3>1, LineageKept
    <2>5. MutexPhases'
        BY <1>3, <2>1 DEF Free, Passed, MutexPhases, Creating, Sending
    <2> QED
        BY <1>2, <1>5, <2>2, <2>3, <2>4, <2>5 DEF Basic
<1> QED
    BY <1>6, <1>7 DEF SchedSend

LEMMA SchedMarkKeeps == ASSUME Basic, SchedMark PROVE Basic' /\ Moves
<1>1. UNCHANGED <<born, streaming, mail, runs, events, handler, sched, asked, resuming, artifact, cache, halted,
          nudges, apart, patching, boot, heard>>
    BY DEF SchedMark, Holding, stream, config, memory
<1>2. status' \in [Tasks -> Status] /\ Moves
      /\ \A u \in Tasks : status'[u] = "reported" => status[u] = "reported"
    <2>1. mutex \in MutexT /\ mutex.todo # <<>> /\ mutex.kind = "sched"
        BY DEF SchedMark, Holding, Basic, MutexTyped, MutexPhases
    <2>2. This \in Tasks /\ This \in Workspaces
        BY <2>1, HeadIs
    <2>3. status[This] = "queued"
        BY <2>1 DEF SchedMark, Holding, Basic, MutexPhases, This
    <2> QED
        BY <2>2, <2>3 DEF SchedMark, Basic, ConfigTyped, Moves, Status
<1>3. EventsTyped' /\ HandlerTyped' /\ SetsTyped' /\ BootTyped'
    BY <1>1 DEF Basic, EventsTyped, HandlerTyped, SetsTyped, BootTyped
<1>4. ConfigTyped'
    BY <1>1, <1>2 DEF Basic, ConfigTyped
<1>5. StreamTyped'
    BY <1>1 DEF Basic, StreamTyped
<1>6. MutexTyped'
    <2>1. mutex \in MutexT /\ mutex.todo # <<>> /\ mutex.kind = "sched"
        BY DEF SchedMark, Holding, Basic, MutexTyped, MutexPhases
    <2> QED
        BY <1>1, <2>1, FreeIs, ThenIs, NextIs DEF SchedMark, Release, Passed, MutexAt, Basic, MutexTyped
<1>7. WaitTyped'
    <2>1. mutex \in MutexT /\ mutex.todo # <<>> /\ mutex.kind = "sched"
        BY DEF SchedMark, Holding, Basic, MutexTyped, MutexPhases
    <2>2. This \in Tasks /\ This \in Workspaces
        BY <2>1, HeadIs
    <2> QED
        BY <2>2, TimersAre DEF Basic, SchedMark
<1>8. Untouched'
    <2>1. mutex \in MutexT /\ mutex.todo # <<>> /\ mutex.kind = "sched"
        BY DEF SchedMark, Holding, Basic, MutexTyped, MutexPhases
    <2>2. This \in Tasks /\ This \in Workspaces
        BY <2>1, HeadIs
    <2>3. \A u \in Tasks : status'[u] \in Unborn /\ Fresh(u) => Fresh(u)'
        BY <1>1, <2>2 DEF SchedMark, This, Fresh, Marking, Basic, ConfigTyped, Unborn
    <2> QED
        BY <1>2, <2>3, UntouchedKept
<1>9. Lineage'
    <2>1. mutex \in MutexT /\ mutex.todo # <<>> /\ mutex.kind = "sched"
        BY DEF SchedMark, Holding, Basic, MutexTyped, MutexPhases
    <2>2. ~ Creating'
        BY <2>1, NextIs, DoneIs, ThenIs DEF SchedMark, Release, Free, Passed, MutexAt, Creating
    <2> QED
        BY <1>2, <2>2, LineageKept
<1>10. MutexPhases'
    <2>1. mutex \in MutexT /\ mutex.todo # <<>> /\ mutex.kind = "sched"
        BY DEF SchedMark, Holding, Basic, MutexTyped, MutexPhases
    <2>4. CASE mutex' = Free
        BY <2>4 DEF Free, MutexPhases, Creating, Sending
    <2>5. CASE Passed("pick")
        BY <2>1, <2>5 DEF Passed, MutexPhases, Creating, Sending
    <2> QED
        BY <2>1, <2>4, <2>5, NextIs DEF SchedMark
<1>11. HandlerPhases'
    BY <1>1, <1>2, HandlersKept DEF Basic, HandlerPhases, HandlerPhase, ConfigTyped
<1>12. BootPhases'
    BY <1>1, <1>2, BootKept DEF Basic, ConfigTyped
<1> QED
    BY <1>3, <1>4, <1>5, <1>6, <1>7, <1>8, <1>9, <1>10, <1>11, <1>12, <1>2 DEF Basic

LEMMA CascadeBeginKeeps == ASSUME Basic, NEW w \in Workspaces, CascadeBegin(w) PROVE Basic' /\ Moves /\ Still
<1>1. UNCHANGED <<status, born, streaming, mail, runs, events, handler, sched, resuming, wait,
          artifact, cache, halted, nudges, apart, patching, boot, heard>>
    BY DEF CascadeBegin, config, stream, memory
<1>2. Moves /\ Still
    BY <1>1 DEF Moves, Still
<1>3. ConfigTyped' /\ StreamTyped' /\ EventsTyped' /\ HandlerTyped' /\ WaitTyped' /\ SetsTyped' /\ BootTyped' /\
          HandlerPhases' /\ BootPhases'
    BY <1>1 DEF Basic, ConfigTyped, StreamTyped, EventsTyped, HandlerTyped, WaitTyped,
        SetsTyped, BootTyped, HandlerPhases, BootPhases, HandlerPhase, RootPhase, Over
<1>4. MutexTyped'
    <2>1. CASE UNCHANGED mutex
        BY <1>1, <1>2, <2>1, MutexKept DEF Basic, MutexTyped, CascadeBegin
    <2>2. CASE ~ UNCHANGED mutex
        <3>1. PICK todo \in LeavesFirst(Under(w)) : Hold("cascade", "stop", w, todo)
            BY <2>2 DEF CascadeBegin
        <3>2. IsFiniteSet(Under(w)) /\ Under(w) \subseteq Tasks /\ Under(w) # {}
            BY UnderIs, <2>2 DEF CascadeBegin
        <3>3. todo \in Seq(Tasks) /\ todo # <<>>
            BY <3>1, <3>2, HasAll, SeqsOf DEF LeavesFirst
        <3>4. mutex' \in MutexT /\ mutex'.kind = "cascade" /\ mutex'.at = "stop" /\ mutex'.todo = todo
            BY <3>1, <3>3, HoldIs, Tree DEF MutexAt
        <3> QED
            BY <1>1, <3>3, <3>4 DEF CascadeBegin, Basic, MutexTyped, MutexPhases, Creating, Sending
    <2> QED
        BY <2>1, <2>2
<1>5. Lineage'
    <2>1. Creating' => Creating /\ mutex'.task = mutex.task
        BY DEF CascadeBegin, Hold, Then, Holding, Release, Next1, Done, Creating, Free, Basic, MutexTyped, MutexT
    <2> QED
        BY <1>2, <2>1, LineageKept
<1>6. MutexPhases'
    <2>1. CASE UNCHANGED mutex
        BY <1>1, <1>2, <2>1, MutexKept DEF Basic, MutexTyped, CascadeBegin
    <2>2. CASE ~ UNCHANGED mutex
        <3>1. PICK todo \in LeavesFirst(Under(w)) : Hold("cascade", "stop", w, todo)
            BY <2>2 DEF CascadeBegin
        <3>2. IsFiniteSet(Under(w)) /\ Under(w) \subseteq Tasks /\ Under(w) # {}
            BY UnderIs, <2>2 DEF CascadeBegin
        <3>3. todo \in Seq(Tasks) /\ todo # <<>>
            BY <3>1, <3>2, HasAll, SeqsOf DEF LeavesFirst
        <3>4. mutex' \in MutexT /\ mutex'.kind = "cascade" /\ mutex'.at = "stop" /\ mutex'.todo = todo
            BY <3>1, <3>3, HoldIs, Tree DEF MutexAt
        <3> QED
            BY <1>1, <3>3, <3>4 DEF CascadeBegin, Basic, MutexTyped, MutexPhases, Creating, Sending
    <2> QED
        BY <2>1, <2>2
<1>20. Untouched'
    BY <1>1, <1>2, UntouchedPassed DEF CascadeBegin, Free
<1> QED
    BY <1>20, <1>3, <1>4, <1>5, <1>6, <1>2 DEF Basic

LEMMA CascadeStopKeeps == ASSUME Basic, CascadeStop PROVE Basic' /\ Moves /\ Still
<1>1. UNCHANGED <<status, born, runs, events, handler, sched, asked, resuming, artifact, cache,
          halted, nudges, apart, patching, boot, heard>>
    BY DEF CascadeStop, Holding, Halt, config, stream, memory
<1>2. Moves /\ Still
    BY <1>1 DEF Moves, Still
<1>3. ConfigTyped' /\ EventsTyped' /\ HandlerTyped' /\ SetsTyped' /\ BootTyped' /\ HandlerPhases' /\ BootPhases'
    BY <1>1 DEF Basic, ConfigTyped, EventsTyped, HandlerTyped, SetsTyped, BootTyped,
        HandlerPhases, BootPhases, HandlerPhase, RootPhase, Over
<1>4. StreamTyped'
    BY <1>1 DEF CascadeStop, Basic, StreamTyped, Holding, Halt
<1>5. MutexTyped'
    <2>1. mutex \in MutexT /\ mutex.todo # <<>> /\ mutex.kind = "cascade"
        BY DEF CascadeStop, Holding, Basic, MutexTyped, MutexPhases
    <2> QED
        BY <1>1, <2>1, ThenIs DEF CascadeStop, MutexAt, Basic, MutexTyped
<1>6. WaitTyped'
    <2>1. wait' = End(WaitsBy(This), "aborted")
        BY DEF CascadeStop, Halt
    <2> QED
        BY <2>1, EndIs DEF Basic, WaitsBy, Answer
<1>7. Untouched'
    BY <1>1, <1>2, UntouchedPassed DEF CascadeStop, Halt, Holding
<1>8. Lineage'
    <2>1. Creating' => Creating /\ mutex'.task = mutex.task
        BY DEF CascadeStop, Holding, Hold, Then, Release, Next1, Done, Creating, Free, Basic, MutexTyped, MutexT
    <2> QED
        BY <1>2, <2>1, LineageKept
<1>9. MutexPhases'
    <2>1. mutex \in MutexT /\ mutex.todo # <<>> /\ mutex.kind = "cascade"
        BY DEF CascadeStop, Holding, Basic, MutexTyped, MutexPhases
    <2> QED
        BY <1>1, <2>1, ThenIs DEF CascadeStop, MutexPhases, Creating, Sending, MutexAt
<1> QED
    BY <1>3, <1>4, <1>5, <1>6, <1>7, <1>8, <1>9, <1>2 DEF Basic

LEMMA CascadeEditKeeps == ASSUME Basic, CascadeEdit PROVE Basic' /\ Moves
<1>1. UNCHANGED <<born, streaming, mail, runs, events, handler, asked, resuming, artifact, cache,
          halted, nudges, patching, boot, heard>>
    BY DEF CascadeEdit, Holding, Done, Release, config, stream, memory
<1>2. status' \in [Tasks -> Status] /\ Moves
      /\ \A u \in Tasks : status'[u] = "reported" => status[u] = "reported"
    <2>1. mutex \in MutexT /\ mutex.todo # <<>> /\ mutex.kind = "cascade"
        BY DEF CascadeEdit, Holding, Basic, MutexTyped, MutexPhases
    <2>2. This \in Tasks /\ This \in Workspaces
        BY <2>1, HeadIs
    <2>3. Present(This) <=> status[This] \notin {"none", "removed"}
        BY <2>2, Tree DEF Present, Its
    <2> QED
        BY <2>2, <2>3 DEF CascadeEdit, Basic, ConfigTyped, Moves, Status
<1>3. StreamTyped' /\ EventsTyped' /\ HandlerTyped' /\ BootTyped'
    BY <1>1 DEF Basic, StreamTyped, EventsTyped, HandlerTyped, BootTyped
<1>4. ConfigTyped'
    BY <1>1, <1>2 DEF Basic, ConfigTyped
<1>5. MutexTyped'
    <2>1. mutex \in MutexT /\ mutex.todo # <<>> /\ mutex.kind = "cascade"
        BY DEF CascadeEdit, Holding, Basic, MutexTyped, MutexPhases
    <2>2. mutex' \in MutexT
        BY <2>1, FreeIs, DoneIs DEF CascadeEdit, Release, Passed
    <2> QED
        BY <1>1, <2>1, <2>2, DoneIs DEF CascadeEdit, Basic, MutexTyped
<1>6. WaitTyped'
    <2>1. CASE wait' = End(WaitsFor(This), "error")
        BY <2>1, EndIs DEF Basic, WaitsFor, Pending, Answer
    <2>2. CASE UNCHANGED wait
        BY <2>2 DEF Basic, WaitTyped
    <2> QED
        BY <2>1, <2>2 DEF CascadeEdit
<1>7. SetsTyped'
    BY <1>1 DEF CascadeEdit, Basic, SetsTyped, Holding, Done, Release
<1>8. Untouched'
    BY <1>1, <1>2, UntouchedPassed DEF CascadeEdit, Holding
<1>9. Lineage'
    <2>1. mutex \in MutexT /\ mutex.todo # <<>> /\ mutex.kind = "cascade"
        BY DEF CascadeEdit, Holding, Basic, MutexTyped, MutexPhases
    <2>2. ~ Creating'
        BY <2>1, NextIs, DoneIs, ThenIs DEF CascadeEdit, Release, Free, Passed, MutexAt, Creating
    <2> QED
        BY <1>2, <2>2, LineageKept
<1>10. MutexPhases'
    <2>1. mutex \in MutexT /\ mutex.todo # <<>> /\ mutex.kind = "cascade"
        BY DEF CascadeEdit, Holding, Basic, MutexTyped, MutexPhases
    <2>2. CASE mutex' = Free
        BY <2>2 DEF Free, MutexPhases, Creating, Sending
    <2>3. CASE Passed("stop")
        BY <2>1, <2>3 DEF Passed, MutexPhases, Creating, Sending
    <2> QED
        BY <2>1, <2>2, <2>3, DoneIs DEF CascadeEdit, Release
<1>11. HandlerPhases'
    BY <1>1, <1>2, HandlersKept DEF Basic, HandlerPhases, HandlerPhase, ConfigTyped
<1>12. BootPhases'
    BY <1>1, <1>2, BootKept DEF Basic, ConfigTyped
<1> QED
    BY <1>3, <1>4, <1>5, <1>6, <1>7, <1>8, <1>9, <1>10, <1>11, <1>12, <1>2 DEF Basic

LEMMA TerminateKeeps == ASSUME Basic, NEW t \in Tasks, Terminate(t) PROVE Basic' /\ Moves /\ Still
<1>1. UNCHANGED <<status, born, streaming, mail, runs, events, handler, sched, asked, resuming, wait,
          artifact, cache, halted, nudges, apart, patching, boot, heard>>
    BY DEF Terminate, config, stream, memory
<1>2. Moves /\ Still
    BY <1>1 DEF Moves, Still
<1>3. ConfigTyped' /\ StreamTyped' /\ EventsTyped' /\ HandlerTyped' /\ WaitTyped' /\ SetsTyped' /\ BootTyped' /\
          HandlerPhases' /\ BootPhases'
    BY <1>1 DEF Basic, ConfigTyped, StreamTyped, EventsTyped, HandlerTyped, WaitTyped,
        SetsTyped, BootTyped, HandlerPhases, BootPhases, HandlerPhase, RootPhase, Over
<1>4. MutexTyped'
    <2> DEFINE S == {t} \cup Under(t)
    <2>1. PICK todo \in LeavesFirst(S) : Hold("terminate", "stop", t, todo)
        BY DEF Terminate
    <2>2. IsFiniteSet(S) /\ S \subseteq Tasks /\ S # {}
        BY UnderIs, FS_AddElement
    <2>3. todo \in Seq(Tasks) /\ todo # <<>>
        BY <2>1, <2>2, HasAll, SeqsOf DEF LeavesFirst
    <2>4. mutex' \in MutexT /\ mutex'.kind = "terminate" /\ mutex'.at = "stop" /\ mutex'.todo = todo
        BY <2>1, <2>3, HoldIs, Tree DEF MutexAt
    <2>5. \A u \in S : status[u] # "none"
        <3>1. \A u \in S : u # Root /\ Present(u)
            BY Tree DEF Terminate, Under
        <3> QED
            BY <3>1 DEF Present, Its
    <2>6. \A i \in DOMAIN todo : todo[i] \in S
        BY <2>1, <2>2, HasAll DEF LeavesFirst
    <2> QED
        BY <1>1, <2>3, <2>4, <2>5, <2>6 DEF Basic, MutexTyped, MutexPhases, Creating, Sending
<1>5. Lineage'
    <2>1. Creating' => Creating /\ mutex'.task = mutex.task
        BY DEF Terminate, Hold, Then, Holding, Release, Next1, Done, Creating, Free, Basic, MutexTyped, MutexT
    <2> QED
        BY <1>2, <2>1, LineageKept
<1>6. MutexPhases'
    <2> DEFINE S == {t} \cup Under(t)
    <2>1. PICK todo \in LeavesFirst(S) : Hold("terminate", "stop", t, todo)
        BY DEF Terminate
    <2>2. IsFiniteSet(S) /\ S \subseteq Tasks /\ S # {}
        BY UnderIs, FS_AddElement
    <2>3. todo \in Seq(Tasks) /\ todo # <<>>
        BY <2>1, <2>2, HasAll, SeqsOf DEF LeavesFirst
    <2>4. mutex' \in MutexT /\ mutex'.kind = "terminate" /\ mutex'.at = "stop" /\ mutex'.todo = todo
        BY <2>1, <2>3, HoldIs, Tree DEF MutexAt
    <2>5. \A u \in S : status[u] # "none"
        <3>1. \A u \in S : u # Root /\ Present(u)
            BY Tree DEF Terminate, Under
        <3> QED
            BY <3>1 DEF Present, Its
    <2>6. \A i \in DOMAIN todo : todo[i] \in S
        BY <2>1, <2>2, HasAll DEF LeavesFirst
    <2> QED
        BY <1>1, <2>3, <2>4, <2>5, <2>6 DEF Basic, MutexTyped, MutexPhases, Creating, Sending
<1>20. Untouched'
    BY <1>1, <1>2, UntouchedPassed DEF Terminate, Free
<1> QED
    BY <1>20, <1>3, <1>4, <1>5, <1>6, <1>2 DEF Basic

LEMMA TerminateStopKeeps == ASSUME Basic, TerminateStop PROVE Basic' /\ Moves /\ Still
<1>1. UNCHANGED <<status, born, mail, runs, events, handler, sched, asked, resuming, artifact, cache,
          halted, nudges, apart, patching, boot, heard>>
    BY DEF TerminateStop, Holding, Halt, config, stream, memory
<1>2. Moves /\ Still
    BY <1>1 DEF Moves, Still
<1>3. ConfigTyped' /\ EventsTyped' /\ HandlerTyped' /\ SetsTyped' /\ BootTyped' /\ HandlerPhases' /\ BootPhases'
    BY <1>1 DEF Basic, ConfigTyped, EventsTyped, HandlerTyped, SetsTyped, BootTyped,
        HandlerPhases, BootPhases, HandlerPhase, RootPhase, Over
<1>4. StreamTyped'
    BY <1>1 DEF TerminateStop, Basic, StreamTyped, Holding, Halt
<1>5. MutexTyped'
    <2>1. mutex \in MutexT /\ mutex.todo # <<>> /\ mutex.kind = "terminate"
        BY DEF TerminateStop, Holding, Basic, MutexTyped, MutexPhases
    <2> QED
        BY <1>1, <2>1, ThenIs DEF TerminateStop, MutexAt, Basic, MutexTyped
<1>6. WaitTyped'
    <2>1. wait' = End(WaitsBy(This), "aborted")
        BY DEF TerminateStop, Halt
    <2> QED
        BY <2>1, EndIs DEF Basic, WaitsBy, Answer
<1>7. Untouched'
    BY <1>1, <1>2, UntouchedPassed DEF TerminateStop, Halt, Holding
<1>8. Lineage'
    <2>1. Creating' => Creating /\ mutex'.task = mutex.task
        BY DEF TerminateStop, Holding, Hold, Then, Release, Next1, Done, Creating, Free, Basic, MutexTyped, MutexT
    <2> QED
        BY <1>2, <2>1, LineageKept
<1>9. MutexPhases'
    <2>1. mutex \in MutexT /\ mutex.todo # <<>> /\ mutex.kind = "terminate"
        BY DEF TerminateStop, Holding, Basic, MutexTyped, MutexPhases
    <2>2. mutex'.kind = "terminate" /\ mutex'.todo = mutex.todo /\ mutex'.at \in {"reject", "remove"}
        BY <2>1, ThenIs DEF TerminateStop, MutexAt
    <2> QED
        BY <1>1, <2>1, <2>2 DEF Basic, MutexPhases, Creating, Sending
<1> QED
    BY <1>3, <1>4, <1>5, <1>6, <1>7, <1>8, <1>9, <1>2 DEF Basic

LEMMA TerminateRejectKeeps == ASSUME Basic, TerminateReject PROVE Basic' /\ Moves /\ Still
<1>1. UNCHANGED <<status, born, streaming, mail, runs, events, handler, sched, asked, resuming,
          artifact, halted, nudges, patching, boot, heard>>
    BY DEF TerminateReject, Holding, config, stream, memory
<1>2. Moves /\ Still
    BY <1>1 DEF Moves, Still
<1>3. ConfigTyped' /\ StreamTyped' /\ EventsTyped' /\ HandlerTyped' /\ BootTyped' /\
          HandlerPhases' /\ BootPhases'
    BY <1>1 DEF Basic, ConfigTyped, StreamTyped, EventsTyped, HandlerTyped, BootTyped,
        HandlerPhases, BootPhases, HandlerPhase, RootPhase, Over
<1>4. MutexTyped'
    <2>1. mutex \in MutexT /\ mutex.todo # <<>> /\ mutex.kind = "terminate"
        BY DEF TerminateReject, Holding, Basic, MutexTyped, MutexPhases
    <2> QED
        BY <1>1, <2>1, ThenIs DEF TerminateReject, MutexAt, Basic, MutexTyped
<1>5. WaitTyped'
    BY EndIs DEF TerminateReject, Basic, WaitsFor, Pending, Answer
<1>6. SetsTyped'
    BY <1>1 DEF TerminateReject, Basic, SetsTyped, Holding
<1>7. Lineage'
    <2>1. Creating' => Creating /\ mutex'.task = mutex.task
        BY DEF TerminateReject, Holding, Hold, Then, Release, Next1, Done, Creating, Free, Basic, MutexTyped, MutexT
    <2> QED
        BY <1>2, <2>1, LineageKept
<1>8. MutexPhases'
    <2>1. mutex \in MutexT /\ mutex.todo # <<>> /\ mutex.kind = "terminate"
        BY DEF TerminateReject, Holding, Basic, MutexTyped, MutexPhases
    <2>2. mutex'.kind = "terminate" /\ mutex'.todo = mutex.todo /\ mutex'.at \in {"reject", "remove"}
        BY <2>1, ThenIs DEF TerminateReject, MutexAt
    <2> QED
        BY <1>1, <2>1, <2>2 DEF Basic, MutexPhases, Creating, Sending
<1>20. Untouched'
    BY <1>1, <1>2, UntouchedPassed DEF TerminateReject, Holding
<1> QED
    BY <1>20, <1>3, <1>4, <1>5, <1>6, <1>7, <1>8, <1>2 DEF Basic

LEMMA TerminateRemoveKeeps == ASSUME Basic, TerminateRemove PROVE Basic' /\ Moves
<1>1. UNCHANGED <<born, runs, events, handler, asked, resuming, wait, artifact, cache, halted,
          nudges, apart, patching, boot, heard>>
    BY DEF TerminateRemove, Holding, RemoveWorkspace, Done, Release, config, stream, memory
<1>2. status' \in [Tasks -> Status] /\ Moves
      /\ \A u \in Tasks : status'[u] = "reported" => status[u] = "reported"
    <2>1. mutex \in MutexT /\ mutex.todo # <<>> /\ mutex.kind = "terminate"
        BY DEF TerminateRemove, Holding, Basic, MutexTyped, MutexPhases
    <2>2. This \in Tasks /\ This \in Workspaces
        BY <2>1, HeadIs
    <2>3. status' = status \/ status' = [status EXCEPT ![This] = "removed"]
        BY DEF TerminateRemove, RemoveWorkspace, config
    <2>4. status[This] # "none"
        <3>1. mutex.todo \in Seq(Tasks) /\ 1 \in DOMAIN mutex.todo /\ This = mutex.todo[1]
            BY <2>1 DEF MutexT, This
        <3> QED
            BY <2>1, <3>1 DEF Basic, MutexPhases
    <2> QED
        BY <2>2, <2>3, <2>4 DEF Basic, ConfigTyped, Moves, Status
<1>3. EventsTyped' /\ HandlerTyped' /\ WaitTyped' /\ SetsTyped' /\ BootTyped'
    BY <1>1 DEF Basic, EventsTyped, HandlerTyped, WaitTyped, SetsTyped, BootTyped
<1>4. ConfigTyped'
    BY <1>1, <1>2 DEF Basic, ConfigTyped
<1>5. StreamTyped'
    BY <1>1 DEF TerminateRemove, Basic, StreamTyped, Holding, RemoveWorkspace, Done, Release, config, stream
<1>6. MutexTyped'
    <2>1. mutex \in MutexT /\ mutex.todo # <<>> /\ mutex.kind = "terminate"
        BY DEF TerminateRemove, Holding, Basic, MutexTyped, MutexPhases
    <2>2. mutex' \in MutexT
        BY <2>1, FreeIs, DoneIs DEF TerminateRemove, Release, Passed
    <2> QED
        BY <1>1, <2>1, <2>2, DoneIs DEF TerminateRemove, Basic, MutexTyped
<1>7. Untouched'
    BY <1>1, <1>2, UntouchedPassed DEF TerminateRemove, RemoveWorkspace, stream, Holding
<1>8. Lineage'
    <2>1. mutex \in MutexT /\ mutex.todo # <<>> /\ mutex.kind = "terminate"
        BY DEF TerminateRemove, Holding, Basic, MutexTyped, MutexPhases
    <2>2. ~ Creating'
        BY <2>1, NextIs, DoneIs, ThenIs DEF TerminateRemove, Release, Free, Passed, MutexAt, Creating
    <2> QED
        BY <1>2, <2>2, LineageKept
<1>9. MutexPhases'
    <2>1. mutex \in MutexT /\ mutex.todo # <<>> /\ mutex.kind = "terminate"
        BY DEF TerminateRemove, Holding, Basic, MutexTyped, MutexPhases
    <2>2. CASE mutex' = Free
        BY <2>2 DEF Free, MutexPhases, Creating, Sending
    <2>3. CASE Passed("stop")
        <3>1. \A i \in DOMAIN mutex'.todo : status'[mutex'.todo[i]] # "none"
            <4> SUFFICES ASSUME NEW i \in DOMAIN mutex'.todo PROVE status'[mutex'.todo[i]] # "none"
                OBVIOUS
            <4>1. mutex'.todo[i] \in Tasks
                <5>1. mutex'.todo \in Seq(Tasks)
                    BY <2>3 DEF Passed, MutexT
                <5> QED
                    BY <5>1
            <4>2. status[mutex'.todo[i]] # "none"
                BY <2>1, <2>3 DEF Passed, Basic, MutexPhases
            <4> QED
                BY <1>2, <4>1, <4>2 DEF Moves
        <3> QED
            BY <2>1, <2>3, <3>1 DEF Passed, MutexPhases, Creating, Sending
    <2> QED
        BY <2>1, <2>2, <2>3, DoneIs DEF TerminateRemove, Release
<1>10. HandlerPhases'
    BY <1>1, <1>2, HandlersKept DEF Basic, HandlerPhases, HandlerPhase, ConfigTyped
<1>11. BootPhases'
    BY <1>1, <1>2, BootKept DEF Basic, ConfigTyped
<1> QED
    BY <1>3, <1>4, <1>5, <1>6, <1>7, <1>8, <1>9, <1>10, <1>11, <1>2 DEF Basic
-----------------------------------------------------------------------------
(* waitForAgentReport.                                                     *)
LEMMA RegisterIs ==
    ASSUME Basic, NEW v \in Waits, NEW t \in Tasks, Register(v, t)
    PROVE  /\ WaitTyped' /\ EventsTyped' /\ sched' \subseteq Workspaces
           /\ \A u \in Tasks : status[u] \in Unborn => events'[u] = events[u]
<1> DEFINE r == [at |-> IF status[t] = "queued" THEN "unstarted" ELSE "timed", task |-> t, got |-> "none"]
<1>1. r \in WaitT /\ r.task \in Tasks
    BY Tree DEF WaitT, Answer, Status
<1>2. wait' = [wait EXCEPT ![v] = r]
    BY DEF Register
<1> HIDE DEF r
<1>3. WaitTyped'
    BY <1>1, <1>2 DEF Basic, WaitTyped
<1>4. EventsTyped' /\ \A u \in Tasks : status[u] \in Unborn => events'[u] = events[u]
    <2>1. CASE UNCHANGED events
        BY <2>1 DEF Basic, EventsTyped
    <2>2. CASE Queue(t, "prompt") /\ status[t] = "awaiting_report"
        BY <2>2, Tree DEF Queue, Basic, EventsTyped, Event, Unborn
    <2> QED
        BY <2>1, <2>2 DEF Register
<1>5. sched' \subseteq Workspaces
    BY Tree DEF Register, Basic, MutexTyped
<1> QED
    BY <1>3, <1>4, <1>5

LEMMA AnswerIs ==
    ASSUME WaitTyped, NEW v \in Waits, NEW t \in Tasks, NEW a \in {"reading", "over"}, NEW g \in Answer,
           wait' = [wait EXCEPT ![v] = [at |-> a, task |-> t, got |-> g]]
    PROVE  WaitTyped'
<1> DEFINE r == [at |-> a, task |-> t, got |-> g]
<1>1. r \in WaitT /\ r.task \in Tasks
    BY Tree DEF WaitT
<1>2. wait' = [wait EXCEPT ![v] = r]
    OBVIOUS
<1> HIDE DEF r
<1> QED
    BY <1>1, <1>2 DEF WaitTyped

LEMMA WaitCallKeeps == ASSUME Basic, NEW v \in Waits, NEW t \in Tasks, WaitCall(v, t) PROVE Basic' /\ Moves /\ Still
<1>1. UNCHANGED <<status, born, streaming, mail, runs, handler, mutex, asked, resuming, artifact,
          cache, halted, nudges, patching, boot>>
    BY DEF WaitCall, config, stream, memory
<1>2. Moves /\ Still
    BY <1>1 DEF Moves, Still
<1>3. ConfigTyped' /\ StreamTyped' /\ HandlerTyped' /\ BootTyped' /\ Lineage' /\ MutexPhases' /\ HandlerPhases' /\
          BootPhases'
    BY <1>1 DEF Basic, ConfigTyped, StreamTyped, HandlerTyped, BootTyped, Lineage, MutexPhases,
        HandlerPhases, BootPhases, Creating, Elder, HandlerPhase, RootPhase, Over, Sending
<1>4. EventsTyped'
    <2>1. CASE UNCHANGED events
        BY <2>1 DEF Basic, EventsTyped
    <2> QED
        BY <2>1, RegisterIs DEF WaitCall
<1>5. MutexTyped'
    BY <1>1, RegisterIs DEF WaitCall, Basic, MutexTyped
<1>6. WaitTyped'
    <2>1. CASE wait' = [wait EXCEPT ![v] = [at |-> "over", task |-> t, got |-> "report"]]
        <3>1. "report" \in Answer
            BY DEF Answer
        <3> QED
            BY <2>1, <3>1, AnswerIs DEF Basic
    <2>2. CASE wait' = [wait EXCEPT ![v] = [at |-> "reading", task |-> t, got |-> status[t]]]
        <3>1. status[t] \in Answer
            BY DEF Answer, Basic, ConfigTyped
        <3> QED
            BY <2>2, <3>1, AnswerIs DEF Basic
    <2>3. CASE Register(v, t)
        BY <2>3, RegisterIs
    <2> QED
        BY <2>1, <2>2, <2>3 DEF WaitCall
<1>7. SetsTyped'
    BY <1>1 DEF WaitCall, Basic, SetsTyped
<1>8. Untouched'
    <2>1. \A u \in Tasks : status[u] \in Unborn => events'[u] = events[u]
        BY RegisterIs DEF WaitCall
    <2> QED
        BY <1>1, <1>2, <2>1, UntouchedKept DEF Fresh, Marking
<1> QED
    BY <1>3, <1>4, <1>5, <1>6, <1>7, <1>8, <1>2 DEF Basic

LEMMA WaitReadKeeps == ASSUME Basic, NEW v \in Waits, WaitRead(v) PROVE Basic' /\ Moves /\ Still
<1>1. UNCHANGED <<status, born, streaming, mail, runs, handler, mutex, asked, resuming, artifact,
          halted, nudges, apart, patching, boot>>
    BY DEF WaitRead, config, stream, memory
<1>2. Moves /\ Still
    BY <1>1 DEF Moves, Still
<1>3. ConfigTyped' /\ StreamTyped' /\ HandlerTyped' /\ BootTyped' /\ Lineage' /\ MutexPhases' /\ HandlerPhases' /\
          BootPhases'
    BY <1>1 DEF Basic, ConfigTyped, StreamTyped, HandlerTyped, BootTyped, Lineage, MutexPhases,
        HandlerPhases, BootPhases, Creating, Elder, HandlerPhase, RootPhase, Over, Sending
<1>4. EventsTyped'
    <2>1. CASE UNCHANGED events
        BY <2>1 DEF Basic, EventsTyped
    <2>2. CASE Register(v, wait[v].task)
        BY <2>2, RegisterIs DEF WaitRead, Basic, WaitTyped
    <2> QED
        BY <2>1, <2>2 DEF WaitRead
<1>5. MutexTyped'
    <2>1. CASE UNCHANGED sched
        BY <1>1, <2>1 DEF Basic, MutexTyped
    <2>2. CASE Register(v, wait[v].task)
        BY <1>1, <2>2, RegisterIs DEF WaitRead, Basic, WaitTyped, MutexTyped
    <2> QED
        BY <2>1, <2>2 DEF WaitRead
<1>6. WaitTyped'
    <2>1. wait[v].task \in Tasks /\ wait[v].at = "reading" /\ status[wait[v].task] \in Answer
        BY DEF WaitRead, Basic, WaitTyped, ConfigTyped, Answer
    <2>2. CASE \E how \in {"report", "error", "not found"} : wait' = End({v}, how)
        BY <2>1, <2>2, EndIs DEF Basic, Answer
    <2>3. CASE wait' = [wait EXCEPT ![v].got = status[wait[v].task]]
        BY <2>1, <2>3 DEF Basic, WaitTyped, WaitT
    <2>4. CASE Register(v, wait[v].task)
        BY <2>1, <2>4, RegisterIs
    <2> QED
        BY <2>2, <2>3, <2>4 DEF WaitRead
<1>7. SetsTyped'
    BY <1>1 DEF WaitRead, Basic, SetsTyped, WaitTyped
<1>8. Untouched'
    <2>1. \A u \in Tasks : status[u] \in Unborn => events'[u] = events[u]
        BY RegisterIs DEF WaitRead, Basic, WaitTyped
    <2> QED
        BY <1>1, <1>2, <2>1, UntouchedKept DEF Fresh, Marking
<1> QED
    BY <1>3, <1>4, <1>5, <1>6, <1>7, <1>8, <1>2 DEF Basic

LEMMA WaitTimeoutKeeps == ASSUME Basic, NEW v \in Waits, WaitTimeout(v) PROVE Basic' /\ Moves /\ Still
<1>1. UNCHANGED <<status, born, streaming, mail, runs, events, handler, mutex, sched, asked,
          resuming, artifact, cache, halted, nudges, apart, patching, boot, heard>>
    BY DEF WaitTimeout, config, stream, memory
<1>2. Moves /\ Still
    BY <1>1 DEF Moves, Still
<1>3. ConfigTyped' /\ StreamTyped' /\ EventsTyped' /\ HandlerTyped' /\ MutexTyped' /\ SetsTyped' /\ BootTyped' /\
          Untouched' /\ Lineage' /\ MutexPhases' /\ HandlerPhases' /\ BootPhases'
    BY <1>1 DEF Basic, ConfigTyped, StreamTyped, EventsTyped, HandlerTyped, MutexTyped,
        SetsTyped, BootTyped, Untouched, Lineage, MutexPhases, HandlerPhases, BootPhases,
        Creating, Elder, Fresh, Marking, HandlerPhase, RootPhase, Over, Sending
<1>4. WaitTyped'
    BY EndIs DEF WaitTimeout, Basic, Answer
<1> QED
    BY <1>3, <1>4, <1>2 DEF Basic

-----------------------------------------------------------------------------
(* The handlers of stream events.                                          *)
LEMMA AgedIs ==
    ASSUME NEW todo \in ByAge({t \in Are("reported") : ParentOf[t] = Root})
    PROVE  todo \in Seq(Tasks) /\ \A i \in DOMAIN todo : status[todo[i]] = "reported"
<1> DEFINE S == {t \in Are("reported") : ParentOf[t] = Root}
<1>1. S \subseteq Tasks /\ IsFiniteSet(S) /\ \A t \in S : status[t] = "reported"
    BY TreeAssumption, FS_Subset DEF Are
<1>2. todo \in Seq(S)
    BY <1>1, HasAll DEF ByAge
<1> HIDE DEF S
<1>3. \A i \in DOMAIN todo : todo[i] \in S
    BY <1>2
<1> QED
    BY <1>1, <1>2, <1>3, SeqsOf
LEMMA ListSwept ==
    ASSUME HandlerTyped, NEW w \in Workspaces, NEW todo \in Seq(Tasks),
           handler' = [handler EXCEPT ![w].at = "sweep", ![w].todo = todo]
    PROVE  HandlerTyped' /\ Only(w) /\ handler'[w].at = "sweep" /\ handler'[w].todo = todo
<1> DEFINE h == [handler[w] EXCEPT !.at = "sweep", !.todo = todo]
<1>1. h \in HandlerT /\ h.at = "sweep" /\ h.todo = todo
    <2>1. handler[w] \in HandlerT /\ "sweep" \in Step
        BY DEF HandlerTyped, Step
    <2> QED
        BY <2>1 DEF HandlerT
<1>2. handler' = [handler EXCEPT ![w] = h]
    BY DEF HandlerTyped, HandlerT
<1> HIDE DEF h
<1> QED
    BY <1>1, <1>2 DEF HandlerTyped, Only

LEMMA RootEndKeeps == ASSUME Basic, RootEnd PROVE Basic' /\ Moves /\ Still
<1>1. UNCHANGED <<status, born, streaming, mail, runs, mutex, sched, asked, resuming, wait, artifact,
          cache, halted, patching, boot, heard>>
    BY DEF RootEnd, Waiting, TakeEvent, config, stream, memory
<1>2. Moves /\ Still
    BY <1>1 DEF Moves, Still
<1>3. ConfigTyped' /\ StreamTyped' /\ MutexTyped' /\ WaitTyped' /\ BootTyped' /\ Lineage' /\ MutexPhases' /\
          BootPhases'
    BY <1>1 DEF Basic, ConfigTyped, StreamTyped, MutexTyped, WaitTyped, BootTyped, Lineage,
        MutexPhases, BootPhases, Creating, Elder, Over, Sending
<1>4. EventsTyped'
    <2>1. events[Root] \in Seq(Event) /\ events[Root] # <<>>
        BY Tree DEF RootEnd, Basic, EventsTyped, Waiting
    <2> QED
        BY <2>1, Tree DEF RootEnd, Basic, EventsTyped, TakeEvent
<1>5. \/ UNCHANGED handler
      \/ Move(Root, "nudge")
      \/ \E todo \in ByAge({t \in Are("reported") : ParentOf[t] = Root}) :
            handler' = [handler EXCEPT ![Root].at = "sweep", ![Root].todo = todo]
    BY DEF RootEnd
<1>6. HandlerTyped' /\ Only(Root) /\ RootPhase'
    <2>1. status' = status /\ Root \in Workspaces /\ HandlerTyped /\ RootPhase
        BY <1>1, Tree DEF Basic, HandlerPhases
    <2>2. CASE UNCHANGED handler
        BY <2>1, <2>2 DEF HandlerTyped, Only, RootPhase, Over
    <2>3. CASE Move(Root, "nudge")
        <3>1. HandlerTyped' /\ Only(Root) /\ handler'[Root].at = "nudge" /\ handler'[Root].todo = handler[Root].todo
            BY <2>1, <2>3, MoveIs DEF Step
        <3> QED
            BY <2>1, <3>1 DEF RootPhase, Over
    <2>4. ASSUME NEW todo \in ByAge({t \in Are("reported") : ParentOf[t] = Root}),
                 handler' = [handler EXCEPT ![Root].at = "sweep", ![Root].todo = todo]
          PROVE  HandlerTyped' /\ Only(Root) /\ RootPhase'
        <3>1. todo \in Seq(Tasks) /\ \A i \in DOMAIN todo : status[todo[i]] = "reported"
            BY AgedIs
        <3>2. HandlerTyped' /\ Only(Root) /\ handler'[Root].at = "sweep" /\ handler'[Root].todo = todo
            BY <2>1, <2>4, <3>1, ListSwept
        <3>3. \A i \in DOMAIN todo : todo[i] \in Tasks
            BY <3>1
        <3> QED
            BY <2>1, <3>1, <3>2, <3>3 DEF RootPhase, Over
    <2> QED
        BY <1>5, <2>2, <2>3, <2>4
<1>7. SetsTyped'
    BY <1>1, LimitAssumption DEF RootEnd, Basic, SetsTyped
<1>8. Untouched'
    <2>1. \A u \in Tasks : events'[u] = events[u] /\ handler'[u] = handler[u]
        BY <1>6, Tree DEF RootEnd, TakeEvent, Only, Basic, EventsTyped
    <2> QED
        BY <1>1, <1>2, <2>1, UntouchedKept DEF Fresh, Marking
<1>9. HandlerPhases'
    BY <1>1, <1>2, <1>6, HandlersMove, Tree DEF Basic, ConfigTyped
<1> QED
    BY <1>3, <1>4, <1>6, <1>7, <1>8, <1>9, <1>2 DEF Basic

LEMMA RootSweepKeeps == ASSUME Basic, RootSweep PROVE Basic' /\ Moves /\ Still
<1>1. UNCHANGED <<status, born, streaming, mail, runs, mutex, sched, asked, resuming, wait, artifact,
          cache, halted, nudges, apart, patching, boot, heard>>
    BY DEF RootSweep, config, stream, memory
<1>2. Moves /\ Still
    BY <1>1 DEF Moves, Still
<1>3. ConfigTyped' /\ StreamTyped' /\ MutexTyped' /\ WaitTyped' /\ SetsTyped' /\ BootTyped' /\ Lineage' /\
          MutexPhases' /\ BootPhases'
    BY <1>1 DEF Basic, ConfigTyped, StreamTyped, MutexTyped, WaitTyped, SetsTyped, BootTyped, Lineage,
        MutexPhases, BootPhases, Creating, Elder, Over, Sending
<1>4. Root \in Workspaces /\ HandlerTyped /\ RootPhase /\ handler[Root].todo \in Seq(Tasks) /\ EventsTyped
    BY Tree DEF Basic, HandlerPhases, HandlerTyped, HandlerT
<1>5. CASE handler[Root].todo = <<>> /\ Leave(Root) /\ UNCHANGED events
    <2>1. HandlerTyped' /\ Only(Root) /\ handler'[Root].at = "idle" /\ handler'[Root].todo = <<>>
        BY <1>4, <1>5, LeaveIs
    <2>2. RootPhase'
        BY <2>1 DEF RootPhase
    <2>3. Untouched'
        BY <1>1, <1>2, <1>5, <2>1, UntouchedKept, Tree DEF Fresh, Marking, Only
    <2>4. HandlerPhases' /\ EventsTyped'
        BY <1>1, <1>2, <1>5, <2>1, <2>2, HandlersMove, Tree DEF Basic, ConfigTyped, EventsTyped
    <2> QED
        BY <1>2, <1>3, <2>1, <2>3, <2>4 DEF Basic
<1>6. CASE /\ handler[Root].todo # <<>> /\ Queue(Head(handler[Root].todo), "sweep")
           /\ handler' = [handler EXCEPT ![Root].todo = Tail(@)]
    <2>1. Head(handler[Root].todo) = handler[Root].todo[1] /\ 1 \in DOMAIN handler[Root].todo
          /\ Tail(handler[Root].todo) \in Seq(Tasks)
          /\ \A i \in DOMAIN Tail(handler[Root].todo) :
                i + 1 \in DOMAIN handler[Root].todo /\ Tail(handler[Root].todo)[i] = handler[Root].todo[i + 1]
        BY <1>4, <1>6
    <2>2. Over(Head(handler[Root].todo))
        BY <1>4, <2>1 DEF RootPhase
    <2>3. HandlerTyped' /\ Only(Root) /\ handler'[Root].at = handler[Root].at
          /\ handler'[Root].todo = Tail(handler[Root].todo)
        <3> DEFINE h == handler[Root]
        <3>1. handler' = [handler EXCEPT ![Root] = [h EXCEPT !.todo = Tail(h.todo)]]
            BY <1>6
        <3>2. h \in HandlerT
            BY <1>4 DEF HandlerTyped
        <3>3. [h EXCEPT !.todo = Tail(h.todo)] \in HandlerT
            BY <2>1, <3>2 DEF HandlerT
        <3>4. [h EXCEPT !.todo = Tail(h.todo)].at = h.at /\ [h EXCEPT !.todo = Tail(h.todo)].todo = Tail(h.todo)
            BY <3>2 DEF HandlerT
        <3> HIDE DEF h
        <3>5. HandlerTyped' /\ Only(Root) /\ handler'[Root] = [h EXCEPT !.todo = Tail(h.todo)]
            BY <1>4, <3>1, <3>3 DEF HandlerTyped, Only
        <3> QED
            BY <3>4, <3>5 DEF h
    <2>4. RootPhase'
        BY <1>1, <1>4, <2>1, <2>3 DEF RootPhase, Over
    <2>5. EventsTyped'
        <3>1. Head(handler[Root].todo) \in Workspaces
            BY <2>2, Tree DEF Over
        <3>2. \A e \in Seq(Event) : Append(e, "sweep") \in Seq(Event)
            BY DEF Event
        <3> QED
            BY <1>4, <1>6, <3>1, <3>2 DEF EventsTyped, Queue
    <2>6. Untouched'
        <3>1. \A u \in Tasks : status[u] \in Unborn => events'[u] = events[u]
            BY <1>4, <1>6, <2>2, Tree DEF Queue, Over, Unborn, EventsTyped
        <3> QED
            BY <1>1, <1>2, <2>3, <3>1, UntouchedKept, Tree DEF Fresh, Marking, Only
    <2>7. HandlerPhases'
        BY <1>1, <1>2, <2>3, <2>4, HandlersMove, Tree DEF Basic, ConfigTyped
    <2> QED
        BY <1>2, <1>3, <2>3, <2>5, <2>6, <2>7 DEF Basic
<1> QED
    BY <1>5, <1>6 DEF RootSweep

LEMMA NudgeKeeps == ASSUME Basic, Nudge PROVE Basic' /\ Moves /\ Still
<1>1. UNCHANGED <<born, events, mutex, sched, asked, wait, artifact, cache, halted, nudges, apart,
          patching, boot, heard>>
    BY DEF Nudge, At, config, stream, memory
<1>2. status' \in [Tasks -> Status] /\ StreamTyped' /\ Moves /\ Still /\ NoneStarts
      /\ \A u \in Tasks : status'[u] = "reported" => status[u] = "reported"
    BY SendIs, Tree DEF Nudge
<1>3. EventsTyped' /\ MutexTyped' /\ WaitTyped' /\ SetsTyped' /\ BootTyped'
    BY <1>1 DEF Basic, EventsTyped, MutexTyped, WaitTyped, SetsTyped, BootTyped
<1>4. ConfigTyped'
    BY <1>1, <1>2 DEF Basic, ConfigTyped
<1>5. StreamTyped'
    BY <1>2
<1>6. HandlerTyped'
    BY LeaveIs, Tree DEF Nudge, Basic
<1>7. Untouched'
    <2>2. \A u \in Tasks \ {Root} : status[u] \in Unborn /\ Fresh(u) => Fresh(u)'
        BY <1>1, <1>2, LeaveIs, Tree DEF Nudge, Basic, Only, NoneStarts, Fresh, Marking
    <2> QED
        BY <1>2, <2>2, OtherFresh, Tree
<1>8. Lineage'
    BY <1>1, <1>2, LineageKept DEF Creating
<1>9. MutexPhases'
    BY <1>1, <1>2, MutexKept
<1>10. HandlerPhases'
    <2>1. Only(Root) /\ handler'[Root].at = "idle" /\ handler'[Root].todo = <<>>
        BY LeaveIs, Tree DEF Nudge, Basic
    <2>2. RootPhase'
        BY <2>1 DEF RootPhase
    <2> QED
        BY <1>2, <2>1, <2>2, HandlersMove, Tree
<1>11. BootPhases'
    BY <1>1, <1>2, BootKept DEF Basic, ConfigTyped
<1> QED
    BY <1>3, <1>4, <1>5, <1>6, <1>7, <1>8, <1>9, <1>10, <1>11, <1>2 DEF Basic

\* an event is taken, and the handler has read the status and the active tasks
Took(t, a) == handler' = [handler EXCEPT ![t] =
    [at |-> a, was |-> status[t], kind |-> Head(events[t]), busy |-> HasActive(t), on |-> t, todo |-> <<>>]]
LEMMA TookIs ==
    ASSUME HandlerTyped, NEW t \in Tasks, NEW a \in Step, Took(t, a),
           Head(events[t]) \in Event, status[t] \in Status
    PROVE  HandlerTyped' /\ Only(t) /\ handler'[t].at = a /\ handler'[t].on = t
<1> DEFINE h == [at |-> a, was |-> status[t], kind |-> Head(events[t]), busy |-> HasActive(t), on |-> t, todo |-> <<>>]
<1>1. HasActive(t) \in BOOLEAN
    BY DEF HasActive
<1>2. h \in HandlerT /\ h.at = a /\ h.on = t
    <2>1. <<>> \in Seq(Tasks)
        OBVIOUS
    <2> QED
        BY <1>1, <2>1, Tree DEF HandlerT
<1>3. handler' = [handler EXCEPT ![t] = h]
    BY DEF Took
<1> HIDE DEF h
<1> QED
    BY <1>2, <1>3, Tree DEF HandlerTyped, Only

LEMMA TaskEventKeeps == ASSUME Basic, NEW t \in Tasks, TaskEvent(t) PROVE Basic' /\ Moves /\ Still
<1>1. UNCHANGED <<born, streaming, mail, runs, mutex, sched, asked, resuming, artifact, cache,
          halted, nudges, patching, boot, heard>>
    BY DEF TaskEvent, Waiting, TakeEvent, Reject, config, stream, memory
<1>2. \/ UNCHANGED handler
      \/ \E a \in {"mark", "cleanup", "plan", "ask"} : Took(t, a) /\ (a = "plan" => status[t] # "reported")
    BY DEF TaskEvent, Took
<1>3. status' \in [Tasks -> Status] /\ Moves /\ Still
      /\ \A u \in Tasks : status'[u] = "reported" => status[u] = "reported"
    <2>1. status' = status \/ (status[t] = "awaiting_report" /\ status' = [status EXCEPT ![t] = "interrupted"])
        BY DEF TaskEvent
    <2> QED
        BY <2>1 DEF Basic, ConfigTyped, Moves, Still, Unborn, Status
<1>4. StreamTyped' /\ MutexTyped' /\ BootTyped'
    BY <1>1 DEF Basic, StreamTyped, MutexTyped, BootTyped
<1>5. ConfigTyped'
    BY <1>1, <1>2, <1>3 DEF Basic, ConfigTyped
<1>6. EventsTyped'
    <2>1. events[t] \in Seq(Event) /\ events[t] # <<>>
        BY Tree DEF TaskEvent, Basic, EventsTyped, Waiting
    <2> QED
        BY <2>1, Tree DEF TaskEvent, TakeEvent, Basic, EventsTyped
<1>7. HandlerTyped'
    <2>1. events[t] \in Seq(Event) /\ events[t] # <<>>
        BY Tree DEF TaskEvent, Basic, EventsTyped, Waiting
    <2>2. Head(events[t]) \in Event /\ status[t] \in Status
        BY <2>1 DEF Basic, ConfigTyped
    <2>3. CASE \E a \in {"mark", "cleanup", "plan", "ask"} : Took(t, a)
        <3>1. PICK a \in {"mark", "cleanup", "plan", "ask"} : Took(t, a)
            BY <2>3
        <3> QED
            BY <2>2, <3>1, TookIs DEF Basic, Step
    <2>4. CASE UNCHANGED handler
        BY <2>4 DEF Basic, HandlerTyped
    <2> QED
        BY <1>2, <2>3, <2>4
<1>8. WaitTyped'
    <2>1. CASE wait' = End(WaitsFor(t), "error")
        BY <2>1, EndIs DEF Basic, WaitsFor, Pending, Answer
    <2>2. CASE UNCHANGED wait
        BY <2>2 DEF Basic, WaitTyped
    <2> QED
        BY <2>1, <2>2 DEF TaskEvent, Reject
<1>9. SetsTyped'
    BY <1>1 DEF TaskEvent, Basic, SetsTyped, Waiting, TakeEvent, Reject
<1>10. Untouched'
    <2>1. status[t] \notin Unborn
        BY AtWork DEF TaskEvent, Waiting
    <2>2. \A u \in Tasks \ {t} : events'[u] = events[u] /\ handler'[u] = handler[u]
        BY <1>2, Tree DEF TaskEvent, TakeEvent, Took, Basic, EventsTyped, HandlerTyped
    <2> QED
        BY <1>1, <1>3, <2>1, <2>2, OtherFresh, Tree DEF Fresh, Marking
<1>11. Lineage'
    BY <1>1, <1>2, <1>3, LineageKept DEF Creating
<1>12. MutexPhases'
    BY <1>1, <1>2, <1>3, MutexKept
<1>13. HandlerPhases'
    <2>1. events[t] \in Seq(Event) /\ events[t] # <<>>
        BY Tree DEF TaskEvent, Basic, EventsTyped, Waiting
    <2>2. Head(events[t]) \in Event /\ status[t] \in Status /\ status[t] \notin Unborn
        BY <2>1, AtWork DEF Basic, ConfigTyped
    <2>3. CASE UNCHANGED handler
        <3>1. \A u \in Tasks : handler[u].at = "plan" => status'[u] # "reported"
            BY <1>3 DEF Basic, HandlerPhases, HandlerPhase
        <3> QED
            BY <1>3, <2>3, <3>1, HandlersKept
    <2>4. ASSUME NEW a \in {"mark", "cleanup", "plan", "ask"}, Took(t, a),
                 a = "plan" => status[t] # "reported"
          PROVE  HandlerPhases'
        <3>1. Only(t) /\ handler'[t].at = a /\ handler'[t].on = t
            BY <2>2, <2>4, TookIs DEF Basic, Step
        <3>2. HandlerPhase(t)'
            BY <1>3, <2>2, <2>4, <3>1 DEF HandlerPhase, Moves, Unborn
        <3> QED
            BY <1>3, <3>1, <3>2, HandlersMove, Tree
    <2> QED
        BY <1>2, <2>3, <2>4
<1>14. BootPhases'
    BY <1>1, <1>2, <1>3, BootKept DEF Basic, ConfigTyped
<1> QED
    BY <1>4, <1>5, <1>6, <1>7, <1>8, <1>9, <1>10, <1>11, <1>12, <1>13, <1>14, <1>2, <1>3 DEF Basic
LEMMA PlanReadKeeps == ASSUME Basic, NEW t \in Tasks, PlanRead(t) PROVE Basic' /\ Moves /\ Still
<1>1. UNCHANGED <<born, streaming, mail, runs, events, mutex, sched, asked, resuming, artifact,
          cache, halted, nudges, apart, patching, boot, heard>>
    BY DEF PlanRead, At, config, stream, memory
<1>2. status' \in [Tasks -> Status] /\ Moves /\ Still /\ WaitTyped'
      /\ \A u \in Tasks : status'[u] = "reported" => status[u] = "reported"
    <2>1. status[t] \notin Unborn \cup {"reported"}
        BY AtWork DEF PlanRead, At, Basic, HandlerPhases, HandlerPhase
    <2>2. CASE UNCHANGED <<status, wait>>
        BY <2>2 DEF Basic, ConfigTyped, WaitTyped, Moves, Still
    <2>3. CASE \E s \in {"running", "awaiting_report"} : SetStatus(t, s)
        BY <2>1, <2>3, SetStatusIs
    <2> QED
        BY <2>2, <2>3 DEF PlanRead
<1>3. StreamTyped' /\ EventsTyped' /\ MutexTyped' /\ SetsTyped' /\ BootTyped'
    BY <1>1 DEF Basic, StreamTyped, EventsTyped, MutexTyped, SetsTyped, BootTyped
<1>4. ConfigTyped'
    BY <1>1, <1>2 DEF Basic, ConfigTyped
<1>5. HandlerTyped'
    BY MoveIs, LeaveIs, Tree DEF PlanRead, Basic, Step
<1>6. WaitTyped'
    BY <1>2
<1>7. Untouched'
    <2>1. status[t] \notin Unborn
        BY AtWork DEF PlanRead, At
    <2>2. Only(t)
        BY MoveIs, LeaveIs, Tree DEF PlanRead, Basic, Step
    <2>3. \A u \in Tasks \ {t} : handler'[u] = handler[u]
        BY <2>2, Tree DEF Only
    <2> QED
        BY <1>1, <1>2, <2>1, <2>3, OtherFresh, Tree DEF Fresh, Marking
<1>8. Lineage'
    BY <1>1, <1>2, LineageKept DEF Creating
<1>9. MutexPhases'
    BY <1>1, <1>2, MutexKept
<1>10. HandlerPhases'
    <2>1. Only(t) /\ handler'[t].at \in {"idle", "mark", "check", "ask"}
        BY MoveIs, LeaveIs, Tree DEF PlanRead, Basic, Step
    <2>2. HandlerPhase(t)'
        BY <2>1 DEF HandlerPhase
    <2> QED
        BY <1>2, <2>1, <2>2, HandlersMove, Tree
<1>11. BootPhases'
    BY <1>1, <1>2, BootKept DEF Basic, ConfigTyped
<1> QED
    BY <1>3, <1>4, <1>5, <1>6, <1>7, <1>8, <1>9, <1>10, <1>11, <1>2 DEF Basic

LEMMA PromptCheckKeeps == ASSUME Basic, NEW t \in Tasks, PromptCheck(t) PROVE Basic' /\ Moves /\ Still
<1>1. UNCHANGED <<status, born, streaming, mail, runs, events, mutex, sched, asked, resuming, wait,
          artifact, cache, halted, nudges, apart, patching, boot, heard>>
    BY DEF PromptCheck, At, config, stream, memory
<1>2. Moves /\ Still
    BY <1>1 DEF Moves, Still
<1>3. ConfigTyped' /\ StreamTyped' /\ EventsTyped' /\ MutexTyped' /\ WaitTyped' /\ SetsTyped' /\ BootTyped' /\
          Lineage' /\ MutexPhases' /\ BootPhases'
    BY <1>1 DEF Basic, ConfigTyped, StreamTyped, EventsTyped, MutexTyped, WaitTyped, SetsTyped,
        BootTyped, Lineage, MutexPhases, BootPhases, Creating, Elder, Over, Sending
<1>4. HandlerTyped'
    BY MoveIs, LeaveIs, Tree DEF PromptCheck, Basic, Step
<1>5. Untouched'
    <2>1. status[t] \notin Unborn
        BY AtWork DEF PromptCheck, At
    <2>2. Only(t)
        BY MoveIs, LeaveIs, Tree DEF PromptCheck, Basic, Step
    <2>3. \A u \in Tasks \ {t} : handler'[u] = handler[u]
        BY <2>2, Tree DEF Only
    <2> QED
        BY <1>1, <1>2, <2>1, <2>3, OtherFresh, Tree DEF Fresh, Marking
<1>6. HandlerPhases'
    <2>1. status' \in [Tasks -> Status] /\ \A u \in Tasks : status'[u] = status[u]
        BY <1>1 DEF Basic, ConfigTyped
    <2>2. Only(t) /\ handler'[t].at \in {"ask", "idle"}
        BY MoveIs, LeaveIs, Tree DEF PromptCheck, Basic, Step
    <2>3. HandlerPhase(t)'
        BY <2>2 DEF HandlerPhase
    <2> QED
        BY <1>2, <2>1, <2>2, <2>3, HandlersMove, Tree
<1> QED
    BY <1>3, <1>4, <1>5, <1>6, <1>2 DEF Basic

LEMMA AskKeeps == ASSUME Basic, NEW t \in Tasks, Ask(t) PROVE Basic' /\ Moves /\ Still
<1>1. UNCHANGED <<born, events, mutex, sched, asked, wait, artifact, cache, halted, nudges, apart,
          patching, boot, heard>>
    BY DEF Ask, At, config, stream, memory
<1>2. status' \in [Tasks -> Status] /\ StreamTyped' /\ Moves /\ Still /\ NoneStarts
      /\ \A u \in Tasks : status'[u] = "reported" => status[u] = "reported"
    BY SendIs, Tree DEF Ask
<1>3. EventsTyped' /\ MutexTyped' /\ WaitTyped' /\ SetsTyped' /\ BootTyped'
    BY <1>1 DEF Basic, EventsTyped, MutexTyped, WaitTyped, SetsTyped, BootTyped
<1>4. ConfigTyped'
    BY <1>1, <1>2 DEF Basic, ConfigTyped
<1>5. StreamTyped'
    BY <1>2
<1>6. HandlerTyped'
    BY LeaveIs, Tree DEF Ask, Basic
<1>7. Untouched'
    <2>1. status[t] \notin Unborn
        BY AtWork DEF Ask, At
    <2>2. \A u \in Tasks \ {t} : status[u] \in Unborn /\ Fresh(u) => Fresh(u)'
        BY <1>1, <1>2, LeaveIs, Tree DEF Ask, Basic, Only, NoneStarts, Fresh, Marking
    <2> QED
        BY <1>2, <2>1, <2>2, OtherFresh, Tree
<1>8. Lineage'
    BY <1>1, <1>2, LineageKept DEF Creating
<1>9. MutexPhases'
    BY <1>1, <1>2, MutexKept
<1>10. HandlerPhases'
    <2>1. status[t] \notin Unborn
        BY AtWork DEF Ask, At
    <2>2. Only(t) /\ (handler'[t].at = "idle" \/ (handler'[t].at = "cleanup" /\ handler'[t].on = t))
        BY LeaveIs, Tree DEF Ask, Basic
    <2>3. HandlerPhase(t)'
        BY <1>2, <2>1, <2>2 DEF HandlerPhase, Moves, Unborn
    <2> QED
        BY <1>2, <2>2, <2>3, HandlersMove, Tree
<1>11. BootPhases'
    BY <1>1, <1>2, BootKept DEF Basic, ConfigTyped
<1> QED
    BY <1>3, <1>4, <1>5, <1>6, <1>7, <1>8, <1>9, <1>10, <1>11, <1>2 DEF Basic

LEMMA MarkReportedKeeps == ASSUME Basic, NEW t \in Tasks, MarkReported(t) PROVE Basic' /\ Moves /\ Still
<1>1. UNCHANGED <<born, streaming, mail, runs, events, mutex, sched, asked, resuming, wait, artifact,
          cache, halted, nudges, patching, boot, heard>>
    BY DEF MarkReported, At, config, stream, memory
<1>2. status' \in [Tasks -> Status] /\ Moves /\ Still
      /\ \A u \in Tasks \ {t} : status'[u] = "reported" => status[u] = "reported"
    <2>1. status[t] \notin Unborn
        BY AtWork DEF MarkReported, At
    <2>2. Present(t) <=> status[t] \notin {"none", "removed"}
        BY Tree DEF Present, Its
    <2> QED
        BY <2>1, <2>2 DEF MarkReported, Basic, ConfigTyped, Moves, Still, Unborn, Status
<1>3. StreamTyped' /\ EventsTyped' /\ MutexTyped' /\ WaitTyped' /\ BootTyped'
    BY <1>1 DEF Basic, StreamTyped, EventsTyped, MutexTyped, WaitTyped, BootTyped
<1>4. ConfigTyped'
    BY <1>1, <1>2 DEF Basic, ConfigTyped
<1>5. HandlerTyped'
    BY MoveIs, FinishedIs, Tree DEF MarkReported, Basic, Step
<1>6. SetsTyped'
    BY <1>1 DEF MarkReported, Basic, SetsTyped, At
<1>7. Untouched'
    <2>1. status[t] \notin Unborn
        BY AtWork DEF MarkReported, At
    <2>2. Only(t)
        BY MoveIs, FinishedIs, Tree DEF MarkReported, Basic, Step
    <2>3. \A u \in Tasks \ {t} : handler'[u] = handler[u]
        BY <2>2, Tree DEF Only
    <2> QED
        BY <1>1, <1>2, <2>1, <2>3, OtherFresh, Tree DEF Fresh, Marking
<1>8. Lineage'
    BY <1>1, <1>2, LineageKept DEF Creating
<1>9. MutexPhases'
    BY <1>1, <1>2, MutexKept
<1>10. HandlerPhases'
    <2>1. status[t] \notin Unborn
        BY AtWork DEF MarkReported, At
    <2>2. Only(t) /\ (handler'[t].at \in {"idle", "persist"} \/ (handler'[t].at = "cleanup" /\ handler'[t].on = t))
        BY MoveIs, FinishedIs, Tree DEF MarkReported, Basic, Step
    <2>3. HandlerPhase(t)'
        BY <1>2, <2>1, <2>2 DEF HandlerPhase, Moves, Unborn
    <2> QED
        BY <1>2, <2>2, <2>3, HandlersMove, Tree
<1>11. BootPhases'
    BY <1>1, <1>2, BootKept DEF Basic, ConfigTyped
<1> QED
    BY <1>3, <1>4, <1>5, <1>6, <1>7, <1>8, <1>9, <1>10, <1>11, <1>2 DEF Basic

LEMMA PersistKeeps == ASSUME Basic, NEW t \in Tasks, Persist(t) PROVE Basic' /\ Moves /\ Still
<1>1. UNCHANGED <<status, born, streaming, mail, runs, events, mutex, sched, asked, resuming, wait,
          cache, halted, nudges, apart, boot, heard>>
    BY DEF Persist, At, config, stream, memory
<1>2. Moves /\ Still
    BY <1>1 DEF Moves, Still
<1>3. ConfigTyped' /\ StreamTyped' /\ EventsTyped' /\ MutexTyped' /\ WaitTyped' /\ BootTyped' /\ Lineage' /\
          MutexPhases' /\ BootPhases'
    BY <1>1 DEF Basic, ConfigTyped, StreamTyped, EventsTyped, MutexTyped, WaitTyped, BootTyped,
        Lineage, MutexPhases, BootPhases, Creating, Elder, Over, Sending
<1>4. HandlerTyped'
    BY MoveIs, Tree DEF Persist, Basic, Step
<1>5. SetsTyped'
    BY <1>1 DEF Persist, Basic, SetsTyped, At
<1>6. Untouched'
    <2>1. status[t] \notin Unborn
        BY AtWork DEF Persist, At
    <2>2. \A u \in Tasks \ {t} : handler'[u] = handler[u] /\ (u \in patching' => u \in patching)
        BY MoveIs, Tree DEF Persist, Basic, Step, Only
    <2> QED
        BY <1>1, <1>2, <2>1, <2>2, OtherFresh, Tree DEF Fresh, Marking
<1>7. HandlerPhases'
    <2>1. status' \in [Tasks -> Status] /\ \A u \in Tasks : status'[u] = status[u]
        BY <1>1 DEF Basic, ConfigTyped
    <2>2. Only(t) /\ handler'[t].at \in {"deliver"}
        BY MoveIs, Tree DEF Persist, Basic, Step
    <2>3. HandlerPhase(t)'
        BY <2>2 DEF HandlerPhase
    <2> QED
        BY <1>2, <2>1, <2>2, <2>3, HandlersMove, Tree
<1> QED
    BY <1>3, <1>4, <1>5, <1>6, <1>7, <1>2 DEF Basic

LEMMA PatchDoneKeeps == ASSUME Basic, NEW t \in Tasks, PatchDone(t) PROVE Basic' /\ Moves /\ Still
<1>1. UNCHANGED <<status, born, streaming, mail, runs, handler, mutex, sched, asked, resuming, wait,
          artifact, cache, halted, nudges, apart, boot, heard>>
    BY DEF PatchDone, Queue, config, stream, memory
<1>2. Moves /\ Still
    BY <1>1 DEF Moves, Still
<1>3. ConfigTyped' /\ StreamTyped' /\ HandlerTyped' /\ MutexTyped' /\ WaitTyped' /\ BootTyped' /\ Lineage' /\
          MutexPhases' /\ HandlerPhases' /\ BootPhases'
    BY <1>1 DEF Basic, ConfigTyped, StreamTyped, HandlerTyped, MutexTyped, WaitTyped,
        BootTyped, Lineage, MutexPhases, HandlerPhases, BootPhases, Creating, Elder,
        HandlerPhase, RootPhase, Over, Sending
<1>4. EventsTyped'
    BY <1>1, Tree DEF PatchDone, Basic, EventsTyped, Queue, Event
<1>5. SetsTyped'
    BY <1>1 DEF PatchDone, Basic, SetsTyped, Queue
<1>6. Untouched'
    <2>1. status[t] \notin Unborn
        BY AtWork DEF PatchDone
    <2>2. \A u \in Tasks \ {t} : events'[u] = events[u] /\ (u \in patching' => u \in patching)
        BY DEF PatchDone, Queue
    <2> QED
        BY <1>1, <1>2, <2>1, <2>2, OtherFresh, Tree DEF Fresh, Marking
<1> QED
    BY <1>3, <1>4, <1>5, <1>6, <1>2 DEF Basic

LEMMA ResolveIs ==
    ASSUME Basic, NEW t \in Tasks, Resolve(t)
    PROVE  /\ HandlerTyped' /\ Only(t) /\ handler'[t].at = "slot" /\ handler'[t].on = handler[t].on
           /\ WaitTyped' /\ sched' \subseteq Workspaces
<1>1. (WaitsFor(t) # {}) \in BOOLEAN
    OBVIOUS
<1>2. HandlerTyped' /\ Only(t) /\ handler'[t].at = "slot" /\ handler'[t].on = handler[t].on
    BY <1>1, SlotIs, Tree DEF Resolve, Basic
<1>3. wait' = End(WaitsFor(t), "report")
    BY DEF Resolve
<1>4. WaitTyped'
    BY <1>3, EndIs DEF Basic, WaitsFor, Pending, Answer
<1>5. sched' \subseteq Workspaces
    BY Tree DEF Resolve, Basic, MutexTyped
<1> QED
    BY <1>2, <1>4, <1>5

LEMMA DeliverKeeps == ASSUME Basic, NEW t \in Tasks, Deliver(t) PROVE Basic' /\ Moves /\ Still
<1>1. UNCHANGED <<status, born, streaming, mail, runs, events, mutex, asked, resuming, artifact,
          halted, nudges, patching, boot>>
    BY DEF Deliver, At, config, stream, memory
<1>2. Moves /\ Still
    BY <1>1 DEF Moves, Still
<1>3. ConfigTyped' /\ StreamTyped' /\ EventsTyped' /\ BootTyped' /\ Lineage' /\ MutexPhases' /\ BootPhases'
    BY <1>1 DEF Basic, ConfigTyped, StreamTyped, EventsTyped, BootTyped, Lineage, MutexPhases,
        BootPhases, Creating, Elder, Over, Sending
<1>4. HandlerTyped'
    BY MoveIs, ResolveIs, Tree DEF Deliver, Basic, Step
<1>5. MutexTyped'
    BY <1>1, ResolveIs DEF Deliver, Basic, MutexTyped
<1>6. WaitTyped'
    <2>1. CASE UNCHANGED wait
        BY <2>1 DEF Basic, WaitTyped
    <2> QED
        BY <2>1, ResolveIs DEF Deliver
<1>7. SetsTyped'
    BY <1>1 DEF Deliver, Basic, SetsTyped, At, Resolve
<1>8. Untouched'
    <2>1. status[t] \notin Unborn
        BY AtWork DEF Deliver, At
    <2>2. Only(t)
        BY MoveIs, ResolveIs, Tree DEF Deliver, Basic, Step
    <2>3. \A u \in Tasks \ {t} : handler'[u] = handler[u]
        BY <2>2, Tree DEF Only
    <2> QED
        BY <1>1, <1>2, <2>1, <2>3, OtherFresh, Tree DEF Fresh, Marking
<1>9. HandlerPhases'
    <2>1. status' \in [Tasks -> Status] /\ \A u \in Tasks : status'[u] = status[u]
        BY <1>1 DEF Basic, ConfigTyped
    <2>2. Only(t) /\ handler'[t].at \in {"slot", "resolve"}
        BY MoveIs, ResolveIs, Tree DEF Deliver, Basic, Step
    <2>3. HandlerPhase(t)'
        BY <2>2 DEF HandlerPhase
    <2> QED
        BY <1>2, <2>1, <2>2, <2>3, HandlersMove, Tree
<1> QED
    BY <1>3, <1>4, <1>5, <1>6, <1>7, <1>8, <1>9, <1>2 DEF Basic

LEMMA ResolveLateKeeps == ASSUME Basic, NEW t \in Tasks, ResolveLate(t) PROVE Basic' /\ Moves /\ Still
<1>1. UNCHANGED <<status, born, streaming, mail, runs, events, mutex, asked, resuming, artifact,
          halted, nudges, patching, boot, heard>>
    BY DEF ResolveLate, At, config, stream, memory
<1>2. Moves /\ Still
    BY <1>1 DEF Moves, Still
<1>3. ConfigTyped' /\ StreamTyped' /\ EventsTyped' /\ BootTyped' /\ Lineage' /\ MutexPhases' /\ BootPhases'
    BY <1>1 DEF Basic, ConfigTyped, StreamTyped, EventsTyped, BootTyped, Lineage, MutexPhases,
        BootPhases, Creating, Elder, Over, Sending
<1>4. HandlerTyped'
    BY MoveIs, ResolveIs, Tree DEF ResolveLate, Basic, Step
<1>5. MutexTyped'
    BY <1>1, ResolveIs DEF ResolveLate, Basic, MutexTyped
<1>6. WaitTyped'
    <2>1. CASE UNCHANGED wait
        BY <2>1 DEF Basic, WaitTyped
    <2> QED
        BY <2>1, ResolveIs DEF ResolveLate
<1>7. SetsTyped'
    BY <1>1 DEF ResolveLate, Basic, SetsTyped, At, Resolve
<1>8. Untouched'
    <2>1. status[t] \notin Unborn
        BY AtWork DEF ResolveLate, At
    <2>2. Only(t)
        BY MoveIs, ResolveIs, Tree DEF ResolveLate, Basic, Step
    <2>3. \A u \in Tasks \ {t} : handler'[u] = handler[u]
        BY <2>2, Tree DEF Only
    <2> QED
        BY <1>1, <1>2, <2>1, <2>3, OtherFresh, Tree DEF Fresh, Marking
<1>9. HandlerPhases'
    <2>1. status' \in [Tasks -> Status] /\ \A u \in Tasks : status'[u] = status[u]
        BY <1>1 DEF Basic, ConfigTyped
    <2>2. Only(t) /\ handler'[t].at \in {"slot", "resolve"}
        BY MoveIs, ResolveIs, Tree DEF ResolveLate, Basic, Step
    <2>3. HandlerPhase(t)'
        BY <2>2 DEF HandlerPhase
    <2> QED
        BY <1>2, <2>1, <2>2, <2>3, HandlersMove, Tree
<1> QED
    BY <1>3, <1>4, <1>5, <1>6, <1>7, <1>8, <1>9, <1>2 DEF Basic

LEMMA ParentResumeKeeps == ASSUME Basic, NEW t \in Tasks, ParentResume(t) PROVE Basic' /\ Moves /\ Still
<1>1. UNCHANGED <<status, born, streaming, mail, runs, events, mutex, sched, asked, resuming, wait,
          artifact, cache, halted, apart, patching, boot, heard>>
    BY DEF ParentResume, At, config, stream, memory
<1>2. Moves /\ Still
    BY <1>1 DEF Moves, Still
<1>3. ConfigTyped' /\ StreamTyped' /\ EventsTyped' /\ MutexTyped' /\ WaitTyped' /\ BootTyped' /\ Lineage' /\
          MutexPhases' /\ BootPhases'
    BY <1>1 DEF Basic, ConfigTyped, StreamTyped, EventsTyped, MutexTyped, WaitTyped, BootTyped,
        Lineage, MutexPhases, BootPhases, Creating, Elder, Over, Sending
<1>4. HandlerTyped'
    BY MoveIs, FinishedIs, Tree DEF ParentResume, Basic, Step
<1>5. SetsTyped'
    BY <1>1, LimitAssumption DEF ParentResume, Basic, SetsTyped, At
<1>6. Untouched'
    <2>1. status[t] \notin Unborn
        BY AtWork DEF ParentResume, At
    <2>2. Only(t)
        BY MoveIs, FinishedIs, Tree DEF ParentResume, Basic, Step
    <2>3. \A u \in Tasks \ {t} : handler'[u] = handler[u]
        BY <2>2, Tree DEF Only
    <2> QED
        BY <1>1, <1>2, <2>1, <2>3, OtherFresh, Tree DEF Fresh, Marking
<1>7. HandlerPhases'
    <2>1. status[t] \notin Unborn
        BY AtWork DEF ParentResume, At
    <2>2. Only(t) /\ (handler'[t].at \in {"idle", "resume"} \/ (handler'[t].at = "cleanup" /\ handler'[t].on = t))
        BY MoveIs, FinishedIs, Tree DEF ParentResume, Basic, Step
    <2>3. HandlerPhase(t)'
        BY <1>1, <2>1, <2>2 DEF HandlerPhase, Unborn
    <2>4. status' \in [Tasks -> Status] /\ \A u \in Tasks : status'[u] = status[u]
        BY <1>1 DEF Basic, ConfigTyped
    <2> QED
        BY <1>2, <2>2, <2>3, <2>4, HandlersMove, Tree
<1> QED
    BY <1>3, <1>4, <1>5, <1>6, <1>7, <1>2 DEF Basic

LEMMA ResumeParentKeeps == ASSUME Basic, NEW t \in Tasks, ResumeParent(t) PROVE Basic' /\ Moves /\ Still
<1>1. UNCHANGED <<born, events, mutex, sched, asked, wait, artifact, cache, halted, nudges, apart,
          patching, boot, heard>>
    BY DEF ResumeParent, At, config, stream, memory
<1>2. status' \in [Tasks -> Status] /\ StreamTyped' /\ Moves /\ Still /\ NoneStarts
      /\ \A u \in Tasks : status'[u] = "reported" => status[u] = "reported"
    BY SendIs, Tree DEF ResumeParent
<1>3. EventsTyped' /\ MutexTyped' /\ WaitTyped' /\ SetsTyped' /\ BootTyped'
    BY <1>1 DEF Basic, EventsTyped, MutexTyped, WaitTyped, SetsTyped, BootTyped
<1>4. ConfigTyped'
    BY <1>1, <1>2 DEF Basic, ConfigTyped
<1>5. StreamTyped'
    BY <1>2
<1>6. HandlerTyped'
    BY FinishedIs, Tree DEF ResumeParent, Basic
<1>7. Untouched'
    <2>1. status[t] \notin Unborn
        BY AtWork DEF ResumeParent, At
    <2>2. \A u \in Tasks \ {t} : status[u] \in Unborn /\ Fresh(u) => Fresh(u)'
        BY <1>1, <1>2, FinishedIs, Tree DEF ResumeParent, Basic, Only, NoneStarts, Fresh, Marking
    <2> QED
        BY <1>2, <2>1, <2>2, OtherFresh, Tree
<1>8. Lineage'
    BY <1>1, <1>2, LineageKept DEF Creating
<1>9. MutexPhases'
    BY <1>1, <1>2, MutexKept
<1>10. HandlerPhases'
    <2>1. status[t] \notin Unborn
        BY AtWork DEF ResumeParent, At
    <2>2. Only(t) /\ (handler'[t].at = "idle" \/ (handler'[t].at = "cleanup" /\ handler'[t].on = t))
        BY FinishedIs, Tree DEF ResumeParent, Basic
    <2>3. HandlerPhase(t)'
        BY <1>2, <2>1, <2>2 DEF HandlerPhase, Moves, Unborn
    <2> QED
        BY <1>2, <2>2, <2>3, HandlersMove, Tree
<1>11. BootPhases'
    BY <1>1, <1>2, BootKept DEF Basic, ConfigTyped
<1> QED
    BY <1>3, <1>4, <1>5, <1>6, <1>7, <1>8, <1>9, <1>10, <1>11, <1>2 DEF Basic

LEMMA CleanupCheckKeeps == ASSUME Basic, NEW t \in Tasks, CleanupCheck(t) PROVE Basic' /\ Moves /\ Still
<1>1. UNCHANGED <<status, born, streaming, mail, runs, events, mutex, sched, asked, resuming, wait,
          artifact, cache, halted, nudges, apart, patching, boot, heard>>
    BY DEF CleanupCheck, At, config, stream, memory
<1>2. Moves /\ Still
    BY <1>1 DEF Moves, Still
<1>3. ConfigTyped' /\ StreamTyped' /\ EventsTyped' /\ MutexTyped' /\ WaitTyped' /\ SetsTyped' /\ BootTyped' /\
          Lineage' /\ MutexPhases' /\ BootPhases'
    BY <1>1 DEF Basic, ConfigTyped, StreamTyped, EventsTyped, MutexTyped, WaitTyped, SetsTyped,
        BootTyped, Lineage, MutexPhases, BootPhases, Creating, Elder, Over, Sending
<1>4. HandlerTyped'
    BY MoveIs, LeaveIs, Tree DEF CleanupCheck, Basic, Step
<1>5. Untouched'
    <2>1. status[t] \notin Unborn
        BY AtWork DEF CleanupCheck, At
    <2>2. Only(t)
        BY MoveIs, LeaveIs, Tree DEF CleanupCheck, Basic, Step
    <2>3. \A u \in Tasks \ {t} : handler'[u] = handler[u]
        BY <2>2, Tree DEF Only
    <2> QED
        BY <1>1, <1>2, <2>1, <2>3, OtherFresh, Tree DEF Fresh, Marking
<1>6. HandlerPhases'
    <2>1. status' \in [Tasks -> Status] /\ \A u \in Tasks : status'[u] = status[u]
        BY <1>1 DEF Basic, ConfigTyped
    <2>2. Only(t) /\ (handler'[t].at = "idle" \/ (handler'[t].at = "remove" /\ Cleanable(handler[t].on)
                                                 /\ handler'[t].on = handler[t].on))
        BY MoveIs, LeaveIs, Tree DEF CleanupCheck, Basic, Step
    <2>3. Cleanable(handler[t].on) => Over(handler[t].on)
        BY Tree DEF Cleanable, Its, Over, Basic, HandlerTyped, HandlerT
    <2>4. HandlerPhase(t)'
        BY <1>1, <2>2, <2>3 DEF HandlerPhase, RootPhase, Over
    <2> QED
        BY <1>2, <2>1, <2>2, <2>4, HandlersMove, Tree
<1> QED
    BY <1>3, <1>4, <1>5, <1>6, <1>2 DEF Basic

LEMMA CleanupRemoveKeeps == ASSUME Basic, NEW t \in Tasks, CleanupRemove(t) PROVE Basic' /\ Moves /\ Still
<1>1. UNCHANGED <<born, runs, events, mutex, sched, asked, resuming, wait, artifact, cache, halted,
          nudges, apart, patching, boot, heard>>
    BY DEF CleanupRemove, At, RemoveWorkspace, stream, config, memory
<1>2. status' \in [Tasks -> Status] /\ Moves /\ Still
      /\ \A u \in Tasks : status'[u] = "reported" => status[u] = "reported"
    <2>1. Over(handler[t].on)
        BY DEF CleanupRemove, At, Basic, HandlerPhases, HandlerPhase
    <2>2. status' = status \/ status' = [status EXCEPT ![handler[t].on] = "removed"]
        BY DEF CleanupRemove, RemoveWorkspace, config
    <2> QED
        BY <2>1, <2>2 DEF Over, Basic, ConfigTyped, Moves, Still, Unborn, Status
<1>3. EventsTyped' /\ MutexTyped' /\ WaitTyped' /\ SetsTyped' /\ BootTyped'
    BY <1>1 DEF Basic, EventsTyped, MutexTyped, WaitTyped, SetsTyped, BootTyped
<1>4. ConfigTyped'
    BY <1>1, <1>2 DEF Basic, ConfigTyped
<1>5. StreamTyped'
    BY <1>1 DEF CleanupRemove, Basic, StreamTyped, At, RemoveWorkspace, stream, config
<1>6. HandlerTyped'
    <2>1. Over(handler[t].on)
        BY DEF CleanupRemove, At, Basic, HandlerPhases, HandlerPhase
    <2>2. ParentOf[handler[t].on] \in Workspaces
        BY <2>1, Tree DEF Over
    <2> QED
        BY <2>2, CleanIs, LeaveIs, Tree DEF CleanupRemove, Basic
<1>7. Untouched'
    <2>1. status[t] \notin Unborn
        BY AtWork DEF CleanupRemove, At
    <2>2. Over(handler[t].on) /\ ParentOf[handler[t].on] \in Workspaces
        BY Tree DEF CleanupRemove, At, Basic, HandlerPhases, HandlerPhase, RootPhase, Over
    <2>3. Only(t)
        BY <2>2, CleanIs, LeaveIs, Tree DEF CleanupRemove, Basic
    <2>4. \A u \in Tasks \ {t} : status[u] \in Unborn /\ Fresh(u) => Fresh(u)'
        BY <1>1, <2>3, Tree DEF Only, Fresh, Marking, CleanupRemove, RemoveWorkspace, stream
    <2> QED
        BY <1>2, <2>1, <2>4, OtherFresh, Tree
<1>8. Lineage'
    BY <1>1, <1>2, LineageKept DEF Creating
<1>9. MutexPhases'
    BY <1>1, <1>2, MutexKept
<1>10. HandlerPhases'
    <2>1. Over(handler[t].on) /\ ParentOf[handler[t].on] \in Workspaces
        BY Tree DEF CleanupRemove, At, Basic, HandlerPhases, HandlerPhase, RootPhase, Over
    <2>2. Only(t) /\ (handler'[t].at = "idle" \/ (handler'[t].at = "cleanup" /\ handler'[t].on = ParentOf[handler[t].on]))
        BY <2>1, CleanIs, LeaveIs, Tree DEF CleanupRemove, Basic
    <2>3. ParentOf[handler[t].on] = Root \/ status'[ParentOf[handler[t].on]] # "none"
        BY <1>2, <2>1, Tree DEF Basic, Lineage, Elder, Unborn, Over, Moves
    <2>4. HandlerPhase(t)'
        BY <2>2, <2>3 DEF HandlerPhase
    <2> QED
        BY <1>2, <2>2, <2>4, HandlersMove, Tree
<1>11. BootPhases'
    BY <1>1, <1>2, BootKept DEF Basic, ConfigTyped
<1> QED
    BY <1>3, <1>4, <1>5, <1>6, <1>7, <1>8, <1>9, <1>10, <1>11, <1>2 DEF Basic

-----------------------------------------------------------------------------
(* A restart, and what initialize has on its list.                         *)
LEMMA CrashKeeps == ASSUME Basic, Crash PROVE Basic' /\ Moves /\ Still
<1>1. UNCHANGED <<status, born, runs, artifact, heard>>
    BY DEF Crash, config
<1>2. Moves /\ Still
    BY <1>1 DEF Moves, Still
<1>3. /\ streaming' = {} /\ mail' = {} /\ resuming' = {} /\ patching' = {}
      /\ events' = [w \in Workspaces |-> <<>>] /\ handler' = [w \in Workspaces |-> Idle]
      /\ mutex' = Free /\ boot' = [at |-> "slots", todo |-> <<>>]
    BY DEF Crash
<1>4. ConfigTyped' /\ StreamTyped' /\ EventsTyped' /\ BootTyped'
    BY <1>1, <1>3 DEF Basic, ConfigTyped, StreamTyped, EventsTyped, BootTyped
<1>5. HandlerTyped'
    <2>1. Idle \in HandlerT
        BY Tree DEF Idle, HandlerT, Step, Status
    <2> QED
        BY <1>3, <2>1 DEF HandlerTyped
<1>6. MutexTyped'
    BY <1>3, FreeIs, Tree DEF Crash, MutexTyped
<1>7. WaitTyped'
    <2>1. wait' = End({v \in Waits : wait[v].at # "idle"}, "lost")
        BY DEF Crash
    <2> QED
        BY <2>1, EndIs DEF Basic, Answer
<1>8. SetsTyped'
    BY <1>1, <1>3, LimitAssumption DEF Crash, Basic, SetsTyped
<1>9. Untouched'
    BY <1>3, Tree DEF Untouched, Fresh, Marking, Idle
<1>10. Lineage'
    <2>1. ~ Creating'
        BY <1>3 DEF Creating, Free
    <2> QED
        BY <1>2, <2>1, LineageKept
<1>11. MutexPhases'
    BY <1>3 DEF MutexPhases, Creating, Sending, Free
<1>12. HandlerPhases'
    BY <1>3, Tree DEF HandlerPhases, HandlerPhase, RootPhase, Idle
<1>13. BootPhases'
    BY <1>3 DEF BootPhases
<1> QED
    BY <1>2, <1>4, <1>5, <1>6, <1>7, <1>8, <1>9, <1>10, <1>11, <1>12, <1>13 DEF Basic

\* what an item on the list knows of its task, and a list of items
Known(x) ==
    /\ x \in Item
    /\ x[1] \in {"check", "ask"} => x[2] \in Tasks
    /\ x[1] \in {"remove", "patch"} => Over(x[2])
    /\ x[2] = Root \/ status[x[2]] \notin Unborn
Listed(s) == s \in Seq(Item) /\ \A i \in DOMAIN s : Known(s[i]) /\ s[i][1] # "remove"

LEMMA ListedIs ==
    ASSUME NEW s, s = boot.todo, Basic, s # <<>>
    PROVE  Listed(Tail(s)) /\ Known(Head(s))
<1>1. s \in Seq(Item) /\ \A i \in DOMAIN s : Known(s[i]) /\ (s[i][1] = "remove" => i = 1)
    BY DEF Basic, BootTyped, BootPhases, Known
<1>2. Head(s) = s[1] /\ 1 \in DOMAIN s
    BY <1>1
<1>3. Tail(s) \in Seq(Item) /\ \A i \in DOMAIN Tail(s) : i + 1 \in DOMAIN s /\ i + 1 # 1 /\ Tail(s)[i] = s[i + 1]
    BY <1>1
<1> QED
    BY <1>1, <1>2, <1>3 DEF Listed

LEMMA FirstIs ==
    ASSUME NEW s \in Seq(Item), NEW x \in Item
    PROVE  /\ <<x>> \o s \in Seq(Item)
           /\ \A i \in DOMAIN (<<x>> \o s) :
                \/ i = 1 /\ (<<x>> \o s)[i] = x
                \/ i > 1 /\ i - 1 \in DOMAIN s /\ (<<x>> \o s)[i] = s[i - 1]
<1>1. <<x>> \in Seq(Item) /\ Len(<<x>>) = 1 /\ <<x>>[1] = x
    OBVIOUS
<1>2. <<x>> \o s \in Seq(Item) /\ Len(<<x>> \o s) = 1 + Len(s)
    BY <1>1
<1>3. \A i \in 1 .. 1 + Len(s) : (<<x>> \o s)[i] = IF i <= 1 THEN <<x>>[i] ELSE s[i - 1]
    BY <1>1
<1> QED
    BY <1>1, <1>2, <1>3

LEMMA JoinedIs ==
    ASSUME NEW s, NEW u, Listed(s), Listed(u)
    PROVE  Listed(s \o u)
<1>1. s \in Seq(Item) /\ u \in Seq(Item)
    BY DEF Listed
<1>2. s \o u \in Seq(Item) /\ Len(s \o u) = Len(s) + Len(u)
    BY <1>1
<1>3. \A i \in 1 .. Len(s) + Len(u) : (s \o u)[i] = IF i <= Len(s) THEN s[i] ELSE u[i - Len(s)]
    BY <1>1
<1>4. \A i \in DOMAIN (s \o u) : (i \in DOMAIN s /\ (s \o u)[i] = s[i]) \/ (i - Len(s) \in DOMAIN u /\ (s \o u)[i] = u[i - Len(s)])
    BY <1>1, <1>2, <1>3
<1> QED
    BY <1>2, <1>4 DEF Listed

LEMMA BootReadKeeps == ASSUME Basic, BootRead PROVE Basic' /\ Moves /\ Still
<1>1. UNCHANGED <<status, born, streaming, mail, runs, events, handler, mutex, sched, asked, resuming,
          wait, artifact, cache, halted, nudges, apart, patching, heard>>
    BY DEF BootRead, config, stream, memory
<1>2. Moves /\ Still
    BY <1>1 DEF Moves, Still
<1>3. ConfigTyped' /\ StreamTyped' /\ EventsTyped' /\ HandlerTyped' /\ MutexTyped' /\ WaitTyped' /\
          Lineage' /\ MutexPhases' /\ HandlerPhases'
    BY <1>1 DEF Basic, ConfigTyped, StreamTyped, EventsTyped, HandlerTyped, MutexTyped, WaitTyped,
        Lineage, MutexPhases, HandlerPhases, HandlerPhase, RootPhase, Creating, Sending, Elder, Over
<1>4. SetsTyped'
    BY <1>1 DEF Basic, SetsTyped
<1>5. Untouched'
    BY <1>1 DEF Untouched, Fresh, Marking, Basic
<1>6. PICK checks \in ByAge(Alone("awaiting_report")), asks \in ByAge(Alone("running")),
           done \in ByAge(Are("reported")) :
           boot' = [at |-> "tasks",
                    todo |-> For(checks, "check") \o For(asks, "ask")
                             \o For(IF "patch" \in Features THEN done ELSE <<>>, "patch")
                             \o For(done, "cleanup")]
    BY DEF BootRead
<1>7. ASSUME NEW s \in {"awaiting_report", "running", "reported"}, NEW S, S \subseteq Are(s),
             NEW q \in ByAge(S), NEW what \in {"check", "ask", "patch", "cleanup"},
             what = "patch" => s = "reported"
      PROVE  Listed(For(q, what))
    <2>1. S \in SUBSET Tasks /\ IsFiniteSet(S)
        BY <1>7, AreIs, FS_Subset
    <2>2. For(q, what) \in Seq(Item)
          /\ \A i \in DOMAIN For(q, what) : For(q, what)[i][1] = what /\ For(q, what)[i][2] \in S
        BY <2>1, ForIs
    <2>3. \A i \in DOMAIN For(q, what) : For(q, what)[i] \in Item
        BY <2>2
    <2>4. \A t \in S : t \in Tasks /\ status[t] \notin Unborn /\ (what = "patch" => Over(t))
        BY <1>7 DEF Are, Unborn, Over
    <2> QED
        BY <2>2, <2>3, <2>4 DEF Listed, Known
<1>8. /\ Listed(For(checks, "check")) /\ Listed(For(asks, "ask")) /\ Listed(For(done, "cleanup"))
      /\ Listed(For(IF "patch" \in Features THEN done ELSE <<>>, "patch"))
    <2>1. Listed(For(checks, "check")) /\ Listed(For(asks, "ask"))
        BY <1>7 DEF Alone
    <2>2. Listed(For(done, "cleanup")) /\ Listed(For(done, "patch"))
        BY <1>7
    <2>3. Listed(For(<<>>, "patch"))
        BY DEF For, Listed
    <2> QED
        BY <2>1, <2>2, <2>3
<1>9. Listed(boot'.todo) /\ boot' = [at |-> "tasks", todo |-> boot'.todo]
    BY <1>6, <1>8, JoinedIs
<1>10. BootTyped'
    BY <1>9 DEF BootTyped, Listed
<1>11. BootPhases'
    BY <1>1, <1>9 DEF BootPhases, Listed, Known, Over
<1> QED
    BY <1>2, <1>3, <1>4, <1>5, <1>10, <1>11 DEF Basic

LEMMA BootStepKeeps == ASSUME Basic, BootStep PROVE Basic' /\ Moves /\ Still
<1> DEFINE what == Head(boot.todo)[1]
           t == Head(boot.todo)[2]
<1>1. boot.todo # <<>> /\ Listed(Tail(boot.todo)) /\ Known(Head(boot.todo))
    BY ListedIs DEF BootStep
<1>2. boot.todo \in Seq(Item) /\ what \in {"check", "ask", "patch", "cleanup", "remove"} /\ t \in Workspaces
    BY <1>1 DEF Known, Item, Basic, BootTyped
<1>3. UNCHANGED <<born, events, handler, mutex, sched, asked, wait, artifact, cache, halted, nudges,
          apart, heard>> /\ (UNCHANGED patching \/ (Over(t) /\ patching' = patching \cup {t}))
    BY <1>1, <1>2 DEF BootStep, RemoveWorkspace, Known
<1>4. /\ status' \in [Tasks -> Status] /\ StreamTyped' /\ Moves /\ Still /\ NoneStarts
      /\ \A u \in Tasks : status'[u] = "reported" => status[u] = "reported"
    <2>1. CASE UNCHANGED <<status, stream, resuming>>
        BY <2>1 DEF Basic, ConfigTyped, StreamTyped, stream, Moves, Still, NoneStarts, Fresh, Marking
    <2>2. CASE Send(t)
        BY <1>2, <2>2, SendIs
    <2>3. CASE what = "remove" /\ RemoveWorkspace(t) /\ UNCHANGED resuming
        <3>1. Over(t)
            BY <1>1, <2>3 DEF Known
        <3>2. status' \in [Tasks -> Status] /\ Moves /\ Still
              /\ \A u \in Tasks : status'[u] = "reported" => status[u] = "reported"
            BY <2>3, <3>1 DEF RemoveWorkspace, Over, Basic, ConfigTyped, Moves, Still, Unborn, Status
        <3>3. StreamTyped' /\ NoneStarts
            BY <2>3 DEF RemoveWorkspace, Basic, StreamTyped, NoneStarts, Fresh, Marking
        <3> QED
            BY <3>2, <3>3
    <2> QED
        BY <1>2, <2>1, <2>2, <2>3 DEF BootStep
<1>5. EventsTyped' /\ HandlerTyped' /\ MutexTyped' /\ WaitTyped' /\ SetsTyped'
    BY <1>3 DEF Basic, EventsTyped, HandlerTyped, MutexTyped, WaitTyped, SetsTyped, Over
<1>6. ConfigTyped'
    BY <1>3, <1>4 DEF Basic, ConfigTyped
<1>7. Untouched'
    <2>1. \A u \in Tasks : status[u] \in Unborn => (u \in patching' <=> u \in patching)
        BY <1>3 DEF Over, Unborn
    <2>2. \A u \in Tasks : status[u] \in Unborn /\ status'[u] \in Unborn /\ Fresh(u) => Fresh(u)'
        BY <1>3, <1>4, <2>1 DEF NoneStarts, Fresh, Marking
    <2> QED
        BY <1>4, <2>2, UntouchedKept
<1>8. Lineage'
    BY <1>3, <1>4, LineageKept DEF Creating
<1>9. MutexPhases'
    BY <1>3, <1>4, MutexKept
<1>10. HandlerPhases'
    BY <1>3, <1>4, HandlersKept DEF Basic, HandlerPhases, HandlerPhase
<1>11. \A x : Known(x) => Known(x)'
    BY <1>4, Tree DEF Known, Item, Over, Moves, Unborn
<1>12. \/ boot' = [boot EXCEPT !.todo = Tail(boot.todo)]
       \/ \E x \in Item : Known(x)' /\ boot' = [boot EXCEPT !.todo = <<x>> \o Tail(boot.todo)]
    <2>1. CASE boot' = [boot EXCEPT !.todo = Tail(@)]
        BY <2>1
    <2>2. CASE what = "check" /\ Promptable(t) /\ boot' = [boot EXCEPT !.todo = <<<<"ask", t>>>> \o Tail(@)]
        <3>1. <<"ask", t>> \in Item /\ Known(<<"ask", t>>)
            BY <1>1, <1>2, <2>2 DEF Known, Item
        <3> QED
            BY <1>11, <2>2, <3>1
    <2>3. CASE what = "cleanup" /\ Cleanable(t) /\ boot' = [boot EXCEPT !.todo = <<<<"remove", t>>>> \o Tail(@)]
        <3>1. <<"remove", t>> \in Item /\ Known(<<"remove", t>>)
            BY <1>1, <1>2, <2>3, Tree DEF Known, Item, Cleanable, Its, Over, Unborn
        <3> QED
            BY <1>11, <2>3, <3>1
    <2>4. CASE what = "remove" /\ boot' = [boot EXCEPT !.todo = <<<<"cleanup", ParentOf[t]>>>> \o Tail(@)]
        <3>1. Over(t) /\ ParentOf[t] \in Workspaces
            BY <1>1, <2>4, Tree DEF Known, Over
        <3>2. ParentOf[t] = Root \/ status[ParentOf[t]] \notin Unborn
            BY <3>1 DEF Over, Basic, Lineage, Elder
        <3>3. <<"cleanup", ParentOf[t]>> \in Item /\ Known(<<"cleanup", ParentOf[t]>>)
            BY <3>1, <3>2 DEF Known, Item
        <3> QED
            BY <1>11, <2>4, <3>3
    <2> QED
        BY <1>2, <2>1, <2>2, <2>3, <2>4 DEF BootStep
<1>13. ASSUME NEW s, Listed(s) PROVE \A i \in DOMAIN s : Known(s[i])' /\ s[i][1] # "remove"
    BY <1>11, <1>13 DEF Listed
<1>14. BootTyped' /\ BootPhases'
    <2> SUFFICES ASSUME NEW rest, rest = Tail(boot.todo), NEW next, next = boot'.todo
                 PROVE  BootTyped' /\ BootPhases'
        OBVIOUS
    <2>1. rest \in Seq(Item) /\ \A i \in DOMAIN rest : Known(rest[i])' /\ rest[i][1] # "remove"
        BY <1>1, <1>13 DEF Listed
    <2>2. boot.at \in {"up", "slots", "tasks", "done"}
          /\ (\A s : [boot EXCEPT !.todo = s] = [at |-> boot.at, todo |-> s])
        BY DEF Basic, BootTyped
    <2>3. CASE boot' = [boot EXCEPT !.todo = rest]
        <3>1. next = rest /\ boot' = [at |-> boot.at, todo |-> rest]
            BY <2>2, <2>3
        <3>2. BootTyped'
            BY <2>1, <2>2, <3>1 DEF BootTyped
        <3>3. \A i \in DOMAIN next : Known(next[i])' /\ (next[i][1] = "remove" => i = 1)
            BY <2>1, <3>1
        <3> QED
            BY <3>2, <3>3 DEF BootPhases, Known
    <2>4. ASSUME NEW x \in Item, Known(x)', boot' = [boot EXCEPT !.todo = <<x>> \o rest]
          PROVE  BootTyped' /\ BootPhases'
        <3>1. next = <<x>> \o rest /\ boot' = [at |-> boot.at, todo |-> next]
            BY <2>2, <2>4
        <3>2. next \in Seq(Item)
              /\ \A i \in DOMAIN next : (i = 1 /\ next[i] = x) \/ (i - 1 \in DOMAIN rest /\ next[i] = rest[i - 1])
            BY <2>1, <3>1, FirstIs
        <3>3. BootTyped'
            BY <2>2, <3>1, <3>2 DEF BootTyped
        <3>4. \A i \in DOMAIN next : Known(next[i])' /\ (next[i][1] = "remove" => i = 1)
            BY <2>1, <2>4, <3>2
        <3> QED
            BY <3>3, <3>4 DEF BootPhases, Known
    <2> QED
        BY <1>12, <2>3, <2>4
<1> QED
    BY <1>4, <1>5, <1>6, <1>7, <1>8, <1>9, <1>10, <1>14 DEF Basic

LEMMA BootDoneKeeps == ASSUME Basic, BootDone PROVE Basic' /\ Moves /\ Still
<1>1. UNCHANGED <<status, born, streaming, mail, runs, events, handler, mutex, sched, asked, resuming,
          wait, artifact, cache, halted, nudges, apart, patching, heard>>
    BY DEF BootDone, config, stream, memory
<1>2. Moves /\ Still
    BY <1>1 DEF Moves, Still
<1>3. ConfigTyped' /\ StreamTyped' /\ EventsTyped' /\ HandlerTyped' /\ MutexTyped' /\ WaitTyped' /\ SetsTyped' /\
          Untouched' /\ Lineage' /\ MutexPhases' /\ HandlerPhases'
    BY <1>1 DEF Basic, ConfigTyped, StreamTyped, EventsTyped, HandlerTyped, MutexTyped, WaitTyped, SetsTyped,
        Untouched, Fresh, Marking, Lineage, MutexPhases, HandlerPhases, HandlerPhase, RootPhase, Creating, Sending, Elder, Over
<1>4. BootTyped' /\ boot'.todo = <<>>
    BY DEF BootDone, Basic, BootTyped
<1>5. BootPhases'
    BY <1>4 DEF BootPhases
<1> QED
    BY <1>2, <1>3, <1>4, <1>5 DEF Basic

-----------------------------------------------------------------------------
(* Every step keeps the invariant.                                         *)
\* nothing is under way at first
LEMMA Starts == Init => Basic
<1> SUFFICES ASSUME Init PROVE Basic
    OBVIOUS
<1>1. /\ status = [t \in Tasks |-> "none"] /\ born = <<>> /\ streaming = {} /\ mail = {} /\ resuming = {}
      /\ runs = [w \in Workspaces |-> 0] /\ events = [w \in Workspaces |-> <<>>]
      /\ handler = [w \in Workspaces |-> Idle] /\ mutex = Free /\ wait = [v \in Waits |-> NoWait]
      /\ patching = {} /\ boot = Up
    BY DEF Init
<1>2. ConfigTyped /\ EventsTyped /\ BootTyped
    BY <1>1 DEF ConfigTyped, EventsTyped, BootTyped, Status, Up
<1>3. StreamTyped
    BY <1>1, LimitAssumption DEF StreamTyped
<1>4. HandlerTyped
    <2>1. Idle \in HandlerT
        BY Tree DEF Idle, HandlerT, Step, Status
    <2> QED
        BY <1>1, <2>1 DEF HandlerTyped
<1>5. MutexTyped
    BY <1>1, FreeIs DEF Init, MutexTyped
<1>6. WaitTyped
    BY <1>1, Tree DEF WaitTyped, WaitT, NoWait, Answer, Status
<1>7. SetsTyped
    BY LimitAssumption DEF Init, SetsTyped
<1>8. Untouched /\ HandlerPhases
    BY <1>1, Tree DEF Untouched, Fresh, Marking, HandlerPhases, HandlerPhase, RootPhase, Idle
<1>9. MutexPhases /\ BootPhases
    BY <1>1 DEF MutexPhases, BootPhases, Creating, Sending, Free, Up
<1>10. Lineage
    BY <1>1 DEF Lineage, Creating, Free
<1> QED
    BY <1>2, <1>3, <1>4, <1>5, <1>6, <1>7, <1>8, <1>9, <1>10 DEF Basic

\* a step of something else
LEMMA Idles == ASSUME Basic, UNCHANGED vars PROVE Basic' /\ Moves
<1>1. UNCHANGED <<status, born, streaming, mail, runs, events, handler, mutex, sched, asked, resuming,
          wait, artifact, cache, halted, nudges, apart, patching, boot, heard>>
    BY DEF vars, config, stream, memory
<1>2. Moves
    BY <1>1 DEF Moves
<1> QED
    BY <1>1, <1>2 DEF Basic, ConfigTyped, StreamTyped, EventsTyped, HandlerTyped, MutexTyped, WaitTyped,
        SetsTyped, BootTyped, Untouched, Fresh, Marking, Lineage, Elder, MutexPhases, Creating, Sending,
        HandlerPhases, HandlerPhase, RootPhase, BootPhases, Over

\* every action, by its lemma
LEMMA Steps == ASSUME Basic, [Next]_vars PROVE Basic' /\ Moves
<1>1. CASE UserStep
    BY <1>1, UserSendKeeps, UserQueuesKeeps, UserStopKeeps DEF UserStep
<1>2. CASE ToolStep
    BY <1>2, CreateBeginKeeps, TerminateKeeps, WaitCallKeeps DEF ToolStep
<1>3. CASE MutexStep
    BY <1>3, CreateStoredKeeps, CreateSentKeeps, SchedBeginKeeps, SchedPickKeeps, SchedRecheckKeeps,
       SchedSendKeeps, SchedMarkKeeps, CascadeBeginKeeps, CascadeStopKeeps, CascadeEditKeeps, TerminateStopKeeps,
       TerminateRejectKeeps, TerminateRemoveKeeps DEF MutexStep
<1>4. CASE RootStep
    BY <1>4, RootEndKeeps, RootSweepKeeps, NudgeKeeps DEF RootStep
<1>5. CASE BootNext
    BY <1>5, BootReadKeeps, BootStepKeeps, BootDoneKeeps DEF BootNext
<1>6. CASE Crash
    BY <1>6, CrashKeeps
<1>7. CASE \E t \in Tasks : HandlerStep(t)
    BY <1>7, TaskEventKeeps, PlanReadKeeps, PromptCheckKeeps, AskKeeps, MarkReportedKeeps, PersistKeeps,
       DeliverKeeps, ResolveLateKeeps, ParentResumeKeeps, ResumeParentKeeps, CleanupCheckKeeps,
       CleanupRemoveKeeps, PatchDoneKeeps, ResumeSentKeeps DEF HandlerStep
<1>8. CASE \E v \in Waits : WaitRead(v) \/ WaitTimeout(v)
    BY <1>8, WaitReadKeeps, WaitTimeoutKeeps
<1>9. CASE \E w \in Workspaces : StreamEnds(w) \/ StreamFails(w)
    BY <1>9, StreamEndsKeeps, StreamFailsKeeps
<1>10. CASE UNCHANGED vars
    BY <1>10, Idles
<1> QED
    BY <1>1, <1>2, <1>3, <1>4, <1>5, <1>6, <1>7, <1>8, <1>9, <1>10 DEF Next

(* What the mutex, the handlers and initialize know of a task stays true   *)
(* until they use it, although nothing orders the event locks and the      *)
(* mutex of TaskService.                                                   *)
THEOREM AlwaysBasic == Spec => []Basic
<1>1. Init => Basic
    BY Starts
<1>2. Basic /\ [Next]_vars => Basic'
    BY Steps
<1> QED
    BY <1>1, <1>2, PTL DEF Spec

(* Every reachable state of TaskService is well typed.                     *)
THEOREM TypeCorrect == Spec => []TypeOK
<1>1. Basic => TypeOK
    BY DEF Basic, TypeOK, ConfigTyped, StreamTyped, EventsTyped, HandlerTyped, HandlerT, MutexTyped, MutexT,
        WaitTyped, WaitT, Answer, SetsTyped, BootTyped, Item
<1> QED
    BY <1>1, AlwaysBasic, PTL

(* A report is final: whatever a handler, a cascade, the scheduler, a      *)
(* refused message or initialize after a restart does, a task that has     *)
(* reported is only ever removed (finalizeAgentTaskReport,                 *)
(* terminateAllDescendantAgentTasks, markInterruptedTaskRunning).          *)
THEOREM ReportsStay == Spec => ReportsAreFinal
<1>1. Basic /\ [Next]_vars => [\A t \in DOMAIN status : status[t] = "reported" => status'[t] \in {"reported", "removed"}]_vars
    <2> SUFFICES ASSUME Basic, [Next]_vars
                 PROVE  \A t \in DOMAIN status : status[t] = "reported" => status'[t] \in {"reported", "removed"}
        OBVIOUS
    <2>1. Moves /\ DOMAIN status = Tasks
        BY Steps DEF Basic, ConfigTyped
    <2> QED
        BY <2>1 DEF Moves
<1> QED
    BY <1>1, AlwaysBasic, PTL DEF Spec, ReportsAreFinal

-----------------------------------------------------------------------------
(* Waits without a timeout.                                                *)
Untimed(v) == wait[v].at = "unstarted" =>
    status[wait[v].task] = "queued" \/ ("terminate" \in Features /\ status[wait[v].task] = "removed")
UntimedIInv == (mutex.kind = "terminate" => "terminate" \in Features) /\ \A v \in Waits : Untimed(v)

\* no wait becomes one without a timeout
NoneUntimed == \A v \in Waits : wait'[v].at = "unstarted" => wait'[v] = wait[v]

LEMMA EndsUntime == ASSUME Basic, NEW V, NEW how, wait' = End(V, how) PROVE NoneUntimed
BY DEF Basic, WaitTyped, WaitT, End, NoneUntimed

LEMMA TimersUntime ==
    ASSUME Basic, NEW t \in Tasks, wait' = StartTimers(t)
    PROVE  NoneUntimed /\ \A v \in Waits : wait'[v].at = "unstarted" => wait'[v].task # t
BY DEF Basic, WaitTyped, WaitT, StartTimers, NoneUntimed

LEMMA RejectsUntime ==
    ASSUME Basic, NEW t \in Tasks, NEW how, wait' = End(WaitsFor(t), how)
    PROVE  NoneUntimed /\ \A v \in Waits : wait'[v].at = "unstarted" => wait'[v].task # t
BY DEF Basic, WaitTyped, WaitT, End, WaitsFor, Pending, NoneUntimed

LEMMA StillUntimed ==
    ASSUME Basic, UntimedIInv, Moves, NoneUntimed,
           \A v \in Waits : wait'[v].at = "unstarted" /\ status[wait[v].task] = "queued"
                => status'[wait[v].task] = "queued" \/ ("terminate" \in Features /\ status'[wait[v].task] = "removed")
    PROVE  \A v \in Waits : Untimed(v)'
<1> SUFFICES ASSUME NEW v \in Waits, wait'[v].at = "unstarted" PROVE Untimed(v)'
    BY DEF Untimed
<1>1. wait[v] = wait'[v] /\ wait[v].task \in Tasks
    BY DEF NoneUntimed, Basic, WaitTyped
<1>2. status[wait[v].task] = "removed" => status'[wait[v].task] = "removed"
    BY <1>1 DEF Moves
<1> QED
    BY <1>1, <1>2 DEF UntimedIInv, Untimed

LEMMA SameUntimed == ASSUME Basic, UntimedIInv, Moves, Still, NoneUntimed PROVE \A v \in Waits : Untimed(v)'
<1>1. ASSUME NEW v \in Waits, wait'[v].at = "unstarted", status[wait[v].task] = "queued"
      PROVE  status'[wait[v].task] = "queued"
    BY <1>1 DEF Still, Unborn, NoneUntimed, Basic, WaitTyped
<1> QED
    BY <1>1, StillUntimed

LEMMA RegisterUntimed ==
    ASSUME Basic, UntimedIInv, NEW u \in Waits, NEW t \in Tasks, UNCHANGED status, Register(u, t)
    PROVE  \A v \in Waits : Untimed(v)'
BY DEF Basic, UntimedIInv, Untimed, Register, WaitTyped, WaitT

\* who has the mutex for a termination
LEMMA TerminateIsTool ==
    ASSUME Basic, UntimedIInv, [Next]_vars
    PROVE  mutex'.kind = "terminate" => "terminate" \in Features
<1>1. mutex \in MutexT
    BY DEF Basic, MutexTyped
<1>2. CASE UNCHANGED mutex
    BY <1>2 DEF UntimedIInv
<1>3. CASE mutex'.kind \in {"free", "create", "sched", "cascade", mutex.kind}
    BY <1>3 DEF UntimedIInv
<1>4. CASE UserStep \/ RootStep \/ BootNext \/ (\E w \in Workspaces : StreamEnds(w) \/ StreamFails(w))
           \/ (\E v \in Waits : WaitRead(v) \/ WaitTimeout(v)) \/ UNCHANGED vars
    BY <1>2, <1>4 DEF UserStep, RootStep, BootNext, UserSend, UserQueues, UserStop, RootEnd, RootSweep, Nudge, BootRead,
        BootStep, BootDone, StreamEnds, StreamFails, WaitRead, WaitTimeout, vars
<1>5. CASE Crash
    BY <1>3, <1>5 DEF Crash, Free
<1>6. CASE ToolStep
    <2>1. CASE \E t \in Tasks : CreateBegin(t)
        BY <1>3, <2>1 DEF CreateBegin, Hold
    <2>2. CASE \E t \in Tasks : Terminate(t)
        BY <2>2 DEF Terminate
    <2>3. CASE \E v \in Waits, t \in Tasks : WaitCall(v, t)
        BY <1>2, <2>3 DEF WaitCall
    <2> QED
        BY <1>6, <2>1, <2>2, <2>3 DEF ToolStep
<1>7. CASE MutexStep
    <2>1. CASE CreateStored \/ CreateSent \/ SchedPick \/ SchedRecheck \/ SchedSend \/ SchedMark \/ CascadeStop \/ CascadeEdit
               \/ TerminateStop \/ TerminateReject \/ TerminateRemove
        <3>1. \/ mutex' = Free \/ \E a : Then(a)
              \/ \E a : mutex' = [mutex EXCEPT !.at = a, !.todo = Tail(@)]
            BY <2>1 DEF CreateStored, CreateSent, SchedPick, SchedRecheck, SchedSend, SchedMark, CascadeStop, CascadeEdit,
                TerminateStop, TerminateReject, TerminateRemove, Release, Next1, Done
        <3>2. mutex' = Free \/ mutex'.kind = mutex.kind
            BY <1>1, <3>1 DEF Then, MutexT
        <3> QED
            BY <1>3, <3>2 DEF Free
    <2>2. CASE \E c \in Workspaces : SchedBegin(c) \/ CascadeBegin(c)
        BY <1>3, <2>2 DEF SchedBegin, CascadeBegin, Hold
    <2> QED
        BY <1>7, <2>1, <2>2 DEF MutexStep
<1>8. CASE \E t \in Tasks : HandlerStep(t)
    BY <1>2, <1>8 DEF HandlerStep, TaskEvent, PlanRead, PromptCheck, Ask, MarkReported, Persist, Deliver, ResolveLate,
        ParentResume, ResumeParent, CleanupCheck, CleanupRemove, PatchDone, ResumeSent
<1> QED
    BY <1>4, <1>5, <1>6, <1>7, <1>8 DEF Next

LEMMA UntimedSteps == ASSUME Basic, UntimedIInv, [Next]_vars PROVE UntimedIInv'
<1>1. Moves
    BY Steps
<1>2. CASE UserStep
    <2>1. PICK w \in Workspaces : UserSend(w) \/ UserQueues(w) \/ UserStop(w)
        BY <1>2 DEF UserStep
    <2>2. Still
        BY <2>1, UserSendKeeps, UserQueuesKeeps, UserStopKeeps
    <2>3. NoneUntimed
        BY <2>1, EndsUntime DEF UserSend, UserQueues, UserStop, NoneUntimed
    <2> QED
        BY <1>1, <2>2, <2>3, SameUntimed, TerminateIsTool DEF UntimedIInv
<1>3. CASE ToolStep
    <2>1. CASE \E t \in Tasks : CreateBegin(t) \/ Terminate(t)
        <3>1. Still
            BY <2>1, CreateBeginKeeps, TerminateKeeps
        <3>2. NoneUntimed
            BY <2>1 DEF CreateBegin, Terminate, NoneUntimed
        <3> QED
            BY <1>1, <3>1, <3>2, SameUntimed, TerminateIsTool DEF UntimedIInv
    <2>2. ASSUME NEW v \in Waits, NEW t \in Tasks, WaitCall(v, t) PROVE UntimedIInv'
        <3>1. Still /\ UNCHANGED status
            BY <2>2, WaitCallKeeps DEF WaitCall, config
        <3>2. CASE Register(v, t)
            BY <3>1, <3>2, RegisterUntimed, TerminateIsTool DEF UntimedIInv
        <3>3. CASE \E a \in {"over", "reading"} : \E g : wait' = [wait EXCEPT ![v] = [at |-> a, task |-> t, got |-> g]]
            <4>1. NoneUntimed
                BY <3>3 DEF NoneUntimed, Basic, WaitTyped
            <4> QED
                BY <1>1, <3>1, <4>1, SameUntimed, TerminateIsTool DEF UntimedIInv
        <3> QED
            BY <2>2, <3>2, <3>3 DEF WaitCall
    <2> QED
        BY <1>3, <2>1, <2>2 DEF ToolStep
<1>4. CASE MutexStep
    <2>1. CASE CreateStored
        <3>1. NoneUntimed
            BY <2>1 DEF CreateStored, NoneUntimed
        <3>2. \A t \in Tasks : status[t] = "queued" => status'[t] = "queued"
            BY <2>1 DEF CreateStored, Basic, ConfigTyped, MutexPhases, Creating, Holding, config
        <3>3. \A v \in Waits : wait'[v].at = "unstarted" => wait[v].task \in Tasks
            BY <3>1 DEF NoneUntimed, Basic, WaitTyped
        <3> QED
            BY <1>1, <3>1, <3>2, <3>3, StillUntimed, TerminateIsTool DEF UntimedIInv
    <2>2. CASE CreateSent \/ (\E c \in Workspaces : SchedBegin(c)) \/ SchedPick \/ (\E c \in Workspaces : CascadeBegin(c))
               \/ CascadeStop \/ TerminateStop \/ TerminateReject
        <3>1. Still
            BY <2>2, CreateSentKeeps, SchedBeginKeeps, SchedPickKeeps, CascadeBeginKeeps, CascadeStopKeeps,
               TerminateStopKeeps, TerminateRejectKeeps
        <3>2. NoneUntimed
            BY <2>2, EndsUntime DEF CreateSent, SchedBegin, SchedPick, CascadeBegin, CascadeStop, TerminateStop,
                TerminateReject, Halt, NoneUntimed
        <3> QED
            BY <1>1, <3>1, <3>2, SameUntimed, TerminateIsTool DEF UntimedIInv
    <2>3. CASE SchedRecheck \/ SchedSend \/ SchedMark \/ CascadeEdit
        <3>1. This \in Tasks
            BY <2>3, HeadIs DEF SchedRecheck, SchedSend, SchedMark, CascadeEdit, Holding, Basic, MutexTyped, MutexPhases
        <3>2. CASE UNCHANGED <<status, wait>>
            BY <1>1, <3>2, SameUntimed, TerminateIsTool DEF UntimedIInv, Still, NoneUntimed
        <3>3. CASE /\ \E s : status' = [status EXCEPT ![This] = s]
                   /\ wait' = End(WaitsFor(This), "error") \/ wait' = StartTimers(This)
            <4>1. NoneUntimed /\ \A v \in Waits : wait'[v].at = "unstarted" => wait'[v].task # This
                BY <3>1, <3>3, RejectsUntime, TimersUntime
            <4>2. \A v \in Waits : wait'[v].at = "unstarted" => wait[v].task \in Tasks \ {This}
                BY <4>1 DEF NoneUntimed, Basic, WaitTyped
            <4>3. \A t \in Tasks \ {This} : status'[t] = status[t]
                BY <3>3 DEF Basic, ConfigTyped
            <4> QED
                BY <1>1, <4>1, <4>2, <4>3, StillUntimed, TerminateIsTool DEF UntimedIInv
        <3> QED
            BY <2>3, <3>2, <3>3 DEF SchedRecheck, SchedSend, SchedMark, CascadeEdit, config
    <2>4. CASE TerminateRemove
        <3>1. This \in Tasks /\ "terminate" \in Features
            BY <2>4, HeadIs DEF TerminateRemove, Holding, Basic, MutexTyped, MutexPhases, UntimedIInv
        <3>2. NoneUntimed /\ \A t \in Tasks : status'[t] \in {status[t], "removed"}
            BY <2>4, <3>1 DEF TerminateRemove, RemoveWorkspace, config, NoneUntimed, Basic, ConfigTyped
        <3>3. \A v \in Waits : wait'[v].at = "unstarted" => wait[v].task \in Tasks
            BY <3>2 DEF NoneUntimed, Basic, WaitTyped
        <3> QED
            BY <1>1, <3>1, <3>2, <3>3, StillUntimed, TerminateIsTool DEF UntimedIInv
    <2> QED
        BY <1>4, <2>1, <2>2, <2>3, <2>4 DEF MutexStep
<1>5. CASE RootStep \/ BootNext \/ Crash \/ (\E w \in Workspaces : StreamEnds(w) \/ StreamFails(w))
    <2>1. Still
        BY <1>5, RootEndKeeps, RootSweepKeeps, NudgeKeeps, BootReadKeeps, BootStepKeeps, BootDoneKeeps, CrashKeeps, StreamEndsKeeps,
           StreamFailsKeeps DEF RootStep, BootNext
    <2>2. NoneUntimed
        BY <1>5, EndsUntime DEF RootStep, BootNext, RootEnd, RootSweep, Nudge, BootRead, BootStep, BootDone, Crash, StreamEnds,
            StreamFails, NoneUntimed
    <2> QED
        BY <1>1, <2>1, <2>2, SameUntimed, TerminateIsTool DEF UntimedIInv
<1>6. CASE \E t \in Tasks : HandlerStep(t)
    <2>1. PICK t \in Tasks : HandlerStep(t)
        BY <1>6
    <2>2. Still
        BY <2>1, TaskEventKeeps, PlanReadKeeps, PromptCheckKeeps, AskKeeps, MarkReportedKeeps, PersistKeeps,
           DeliverKeeps, ResolveLateKeeps, ParentResumeKeeps, ResumeParentKeeps, CleanupCheckKeeps,
           CleanupRemoveKeeps, PatchDoneKeeps, ResumeSentKeeps DEF HandlerStep
    <2>3. UNCHANGED wait \/ wait' = StartTimers(t) \/ (\E how : wait' = End(WaitsFor(t), how))
        BY <2>1 DEF HandlerStep, TaskEvent, PlanRead, PromptCheck, Ask, MarkReported, Persist, Deliver, ResolveLate,
            ParentResume, ResumeParent, CleanupCheck, CleanupRemove, PatchDone, ResumeSent, SetStatus, Resolve, Reject
    <2>4. NoneUntimed
        BY <2>3, EndsUntime, TimersUntime DEF NoneUntimed
    <2> QED
        BY <1>1, <2>2, <2>4, SameUntimed, TerminateIsTool DEF UntimedIInv
<1>7. CASE \E v \in Waits : WaitRead(v) \/ WaitTimeout(v)
    <2>1. PICK v \in Waits : WaitRead(v) \/ WaitTimeout(v)
        BY <1>7
    <2>2. Still /\ UNCHANGED status
        BY <2>1, WaitReadKeeps, WaitTimeoutKeeps DEF WaitRead, WaitTimeout, config
    <2>3. CASE WaitRead(v) /\ Register(v, wait[v].task)
        <3>1. wait[v].task \in Tasks
            BY <2>3 DEF WaitRead, Basic, WaitTyped
        <3> QED
            BY <2>2, <2>3, <3>1, RegisterUntimed, TerminateIsTool DEF UntimedIInv
    <2>4. CASE (\E how : wait' = End({v}, how)) \/ (WaitRead(v) /\ \E g : wait' = [wait EXCEPT ![v].got = g])
        <3>1. NoneUntimed
            BY <2>4, EndsUntime DEF NoneUntimed, WaitRead, Basic, WaitTyped, WaitT
        <3> QED
            BY <1>1, <2>2, <3>1, SameUntimed, TerminateIsTool DEF UntimedIInv
    <2> QED
        BY <2>1, <2>3, <2>4 DEF WaitRead, WaitTimeout
<1>8. CASE UNCHANGED vars
    BY <1>8 DEF vars, config, UntimedIInv, Untimed
<1> QED
    BY <1>2, <1>3, <1>4, <1>5, <1>6, <1>7, <1>8 DEF Next

(* A call of waitForAgentReport has no timeout only while its task is      *)
(* queued, or has been removed by a termination while it was: every other  *)
(* step that takes a task out of the queue starts the timers or ends the   *)
(* waits.                                                                  *)
THEOREM AlwaysUntimed == Spec => []UntimedIInv
<1>1. Init => UntimedIInv
    BY DEF Init, UntimedIInv, Untimed, Free, NoWait
<1>2. Basic /\ UntimedIInv /\ [Next]_vars => UntimedIInv'
    BY UntimedSteps
<1> QED
    BY <1>1, <1>2, AlwaysBasic, PTL DEF Spec

(* Without terminateDescendantAgentTask a wait without a timeout is a wait *)
(* for a queued task.                                                      *)
THEOREM UntimedQueue == ASSUME "terminate" \notin Features PROVE Spec => []UntimedAreQueued
<1>1. UntimedIInv => UntimedAreQueued
    BY DEF UntimedIInv, Untimed, UntimedAreQueued
<1> QED
    BY <1>1, AlwaysUntimed, PTL

-----------------------------------------------------------------------------
(* No task loses its parent.                                               *)
Parent == ParentOf[mutex.task]
StreamersPresent == \A w \in streaming : Present(w)
\* what has a child was created before it, and is not being created
Settled(p) == p = Root \/ (status[p] # "none" /\ ~ (mutex.kind = "create" /\ mutex.task = p))
ParentsFirst == \A t \in Tasks : status[t] # "none" => Settled(ParentOf[t])
\* who creates a task streams: its tool call is under way
CreatorKept == Creating => Parent = Root \/ Parent \in streaming
\* a task whose first message is being sent does nothing yet, unless a restart sent it one too
NewRuns == Sending /\ boot.at \in {"up", "slots"} => Fresh(mutex.task) /\ status[mutex.task] = "running"
\* nor is it removed, for a handler that has reported waits for the mutex
Delivering(t) == handler[t].at \in {"persist", "deliver", "resolve"} \/ (handler[t].at = "slot" /\ t \in sched)
Cleaner(w) == handler[w].at \in {"cleanup", "remove"}
InTodo(x) == \E i \in DOMAIN boot.todo : boot.todo[i] = x
NewStays == Sending =>
    /\ status[mutex.task] # "removed"
    /\ status[mutex.task] = "reported" => Delivering(mutex.task)
    /\ \A w \in Tasks : Cleaner(w) /\ handler[w].on = mutex.task => w = mutex.task /\ handler[w].at = "cleanup"
    /\ \A what \in {"cleanup", "remove"} : ~ InTodo(<<what, mutex.task>>)
\* what is about to be removed is a leaf and stays one
Removable(x) == Leaf(x) /\ ~ (Creating /\ Parent = x)
Removables ==
    /\ \A w \in Tasks : handler[w].at = "remove" => Removable(handler[w].on)
    /\ \A x \in Tasks : InTodo(<<"remove", x>>) => Removable(x)
\* a termination comes to the children first
LeavesAreFirst == mutex.kind = "terminate" =>
    \A k \in Tasks, i \in DOMAIN mutex.todo : ParentOf[k] = mutex.todo[i] /\ Present(k) =>
        \E j \in DOMAIN mutex.todo : j < i /\ mutex.todo[j] = k
\* initialize runs after a restart only
NoCrash == "crash" \notin Features => boot = Up

\* the user stops and resumes no task himself (a stop ends the stream of a creator
\* whose create has the mutex), and not both restarts and failures happen (after a
\* restart initialize may start a task whose create then fails and removes it)
Quiet == Users \subseteq {Root} /\ ~ ({"crash", "fail"} \subseteq Features)
Family ==
    /\ NoOrphan /\ StreamersPresent /\ ParentsFirst /\ CreatorKept /\ NewRuns /\ NewStays
    /\ Removables /\ LeavesAreFirst /\ NoCrash

LEMMA PresentIs == ASSUME NEW t \in Tasks
                   PROVE  /\ Present(t) <=> status[t] \notin {"none", "removed"}
                          /\ Present(t)' <=> status'[t] \notin {"none", "removed"}
                          /\ Its(t) = status[t] /\ Its(Root) = "root" /\ Present(Root) /\ Present(Root)'
BY Tree DEF Present, Its

\* no task is its own parent
LEMMA OwnParent == \A t \in Tasks : ParentOf[t] # t
BY Deeper

\* a task that is being created has no children yet
LEMMA NoChild ==
    ASSUME Family, mutex.kind = "create", NEW k \in Tasks, ParentOf[k] = mutex.task, mutex.task \in Tasks
    PROVE  status[k] = "none"
BY Tree DEF Family, ParentsFirst, Settled

\* who has the mutex for a creation or a termination
LEMMA CreatorIs ==
    ASSUME Basic, [Next]_vars, mutex'.kind = "create"
    PROVE  UNCHANGED mutex \/ (\E t \in Tasks : CreateBegin(t)) \/ CreateStored
<1>1. mutex \in MutexT
    BY DEF Basic, MutexTyped
<1>2. CASE UserStep \/ RootStep \/ BootNext \/ (\E w \in Workspaces : StreamEnds(w) \/ StreamFails(w))
           \/ (\E v \in Waits : WaitRead(v) \/ WaitTimeout(v)) \/ UNCHANGED vars
    BY <1>2 DEF UserStep, RootStep, BootNext, UserSend, UserQueues, UserStop, RootEnd, RootSweep, Nudge, BootRead,
        BootStep, BootDone, StreamEnds, StreamFails, WaitRead, WaitTimeout, vars
<1>3. CASE Crash
    BY <1>3 DEF Crash, Free
<1>4. CASE ToolStep
    <2>1. CASE \E t \in Tasks : CreateBegin(t)
        BY <2>1
    <2>2. CASE \E t \in Tasks : Terminate(t)
        BY <2>2 DEF Terminate, Hold
    <2>3. CASE \E v \in Waits, t \in Tasks : WaitCall(v, t)
        BY <2>3 DEF WaitCall
    <2> QED
        BY <1>4, <2>1, <2>2, <2>3 DEF ToolStep
<1>5. CASE MutexStep
    <2>1. CASE CreateSent
        BY <2>1 DEF CreateSent, Release, Free
    <2>2. CASE SchedPick \/ SchedRecheck \/ SchedSend \/ SchedMark \/ CascadeStop \/ CascadeEdit
               \/ TerminateStop \/ TerminateReject \/ TerminateRemove
        <3>1. \/ mutex' = Free \/ \E a : Then(a)
              \/ \E a : mutex' = [mutex EXCEPT !.at = a, !.todo = Tail(@)]
            BY <2>2 DEF SchedPick, SchedRecheck, SchedSend, SchedMark, CascadeStop, CascadeEdit,
                TerminateStop, TerminateReject, TerminateRemove, Release, Next1, Done
        <3>2. mutex' = Free \/ mutex'.kind = mutex.kind
            BY <1>1, <3>1 DEF Then, MutexT
        <3>3. mutex.kind \in {"sched", "cascade", "terminate"}
            BY <2>2 DEF SchedPick, SchedRecheck, SchedSend, SchedMark, CascadeStop, CascadeEdit,
                TerminateStop, TerminateReject, TerminateRemove, Holding
        <3> QED
            BY <3>2, <3>3 DEF Free
    <2>3. CASE \E c \in Workspaces : SchedBegin(c) \/ CascadeBegin(c)
        BY <2>3 DEF SchedBegin, CascadeBegin, Hold
    <2> QED
        BY <1>5, <2>1, <2>2, <2>3 DEF MutexStep
<1>6. CASE \E t \in Tasks : HandlerStep(t)
    BY <1>6 DEF HandlerStep, TaskEvent, PlanRead, PromptCheck, Ask, MarkReported, Persist, Deliver, ResolveLate,
        ParentResume, ResumeParent, CleanupCheck, CleanupRemove, PatchDone, ResumeSent
<1> QED
    BY <1>2, <1>3, <1>4, <1>5, <1>6 DEF Next

LEMMA TerminatorIs ==
    ASSUME Basic, [Next]_vars, mutex'.kind = "terminate"
    PROVE  \/ UNCHANGED mutex
           \/ \E t \in Tasks : Terminate(t)
           \/ mutex.kind = "terminate" /\ UNCHANGED status /\ mutex'.todo = mutex.todo
           \/ TerminateRemove
<1>1. mutex \in MutexT
    BY DEF Basic, MutexTyped
<1>2. CASE UserStep \/ RootStep \/ BootNext \/ (\E w \in Workspaces : StreamEnds(w) \/ StreamFails(w))
           \/ (\E v \in Waits : WaitRead(v) \/ WaitTimeout(v)) \/ UNCHANGED vars
    BY <1>2 DEF UserStep, RootStep, BootNext, UserSend, UserQueues, UserStop, RootEnd, RootSweep, Nudge, BootRead,
        BootStep, BootDone, StreamEnds, StreamFails, WaitRead, WaitTimeout, vars
<1>3. CASE Crash
    BY <1>3 DEF Crash, Free
<1>4. CASE ToolStep
    BY <1>4 DEF ToolStep, CreateBegin, WaitCall, Hold
<1>5. CASE MutexStep
    <2>1. CASE CreateSent
        BY <2>1 DEF CreateSent, Release, Free
    <2>2. CASE CreateStored \/ SchedPick \/ SchedRecheck \/ SchedSend \/ SchedMark \/ CascadeStop \/ CascadeEdit
        <3>1. \/ mutex' = Free \/ \E a : Then(a)
              \/ \E a : mutex' = [mutex EXCEPT !.at = a, !.todo = Tail(@)]
            BY <2>2 DEF CreateStored, SchedPick, SchedRecheck, SchedSend, SchedMark, CascadeStop, CascadeEdit, Release, Next1, Done
        <3>2. mutex' = Free \/ mutex'.kind = mutex.kind
            BY <1>1, <3>1 DEF Then, MutexT
        <3>3. mutex.kind \in {"create", "sched", "cascade"}
            BY <2>2 DEF CreateStored, SchedPick, SchedRecheck, SchedSend, SchedMark, CascadeStop, CascadeEdit, Holding
        <3> QED
            BY <3>2, <3>3 DEF Free
    <2>3. CASE \E c \in Workspaces : SchedBegin(c) \/ CascadeBegin(c)
        BY <2>3 DEF SchedBegin, CascadeBegin, Hold
    <2>4. CASE TerminateStop \/ TerminateReject
        BY <1>1, <2>4 DEF TerminateStop, TerminateReject, Then, Holding, MutexT, config
    <2> QED
        BY <1>5, <2>1, <2>2, <2>3, <2>4 DEF MutexStep
<1>6. CASE \E t \in Tasks : HandlerStep(t)
    BY <1>6 DEF HandlerStep, TaskEvent, PlanRead, PromptCheck, Ask, MarkReported, Persist, Deliver, ResolveLate,
        ParentResume, ResumeParent, CleanupCheck, CleanupRemove, PatchDone, ResumeSent
<1> QED
    BY <1>2, <1>3, <1>4, <1>5, <1>6 DEF Next

\* a handler leaves the others and their events alone
LEMMA HandlerAlone ==
    ASSUME Basic, NEW t \in Tasks, HandlerStep(t)
    PROVE  \A u \in Workspaces \ {t} : handler'[u] = handler[u] /\ events'[u] = events[u]
<1>1. t \in Workspaces
    BY Tree
<1>2. CASE PlanRead(t) \/ PromptCheck(t) \/ Persist(t) \/ CleanupCheck(t) \/ Ask(t)
    BY <1>2 DEF PlanRead, PromptCheck, Persist, CleanupCheck, Ask, Move, Leave, Basic, HandlerTyped
<1>3. CASE TaskEvent(t) \/ PatchDone(t) \/ ResumeSent(t)
    BY <1>3 DEF TaskEvent, PatchDone, ResumeSent, TakeEvent, Queue, Basic, HandlerTyped, EventsTyped
<1>4. CASE MarkReported(t) \/ Deliver(t) \/ ResolveLate(t) \/ ParentResume(t) \/ ResumeParent(t) \/ CleanupRemove(t)
    BY <1>4 DEF MarkReported, Deliver, ResolveLate, ParentResume, ResumeParent, CleanupRemove, Finished, Resolve, Clean,
        Move, Leave, Basic, HandlerTyped
<1> QED
    BY <1>2, <1>3, <1>4 DEF HandlerStep

\* so does that of the root
LEMMA RootAlone ==
    ASSUME Basic, RootStep
    PROVE  /\ \A u \in Tasks : handler'[u] = handler[u]
           /\ \A u \in Tasks :
                 \/ events'[u] = events[u]
                 \/ events'[u] = Append(events[u], "sweep") /\ Over(u)
<1>1. Root \in Workspaces /\ Root \notin Tasks /\ handler \in [Workspaces -> HandlerT] /\ events \in [Workspaces -> Seq(Event)]
    BY Tree DEF Basic, HandlerTyped, EventsTyped
<1>2. CASE RootEnd
    <2>1. \A u \in Tasks : handler'[u] = handler[u]
        <3>1. UNCHANGED handler \/ \E h : handler' = [handler EXCEPT ![Root] = h]
            BY <1>2 DEF RootEnd, Move
        <3> QED
            BY <1>1, <3>1, Tree
    <2>2. \A u \in Tasks : events'[u] = events[u]
        BY <1>1, <1>2, Tree DEF RootEnd, TakeEvent
    <2> QED
        BY <2>1, <2>2
<1>3. CASE Nudge
    <2>1. \A u \in Tasks : handler'[u] = handler[u]
        BY <1>1, <1>3, Tree DEF Nudge, Leave
    <2>2. UNCHANGED events
        BY <1>3 DEF Nudge
    <2> QED
        BY <2>1, <2>2
<1>4. CASE RootSweep
    <2>1. \A u \in Tasks : handler'[u] = handler[u]
        BY <1>1, <1>4, Tree DEF RootSweep, Leave
    <2>2. CASE handler[Root].todo = <<>>
        <3>1. UNCHANGED events
            BY <1>4, <2>2 DEF RootSweep
        <3> QED
            BY <2>1, <3>1
    <2>3. CASE handler[Root].todo # <<>>
        <3>1. handler[Root].todo \in Seq(Tasks)
            BY <1>1 DEF HandlerT
        <3>2. Over(Head(handler[Root].todo))
            BY <2>3, <3>1 DEF Basic, HandlerPhases, RootPhase
        <3>3. \A u \in Tasks : events'[u] = IF u = Head(handler[Root].todo) THEN Append(events[u], "sweep") ELSE events[u]
            BY <1>1, <1>4, <2>3, Tree DEF RootSweep, Queue
        <3> QED
            BY <1>4, <2>1, <3>2, <3>3 DEF Over
    <2> QED
        BY <2>2, <2>3
<1> QED
    BY <1>2, <1>3, <1>4 DEF RootStep

\* how a handler comes to clean up
LEMMA CleanerIs ==
    ASSUME Basic, [Next]_vars, NEW w \in Tasks, Cleaner(w)'
    PROVE  \/ handler'[w] = handler[w]
           \/ handler'[w].at = "cleanup" /\ handler'[w].on = w
           \/ handler'[w].at = "cleanup" /\ Over(handler[w].on) /\ handler'[w].on = ParentOf[handler[w].on]
           \/ /\ handler[w].at = "cleanup" /\ handler'[w].at = "remove" /\ handler'[w].on = handler[w].on
              /\ Cleanable(handler[w].on) /\ UNCHANGED <<status, mutex>>
<1>1. CASE UserStep \/ ToolStep \/ MutexStep \/ BootNext \/ (\E u \in Workspaces : StreamEnds(u) \/ StreamFails(u))
           \/ (\E v \in Waits : WaitRead(v) \/ WaitTimeout(v)) \/ UNCHANGED vars
    <2>1. UNCHANGED handler
        BY <1>1 DEF UserStep, ToolStep, MutexStep, BootNext, UserSend, UserQueues, UserStop, CreateBegin, Terminate,
            WaitCall, CreateStored, CreateSent, SchedBegin, SchedPick, SchedRecheck, SchedSend, SchedMark, CascadeBegin, CascadeStop,
            CascadeEdit, TerminateStop, TerminateReject, TerminateRemove, BootRead, BootStep, BootDone, StreamEnds,
            StreamFails, WaitRead, WaitTimeout, vars
    <2> QED
        BY <2>1
<1>2. CASE Crash
    BY <1>2, Tree DEF Crash, Cleaner, Idle
<1>3. CASE RootStep
    BY <1>3, RootAlone
<1>4. ASSUME NEW t \in Tasks, HandlerStep(t), t # w PROVE handler'[w] = handler[w]
    BY <1>4, HandlerAlone, Tree
<1>5. CASE HandlerStep(w)
    <2>1. w \in Workspaces /\ HandlerTyped
        BY Tree DEF Basic
    <2>2. CASE PatchDone(w) \/ ResumeSent(w)
        BY <2>2 DEF PatchDone, ResumeSent
    <2>3. CASE TaskEvent(w)
        <3>1. \/ UNCHANGED handler
              \/ \E a \in {"mark", "cleanup", "plan", "ask"} : handler' = [handler EXCEPT ![w] =
                    [at |-> a, was |-> status[w], kind |-> Head(events[w]), busy |-> HasActive(w), on |-> w, todo |-> <<>>]]
            BY <2>3 DEF TaskEvent
        <3> QED
            BY <2>1, <3>1 DEF Cleaner, HandlerTyped
    <2>4. CASE PlanRead(w) \/ PromptCheck(w) \/ Ask(w) \/ Persist(w)
        BY <2>1, <2>4, MoveIs, LeaveIs DEF PlanRead, PromptCheck, Ask, Persist, Cleaner, Step
    <2>5. CASE MarkReported(w) \/ ParentResume(w) \/ ResumeParent(w)
        BY <2>1, <2>5, MoveIs, FinishedIs DEF MarkReported, ParentResume, ResumeParent, Cleaner, Step
    <2>6. CASE Deliver(w) \/ ResolveLate(w)
        BY <2>1, <2>6, MoveIs, ResolveIs DEF Deliver, ResolveLate, Cleaner, Step
    <2>7. CASE CleanupCheck(w)
        BY <2>1, <2>7, MoveIs, LeaveIs DEF CleanupCheck, Cleaner, Step, At, config
    <2>8. CASE CleanupRemove(w)
        <3>1. Over(handler[w].on) /\ ParentOf[handler[w].on] \in Workspaces
            BY <2>8, Tree DEF CleanupRemove, At, Basic, HandlerPhases, HandlerPhase, RootPhase, Over
        <3> QED
            BY <2>1, <2>8, <3>1, CleanIs, LeaveIs DEF CleanupRemove, Cleaner
    <2> QED
        BY <1>5, <2>2, <2>3, <2>4, <2>5, <2>6, <2>7, <2>8 DEF HandlerStep
<1> QED
    BY <1>1, <1>2, <1>3, <1>4, <1>5 DEF Next

\* only a restart and initialize itself change what initialize is at
LEMMA BootIs ==
    ASSUME Basic, [Next]_vars
    PROVE  /\ UNCHANGED boot \/ Crash \/ BootNext
           /\ BootNext => boot.at \in {"slots", "tasks"} /\ boot'.at \in {"tasks", "done"}
<1>1. UNCHANGED boot \/ Crash \/ BootNext
    BY DEF Next, UserStep, ToolStep, MutexStep, UserSend, UserQueues, UserStop, CreateBegin, Terminate,
        WaitCall, CreateStored, CreateSent, SchedBegin, SchedPick, SchedRecheck, SchedSend, SchedMark, CascadeBegin, CascadeStop,
        CascadeEdit, TerminateStop, TerminateReject, TerminateRemove, StreamEnds, StreamFails, WaitRead, WaitTimeout, vars,
        RootStep, RootEnd, RootSweep, Nudge, HandlerStep, TaskEvent, PlanRead, PromptCheck, Ask, MarkReported, Persist, Deliver,
        ResolveLate, ParentResume, ResumeParent, CleanupCheck, CleanupRemove, PatchDone, ResumeSent, memory
<1>2. CASE BootRead
    BY <1>1, <1>2 DEF BootRead
<1>3. CASE BootDone
    BY <1>1, <1>3 DEF BootDone, Basic, BootTyped
<1>4. CASE BootStep
    <2>1. Head(boot.todo)[1] \in {"check", "ask", "patch", "cleanup", "remove"}
        BY <1>4, ListedIs DEF BootStep, Known, Item
    <2> QED
        BY <1>1, <1>4, <2>1 DEF BootStep, Basic, BootTyped
<1> QED
    BY <1>1, <1>2, <1>3, <1>4 DEF BootNext

\* how an item that cleans up comes on the list of initialize
LEMMA ItemIs ==
    ASSUME Basic, [Next]_vars, NEW what \in {"cleanup", "remove"}, NEW x \in Workspaces, InTodo(<<what, x>>)'
    PROVE  \/ InTodo(<<what, x>>)
           \/ what = "cleanup" /\ BootRead /\ x \in Tasks /\ status[x] = "reported"
           \/ what = "cleanup" /\ (\E y : Over(y) /\ x = ParentOf[y])
           \/ what = "remove" /\ InTodo(<<"cleanup", x>>) /\ Cleanable(x) /\ UNCHANGED <<status, mutex>>
<1>1. CASE UNCHANGED boot
    BY <1>1 DEF InTodo
<1>2. CASE Crash
    BY <1>2 DEF Crash, InTodo
<1>3. CASE BootDone
    BY <1>3 DEF BootDone, InTodo, Basic, BootTyped
<1>4. CASE BootRead
    <2> DEFINE D == {y \in Item : y[1] = "remove" => FALSE} \cap {y \in Item : y[1] = "cleanup" => y[2] \in Are("reported")}
    <2>1. PICK checks \in ByAge(Alone("awaiting_report")), asks \in ByAge(Alone("running")),
               done \in ByAge(Are("reported")) :
               boot'.todo = For(checks, "check") \o For(asks, "ask")
                            \o For(IF "patch" \in Features THEN done ELSE <<>>, "patch")
                            \o For(done, "cleanup")
        BY <1>4 DEF BootRead
    <2>2. \A a : /\ Are(a) \in SUBSET Tasks /\ IsFiniteSet(Are(a))
                 /\ Alone(a) \in SUBSET Tasks /\ IsFiniteSet(Alone(a))
        BY AreIs, FS_Subset DEF Alone
    <2>3. /\ For(checks, "check") \in Seq(Item)
          /\ \A i \in DOMAIN For(checks, "check") : For(checks, "check")[i][1] = "check"
        BY <2>2, ForIs
    <2>4. /\ For(asks, "ask") \in Seq(Item)
          /\ \A i \in DOMAIN For(asks, "ask") : For(asks, "ask")[i][1] = "ask"
        BY <2>2, ForIs
    <2>5. /\ For(done, "cleanup") \in Seq(Item)
          /\ \A i \in DOMAIN For(done, "cleanup") :
                For(done, "cleanup")[i][1] = "cleanup" /\ For(done, "cleanup")[i][2] \in Are("reported")
        BY <2>2, ForIs
    <2>6. /\ For(done, "patch") \in Seq(Item)
          /\ \A i \in DOMAIN For(done, "patch") : For(done, "patch")[i][1] = "patch"
        BY <2>2, ForIs
    <2>7. ASSUME NEW q \in Seq(Item), \A i \in DOMAIN q : q[i] \in D PROVE q \in Seq(D)
        BY <2>7
    <2>8. /\ For(checks, "check") \in Seq(D) /\ For(asks, "ask") \in Seq(D) /\ For(done, "cleanup") \in Seq(D)
          /\ For(IF "patch" \in Features THEN done ELSE <<>>, "patch") \in Seq(D)
        <3>1. For(checks, "check") \in Seq(D)
            BY <2>3, <2>7
        <3>2. For(asks, "ask") \in Seq(D)
            BY <2>4, <2>7
        <3>3. For(done, "cleanup") \in Seq(D)
            BY <2>5, <2>7
        <3>4. For(done, "patch") \in Seq(D)
            BY <2>6, <2>7
        <3>5. For(<<>>, "patch") \in Seq(D)
            BY DEF For
        <3> QED
            BY <3>1, <3>2, <3>3, <3>4, <3>5
    <2> HIDE DEF D
    <2>9. boot'.todo \in Seq(D)
        BY <2>1, <2>8
    <2>10. PICK i \in DOMAIN boot'.todo : boot'.todo[i] = <<what, x>>
        BY DEF InTodo
    <2>11. <<what, x>> \in D
        BY <2>9, <2>10
    <2>12. what = "cleanup" /\ x \in Are("reported")
        BY <2>11 DEF D
    <2> QED
        BY <1>4, <2>12 DEF Are
<1>5. CASE BootStep
    <2> DEFINE w == Head(boot.todo)[1]
               t == Head(boot.todo)[2]
    <2>1. boot.todo \in Seq(Item) /\ boot.todo # <<>> /\ Known(Head(boot.todo)) /\ Listed(Tail(boot.todo))
        BY <1>5, ListedIs DEF BootStep, Basic, BootTyped
    <2>2. w \in {"check", "ask", "patch", "cleanup", "remove"} /\ t \in Workspaces /\ Head(boot.todo) = <<w, t>> /\ InTodo(<<w, t>>)
        <3>1. Head(boot.todo) = boot.todo[1] /\ 1 \in DOMAIN boot.todo
            BY <2>1
        <3>2. Head(boot.todo) \in Item
            BY <2>1 DEF Known
        <3>3. Head(boot.todo) = <<w, t>>
            BY <3>2 DEF Item
        <3> QED
            BY <3>1, <3>2, <3>3 DEF Item, InTodo
    <2>3. \A i \in DOMAIN Tail(boot.todo) : InTodo(Tail(boot.todo)[i])
        <3>1. \A i \in DOMAIN Tail(boot.todo) : i + 1 \in DOMAIN boot.todo /\ Tail(boot.todo)[i] = boot.todo[i + 1]
            BY <2>1
        <3> QED
            BY <3>1 DEF InTodo
    <2>4. CASE boot' = [boot EXCEPT !.todo = Tail(@)]
        BY <2>3, <2>4 DEF InTodo, Basic, BootTyped
    <2>5. ASSUME NEW y \in Item, boot' = [boot EXCEPT !.todo = <<y>> \o Tail(@)]
          PROVE  InTodo(<<what, x>>) \/ y = <<what, x>>
        <3>1. boot'.todo = <<y>> \o Tail(boot.todo)
            BY <2>5 DEF Basic, BootTyped
        <3>2. PICK i \in DOMAIN boot'.todo : boot'.todo[i] = <<what, x>>
            BY DEF InTodo
        <3>3. Tail(boot.todo) \in Seq(Item)
            BY <2>1
        <3>4. boot'.todo[i] = y \/ (i - 1 \in DOMAIN Tail(boot.todo) /\ boot'.todo[i] = Tail(boot.todo)[i - 1])
            BY <3>1, <3>2, <3>3, FirstIs
        <3> QED
            BY <2>3, <3>2, <3>4
    <2>6. CASE w = "check" /\ boot' = [boot EXCEPT !.todo = <<<<"ask", t>>>> \o Tail(@)]
        BY <2>2, <2>5, <2>6 DEF Item
    <2>7. CASE w = "cleanup" /\ Cleanable(t) /\ UNCHANGED <<status, mutex>>
               /\ boot' = [boot EXCEPT !.todo = <<<<"remove", t>>>> \o Tail(@)]
        BY <2>2, <2>5, <2>7 DEF Item
    <2>8. CASE w = "remove" /\ boot' = [boot EXCEPT !.todo = <<<<"cleanup", ParentOf[t]>>>> \o Tail(@)]
        <3>1. Over(t) /\ ParentOf[t] \in Workspaces
            BY <2>1, <2>2, <2>8, Tree DEF Known, Over
        <3>2. <<"cleanup", ParentOf[t]>> \in Item
            BY <3>1 DEF Item
        <3> QED
            BY <2>5, <2>8, <3>1, <3>2
    <2> QED
        BY <1>5, <2>2, <2>4, <2>6, <2>7, <2>8 DEF BootStep
<1> QED
    BY <1>1, <1>2, <1>3, <1>4, <1>5, BootIs DEF BootNext

\* who removes a task
LEMMA RemovedIs ==
    ASSUME Basic, [Next]_vars, NEW x \in Tasks, status[x] # "removed", status'[x] = "removed"
    PROVE  \/ CreateSent /\ x = mutex.task /\ "fail" \in Features /\ UNCHANGED stream
           \/ TerminateRemove /\ x = This /\ RemoveWorkspace(x)
           \/ \E w \in Tasks : CleanupRemove(w) /\ x = handler[w].on /\ RemoveWorkspace(x)
           \/ BootStep /\ InTodo(<<"remove", x>>) /\ RemoveWorkspace(x)
<1>1. CASE ToolStep \/ UNCHANGED vars \/ Crash \/ (\E v \in Waits : WaitRead(v) \/ WaitTimeout(v))
           \/ (\E w \in Workspaces : StreamEnds(w) \/ StreamFails(w))
    <2>1. UNCHANGED status
        BY <1>1 DEF ToolStep, CreateBegin, Terminate, WaitCall, WaitRead, WaitTimeout, StreamEnds, StreamFails,
            Crash, vars, config
    <2> QED
        BY <2>1
<1>2. ASSUME NEW w \in Workspaces, Send(w) PROVE FALSE
    BY <1>2 DEF Send, Basic, ConfigTyped
<1>3. CASE UserStep \/ RootStep
    <2>1. UNCHANGED status \/ \E w \in Workspaces : Send(w)
        BY <1>3, Tree DEF UserStep, RootStep, UserSend, UserQueues, UserStop, RootEnd, RootSweep, Nudge, config
    <2> QED
        BY <1>2, <2>1
<1>4. CASE MutexStep
    <2>1. CASE CreateStored
        BY <2>1 DEF CreateStored, config, Basic, ConfigTyped
    <2>2. CASE CreateSent
        BY <2>2 DEF CreateSent, Basic, ConfigTyped
    <2>3. CASE SchedRecheck \/ SchedSend \/ SchedMark \/ CascadeEdit
        <3>1. This \in Tasks
            BY <2>3, HeadIs DEF SchedRecheck, SchedSend, SchedMark, CascadeEdit, Holding, Basic, MutexTyped, MutexPhases
        <3>2. UNCHANGED status \/ \E s \in {"interrupted", "running", status[This]} : status' = [status EXCEPT ![This] = s]
            BY <2>3 DEF SchedRecheck, SchedSend, SchedMark, CascadeEdit, config
        <3> QED
            BY <3>1, <3>2 DEF Basic, ConfigTyped
    <2>4. CASE TerminateRemove
        BY <2>4 DEF TerminateRemove, RemoveWorkspace, config, Basic, ConfigTyped
    <2>5. CASE (\E c \in Workspaces : SchedBegin(c) \/ CascadeBegin(c)) \/ SchedPick \/ CascadeStop
               \/ TerminateStop \/ TerminateReject
        <3>1. UNCHANGED status
            BY <2>5 DEF SchedBegin, CascadeBegin, SchedPick, CascadeStop, TerminateStop, TerminateReject, config
        <3> QED
            BY <3>1
    <2> QED
        BY <1>4, <2>1, <2>2, <2>3, <2>4, <2>5 DEF MutexStep
<1>5. CASE BootNext
    <2>1. CASE BootRead \/ BootDone
        BY <2>1 DEF BootRead, BootDone, config
    <2>2. CASE BootStep
        <3> DEFINE what == Head(boot.todo)[1]
                   t == Head(boot.todo)[2]
        <3>1. boot.todo \in Seq(Item) /\ boot.todo # <<>> /\ Known(Head(boot.todo))
            BY <2>2, ListedIs DEF BootStep, Basic, BootTyped
        <3>2. Head(boot.todo) = boot.todo[1] /\ 1 \in DOMAIN boot.todo
            BY <3>1
        <3>3. Head(boot.todo) \in Item
            BY <3>1 DEF Known
        <3>4. Head(boot.todo) = <<what, t>> /\ InTodo(Head(boot.todo)) /\ t \in Workspaces
              /\ what \in {"check", "ask", "patch", "cleanup", "remove"}
            BY <3>2, <3>3 DEF Item, InTodo
        <3>5. UNCHANGED status \/ Send(t) \/ (what = "remove" /\ RemoveWorkspace(t))
            BY <2>2, <3>4 DEF BootStep
        <3> QED
            BY <1>2, <2>2, <3>4, <3>5 DEF RemoveWorkspace, Basic, ConfigTyped
    <2> QED
        BY <1>5, <2>1, <2>2 DEF BootNext
<1>6. ASSUME NEW t \in Tasks, HandlerStep(t)
      PROVE  CleanupRemove(t) /\ x = handler[t].on /\ RemoveWorkspace(x)
    <2>1. CASE Ask(t) \/ ResumeParent(t)
        BY <1>2, <2>1, Tree DEF Ask, ResumeParent
    <2>2. CASE TaskEvent(t) \/ PlanRead(t) \/ MarkReported(t) \/ ResumeSent(t)
        <3>1. UNCHANGED status \/ \E s \in {"interrupted", "running", "awaiting_report", "reported", status[t]} :
                status' = [status EXCEPT ![t] = s]
            BY <2>2 DEF TaskEvent, PlanRead, MarkReported, ResumeSent, SetStatus
        <3> QED
            BY <3>1 DEF Basic, ConfigTyped
    <2>3. CASE CleanupRemove(t)
        BY <2>3 DEF CleanupRemove, RemoveWorkspace, config, Basic, ConfigTyped
    <2>4. CASE PromptCheck(t) \/ Persist(t) \/ Deliver(t) \/ ResolveLate(t) \/ ParentResume(t) \/ CleanupCheck(t) \/ PatchDone(t)
        <3>1. UNCHANGED status
            BY <2>4 DEF PromptCheck, Persist, Deliver, ResolveLate, ParentResume, CleanupCheck, PatchDone, config
        <3> QED
            BY <3>1
    <2> QED
        BY <1>6, <2>1, <2>2, <2>3, <2>4 DEF HandlerStep
<1> QED
    BY <1>1, <1>3, <1>4, <1>5, <1>6 DEF Next

\* and that it has no children then, nor a stream, nor a tool call
LEMMA RemovesLeaf ==
    ASSUME Basic, Family, Quiet, [Next]_vars, NEW x \in Tasks, status[x] # "removed", status'[x] = "removed"
    PROVE  /\ Leaf(x) /\ x \notin streaming' /\ ~ (Creating /\ Parent = x)
           /\ Sending /\ UNCHANGED mutex => x # mutex.task
<1>1. ASSUME RemoveWorkspace(x) PROVE x \notin streaming'
    BY <1>1 DEF RemoveWorkspace
<1>2. CASE CreateSent /\ x = mutex.task /\ "fail" \in Features /\ UNCHANGED stream
    <2>1. Sending /\ mutex'.kind = "free"
        BY <1>2 DEF CreateSent, Holding, Sending, Release, Free
    <2>2. Leaf(x)
        BY <1>2, <2>1, NoChild, PresentIs DEF Leaf, Sending
    <2>3. boot.at = "up"
        BY <1>2 DEF Quiet, Family, NoCrash, Up
    <2>4. x \notin streaming'
        BY <1>2, <2>1, <2>3 DEF Family, NewRuns, Fresh, Marking, stream, Sending
    <2> QED
        BY <2>1, <2>2, <2>4 DEF Creating, Sending
<1>3. CASE TerminateRemove /\ x = This /\ RemoveWorkspace(x)
    <2>1. mutex.kind = "terminate" /\ mutex.todo \in Seq(Tasks) /\ mutex.todo # <<>>
        BY <1>3 DEF TerminateRemove, Holding, Basic, MutexPhases, MutexTyped, MutexT
    <2>2. 1 \in DOMAIN mutex.todo /\ x = mutex.todo[1] /\ \A j \in DOMAIN mutex.todo : ~ (j < 1)
        BY <1>3, <2>1 DEF This
    <2>3. Leaf(x)
        BY <2>1, <2>2 DEF Leaf, Family, LeavesAreFirst
    <2> QED
        BY <1>1, <1>3, <2>1, <2>3 DEF Creating, Sending
<1>4. CASE \E w \in Tasks : CleanupRemove(w) /\ x = handler[w].on /\ RemoveWorkspace(x)
    <2>1. PICK w \in Tasks : handler[w].at = "remove" /\ x = handler[w].on
        BY <1>4 DEF CleanupRemove, At
    <2> QED
        BY <1>1, <1>4, <2>1 DEF Family, Removables, Removable, NewStays, Cleaner
<1>5. CASE BootStep /\ InTodo(<<"remove", x>>) /\ RemoveWorkspace(x)
    BY <1>1, <1>5 DEF Family, Removables, Removable, NewStays
<1> QED
    BY <1>2, <1>3, <1>4, <1>5, RemovedIs

\* who streams from now on is there
LEMMA StreamsIs ==
    ASSUME Basic, Family, [Next]_vars, NEW w \in Tasks, w \in streaming', w \notin streaming
    PROVE  status'[w] \notin {"none", "removed"}
<1>1. ASSUME NEW u \in Workspaces, Send(u) PROVE status'[w] \notin {"none", "removed"}
    BY <1>1, PresentIs DEF Send, stream, Begin, Sendable
<1>2. CASE ToolStep \/ UNCHANGED vars \/ Crash \/ (\E v \in Waits : WaitRead(v) \/ WaitTimeout(v))
           \/ (\E u \in Workspaces : StreamEnds(u) \/ StreamFails(u))
    BY <1>2 DEF ToolStep, CreateBegin, Terminate, WaitCall, WaitRead, WaitTimeout, StreamEnds, StreamFails,
            Crash, vars, stream
<1>3. CASE UserStep \/ RootStep
    <2>1. streaming' \subseteq streaming \/ \E u \in Workspaces : Send(u)
        BY <1>3, Tree DEF UserStep, RootStep, UserSend, UserQueues, UserStop, RootEnd, RootSweep, Nudge, stream
    <2> QED
        BY <1>1, <2>1
<1>4. CASE MutexStep
    <2>1. CASE CreateSent
        BY <2>1 DEF CreateSent, Holding, Sending, Begin, stream, Family, NewStays, Basic, MutexPhases, Unborn
    <2>2. CASE SchedSend
        <3>1. status[This] = "queued"
            BY <2>2 DEF SchedSend, Holding, Basic, MutexPhases, This
        <3> QED
            BY <2>2, <3>1 DEF SchedSend, Begin, stream, config
    <2>3. CASE CreateStored \/ SchedMark \/ SchedRecheck \/ CascadeEdit \/ TerminateRemove
               \/ (\E c \in Workspaces : SchedBegin(c) \/ CascadeBegin(c)) \/ SchedPick \/ CascadeStop
               \/ TerminateStop \/ TerminateReject
        BY <2>3 DEF CreateStored, SchedMark, SchedRecheck, CascadeEdit, TerminateRemove, RemoveWorkspace, SchedBegin,
            CascadeBegin, SchedPick, CascadeStop, TerminateStop, TerminateReject, Halt, stream
    <2> QED
        BY <1>4, <2>1, <2>2, <2>3 DEF MutexStep
<1>5. CASE BootNext
    <2>1. CASE BootRead \/ BootDone
        BY <2>1 DEF BootRead, BootDone, stream
    <2>2. CASE BootStep
        <3>1. Known(Head(boot.todo))
            BY <2>2, ListedIs DEF BootStep
        <3>2. Head(boot.todo)[2] \in Workspaces /\ Head(boot.todo)[1] \in {"check", "ask", "patch", "cleanup", "remove"}
            BY <3>1 DEF Known, Item
        <3> QED
            BY <1>1, <2>2, <3>2 DEF BootStep, RemoveWorkspace, stream
    <2> QED
        BY <1>5, <2>1, <2>2 DEF BootNext
<1>6. CASE \E t \in Tasks : HandlerStep(t)
    <2>1. PICK t \in Tasks : HandlerStep(t)
        BY <1>6
    <2>2. CASE Ask(t) \/ ResumeParent(t)
        BY <1>1, <2>2, Tree DEF Ask, ResumeParent
    <2>3. CASE ResumeSent(t)
        BY <2>3, PresentIs DEF ResumeSent, Sendable, Begin, stream
    <2>4. CASE TaskEvent(t) \/ PlanRead(t) \/ MarkReported(t) \/ CleanupRemove(t) \/ PromptCheck(t) \/ Persist(t) \/ Deliver(t)
               \/ ResolveLate(t) \/ ParentResume(t) \/ CleanupCheck(t) \/ PatchDone(t)
        BY <2>4 DEF TaskEvent, PlanRead, MarkReported, CleanupRemove, RemoveWorkspace, PromptCheck, Persist, Deliver,
            ResolveLate, ParentResume, CleanupCheck, PatchDone, stream
    <2> QED
        BY <2>1, <2>2, <2>3, <2>4 DEF HandlerStep
<1> QED
    BY <1>2, <1>3, <1>4, <1>5, <1>6 DEF Next

\* the tool call of create keeps the stream of its parent
LEMMA CreatorStreams ==
    ASSUME Basic, Family, Quiet, [Next]_vars, Creating, UNCHANGED mutex, Parent \in Tasks, Parent \in streaming
    PROVE  Parent \in streaming'
<1>1. mutex.kind = "create" /\ mutex.at # "send" /\ mutex # Free /\ mutex.task \in Tasks /\ mutex.task # Root
    BY Tree DEF Creating, Free, Basic, MutexPhases
<1>2. CASE ToolStep \/ UNCHANGED vars \/ (\E v \in Waits : WaitRead(v) \/ WaitTimeout(v))
    BY <1>2 DEF ToolStep, CreateBegin, Terminate, WaitCall, WaitRead, WaitTimeout, vars, stream
<1>3. CASE Crash
    BY <1>1, <1>3 DEF Crash
<1>4. CASE \E u \in Workspaces : StreamEnds(u) \/ StreamFails(u)
    BY <1>1, <1>4 DEF StreamEnds, StreamFails, Calling, Parent
<1>5. ASSUME NEW u, Send(u) PROVE streaming \subseteq streaming'
    BY <1>5 DEF Send, Begin, stream
<1>6. CASE UserStep \/ RootStep
    <2>1. PICK u \in Workspaces : UserSend(u) \/ UserQueues(u) \/ UserStop(u) \/ RootStep
        BY <1>6, Tree DEF UserStep
    <2>2. CASE UserStop(u)
        BY <2>2, Tree DEF UserStop, Quiet
    <2> QED
        BY <1>5, <2>1, <2>2 DEF UserSend, UserQueues, RootStep, RootEnd, RootSweep, Nudge, stream
<1>7. CASE MutexStep
    <2>1. ~ CreateSent /\ ~ SchedPick /\ ~ SchedRecheck /\ ~ SchedSend /\ ~ SchedMark /\ ~ CascadeStop /\ ~ CascadeEdit
          /\ ~ TerminateStop /\ ~ TerminateReject /\ ~ TerminateRemove
          /\ \A c \in Workspaces : ~ SchedBegin(c) /\ ~ CascadeBegin(c)
        BY <1>1 DEF CreateSent, SchedPick, SchedRecheck, SchedSend, SchedMark, CascadeStop, CascadeEdit, TerminateStop,
            TerminateReject, TerminateRemove, SchedBegin, CascadeBegin, Holding
    <2>2. CASE CreateStored
        BY <2>2 DEF CreateStored, stream
    <2> QED
        BY <1>7, <2>1, <2>2 DEF MutexStep
<1>8. CASE BootNext
    <2>1. CASE BootRead \/ BootDone
        BY <2>1 DEF BootRead, BootDone, stream
    <2>2. CASE BootStep
        <3> DEFINE what == Head(boot.todo)[1]
                   t == Head(boot.todo)[2]
        <3>1. boot.todo \in Seq(Item) /\ boot.todo # <<>> /\ Known(Head(boot.todo))
            BY <2>2, ListedIs DEF BootStep, Basic, BootTyped
        <3>2. Head(boot.todo) = boot.todo[1] /\ 1 \in DOMAIN boot.todo /\ Head(boot.todo) \in Item
            BY <3>1 DEF Known
        <3>3. InTodo(<<what, t>>) /\ what \in {"check", "ask", "patch", "cleanup", "remove"}
            BY <3>2 DEF Item, InTodo
        <3>4. CASE what = "remove" /\ RemoveWorkspace(t)
            <4>1. t \in Tasks
                BY <3>1, <3>4 DEF Known, Over
            <4>2. Removable(t)
                BY <3>3, <3>4, <4>1 DEF Family, Removables
            <4> QED
                BY <3>4, <4>2 DEF Removable, RemoveWorkspace
        <3>5. CASE UNCHANGED stream \/ Send(t)
            BY <1>5, <3>5 DEF stream
        <3> QED
            BY <2>2, <3>3, <3>4, <3>5 DEF BootStep
    <2> QED
        BY <1>8, <2>1, <2>2 DEF BootNext
<1>9. CASE \E t \in Tasks : HandlerStep(t)
    <2>1. PICK t \in Tasks : HandlerStep(t)
        BY <1>9
    <2>2. CASE Ask(t) \/ ResumeParent(t)
        BY <1>5, <2>2 DEF Ask, ResumeParent
    <2>3. CASE CleanupRemove(t)
        BY <2>3 DEF CleanupRemove, At, RemoveWorkspace, stream, Family, Removables, Removable
    <2>4. CASE TaskEvent(t) \/ PlanRead(t) \/ MarkReported(t) \/ ResumeSent(t) \/ PromptCheck(t) \/ Persist(t) \/ Deliver(t)
               \/ ResolveLate(t) \/ ParentResume(t) \/ CleanupCheck(t) \/ PatchDone(t)
        BY <2>4 DEF TaskEvent, PlanRead, MarkReported, ResumeSent, Begin, PromptCheck, Persist, Deliver,
            ResolveLate, ParentResume, CleanupCheck, PatchDone, stream
    <2> QED
        BY <2>1, <2>2, <2>3, <2>4 DEF HandlerStep
<1> QED
    BY <1>2, <1>3, <1>4, <1>6, <1>7, <1>8, <1>9 DEF Next

-----------------------------------------------------------------------------
(* While the first message of a task is being sent.                        *)
LEMMA BusyIs ==
    ASSUME Sending, UNCHANGED mutex
    PROVE  ~ MutexStep /\ ~ Crash /\ \A t \in Tasks : ~ CreateBegin(t) /\ ~ Terminate(t)
<1>1. mutex.kind = "create" /\ mutex.at = "send" /\ mutex # Free /\ mutex' # Free
    BY DEF Sending, Free
<1> QED
    BY <1>1 DEF MutexStep, CreateStored, CreateSent, SchedPick, SchedRecheck, SchedSend, SchedMark, CascadeStop, CascadeEdit,
        TerminateStop, TerminateReject, TerminateRemove, SchedBegin, CascadeBegin, Holding, Release, Crash,
        CreateBegin, Terminate

\* a report comes from the task's own handler
LEMMA ReportedIs ==
    ASSUME Basic, [Next]_vars, NEW x \in Tasks, status[x] # "reported", status'[x] = "reported"
    PROVE  MarkReported(x) /\ handler'[x].at = "persist"
<1>1. CASE ToolStep \/ UNCHANGED vars \/ Crash \/ (\E v \in Waits : WaitRead(v) \/ WaitTimeout(v))
           \/ (\E w \in Workspaces : StreamEnds(w) \/ StreamFails(w))
    <2>1. UNCHANGED status
        BY <1>1 DEF ToolStep, CreateBegin, Terminate, WaitCall, WaitRead, WaitTimeout, StreamEnds, StreamFails,
            Crash, vars, config
    <2> QED
        BY <2>1
<1>2. ASSUME NEW w \in Workspaces, Send(w) PROVE FALSE
    BY <1>2, SendIs
<1>3. CASE UserStep \/ RootStep
    <2>1. UNCHANGED status \/ \E w \in Workspaces : Send(w)
        BY <1>3, Tree DEF UserStep, RootStep, UserSend, UserQueues, UserStop, RootEnd, RootSweep, Nudge, config
    <2> QED
        BY <1>2, <2>1
<1>4. CASE MutexStep
    <2>1. CASE CreateStored \/ CreateSent
        BY <2>1 DEF CreateStored, CreateSent, config, Basic, ConfigTyped
    <2>2. CASE SchedRecheck \/ SchedSend \/ SchedMark \/ CascadeEdit \/ TerminateRemove
        <3>1. This \in Tasks
            BY <2>2, HeadIs DEF SchedRecheck, SchedSend, SchedMark, CascadeEdit, TerminateRemove, Holding, Basic, MutexTyped, MutexPhases
        <3>2. UNCHANGED status \/ \E s \in {"interrupted", "running", "removed", status[This]} : status' = [status EXCEPT ![This] = s]
            BY <2>2 DEF SchedRecheck, SchedSend, SchedMark, CascadeEdit, TerminateRemove, RemoveWorkspace, config
        <3> QED
            BY <3>1, <3>2 DEF Basic, ConfigTyped
    <2>3. CASE (\E c \in Workspaces : SchedBegin(c) \/ CascadeBegin(c)) \/ SchedPick \/ CascadeStop
               \/ TerminateStop \/ TerminateReject
        <3>1. UNCHANGED status
            BY <2>3 DEF SchedBegin, CascadeBegin, SchedPick, CascadeStop, TerminateStop, TerminateReject, config
        <3> QED
            BY <3>1
    <2> QED
        BY <1>4, <2>1, <2>2, <2>3 DEF MutexStep
<1>5. CASE BootNext
    <2>1. CASE BootRead \/ BootDone
        BY <2>1 DEF BootRead, BootDone, config
    <2>2. CASE BootStep
        <3>1. Known(Head(boot.todo))
            BY <2>2, ListedIs DEF BootStep
        <3>2. Head(boot.todo)[2] \in Workspaces /\ Head(boot.todo)[1] \in {"check", "ask", "patch", "cleanup", "remove"}
            BY <3>1 DEF Known, Item
        <3> QED
            BY <1>2, <2>2, <3>2 DEF BootStep, RemoveWorkspace, Basic, ConfigTyped
    <2> QED
        BY <1>5, <2>1, <2>2 DEF BootNext
<1>6. ASSUME NEW t \in Tasks, HandlerStep(t)
      PROVE  MarkReported(x) /\ handler'[x].at = "persist"
    <2>1. CASE Ask(t) \/ ResumeParent(t)
        BY <1>2, <2>1, Tree DEF Ask, ResumeParent
    <2>2. CASE TaskEvent(t) \/ PlanRead(t) \/ ResumeSent(t)
        <3>1. UNCHANGED status \/ \E s \in {"interrupted", "running", "awaiting_report", status[t]} :
                status' = [status EXCEPT ![t] = s]
            BY <2>2 DEF TaskEvent, PlanRead, ResumeSent, SetStatus
        <3> QED
            BY <3>1 DEF Basic, ConfigTyped
    <2>5. CASE CleanupRemove(t)
        BY <2>5 DEF CleanupRemove, RemoveWorkspace, config, Basic, ConfigTyped
    <2>3. CASE MarkReported(t)
        <3>1. UNCHANGED status \/ (status' = [status EXCEPT ![t] = IF Present(t) THEN "reported" ELSE @] /\ Move(t, "persist"))
            BY <2>3 DEF MarkReported
        <3>2. x = t /\ Move(t, "persist")
            BY <3>1 DEF Basic, ConfigTyped
        <3> QED
            BY <2>3, <3>2, MoveIs, Tree DEF Basic, Step
    <2>4. CASE PromptCheck(t) \/ Persist(t) \/ Deliver(t) \/ ResolveLate(t) \/ ParentResume(t) \/ CleanupCheck(t) \/ PatchDone(t)
        <3>1. UNCHANGED status
            BY <2>4 DEF PromptCheck, Persist, Deliver, ResolveLate, ParentResume, CleanupCheck, PatchDone, config
        <3> QED
            BY <3>1
    <2> QED
        BY <1>6, <2>1, <2>2, <2>3, <2>4, <2>5 DEF HandlerStep
<1> QED
    BY <1>1, <1>3, <1>4, <1>5, <1>6 DEF Next

\* whoever asks for the scheduler waits for the mutex, and a handler that delivers a report does
LEMMA StillDelivers ==
    ASSUME Basic, [Next]_vars, Sending, UNCHANGED mutex, NEW n \in Tasks, Delivering(n)
    PROVE  Delivering(n)'
<1>1. ~ MutexStep /\ ~ Crash /\ \A t \in Tasks : ~ CreateBegin(t) /\ ~ Terminate(t)
    BY BusyIs
<1>2. CASE UserStep \/ ToolStep \/ BootNext \/ (\E w \in Workspaces : StreamEnds(w) \/ StreamFails(w))
           \/ (\E v \in Waits : WaitRead(v) \/ WaitTimeout(v)) \/ UNCHANGED vars
    <2>1. UNCHANGED handler /\ sched \subseteq sched'
        BY <1>1, <1>2 DEF UserStep, ToolStep, BootNext, UserSend, UserQueues, UserStop, WaitCall, Register, BootRead,
            BootStep, BootDone, StreamEnds, StreamFails, WaitRead, WaitTimeout, vars
    <2> QED
        BY <2>1 DEF Delivering
<1>3. CASE RootStep
    <2>1. UNCHANGED sched
        BY <1>3 DEF RootStep, RootEnd, RootSweep, Nudge
    <2>2. handler'[n] = handler[n]
        BY <1>3, RootAlone
    <2> QED
        BY <2>1, <2>2 DEF Delivering
<1>4. ASSUME NEW t \in Tasks, HandlerStep(t) PROVE sched \subseteq sched'
    BY <1>4 DEF HandlerStep, TaskEvent, PlanRead, PromptCheck, Ask, MarkReported, Persist, Deliver, ResolveLate, Resolve,
        ParentResume, ResumeParent, CleanupCheck, CleanupRemove, PatchDone, ResumeSent
<1>5. ASSUME NEW t \in Tasks, HandlerStep(t), t # n PROVE Delivering(n)'
    BY <1>4, <1>5, HandlerAlone, Tree DEF Delivering
<1>6. CASE HandlerStep(n)
    <2>1. HandlerTyped /\ n \in Workspaces
        BY Tree DEF Basic
    <2>2. CASE PatchDone(n) \/ ResumeSent(n)
        BY <2>2 DEF PatchDone, ResumeSent, Delivering
    <2>3. CASE Persist(n)
        BY <2>1, <2>3, MoveIs DEF Persist, Step, Delivering
    <2>4. CASE Deliver(n) \/ ResolveLate(n)
        <3>1. CASE Resolve(n)
            BY <3>1, ResolveIs DEF Resolve, Delivering
        <3>2. CASE Move(n, "resolve")
            BY <2>1, <3>2, MoveIs DEF Step, Delivering
        <3> QED
            BY <2>4, <3>1, <3>2 DEF Deliver, ResolveLate
    <2>5. ~ TaskEvent(n) /\ ~ PlanRead(n) /\ ~ PromptCheck(n) /\ ~ Ask(n) /\ ~ MarkReported(n) /\ ~ ParentResume(n)
          /\ ~ ResumeParent(n) /\ ~ CleanupCheck(n) /\ ~ CleanupRemove(n)
        BY DEF Delivering, TaskEvent, Waiting, PlanRead, PromptCheck, Ask, MarkReported, ParentResume, Served,
            ResumeParent, CleanupCheck, CleanupRemove, At
    <2> QED
        BY <1>6, <2>2, <2>3, <2>4, <2>5 DEF HandlerStep
<1> QED
    BY <1>1, <1>2, <1>3, <1>5, <1>6 DEF Next

LEMMA StillNew ==
    ASSUME Basic, Family, Quiet, [Next]_vars, Sending, UNCHANGED <<mutex, boot>>, boot.at \in {"up", "slots"}
    PROVE  NewRuns'
<1> DEFINE n == mutex.task
<1>1. n \in Tasks /\ n \in Workspaces /\ n # Root /\ Fresh(n) /\ status[n] = "running" /\ n \notin streaming
    BY Tree DEF Sending, Basic, MutexPhases, Family, NewRuns, Fresh, Marking
<1>2. ~ MutexStep /\ ~ Crash /\ \A t \in Tasks : ~ CreateBegin(t) /\ ~ Terminate(t)
    BY BusyIs
<1> SUFFICES Fresh(n)' /\ status'[n] = "running"
    BY DEF NewRuns
<1>3. ASSUME NEW u \in Workspaces, u # n, Send(u)
      PROVE  n \notin streaming' \cup resuming' /\ status'[n] = "running"
    BY <1>1, <1>3 DEF Send, Begin, stream, Fresh, Basic, ConfigTyped
<1>4. CASE UserStep \/ RootStep
    <2>1. n \notin streaming' \cup resuming' /\ status'[n] = "running"
        <3>1. CASE UserStep
            BY <1>1, <1>3, <3>1, Tree DEF UserStep, UserSend, UserQueues, UserStop, Quiet, stream, config, Fresh
        <3>2. CASE Nudge
            BY <1>1, <1>3, <3>2, Tree DEF Nudge
        <3>3. CASE RootEnd \/ RootSweep
            BY <1>1, <3>3 DEF RootEnd, RootSweep, config, stream, Fresh
        <3> QED
            BY <1>4, <3>1, <3>2, <3>3 DEF RootStep
    <2>2. UNCHANGED patching
        BY <1>4 DEF UserStep, RootStep, UserSend, UserQueues, UserStop, RootEnd, RootSweep, Nudge, memory
    <2>3. handler'[n] = handler[n] /\ events'[n] = events[n]
        <3>1. CASE UserStep
            BY <3>1 DEF UserStep, UserSend, UserQueues, UserStop
        <3> QED
            BY <1>1, <1>4, <3>1, RootAlone DEF Over
    <2> QED
        BY <1>1, <2>1, <2>2, <2>3 DEF Fresh, Marking
<1>5. CASE ToolStep \/ UNCHANGED vars \/ (\E v \in Waits : WaitRead(v) \/ WaitTimeout(v))
           \/ (\E u \in Workspaces : StreamEnds(u) \/ StreamFails(u))
    <2>1. UNCHANGED <<status, handler, resuming, patching>> /\ streaming' \subseteq streaming
        BY <1>2, <1>5 DEF ToolStep, WaitCall, WaitRead, WaitTimeout, StreamEnds, StreamFails, vars, config, stream, memory
    <2>2. UNCHANGED events \/ \E u \in Workspaces : \E e : u # n /\ Queue(u, e)
        <3>1. CASE ToolStep
            <4>1. PICK v \in Waits, t \in Tasks : WaitCall(v, t)
                BY <1>2, <3>1 DEF ToolStep
            <4> QED
                BY <4>1, Tree DEF WaitCall, Register, Sending
        <3>2. CASE \E v \in Waits : WaitRead(v) \/ WaitTimeout(v)
            <4>1. PICK v \in Waits : WaitRead(v) \/ WaitTimeout(v)
                BY <3>2
            <4>2. CASE WaitTimeout(v)
                BY <4>2 DEF WaitTimeout
            <4>3. CASE WaitRead(v)
                <5>1. UNCHANGED events \/ (Register(v, wait[v].task) /\ wait[v].task \in streaming)
                    BY <4>3 DEF WaitRead
                <5>2. wait[v].task \in Workspaces
                    BY DEF Basic, WaitTyped, WaitT
                <5> QED
                    BY <1>1, <5>1, <5>2 DEF Register, Fresh, Marking
            <4> QED
                BY <4>1, <4>2, <4>3
        <3>3. CASE \E u \in Workspaces : StreamEnds(u) \/ StreamFails(u)
            BY <1>1, <3>3 DEF StreamEnds, StreamFails, Fresh, Marking
        <3> QED
            BY <1>5, <3>1, <3>2, <3>3 DEF vars
    <2>3. events'[n] = events[n]
        BY <1>1, <2>2 DEF Queue, Basic, EventsTyped
    <2> QED
        BY <1>1, <2>1, <2>3 DEF Fresh, Marking
<1>6. CASE BootNext
    <2>1. BootStep \/ BootDone => boot.at = "tasks"
        BY DEF BootStep, BootDone
    <2>2. ~ BootRead
        BY DEF BootRead
    <2> QED
        BY <1>6, <2>1, <2>2 DEF BootNext
<1>7. ASSUME NEW t \in Tasks, HandlerStep(t) PROVE Fresh(n)' /\ status'[n] = "running"
    <2>1. t # n
        <3>1. ~ PatchDone(n) /\ ~ ResumeSent(n) /\ ~ TaskEvent(n)
            BY <1>1 DEF Fresh, Marking, PatchDone, ResumeSent, TaskEvent, Waiting
        <3>2. ~ PlanRead(n) /\ ~ PromptCheck(n) /\ ~ Ask(n) /\ ~ MarkReported(n) /\ ~ Persist(n) /\ ~ Deliver(n)
              /\ ~ ResolveLate(n) /\ ~ ParentResume(n) /\ ~ ResumeParent(n) /\ ~ CleanupCheck(n) /\ ~ CleanupRemove(n)
            BY <1>1 DEF Fresh, Marking, PlanRead, PromptCheck, Ask, MarkReported, Persist, Deliver, ResolveLate, ParentResume,
                ResumeParent, CleanupCheck, CleanupRemove, At
        <3> QED
            BY <1>7, <3>1, <3>2 DEF HandlerStep
    <2>2. handler'[n] = handler[n] /\ events'[n] = events[n]
        BY <1>1, <1>7, <2>1, HandlerAlone
    <2>3. n \notin patching'
        BY <1>1, <1>7, <2>1 DEF Fresh, Marking, memory, HandlerStep, TaskEvent, PlanRead, PromptCheck, Ask, MarkReported, Persist,
            Deliver, ResolveLate, ParentResume, ResumeParent, CleanupCheck, CleanupRemove, PatchDone, ResumeSent
    <2>4. CASE Ask(t)
        BY <1>1, <1>3, <2>1, <2>2, <2>3, <2>4, Tree DEF Ask, Fresh, Marking
    <2>5. CASE ResumeParent(t)
        <3>1. status[t] # "none"
            BY <2>5, AtWork DEF ResumeParent, At, Unborn
        <3>2. ParentOf[t] # n
            BY <1>1, <3>1, NoChild DEF Sending
        <3> QED
            BY <1>1, <1>3, <2>2, <2>3, <2>5, <3>2, Tree DEF ResumeParent, Fresh, Marking
    <2>6. CASE CleanupRemove(t)
        <3>1. handler[t].on # n
            BY <1>1, <2>1, <2>6 DEF CleanupRemove, At, Family, NewStays, Cleaner
        <3> QED
            BY <1>1, <2>2, <2>3, <2>6, <3>1 DEF CleanupRemove, RemoveWorkspace, stream, config, Fresh, Marking,
                Basic, ConfigTyped
    <2>7. CASE TaskEvent(t) \/ PlanRead(t) \/ MarkReported(t) \/ ResumeSent(t) \/ PromptCheck(t) \/ Persist(t) \/ Deliver(t)
               \/ ResolveLate(t) \/ ParentResume(t) \/ CleanupCheck(t) \/ PatchDone(t)
        <3>1. status'[n] = status[n]
            <4>1. UNCHANGED status \/ \E s : status' = [status EXCEPT ![t] = s]
                BY <2>7 DEF TaskEvent, PlanRead, MarkReported, ResumeSent, SetStatus, PromptCheck, Persist, Deliver,
                    ResolveLate, ParentResume, CleanupCheck, PatchDone, config
            <4> QED
                BY <1>1, <2>1, <4>1 DEF Basic, ConfigTyped
        <3>2. streaming' \subseteq streaming \cup {t} /\ resuming' \subseteq resuming
            BY <2>7 DEF TaskEvent, PlanRead, MarkReported, ResumeSent, Begin, PromptCheck, Persist, Deliver,
                ResolveLate, ParentResume, CleanupCheck, PatchDone, stream
        <3> QED
            BY <1>1, <2>1, <2>2, <2>3, <3>1, <3>2 DEF Fresh, Marking
    <2> QED
        BY <1>7, <2>4, <2>5, <2>6, <2>7 DEF HandlerStep
<1> QED
    BY <1>2, <1>4, <1>5, <1>6, <1>7 DEF Next

-----------------------------------------------------------------------------
(* Every step keeps a family together.                                     *)

\* how a first message comes to be sent
LEMMA SendingIs ==
    ASSUME Basic, [Next]_vars, Sending'
    PROVE  \/ Sending /\ UNCHANGED mutex
           \/ /\ Creating /\ mutex'.task = mutex.task /\ status[mutex.task] = "none" /\ status'[mutex.task] = "running"
              /\ UNCHANGED <<streaming, events, handler, resuming, patching, boot>>
<1>1. mutex'.kind = "create" /\ mutex'.at = "send"
    BY DEF Sending
<1>2. CASE UNCHANGED mutex
    BY <1>1, <1>2 DEF Sending
<1>3. ASSUME NEW t \in Tasks, CreateBegin(t) PROVE FALSE
    BY <1>1, <1>3 DEF CreateBegin, Hold
<1>4. CASE CreateStored
    <2>1. mutex.kind = "create" /\ mutex.at = "fork" /\ Then("send") /\ mutex \in MutexT
        BY <1>1, <1>4 DEF CreateStored, Holding, Release, Free, Basic, MutexTyped
    <2>2. Creating /\ mutex'.task = mutex.task /\ status[mutex.task] = "none" /\ mutex.task \in Tasks
        BY <2>1, ThenIs DEF Creating, Basic, MutexPhases, MutexAt
    <2>3. status' = [status EXCEPT ![mutex.task] = "running"]
        BY <1>1, <1>4, <2>1 DEF CreateStored, Release, Free
    <2>4. status'[mutex.task] = "running"
        BY <2>2, <2>3 DEF Basic, ConfigTyped
    <2> QED
        BY <1>4, <2>2, <2>4 DEF CreateStored, stream, memory
<1> QED
    BY <1>1, <1>2, <1>3, <1>4, CreatorIs

LEMMA NewRunsKept == ASSUME Basic, Family, Quiet, [Next]_vars PROVE NewRuns'
<1> SUFFICES ASSUME Sending', boot'.at \in {"up", "slots"} PROVE NewRuns'
    BY DEF NewRuns
<1>1. CASE Sending /\ UNCHANGED mutex
    <2>1. UNCHANGED boot
        BY <1>1, BusyIs, BootIs
    <2> QED
        BY <1>1, <2>1, StillNew
<1>2. CASE /\ Creating /\ mutex'.task = mutex.task /\ status[mutex.task] = "none" /\ status'[mutex.task] = "running"
           /\ UNCHANGED <<streaming, events, handler, resuming, patching, boot>>
    <2>1. Fresh(mutex.task)
        BY <1>2 DEF Creating, Basic, MutexPhases, Untouched, Unborn
    <2>2. mutex.task \notin streaming
        BY <1>2, <2>1 DEF Creating, Fresh, Marking
    <2> QED
        BY <1>2, <2>1, <2>2 DEF NewRuns, Fresh
<1> QED
    BY <1>1, <1>2, SendingIs

LEMMA NewStaysKept == ASSUME Basic, Family, Quiet, [Next]_vars PROVE NewStays'
<1> SUFFICES ASSUME Sending' PROVE NewStays'
    BY DEF NewStays
<1>1. PICK n \in Tasks : n = mutex.task /\ n = mutex'.task /\ mutex.kind = "create"
    BY SendingIs DEF Sending, Creating, Basic, MutexPhases
<1> SUFFICES /\ status'[n] # "removed"
             /\ status'[n] = "reported" => Delivering(n)'
             /\ \A w \in Tasks : Cleaner(w)' /\ handler'[w].on = n => w = n /\ handler'[w].at = "cleanup"
             /\ \A what \in {"cleanup", "remove"} : ~ InTodo(<<what, n>>)'
    BY <1>1 DEF NewStays, InTodo
<1>2. CASE Sending /\ UNCHANGED mutex
    <2>1. /\ status[n] # "removed"
          /\ status[n] = "reported" => Delivering(n)
          /\ \A w \in Tasks : Cleaner(w) /\ handler[w].on = n => w = n /\ handler[w].at = "cleanup"
          /\ \A what \in {"cleanup", "remove"} : ~ InTodo(<<what, n>>)
        BY <1>1, <1>2 DEF Family, NewStays
    <2>2. status'[n] # "removed"
        BY <1>1, <1>2, <2>1, RemovesLeaf
    <2>3. ASSUME status'[n] = "reported" PROVE Delivering(n)'
        <3>1. CASE status[n] = "reported"
            BY <1>2, <2>1, <3>1, StillDelivers
        <3>2. CASE status[n] # "reported"
            BY <2>3, <3>2, ReportedIs DEF Delivering
        <3> QED
            BY <3>1, <3>2
    <2>4. ASSUME NEW w \in Tasks, Cleaner(w)', handler'[w].on = n PROVE w = n /\ handler'[w].at = "cleanup"
        <3>1. CASE handler'[w] = handler[w]
            BY <2>1, <2>4, <3>1 DEF Cleaner
        <3>2. CASE Over(handler[w].on) /\ handler'[w].on = ParentOf[handler[w].on]
            BY <1>1, <2>4, <3>2, NoChild DEF Over
        <3>3. CASE handler[w].at = "cleanup" /\ handler'[w].on = handler[w].on /\ Cleanable(handler[w].on)
            <4>1. w = n
                BY <2>1, <2>4, <3>3 DEF Cleaner
            <4>2. status[n] = "reported"
                BY <2>4, <3>3, PresentIs DEF Cleanable
            <4> QED
                BY <2>1, <3>3, <4>1, <4>2 DEF Delivering
        <3> QED
            BY <2>4, <3>1, <3>2, <3>3, CleanerIs
    <2>5. ASSUME NEW what \in {"cleanup", "remove"}, InTodo(<<what, n>>)' PROVE FALSE
        <3>1. ~ (BootRead /\ status[n] = "reported")
            BY <1>1, <1>2 DEF BootRead, Family, NewRuns
        <3>2. ASSUME NEW y, Over(y), n = ParentOf[y] PROVE FALSE
            BY <1>1, <3>2, NoChild DEF Over
        <3> QED
            BY <2>1, <2>5, <3>1, <3>2, ItemIs, Tree
    <2> QED
        BY <2>2, <2>3, <2>4, <2>5
<1>3. CASE /\ status[n] = "none" /\ status'[n] = "running"
           /\ UNCHANGED <<handler, boot>>
    <2>1. ASSUME NEW w \in Tasks, Cleaner(w)', handler'[w].on = n PROVE FALSE
        BY <1>3, <2>1, Tree DEF Cleaner, Basic, HandlerPhases, HandlerPhase, RootPhase, Over
    <2>2. ASSUME NEW what \in {"cleanup", "remove"}, InTodo(<<what, n>>)' PROVE FALSE
        <3>1. PICK i \in DOMAIN boot.todo : boot.todo[i] = <<what, n>>
            BY <1>3, <2>2 DEF InTodo
        <3>2. boot.todo[i][2] = n
            BY <3>1
        <3> QED
            BY <1>3, <3>2, Tree DEF Basic, BootPhases, Unborn
    <2> QED
        BY <1>3, <2>1, <2>2
<1> QED
    BY <1>1, <1>2, <1>3, SendingIs

LEMMA NoOrphanKept == ASSUME Basic, Family, Quiet, [Next]_vars PROVE NoOrphan'
<1> SUFFICES ASSUME NEW t \in Tasks, Present(t)', ParentOf[t] # Root PROVE Present(ParentOf[t])'
    BY PresentIs, Tree DEF NoOrphan
<1>1. PICK p \in Tasks : p = ParentOf[t]
    BY Tree
<1>2. Moves
    BY Steps
<1>3. CASE Present(t)
    <2>1. status[p] \notin {"none", "removed"}
        BY <1>1, <1>3, PresentIs DEF Family, NoOrphan
    <2>2. status'[p] # "removed"
        BY <1>1, <1>3, <2>1, RemovesLeaf DEF Leaf
    <2> QED
        BY <1>1, <1>2, <2>1, <2>2, PresentIs DEF Moves
<1>4. CASE ~ Present(t)
    <2>1. Creating /\ t = mutex.task
        BY <1>2, <1>4, PresentIs DEF Moves
    <2>2. p \in streaming
        BY <1>1, <2>1, Tree DEF Family, CreatorKept, Parent
    <2>3. status[p] \notin {"none", "removed"}
        BY <2>2, PresentIs DEF Family, StreamersPresent
    <2>4. status'[p] # "removed"
        BY <1>1, <2>1, <2>3, RemovesLeaf DEF Parent
    <2> QED
        BY <1>1, <1>2, <2>3, <2>4, PresentIs DEF Moves
<1> QED
    BY <1>3, <1>4

LEMMA StreamersKept == ASSUME Basic, Family, Quiet, [Next]_vars PROVE StreamersPresent'
<1> SUFFICES ASSUME NEW w \in streaming', w # Root PROVE Present(w)'
    BY PresentIs, Tree DEF StreamersPresent, Present, Its
<1>1. Moves /\ w \in Tasks
    BY Steps, Tree DEF Basic, StreamTyped
<1>2. CASE w \notin streaming
    BY <1>1, <1>2, StreamsIs, PresentIs
<1>3. CASE w \in streaming
    <2>1. status[w] \notin {"none", "removed"}
        BY <1>1, <1>3, PresentIs DEF Family, StreamersPresent
    <2>2. status'[w] # "removed"
        BY <1>1, <2>1, RemovesLeaf
    <2> QED
        BY <1>1, <2>1, <2>2, PresentIs DEF Moves
<1> QED
    BY <1>2, <1>3

\* who is created next
LEMMA CreatedIs ==
    ASSUME Basic, [Next]_vars, mutex'.kind = "create"
    PROVE  \/ mutex.kind = "create" /\ mutex'.task = mutex.task /\ (UNCHANGED mutex \/ ~ Creating')
           \/ /\ mutex = Free /\ status[mutex'.task] = "none" /\ mutex'.task \in Tasks /\ UNCHANGED streaming
              /\ ParentOf[mutex'.task] \in streaming /\ Its(ParentOf[mutex'.task]) # "reported"
<1>1. CASE \E t \in Tasks : CreateBegin(t)
    BY <1>1 DEF CreateBegin, Hold, stream
<1>2. CASE CreateStored
    <2>1. Then("send") /\ mutex \in MutexT /\ mutex.kind = "create"
        BY <1>2 DEF CreateStored, Holding, Release, Free, Basic, MutexTyped
    <2> QED
        BY <2>1, ThenIs DEF Creating, MutexAt
<1> QED
    BY <1>1, <1>2, CreatorIs

LEMMA ParentsKept == ASSUME Basic, Family, Quiet, [Next]_vars PROVE ParentsFirst'
<1> SUFFICES ASSUME NEW t \in Tasks, status'[t] # "none", ParentOf[t] # Root PROVE Settled(ParentOf[t])'
    BY DEF ParentsFirst, Settled
<1>1. PICK p \in Tasks : p = ParentOf[t]
    BY Tree
<1>2. Moves
    BY Steps
<1>3. status[p] # "none" /\ ~ (mutex.kind = "create" /\ mutex.task = p)
    <2>1. CASE status[t] # "none"
        BY <1>1, <2>1 DEF Family, ParentsFirst, Settled
    <2>2. CASE status[t] = "none"
        <3>1. Creating /\ t = mutex.task
            BY <1>2, <2>2 DEF Moves
        <3>2. p \in streaming
            BY <1>1, <3>1, Tree DEF Family, CreatorKept, Parent
        <3> QED
            BY <1>1, <3>1, <3>2, PresentIs, OwnParent DEF Family, StreamersPresent
    <2> QED
        BY <2>1, <2>2
<1>4. status'[p] # "none"
    BY <1>2, <1>3 DEF Moves
<1>5. ~ (mutex'.kind = "create" /\ mutex'.task = p)
    BY <1>3, CreatedIs
<1> QED
    BY <1>1, <1>4, <1>5 DEF Settled

LEMMA CreatorStays == ASSUME Basic, Family, Quiet, [Next]_vars PROVE CreatorKept'
<1> SUFFICES ASSUME Creating' PROVE Parent' = Root \/ Parent' \in streaming'
    BY DEF CreatorKept
<1>1. CASE Creating /\ UNCHANGED mutex
    <2>1. Parent \in Workspaces /\ Parent' = Parent
        BY <1>1, Tree DEF Creating, Parent, Basic, MutexPhases
    <2> QED
        BY <1>1, <2>1, CreatorStreams, Tree DEF Family, CreatorKept
<1>2. CASE UNCHANGED streaming /\ ParentOf[mutex'.task] \in streaming
    BY <1>2 DEF Parent
<1> QED
    BY <1>1, <1>2, CreatedIs DEF Creating

\* what is about to be removed stays a leaf
LEMMA RemovableKept ==
    ASSUME Basic, Family, Quiet, [Next]_vars, NEW x \in Tasks, Over(x), Removable(x)
    PROVE  Removable(x)'
<1>1. Moves
    BY Steps
<1>2. ASSUME NEW k \in Tasks, ParentOf[k] = x, Present(k)' PROVE FALSE
    <2>1. ~ Present(k)
        BY <1>2 DEF Removable, Leaf
    <2>2. Creating /\ k = mutex.task
        BY <1>1, <1>2, <2>1, PresentIs DEF Moves
    <2> QED
        BY <1>2, <2>2 DEF Removable, Parent
<1>3. ASSUME Creating', Parent' = x PROVE FALSE
    <2>1. CASE Creating /\ UNCHANGED mutex
        BY <1>3, <2>1 DEF Removable, Parent
    <2>2. CASE ParentOf[mutex'.task] \in streaming /\ Its(ParentOf[mutex'.task]) # "reported"
        BY <1>3, <2>2, PresentIs DEF Parent, Over, Family, StreamersPresent
    <2> QED
        BY <1>3, <2>1, <2>2, CreatedIs DEF Creating
<1> QED
    BY <1>2, <1>3 DEF Removable, Leaf

\* and is one when a cleanup has looked at it
LEMMA CleanableIs ==
    ASSUME Basic, Family, NEW x \in Workspaces, Cleanable(x), UNCHANGED <<status, mutex>>
    PROVE  x \in Tasks /\ Removable(x)'
<1>1. x \in Tasks /\ Leaf(x) /\ x \notin streaming
    BY Tree DEF Cleanable, Its
<1>2. ~ (Creating /\ Parent = x)
    BY <1>1, Tree DEF Family, CreatorKept
<1> QED
    BY <1>1, <1>2 DEF Removable, Leaf, Present, Its, Creating, Parent

LEMMA RemovablesKept == ASSUME Basic, Family, Quiet, [Next]_vars PROVE Removables'
<1>1. ASSUME NEW w \in Tasks, handler'[w].at = "remove" PROVE Removable(handler[w].on)'
    <2>1. CASE handler'[w] = handler[w]
        <3>1. Over(handler[w].on) /\ Removable(handler[w].on)
            BY <1>1, <2>1 DEF Basic, HandlerPhases, HandlerPhase, Family, Removables
        <3>2. PICK x \in Tasks : x = handler[w].on
            BY <3>1 DEF Over
        <3>3. Removable(x)'
            BY <3>1, <3>2, RemovableKept
        <3> QED
            BY <2>1, <3>2, <3>3
    <2>2. CASE handler'[w].on = handler[w].on /\ Cleanable(handler[w].on) /\ UNCHANGED <<status, mutex>>
        <3>1. PICK x \in Workspaces : x = handler[w].on
            BY Tree DEF Basic, HandlerTyped, HandlerT
        <3>2. Removable(x)'
            BY <2>2, <3>1, CleanableIs
        <3> QED
            BY <2>2, <3>1, <3>2
    <2> QED
        BY <1>1, <2>1, <2>2, CleanerIs DEF Cleaner
<1>2. ASSUME NEW x \in Tasks, InTodo(<<"remove", x>>)' PROVE Removable(x)'
    <2>1. CASE InTodo(<<"remove", x>>)
        <3>1. PICK i \in DOMAIN boot.todo : boot.todo[i] = <<"remove", x>>
            BY <2>1 DEF InTodo
        <3>2. boot.todo[i][1] = "remove" /\ boot.todo[i][2] = x
            BY <3>1
        <3>3. Over(x)
            BY <3>2 DEF Basic, BootPhases
        <3> QED
            BY <2>1, <3>3, RemovableKept DEF Family, Removables
    <2>2. CASE Cleanable(x) /\ UNCHANGED <<status, mutex>>
        BY <2>2, CleanableIs, Tree
    <2> QED
        BY <1>2, <2>1, <2>2, ItemIs, Tree
<1>3. \A w \in Tasks : handler'[w].at = "remove" => Removable(handler[w].on)'
    BY <1>1
<1> QED
    BY <1>2, <1>3 DEF Removables

\* the list of a termination has a task's children before it
LEMMA ListIs ==
    ASSUME NEW t \in Tasks, NEW s \in LeavesFirst({t} \cup Under(t)), NEW i \in DOMAIN s,
           NEW k \in Tasks, ParentOf[k] = s[i], Present(k)
    PROVE  \E j \in DOMAIN s : j < i /\ s[j] = k
<1> DEFINE S == {t} \cup Under(t)
<1>1. IsFiniteSet(S) /\ S \subseteq Tasks
    BY UnderIs, FS_AddElement
<1>2. s \in SetToSeqs(S) /\ \A l, j \in DOMAIN s : l < j => Depth[s[l]] >= Depth[s[j]]
    BY DEF LeavesFirst
<1>3. s \in Seq(S) /\ \A x \in S : \E j \in DOMAIN s : s[j] = x
    BY <1>1, <1>2, HasAll
<1>4. PICK p \in Tasks : p = s[i] /\ p \in S
    BY <1>1, <1>3
<1>5. Above[k] = {p} \cup Above[p]
    BY <1>4, AboveIs
<1>6. t \in Above[k]
    BY <1>4, <1>5 DEF Under
<1>7. k \in S
    BY <1>6 DEF Under
<1>8. PICK j \in DOMAIN s : s[j] = k
    BY <1>3, <1>7
<1>9. Depth[k] \in Nat /\ Depth[p] \in Nat /\ Depth[k] > Depth[p] /\ p # k
    BY <1>4, Deeper
<1>10. i \in Nat /\ j \in Nat /\ i # j
    BY <1>3, <1>4, <1>8, <1>9
<1>11. ~ (i < j)
    BY <1>2, <1>4, <1>8, <1>9
<1> QED
    BY <1>8, <1>10, <1>11

LEMMA LeavesKept == ASSUME Basic, Family, Quiet, [Next]_vars PROVE LeavesAreFirst'
<1> SUFFICES ASSUME mutex'.kind = "terminate", NEW k \in Tasks, NEW i \in DOMAIN mutex'.todo,
                    ParentOf[k] = mutex'.todo[i], Present(k)'
             PROVE  \E j \in DOMAIN mutex'.todo : j < i /\ mutex'.todo[j] = k
    BY DEF LeavesAreFirst
<1>1. ~ Creating => Present(k)
    BY Steps, PresentIs DEF Moves
<1>2. CASE mutex.kind = "terminate" /\ mutex'.todo = mutex.todo
    BY <1>1, <1>2 DEF Family, LeavesAreFirst, Creating
<1>3. CASE \E t \in Tasks : Terminate(t)
    <2>1. PICK t \in Tasks : \E todo \in LeavesFirst({t} \cup Under(t)) : Hold("terminate", "stop", t, todo)
        BY <1>3 DEF Terminate
    <2>2. mutex'.todo \in LeavesFirst({t} \cup Under(t))
        BY <2>1 DEF Hold
    <2>3. Present(k)
        BY <1>1, <1>3 DEF Terminate, Free, Creating
    <2> QED
        BY <2>2, <2>3, ListIs
<1>4. CASE TerminateRemove
    <2>1. mutex.kind = "terminate" /\ mutex \in MutexT /\ mutex.todo # <<>> /\ mutex.todo \in Seq(Tasks)
        BY <1>4 DEF TerminateRemove, Holding, Basic, MutexPhases, MutexTyped, MutexT
    <2>2. RemoveWorkspace(This) /\ Passed("stop")
        BY <1>4, <2>1, DoneIs DEF TerminateRemove, Release, Free
    <2>3. mutex'.todo = Tail(mutex.todo) /\ i + 1 \in DOMAIN mutex.todo /\ mutex'.todo[i] = mutex.todo[i + 1]
        BY <2>2 DEF Passed
    <2>4. Present(k) /\ k # This
        <3>1. This \in Tasks
            BY <2>1, HeadIs
        <3> QED
            BY <1>1, <2>1, <2>2, <3>1, PresentIs DEF Creating, RemoveWorkspace, Basic, ConfigTyped
    <2>5. PICK j \in DOMAIN mutex.todo : j < i + 1 /\ mutex.todo[j] = k
        BY <2>1, <2>3, <2>4 DEF Family, LeavesAreFirst
    <2>6. j # 1 /\ i \in Nat
        BY <2>1, <2>3, <2>4, <2>5 DEF This
    <2>7. j - 1 \in DOMAIN Tail(mutex.todo) /\ Tail(mutex.todo)[j - 1] = mutex.todo[j]
        BY <2>1, <2>5, <2>6
    <2> QED
        BY <2>1, <2>3, <2>5, <2>6, <2>7
<1>5. CASE UNCHANGED mutex
    BY <1>2, <1>5
<1> QED
    BY <1>2, <1>3, <1>4, <1>5, TerminatorIs

LEMMA NoCrashKept == ASSUME Basic, Family, [Next]_vars PROVE NoCrash'
<1>1. ASSUME "crash" \notin Features PROVE boot' = Up
    <2>1. boot = Up
        BY <1>1 DEF Family, NoCrash
    <2>2. ~ Crash /\ ~ BootNext
        BY <1>1, <2>1, BootIs DEF Crash, Up
    <2> QED
        BY <2>1, <2>2, BootIs
<1> QED
    BY <1>1 DEF NoCrash

LEMMA FamilyStarts == Init => Family
<1> SUFFICES ASSUME Init PROVE Family
    OBVIOUS
<1>1. /\ status = [t \in Tasks |-> "none"] /\ streaming = {} /\ mutex = Free /\ boot = Up
      /\ handler = [w \in Workspaces |-> Idle]
    BY DEF Init
<1>2. \A t \in Tasks : ~ Present(t)
    BY <1>1, PresentIs
<1>3. ~ Creating /\ ~ Sending /\ mutex.kind # "terminate"
    BY <1>1 DEF Creating, Sending, Free
<1>4. Removables
    BY <1>1, Tree DEF Removables, InTodo, Idle, Up
<1> QED
    BY <1>1, <1>2, <1>3, <1>4 DEF Family, NoOrphan, StreamersPresent, ParentsFirst, CreatorKept, NewRuns, NewStays,
        LeavesAreFirst, NoCrash

(* A family stays together while the user acts in no task and not both a   *)
(* restart and a failed operation happen: who creates a task streams until *)
(* the task is stored, a task that is being sent its first message is not  *)
(* removed by a cleanup, and cleanups and terminations come to the         *)
(* children first (create, cleanupReportedLeafTask,                        *)
(* terminateDescendantAgentTask).                                          *)
THEOREM AlwaysFamily == ASSUME Quiet PROVE Spec => []Family
<1>1. Init => Family
    BY FamilyStarts
<1>2. Basic /\ Family /\ [Next]_vars => Family'
    <2> SUFFICES ASSUME Basic, Family, [Next]_vars PROVE Family'
        OBVIOUS
    <2>1. NoOrphan' /\ StreamersPresent' /\ ParentsFirst' /\ CreatorKept'
        BY NoOrphanKept, StreamersKept, ParentsKept, CreatorStays
    <2>2. NewRuns' /\ NewStays' /\ Removables' /\ LeavesAreFirst' /\ NoCrash'
        BY NewRunsKept, NewStaysKept, RemovablesKept, LeavesKept, NoCrashKept
    <2> QED
        BY <2>1, <2>2 DEF Family
<1> QED
    BY <1>1, <1>2, AlwaysBasic, PTL DEF Spec

(* No task outlives the workspace that created it, then: neither a         *)
(* creation that waited, nor a cleanup that climbs, nor a termination      *)
(* leaves a task whose parent has been removed.                            *)
THEOREM NoneIsOrphaned == ASSUME Quiet PROVE Spec => []NoOrphan
<1>1. Family => NoOrphan
    BY DEF Family
<1> QED
    BY <1>1, AlwaysFamily, PTL

-----------------------------------------------------------------------------
(* A program that runs undisturbed.                                        *)
Closes == {"report", "stop", "cut"}
Childless(p) == \A k \in Tasks : ParentOf[k] = p => status[k] = "none"
Going(t) == status[t] \notin {"reported", "removed"}

\* the program runs undisturbed: the user leaves the tasks alone, no stream fails, nothing restarts
Calm == Users \subseteq {Root} /\ Features \cap {"stop", "error", "crash"} = {}

Undisturbed ==
    /\ asked = {} /\ resuming = {} /\ mutex.kind # "cascade"
    /\ \A t \in Tasks : \A i \in DOMAIN events[t] : events[t][i] \notin {"error", "fatal"}
\* a task is interrupted instead of being started
Dormant == \A t \in Tasks : status[t] = "interrupted" =>
    Fresh(t) /\ Childless(t) /\ ~ (Creating /\ Parent = t)
\* a cleanup is asked for again of what has reported
Rechecked == \A t \in Tasks : Going(t) =>
    t \notin patching /\ handler[t].at # "persist" /\ \A i \in DOMAIN events[t] : events[t][i] # "recheck"
Steady == Undisturbed /\ Dormant /\ Rechecked

\* the steps that are left
CalmStep ==
    \/ UNCHANGED vars \/ UserSend(Root) \/ UserQueues(Root) \/ ToolStep
    \/ CreateStored \/ CreateSent
    \/ (\E c \in Workspaces : SchedBegin(c)) \/ SchedPick \/ SchedRecheck \/ SchedSend \/ SchedMark
    \/ TerminateStop \/ TerminateReject \/ TerminateRemove
    \/ RootEnd \/ RootSweep \/ Nudge
    \/ \E t \in Tasks : HandlerStep(t) /\ ~ ResumeSent(t)
    \/ \E v \in Waits : WaitRead(v) \/ WaitTimeout(v)
    \/ \E w \in Workspaces : StreamEnds(w)

LEMMA CalmIs ==
    ASSUME Basic, Family, Calm, Undisturbed, [Next]_vars
    PROVE  CalmStep /\ Quiet
<1>1. Quiet /\ ~ Crash /\ (\A w \in Workspaces : ~ UserStop(w) /\ ~ StreamFails(w))
    BY DEF Calm, Quiet, Crash, UserStop, StreamFails
<1>2. ~ BootNext
    <2>1. boot.at = "up"
        BY DEF Family, NoCrash, Calm, Up
    <2> QED
        BY <2>1, BootIs
<1>3. (\A w \in Workspaces : ~ CascadeBegin(w)) /\ ~ CascadeStop /\ ~ CascadeEdit
    BY DEF CascadeBegin, CascadeStop, CascadeEdit, Holding, Undisturbed
<1>4. \A t \in Tasks : ~ ResumeSent(t)
    BY DEF ResumeSent, Undisturbed
<1>5. \A w \in Workspaces : UserSend(w) \/ UserQueues(w) => w = Root
    BY DEF UserSend, UserQueues, Calm
<1> QED
    BY <1>1, <1>2, <1>3, <1>4, <1>5, Tree DEF Next, CalmStep, UserStep, MutexStep, RootStep

\* what a message does to the workspace it is sent to, unless that is interrupted
SentTo(w) ==
    /\ UNCHANGED <<status, resuming>>
    /\ mail' = IF w \in streaming THEN mail \cup {w} ELSE mail
    /\ streaming \subseteq streaming' /\ streaming' \subseteq streaming \cup {w}
LEMMA SentIs ==
    ASSUME NEW w \in Workspaces, Send(w), Its(w) # "interrupted"
    PROVE  SentTo(w)
BY DEF Send, Interrupted, Begin, stream, SentTo

\* an interrupted task is sent none
LEMMA AsksAwake ==
    ASSUME Basic, Dormant, NEW t \in Tasks
    PROVE  /\ Ask(t) => SentTo(t) /\ handler[t].at = "ask"
           /\ ResumeParent(t) => SentTo(ParentOf[t]) /\ status[t] \notin Unborn
<1>1. t \in Workspaces /\ ParentOf[t] \in Workspaces
    BY Tree
<1>2. CASE Ask(t)
    <2>1. handler[t].at = "ask" /\ Send(t)
        BY <1>2 DEF Ask, At
    <2>2. Its(t) # "interrupted"
        BY <2>1, PresentIs DEF Dormant, Fresh, Marking
    <2> QED
        BY <1>1, <2>1, <2>2, SentIs, <1>2 DEF ResumeParent, At
<1>3. CASE ResumeParent(t)
    <2>1. handler[t].at = "resume" /\ Send(ParentOf[t])
        BY <1>3 DEF ResumeParent, At
    <2>2. status[t] \notin Unborn
        BY <2>1, AtWork
    <2>3. Its(ParentOf[t]) # "interrupted"
        BY <1>1, <2>2, PresentIs, Tree DEF Dormant, Childless, Unborn
    <2> QED
        BY <1>1, <2>1, <2>2, <2>3, SentIs DEF Ask, At
<1> QED
    BY <1>2, <1>3
LEMMA RootIsSent == ASSUME Send(Root) PROVE SentTo(Root)
<1>1. Root \in Workspaces /\ Its(Root) # "interrupted"
    BY Tree DEF Its
<1> QED
    BY <1>1, SentIs

\* the event a handler takes
LEMMA TaskEventIs ==
    ASSUME Basic, Undisturbed, NEW t \in Tasks, TaskEvent(t)
    PROVE  /\ events[t] \in Seq(Event) /\ events[t] # <<>> /\ handler[t].at = "idle"
           /\ Head(events[t]) = events[t][1] /\ 1 \in DOMAIN events[t]
           /\ Head(events[t]) \in Closes \cup {"prompt", "recheck", "sweep"}
           /\ events' = [events EXCEPT ![t] = Tail(@)] /\ events'[t] = Tail(events[t])
           /\ UNCHANGED <<status, stream, mutex, resuming, patching, asked, boot>>
<1>1. events[t] \in Seq(Event) /\ events[t] # <<>> /\ handler[t].at = "idle" /\ t \in Workspaces
    BY Tree DEF TaskEvent, Waiting, Basic, EventsTyped
<1>2. Head(events[t]) = events[t][1] /\ 1 \in DOMAIN events[t] /\ events[t][1] \in Event
    BY <1>1
<1>3. Head(events[t]) \in Closes \cup {"prompt", "recheck", "sweep"} /\ Head(events[t]) \notin {"error", "fatal"}
    BY <1>2 DEF Undisturbed, Event, Closes
<1>4. events' = [events EXCEPT ![t] = Tail(@)] /\ events'[t] = Tail(events[t])
    BY <1>1 DEF TaskEvent, TakeEvent, Basic, EventsTyped
<1>5. UNCHANGED status
    BY <1>3 DEF TaskEvent
<1>6. UNCHANGED <<stream, mutex, resuming, patching, asked, boot>>
    BY DEF TaskEvent
<1> QED
    BY <1>1, <1>2, <1>3, <1>4, <1>5, <1>6

\* how a status changes then
LEMMA StatusIs ==
    ASSUME Basic, Undisturbed, Dormant, CalmStep, NEW t \in Tasks, status'[t] # status[t]
    PROVE  \/ CreateStored /\ t = mutex.task
           \/ status'[t] = "removed"
           \/ SchedMark /\ t = This /\ status[t] = "queued" /\ status'[t] = "running"
           \/ SchedRecheck /\ t = This /\ status[t] = "queued"
           \/ PlanRead(t) /\ status'[t] \in {"running", "awaiting_report"}
           \/ MarkReported(t) /\ status'[t] = "reported"
<1>1. status \in [Tasks -> Status]
    BY DEF Basic, ConfigTyped
<1>2. CASE UNCHANGED status
    BY <1>2
<1>3. CASE UserSend(Root) \/ Nudge
    BY <1>3, RootIsSent DEF UserSend, Nudge, SentTo
<1>4. CASE CreateStored \/ CreateSent
    BY <1>1, <1>4 DEF CreateStored, CreateSent, config
<1>5. CASE SchedRecheck \/ SchedMark \/ TerminateRemove
    <2>1. This \in Tasks
        BY <1>5, HeadIs DEF SchedRecheck, SchedMark, TerminateRemove, Holding, Basic, MutexTyped, MutexPhases
    <2>6. SchedRecheck \/ SchedMark => status[This] = "queued"
        BY DEF SchedRecheck, SchedMark, Holding, Basic, MutexPhases, This
    <2>2. UNCHANGED status \/ \E s \in {"interrupted", "running", "removed"} : status' = [status EXCEPT ![This] = s]
        BY <1>5 DEF SchedRecheck, SchedMark, TerminateRemove, RemoveWorkspace, config
    <2>3. t = This
        BY <1>1, <2>1, <2>2
    <2>4. CASE SchedRecheck
        BY <2>3, <2>4, <2>6
    <2>5. CASE SchedMark
        BY <1>1, <2>1, <2>3, <2>5, <2>6 DEF SchedMark
    <2>7. CASE TerminateRemove
        BY <1>1, <2>1, <2>3, <2>7 DEF TerminateRemove, RemoveWorkspace, config
    <2> QED
        BY <1>5, <2>4, <2>5, <2>7
<1>6. ASSUME NEW k \in Tasks, HandlerStep(k), ~ ResumeSent(k)
      PROVE  \/ status'[t] = "removed"
             \/ PlanRead(t) /\ status'[t] \in {"running", "awaiting_report"}
             \/ MarkReported(t) /\ status'[t] = "reported"
    <2>1. CASE Ask(k) \/ ResumeParent(k)
        BY <2>1, AsksAwake DEF SentTo
    <2>2. CASE TaskEvent(k)
        BY <2>2, TaskEventIs
    <2>3. CASE PlanRead(k)
        <3>1. UNCHANGED status \/ \E s \in {"running", "awaiting_report"} : SetStatus(k, s)
            BY <2>3 DEF PlanRead
        <3> QED
            BY <1>1, <2>3, <3>1 DEF SetStatus
    <2>4. CASE MarkReported(k)
        BY <1>1, <2>4 DEF MarkReported
    <2>5. CASE CleanupRemove(k)
        BY <1>1, <2>5 DEF CleanupRemove, RemoveWorkspace, config
    <2>6. CASE PromptCheck(k) \/ Persist(k) \/ Deliver(k) \/ ResolveLate(k) \/ ParentResume(k) \/ CleanupCheck(k) \/ PatchDone(k)
        <3>1. UNCHANGED status
            BY <2>6 DEF PromptCheck, Persist, Deliver, ResolveLate, ParentResume, CleanupCheck, PatchDone, config
        <3> QED
            BY <3>1
    <2> QED
        BY <1>6, <2>1, <2>2, <2>3, <2>4, <2>5, <2>6 DEF HandlerStep
<1>7. CASE UNCHANGED vars \/ UserQueues(Root) \/ ToolStep \/ (\E c \in Workspaces : SchedBegin(c)) \/ SchedPick
           \/ SchedSend \/ TerminateStop \/ TerminateReject \/ RootEnd \/ RootSweep
           \/ (\E v \in Waits : WaitRead(v) \/ WaitTimeout(v)) \/ \E w \in Workspaces : StreamEnds(w)
    <2>1. UNCHANGED status
        BY <1>7 DEF vars, config, UserQueues, ToolStep, CreateBegin, Terminate, WaitCall, SchedBegin, SchedPick,
            SchedSend, TerminateStop, TerminateReject, RootEnd, RootSweep, WaitRead, WaitTimeout, StreamEnds
    <2> QED
        BY <2>1
<1> QED
    BY <1>3, <1>4, <1>5, <1>6, <1>7 DEF CalmStep

\* what waits for a task's event lock
LEMMA EventsAre ==
    ASSUME Basic, CalmStep, NEW t \in Tasks
    PROVE  \/ events'[t] = events[t]
           \/ TaskEvent(t)
           \/ events'[t] = Append(events[t], "prompt") /\ status[t] = "awaiting_report"
           \/ events'[t] = Append(events[t], "recheck") /\ t \in patching
           \/ events'[t] = Append(events[t], "sweep") /\ Over(t)
           \/ StreamEnds(t) /\ \E e \in Closes : events'[t] = Append(events[t], e)
<1>1. events \in [Workspaces -> Seq(Event)] /\ t \in Workspaces /\ t # Root
    BY Tree DEF Basic, EventsTyped
<1>2. CASE \E v \in Waits : WaitRead(v) \/ WaitTimeout(v) \/ \E k \in Tasks : WaitCall(v, k)
    <2>1. UNCHANGED events \/ \E k \in Workspaces : Queue(k, "prompt") /\ status[k] = "awaiting_report"
        BY <1>2, Tree DEF WaitRead, WaitTimeout, WaitCall, Register, Basic, WaitTyped, WaitT
    <2> QED
        BY <1>1, <2>1 DEF Queue
<1>3. ASSUME NEW w \in Workspaces, StreamEnds(w)
      PROVE  events'[t] = events[t] \/ (StreamEnds(t) /\ \E e \in Closes : events'[t] = Append(events[t], e))
    <2>1. PICK e \in Endings(w) : Queue(w, e)
        BY <1>3 DEF StreamEnds
    <2>2. CASE w # t
        BY <1>1, <2>1, <2>2 DEF Queue
    <2>3. CASE w = t
        <3>1. Endings(t) \subseteq Closes
            BY <1>1 DEF Endings, Closes
        <3> QED
            BY <1>1, <1>3, <2>1, <2>3, <3>1 DEF Queue
    <2> QED
        BY <2>2, <2>3
<1>4. CASE RootEnd \/ RootSweep
    BY <1>4, RootAlone DEF RootStep
<1>5. ASSUME NEW k \in Tasks, HandlerStep(k), k # t
      PROVE  events'[t] = events[t]
    BY <1>1, <1>5, HandlerAlone
<1>6. CASE HandlerStep(t)
    <2>1. CASE PatchDone(t)
        BY <1>1, <2>1 DEF PatchDone, Queue
    <2>2. CASE ~ PatchDone(t) /\ ~ TaskEvent(t)
        <3>1. UNCHANGED events
            BY <1>6, <2>2 DEF HandlerStep, PlanRead, PromptCheck, Ask, MarkReported, Persist, Deliver, ResolveLate,
                ParentResume, ResumeParent, CleanupCheck, CleanupRemove, ResumeSent
        <3> QED
            BY <3>1
    <2> QED
        BY <2>1, <2>2
<1>7. CASE UNCHANGED vars \/ UserSend(Root) \/ UserQueues(Root) \/ (\E k \in Tasks : CreateBegin(k) \/ Terminate(k))
           \/ CreateStored \/ CreateSent \/ (\E c \in Workspaces : SchedBegin(c)) \/ SchedPick \/ SchedRecheck
           \/ SchedSend \/ SchedMark \/ TerminateStop \/ TerminateReject \/ TerminateRemove \/ Nudge
    <2>1. UNCHANGED events
        BY <1>7 DEF vars, UserSend, UserQueues, CreateBegin, Terminate, CreateStored, CreateSent, SchedBegin, SchedPick,
            SchedRecheck, SchedSend, SchedMark, TerminateStop, TerminateReject, TerminateRemove, Nudge
    <2> QED
        BY <2>1
<1> QED
    BY <1>2, <1>3, <1>4, <1>5, <1>6, <1>7 DEF CalmStep, ToolStep

\* who gets a stream, or a message behind the one he has
LEMMA StartsAre ==
    ASSUME Basic, Undisturbed, Dormant, CalmStep, NEW t \in Tasks, (t \in mail' /\ t \notin mail) \/ (t \in streaming' /\ t \notin streaming)
    PROVE  \/ Ask(t)
           \/ \E k \in Tasks : ResumeParent(k) /\ ParentOf[k] = t
           \/ ((CreateSent /\ t = mutex.task) \/ (SchedSend /\ t = This)) /\ UNCHANGED mail
<1>1. t \in Workspaces /\ t # Root
    BY Tree
<1>2. CASE UserSend(Root) \/ Nudge
    BY <1>1, <1>2, RootIsSent DEF UserSend, Nudge, SentTo
<1>3. CASE CreateSent \/ SchedSend \/ SchedMark
    BY <1>3 DEF CreateSent, SchedSend, SchedMark, Begin, stream
<1>4. ASSUME NEW k \in Tasks, HandlerStep(k), ~ ResumeSent(k)
      PROVE  Ask(t) \/ (ResumeParent(k) /\ ParentOf[k] = t)
    <2>1. CASE Ask(k)
        <3>1. SentTo(k)
            BY <2>1, AsksAwake
        <3>2. k = t
            BY <3>1 DEF SentTo
        <3> QED
            BY <2>1, <3>2
    <2>2. CASE ResumeParent(k)
        <3>1. SentTo(ParentOf[k])
            BY <2>2, AsksAwake
        <3> QED
            BY <2>2, <3>1 DEF SentTo
    <2>3. CASE ~ Ask(k) /\ ~ ResumeParent(k)
        BY <1>4, <2>3 DEF HandlerStep, TaskEvent, PlanRead, PromptCheck, MarkReported, Persist, Deliver, ResolveLate,
            ParentResume, CleanupCheck, CleanupRemove, RemoveWorkspace, PatchDone, stream
    <2> QED
        BY <2>1, <2>2, <2>3
<1>5. CASE UNCHANGED vars \/ UserQueues(Root) \/ ToolStep \/ CreateStored \/ (\E c \in Workspaces : SchedBegin(c)) \/ SchedPick
           \/ SchedRecheck \/ TerminateStop \/ TerminateReject \/ TerminateRemove \/ RootEnd \/ RootSweep
           \/ (\E v \in Waits : WaitRead(v) \/ WaitTimeout(v)) \/ \E w \in Workspaces : StreamEnds(w)
    <2>1. streaming' \subseteq streaming /\ mail' \subseteq mail \cup {Root}
        BY <1>5 DEF vars, stream, UserQueues, ToolStep, CreateBegin, Terminate, WaitCall, CreateStored, SchedBegin, SchedPick,
            SchedRecheck, TerminateStop, TerminateReject, TerminateRemove, RemoveWorkspace, Halt, RootEnd, RootSweep, WaitRead,
            WaitTimeout, StreamEnds
    <2> QED
        BY <1>1, <2>1
<1> QED
    BY <1>2, <1>3, <1>4, <1>5 DEF CalmStep

\* who moves a handler
LEMMA HandlersAre ==
    ASSUME Basic, CalmStep, NEW t \in Tasks, handler'[t] # handler[t]
    PROVE  HandlerStep(t) /\ (TaskEvent(t) \/ handler[t].at # "idle")
<1>1. t \in Workspaces /\ t # Root /\ handler \in [Workspaces -> HandlerT]
    BY Tree DEF Basic, HandlerTyped
<1>2. CASE RootEnd \/ RootSweep \/ Nudge
    BY <1>2, RootAlone DEF RootStep
<1>3. ASSUME NEW k \in Tasks, HandlerStep(k), k # t
      PROVE  FALSE
    BY <1>1, <1>3, HandlerAlone
<1>4. CASE HandlerStep(t)
    <2>1. ~ PatchDone(t) /\ ~ ResumeSent(t)
        BY DEF PatchDone, ResumeSent
    <2> QED
        BY <1>4, <2>1 DEF HandlerStep, PlanRead, PromptCheck, Ask, MarkReported, Persist, Deliver, ResolveLate, ParentResume,
            ResumeParent, CleanupCheck, CleanupRemove, At
<1>5. CASE ~ RootEnd /\ ~ RootSweep /\ ~ Nudge /\ \A k \in Tasks : ~ HandlerStep(k)
    <2>1. UNCHANGED handler
        BY <1>5 DEF CalmStep, vars, UserSend, UserQueues, ToolStep, CreateBegin, Terminate, WaitCall, CreateStored, CreateSent,
            SchedBegin, SchedPick, SchedRecheck, SchedSend, SchedMark, TerminateStop, TerminateReject, TerminateRemove, WaitRead,
            WaitTimeout, StreamEnds
    <2> QED
        BY <2>1
<1> QED
    BY <1>2, <1>3, <1>4, <1>5

\* what is left of the events when the first is taken
LEMMA RestIs ==
    ASSUME NEW s \in Seq(Event), s # <<>>
    PROVE  \A i \in DOMAIN Tail(s) : i + 1 \in DOMAIN s /\ Tail(s)[i] = s[i + 1] /\ i + 1 > 1
OBVIOUS

\* and when one is added
LEMMA AddedIs ==
    ASSUME NEW s \in Seq(Event), NEW e
    PROVE  \A i \in DOMAIN Append(s, e) :
              \/ i \in DOMAIN s /\ Append(s, e)[i] = s[i]
              \/ i = Len(s) + 1 /\ Append(s, e)[i] = e
OBVIOUS

\* what is asked of a task again after its report
LEMMA RecheckedKept == ASSUME Basic, Steady, CalmStep, Moves PROVE Rechecked'
<1> SUFFICES ASSUME NEW t \in Tasks, Going(t)'
             PROVE  t \notin patching' /\ handler'[t].at # "persist"
                    /\ \A i \in DOMAIN events'[t] : events'[t][i] # "recheck"
    BY DEF Rechecked
<1>1. t \in Workspaces /\ events[t] \in Seq(Event) /\ HandlerTyped /\ status[t] \in Status
    BY Tree DEF Basic, EventsTyped, ConfigTyped
<1>2. Going(t)
    BY DEF Going, Moves
<1>3. t \notin patching /\ handler[t].at # "persist" /\ \A i \in DOMAIN events[t] : events[t][i] # "recheck"
    BY <1>2 DEF Steady, Rechecked
<1>4. t \notin patching'
    <2>1. patching' \subseteq patching \/ \E k \in Tasks : Persist(k)
        BY DEF CalmStep, HandlerStep, vars, memory, UserSend, UserQueues, ToolStep, CreateBegin, Terminate, WaitCall,
            CreateStored, CreateSent, SchedBegin, SchedPick, SchedRecheck, SchedSend, SchedMark, TerminateStop, TerminateReject,
            TerminateRemove, RootEnd, RootSweep, Nudge, WaitRead, WaitTimeout, StreamEnds, TaskEvent, PlanRead, PromptCheck, Ask,
            MarkReported, Deliver, ResolveLate, ParentResume, ResumeParent, CleanupCheck, CleanupRemove, PatchDone
    <2>2. ASSUME NEW k \in Tasks, Persist(k), t \in patching'
          PROVE  k = t /\ handler[t].at = "persist"
        BY <1>3, <2>2 DEF Persist, At
    <2> QED
        BY <1>3, <2>1, <2>2
<1>5. handler'[t].at # "persist"
    <2>1. CASE handler'[t] = handler[t]
        BY <1>3, <2>1
    <2>2. CASE MarkReported(t)
        <3>1. status[t] # "none" /\ At(t, "mark")
            BY <2>2, AtWork DEF MarkReported, At, Unborn
        <3>2. status[t] # "reported" /\ Present(t)
            BY <1>2, <3>1, PresentIs DEF Going
        <3> QED
            BY <1>1, <2>2, <3>2 DEF MarkReported, Going, Basic, ConfigTyped
    <2>3. CASE HandlerStep(t) /\ ~ MarkReported(t) /\ handler'[t].at = "persist"
        <3>1. TaskEvent(t) => FALSE
            BY <1>1, <1>3, <2>3 DEF TaskEvent, HandlerTyped
        <3>2. Finished(t) => FALSE
            BY <1>1, <2>3, FinishedIs
        <3>3. Resolve(t) => FALSE
            BY <2>3, ResolveIs
        <3>4. ASSUME NEW a \in {"mark", "ask", "check", "deliver", "resolve", "resume", "remove"}, Move(t, a) PROVE FALSE
            BY <1>1, <2>3, <3>4, MoveIs DEF Step
        <3>5. Leave(t) \/ (\E x \in Workspaces : Clean(t, x)) => FALSE
            BY <1>1, <2>3, LeaveIs, CleanIs
        <3>6. ~ PlanRead(t) /\ ~ PromptCheck(t)
            BY <3>4, <3>5 DEF PlanRead, PromptCheck
        <3>7. ~ Ask(t) /\ ~ ParentResume(t) /\ ~ ResumeParent(t)
            BY <3>2, <3>4, <3>5 DEF Ask, ParentResume, ResumeParent
        <3>8. ~ Persist(t) /\ ~ Deliver(t) /\ ~ ResolveLate(t) /\ ~ CleanupCheck(t)
            BY <3>3, <3>4, <3>5 DEF Persist, Deliver, ResolveLate, CleanupCheck
        <3>9. ~ CleanupRemove(t)
            <4>1. At(t, "remove") => ParentOf[handler[t].on] \in Workspaces
                BY Tree DEF At, Basic, HandlerPhases, HandlerPhase, RootPhase, Over
            <4> QED
                BY <3>5, <4>1 DEF CleanupRemove
        <3>10. ~ PatchDone(t) /\ ~ ResumeSent(t)
            BY <1>3, <2>3 DEF PatchDone, ResumeSent
        <3> QED
            BY <2>3, <3>1, <3>6, <3>7, <3>8, <3>9, <3>10 DEF HandlerStep
    <2> QED
        BY <2>1, <2>2, <2>3, HandlersAre
<1>6. \A i \in DOMAIN events'[t] : events'[t][i] # "recheck"
    <2>1. CASE TaskEvent(t)
        <3>1. events'[t] = Tail(events[t]) /\ events[t] # <<>>
            BY <2>1, TaskEventIs DEF Steady
        <3> QED
            BY <1>1, <1>3, <3>1, RestIs
    <2>2. CASE ~ TaskEvent(t)
        BY <1>1, <1>2, <1>3, <2>2, EventsAre, AddedIs DEF Going, Closes
    <2> QED
        BY <2>1, <2>2
<1> QED
    BY <1>4, <1>5, <1>6

LEMMA UndisturbedKept == ASSUME Basic, Steady, CalmStep, Calm PROVE Undisturbed'
<1>1. resuming' = {}
    <2>1. CASE UserSend(Root) \/ Nudge
        BY <2>1, RootIsSent DEF UserSend, Nudge, SentTo, Steady, Undisturbed
    <2>2. ASSUME NEW t \in Tasks, Ask(t) \/ ResumeParent(t) PROVE UNCHANGED resuming
        BY <2>2, AsksAwake DEF Steady, SentTo
    <2>3. CASE ~ UserSend(Root) /\ ~ Nudge /\ \A t \in Tasks : ~ Ask(t) /\ ~ ResumeParent(t)
        <3>1. UNCHANGED resuming
            BY <2>3 DEF CalmStep, HandlerStep, vars, UserQueues, ToolStep, CreateBegin, Terminate, WaitCall,
                CreateStored, CreateSent, SchedBegin, SchedPick, SchedRecheck, SchedSend, SchedMark, TerminateStop, TerminateReject,
                TerminateRemove, RootEnd, RootSweep, WaitRead, WaitTimeout, StreamEnds, TaskEvent, PlanRead, PromptCheck,
                MarkReported, Persist, Deliver, ResolveLate, ParentResume, CleanupCheck, CleanupRemove, PatchDone
        <3> QED
            BY <3>1 DEF Steady, Undisturbed
    <2> QED
        BY <2>1, <2>2, <2>3 DEF Steady, Undisturbed
<1>2. asked' = {}
    BY DEF CalmStep, HandlerStep, vars, UserSend, UserQueues, ToolStep, CreateBegin, Terminate, WaitCall,
        CreateStored, CreateSent, SchedBegin, SchedPick, SchedRecheck, SchedSend, SchedMark, TerminateStop, TerminateReject,
        TerminateRemove, RootEnd, RootSweep, Nudge, WaitRead, WaitTimeout, StreamEnds, TaskEvent, PlanRead, PromptCheck, Ask,
        MarkReported, Persist, Deliver, ResolveLate, ParentResume, ResumeParent, CleanupCheck, CleanupRemove, PatchDone,
        Steady, Undisturbed
<1>3. mutex'.kind # "cascade"
    <2>1. mutex.kind # "cascade" /\ mutex \in MutexT
        BY DEF Steady, Undisturbed, Basic, MutexTyped
    <2>2. UNCHANGED mutex \/ mutex' = Free \/ (\E a \in MutexAt : Then(a))
          \/ (\E k \in {"create", "sched", "terminate"} : \E a, w, todo : Hold(k, a, w, todo))
          \/ (\E a \in MutexAt : mutex' = [mutex EXCEPT !.at = a, !.todo = Tail(@)])
        BY DEF CalmStep, HandlerStep, vars, UserSend, UserQueues, ToolStep, CreateBegin, Terminate, WaitCall,
            CreateStored, CreateSent, SchedBegin, SchedPick, SchedRecheck, SchedSend, SchedMark, TerminateStop, TerminateReject,
            TerminateRemove, RootEnd, RootSweep, Nudge, WaitRead, WaitTimeout, StreamEnds, TaskEvent, PlanRead, PromptCheck, Ask,
            MarkReported, Persist, Deliver, ResolveLate, ParentResume, ResumeParent, CleanupCheck, CleanupRemove, PatchDone,
            Release, Next1, Done, MutexAt
    <2>3. ASSUME NEW k \in {"create", "sched", "terminate"}, NEW a, NEW w, NEW todo, Hold(k, a, w, todo)
          PROVE  mutex'.kind # "cascade"
        BY <2>3 DEF Hold
    <2>4. ASSUME NEW a \in MutexAt, Then(a) \/ mutex' = [mutex EXCEPT !.at = a, !.todo = Tail(@)]
          PROVE  mutex'.kind = mutex.kind
        BY <2>1, <2>4 DEF Then, MutexT
    <2>5. CASE UNCHANGED mutex \/ mutex' = Free
        BY <2>1, <2>5 DEF Free
    <2>6. CASE \E k \in {"create", "sched", "terminate"} : \E a, w, todo : Hold(k, a, w, todo)
        BY <2>3, <2>6
    <2>7. CASE \E a \in MutexAt : Then(a) \/ mutex' = [mutex EXCEPT !.at = a, !.todo = Tail(@)]
        BY <2>1, <2>4, <2>7
    <2> QED
        BY <2>2, <2>5, <2>6, <2>7
<1>4. \A t \in Tasks : \A i \in DOMAIN events'[t] : events'[t][i] \notin {"error", "fatal"}
    <2> SUFFICES ASSUME NEW t \in Tasks PROVE \A i \in DOMAIN events'[t] : events'[t][i] \notin {"error", "fatal"}
        OBVIOUS
    <2>1. events[t] \in Seq(Event) /\ \A i \in DOMAIN events[t] : events[t][i] \notin {"error", "fatal"}
        BY Tree DEF Basic, EventsTyped, Steady, Undisturbed
    <2>2. CASE TaskEvent(t)
        <3>1. events'[t] = Tail(events[t]) /\ events[t] # <<>>
            BY <2>2, TaskEventIs DEF Steady
        <3> QED
            BY <2>1, <3>1, RestIs
    <2>3. CASE ~ TaskEvent(t)
        BY <2>1, <2>3, EventsAre, AddedIs DEF Closes
    <2> QED
        BY <2>2, <2>3
<1> QED
    BY <1>1, <1>2, <1>3, <1>4 DEF Undisturbed

\* an interrupted task was queued, and stays as it was then
LEMMA DormantKept == ASSUME Basic, Family, Steady, Calm, CalmStep, [Next]_vars, Moves, Basic', Undisturbed'
                     PROVE  Dormant'
<1> SUFFICES ASSUME NEW t \in Tasks, status'[t] = "interrupted"
             PROVE  Fresh(t)' /\ Childless(t)' /\ ~ (Creating /\ Parent = t)'
    BY DEF Dormant
<1>1. t \in Workspaces /\ t # Root
    BY Tree
<1>2. status[t] = "interrupted" \/ (status[t] = "queued" /\ SchedRecheck)
    <2>1. CreateStored /\ t = mutex.task => status[t] = "none"
        BY DEF CreateStored, Holding, Creating, Basic, MutexPhases
    <2>2. status[t] # "none"
        BY DEF Moves
    <2> QED
        BY <2>1, <2>2, StatusIs DEF Steady
<1>3. Fresh(t) /\ t \notin streaming /\ Childless(t) /\ ~ (Creating /\ Parent = t)
    <2>1. CASE status[t] = "queued"
        <3>1. Fresh(t) /\ ~ Marking(t)
            BY <1>2, <2>1 DEF Basic, Untouched, Unborn, SchedRecheck, Holding, Marking
        <3>2. Childless(t)
            BY <1>1, <2>1 DEF Childless, Basic, Lineage, Elder, Unborn
        <3>3. ~ (Creating /\ Parent = t)
            BY <1>1, <3>1 DEF Fresh, Family, CreatorKept
        <3> QED
            BY <3>1, <3>2, <3>3 DEF Fresh
    <2>2. CASE status[t] = "interrupted"
        BY <2>2, MarkedIs DEF Steady, Dormant, Fresh
    <2> QED
        BY <1>2, <2>1, <2>2
<1>4. t \notin streaming'
    <2>1. ~ Ask(t)
        BY <1>3 DEF Ask, At, Fresh, Marking
    <2>2. ~ \E k \in Tasks : ResumeParent(k) /\ ParentOf[k] = t
        BY <1>3, AsksAwake DEF Steady, Childless, Unborn
    <2>3. ~ (CreateSent /\ t = mutex.task)
        BY <1>2 DEF CreateSent, SchedRecheck, Holding, Sending, Family, NewRuns, NoCrash, Calm, Up
    <2>4. ~ (SchedSend /\ t = This)
        BY <1>2 DEF SchedSend, SchedRecheck, Holding, This, Basic, MutexPhases
    <2> QED
        BY <1>3, <2>1, <2>2, <2>3, <2>4, StartsAre DEF Steady
<1>5. handler'[t].at = "idle" /\ t \notin patching' /\ events'[t] = <<>>
    <2>1. ~ TaskEvent(t) /\ ~ StreamEnds(t) /\ ~ PatchDone(t)
        BY <1>3, TaskEventIs DEF Fresh, Steady, StreamEnds, PatchDone
    <2>2. handler'[t].at = "idle"
        BY <1>3, <2>1, HandlersAre DEF Fresh, Marking
    <2>3. t \notin patching'
        <3>1. patching' \subseteq patching \/ \E k \in Tasks : Persist(k)
            BY DEF CalmStep, HandlerStep, vars, memory, UserSend, UserQueues, ToolStep, CreateBegin, Terminate, WaitCall,
                CreateStored, CreateSent, SchedBegin, SchedPick, SchedRecheck, SchedSend, SchedMark, TerminateStop, TerminateReject,
                TerminateRemove, RootEnd, RootSweep, Nudge, WaitRead, WaitTimeout, StreamEnds, TaskEvent, PlanRead, PromptCheck, Ask,
                MarkReported, Deliver, ResolveLate, ParentResume, ResumeParent, CleanupCheck, CleanupRemove, PatchDone
        <3>2. ASSUME NEW k \in Tasks, Persist(k) PROVE t \notin patching'
            BY <1>3, <3>2 DEF Persist, At, Fresh, Marking
        <3> QED
            BY <1>3, <3>1, <3>2 DEF Fresh, Marking
    <2>4. events'[t] = <<>>
        BY <1>2, <1>3, <2>1, EventsAre DEF Fresh, Over
    <2> QED
        BY <2>2, <2>3, <2>4
<1>6. Childless(t)'
    <2>1. ASSUME NEW k \in Tasks, ParentOf[k] = t PROVE status'[k] = "none"
        <3>1. status[k] = "none" /\ (Creating => k # mutex.task)
            BY <1>3, <2>1 DEF Childless, Parent
        <3> QED
            BY <3>1 DEF Moves
    <2> QED
        BY <2>1 DEF Childless
<1>7. ~ (Creating /\ Parent = t)'
    <2>1. Creating' => \/ Creating /\ mutex'.task = mutex.task
                       \/ ParentOf[mutex'.task] \in streaming /\ UNCHANGED streaming
        <3>1. UNCHANGED mutex => (Creating' <=> Creating)
            BY DEF Creating
        <3>2. CASE Creating'
            <4>1. mutex'.kind = "create"
                BY <3>2 DEF Creating
            <4> QED
                BY <3>1, <3>2, <4>1, CreatedIs
        <3> QED
            BY <3>2
    <2> QED
        BY <1>3, <1>4, <2>1 DEF Parent
<1> QED
    BY <1>3, <1>4, <1>5, <1>6, <1>7 DEF Fresh, Marking, Undisturbed

LEMMA SteadyStarts == Init => Steady
<1> SUFFICES ASSUME Init PROVE Steady
    OBVIOUS
<1>1. /\ \A t \in Tasks : status[t] = "none" /\ events[t] = <<>> /\ handler[t] = Idle
      /\ asked = {} /\ resuming = {} /\ mutex = Free /\ patching = {}
    BY Tree DEF Init
<1> QED
    BY <1>1 DEF Steady, Undisturbed, Free, Dormant, Rechecked, Idle

(* Undisturbed, a task is interrupted only instead of being started, is    *)
(* never resumed, and nothing is asked of it before it has reported.       *)
THEOREM AlwaysSteady == ASSUME Calm PROVE Spec => []Steady
<1>1. Quiet
    BY DEF Calm, Quiet
<1>2. Spec => []Basic /\ []Family
    BY <1>1, AlwaysBasic, AlwaysFamily
<1>3. Init => Steady
    BY SteadyStarts
<1>4. Basic /\ Family /\ Steady /\ [Next]_vars /\ Basic' => Steady'
    <2> SUFFICES ASSUME Basic, Family, Steady, [Next]_vars, Basic' PROVE Steady'
        OBVIOUS
    <2>1. CalmStep /\ Moves
        BY CalmIs, Steps DEF Steady
    <2>2. Undisturbed'
        BY <2>1, UndisturbedKept
    <2>3. Dormant' /\ Rechecked'
        BY <2>1, <2>2, DormantKept, RecheckedKept
    <2> QED
        BY <2>2, <2>3 DEF Steady
<1> QED
    BY <1>2, <1>3, <1>4, PTL DEF Spec

-----------------------------------------------------------------------------
(* Who waits for a task is told when it has ended.                         *)
AtIt == {"queued", "running", "awaiting_report"}
Finishing(t) == handler[t].at \in {"persist", "deliver", "resolve"}
Answered == \A v \in Waits : Pending(v) => status[wait[v].task] \in AtIt \/ Finishing(wait[v].task)
\* a task that is being sent its first message is known to nobody
NewUnawaited == Sending => WaitsFor(mutex.task) = {}
Waited == Answered /\ NewUnawaited

LEMMA EndsWaits ==
    ASSUME wait \in [Waits -> WaitT], NEW V, NEW how, wait' = End(V, how), NEW v \in Waits, Pending(v)'
    PROVE  v \notin V /\ wait'[v] = wait[v]
<1>1. wait'[v] = IF v \in V THEN [wait[v] EXCEPT !.at = "over", !.got = how] ELSE wait[v]
    BY DEF End
<1>2. v \notin V
    <2>1. v \in V => wait'[v].at = "over"
        BY <1>1 DEF WaitT
    <2> QED
        BY <2>1 DEF Pending
<1> QED
    BY <1>1, <1>2

\* a call waits on for the same task, or begins to wait for one that is at work
LEMMA WaitsAre ==
    ASSUME Basic, Family, Steady, Calm, CalmStep, NEW v \in Waits, Pending(v)'
    PROVE  \/ Pending(v) /\ wait'[v].task = wait[v].task
           \/ /\ status[wait'[v].task] \in AtIt /\ UNCHANGED <<status, mutex>>
              /\ ~ (Sending /\ mutex.task = wait'[v].task)
<1>1. wait \in [Waits -> WaitT]
    BY DEF Basic, WaitTyped
<1>2. ASSUME NEW V, NEW how, wait' = End(V, how)
      PROVE  Pending(v) /\ wait'[v].task = wait[v].task
    BY <1>1, <1>2, EndsWaits DEF Pending
<1>3. ASSUME NEW t, wait' = StartTimers(t)
      PROVE  Pending(v) /\ wait'[v].task = wait[v].task
    BY <1>1, <1>3 DEF StartTimers, Pending
<1>4. ASSUME NEW t \in Tasks, NEW u \in Waits, WaitCall(u, t)
      PROVE  \/ Pending(v) /\ wait'[v].task = wait[v].task
             \/ status[t] \in AtIt /\ wait'[v].task = t /\ UNCHANGED <<status, mutex>> /\ ~ (Sending /\ mutex.task = t)
    BY <1>1, <1>4 DEF WaitCall, Register, Pending, AtIt, Sending, config
<1>5. ASSUME NEW u \in Waits, WaitRead(u)
      PROVE  \/ Pending(v) /\ wait'[v].task = wait[v].task
             \/ /\ status[wait'[v].task] \in AtIt /\ UNCHANGED <<status, mutex>>
                /\ ~ (Sending /\ mutex.task = wait'[v].task)
    <2> DEFINE t == wait[u].task
    <2>1. t \in Tasks
        BY <1>5 DEF WaitRead, Basic, WaitTyped
    <2>2. CASE t \in streaming /\ status[t] \notin {"removed", "reported"} /\ Register(u, t)
        <3>1. status[t] \in AtIt
            <4>1. status[t] # "none" /\ status[t] # "interrupted"
                BY <2>1, <2>2, MarkedIs DEF Basic, Untouched, Fresh, Steady, Dormant, Unborn
            <4> QED
                BY <2>1, <2>2, <4>1 DEF Basic, ConfigTyped, Status, AtIt
        <3>2. ~ (Sending /\ mutex.task = t)
            BY <2>2 DEF Family, NewRuns, Fresh, Marking, NoCrash, Calm, Up, Sending
        <3>3. UNCHANGED <<status, mutex>>
            BY <1>5 DEF WaitRead, config
        <3>4. CASE v = u
            BY <1>1, <2>2, <3>1, <3>2, <3>3, <3>4 DEF Register
        <3>5. CASE v # u
            BY <1>1, <2>2, <3>5 DEF Register, Pending
        <3> QED
            BY <3>4, <3>5
    <2>3. CASE wait' = [wait EXCEPT ![u].got = status[t]] /\ wait[u].at = "reading"
        BY <1>1, <2>3 DEF Pending
    <2> QED
        BY <1>2, <1>5, <2>2, <2>3 DEF WaitRead
<1>6. ASSUME NEW t \in Tasks, HandlerStep(t)
      PROVE  Pending(v) /\ wait'[v].task = wait[v].task
    <2>1. UNCHANGED wait \/ (\E V, how : wait' = End(V, how)) \/ wait' = StartTimers(t)
        BY <1>6 DEF HandlerStep, TaskEvent, Reject, PlanRead, SetStatus, PromptCheck, Ask, MarkReported, Persist, Deliver,
            ResolveLate, Resolve, ParentResume, ResumeParent, CleanupCheck, CleanupRemove, PatchDone, ResumeSent
    <2>2. CASE UNCHANGED wait
        BY <2>2 DEF Pending
    <2> QED
        BY <1>2, <1>3, <2>1, <2>2
<1>7. CASE UserQueues(Root) \/ SchedRecheck \/ SchedSend \/ SchedMark \/ TerminateStop \/ TerminateReject \/ \E u \in Waits : WaitTimeout(u)
    <2>1. UNCHANGED wait \/ (\E V, how : wait' = End(V, how)) \/ wait' = StartTimers(This)
        BY <1>7 DEF UserQueues, SchedRecheck, SchedSend, SchedMark, TerminateStop, TerminateReject, Halt, WaitTimeout
    <2>2. CASE UNCHANGED wait
        BY <2>2 DEF Pending
    <2> QED
        BY <1>2, <1>3, <2>1, <2>2
<1>8. CASE UNCHANGED vars \/ UserSend(Root) \/ (\E t \in Tasks : CreateBegin(t) \/ Terminate(t)) \/ CreateStored \/ CreateSent
           \/ (\E c \in Workspaces : SchedBegin(c)) \/ SchedPick \/ TerminateRemove \/ RootEnd \/ RootSweep \/ Nudge
           \/ \E w \in Workspaces : StreamEnds(w)
    <2>1. UNCHANGED wait
        BY <1>8 DEF vars, UserSend, CreateBegin, Terminate, CreateStored, CreateSent, SchedBegin, SchedPick, TerminateRemove,
            RootEnd, RootSweep, Nudge, StreamEnds
    <2> QED
        BY <2>1 DEF Pending
<1> QED
    BY <1>4, <1>5, <1>6, <1>7, <1>8 DEF CalmStep, ToolStep

\* a handler that finishes a report ends the waits
LEMMA FinishesIs ==
    ASSUME Basic, CalmStep, NEW t \in Tasks, Finishing(t), ~ Finishing(t)', NEW v \in Waits, Pending(v)'
    PROVE  wait'[v].task # t
<1>1. t \in Workspaces /\ HandlerTyped /\ wait \in [Waits -> WaitT]
    BY Tree DEF Basic, WaitTyped
<1>2. handler'[t] # handler[t] /\ HandlerStep(t)
    BY HandlersAre DEF Finishing
<1>3. ~ TaskEvent(t) /\ ~ PlanRead(t) /\ ~ PromptCheck(t) /\ ~ Ask(t) /\ ~ MarkReported(t) /\ ~ ParentResume(t)
      /\ ~ ResumeParent(t) /\ ~ CleanupCheck(t) /\ ~ CleanupRemove(t)
    BY DEF Finishing, TaskEvent, Waiting, PlanRead, PromptCheck, Ask, MarkReported, ParentResume, ResumeParent, CleanupCheck,
        CleanupRemove, At
<1>4. ~ PatchDone(t) /\ ~ ResumeSent(t)
    BY <1>2 DEF PatchDone, ResumeSent
<1>5. ASSUME NEW a \in {"deliver", "resolve"}, Move(t, a) PROVE FALSE
    BY <1>1, <1>5, MoveIs DEF Step, Finishing
<1>6. wait' = End(WaitsFor(t), "report")
    BY <1>2, <1>3, <1>4, <1>5 DEF HandlerStep, Persist, Deliver, ResolveLate, Resolve
<1>7. v \notin WaitsFor(t) /\ wait'[v] = wait[v]
    BY <1>1, <1>6, EndsWaits
<1> QED
    BY <1>7 DEF WaitsFor, Pending

LEMMA AnsweredKept ==
    ASSUME Basic, Family, Steady, Waited, Calm, "terminate" \notin Features, UntimedIInv, CalmStep, [Next]_vars, Moves
    PROVE  Answered'
<1> SUFFICES ASSUME NEW v \in Waits, Pending(v)'
             PROVE  (status[wait[v].task] \in AtIt \/ Finishing(wait[v].task))'
    BY DEF Answered
<1> DEFINE t == wait'[v].task
<1>1. CASE status[t] \in AtIt /\ UNCHANGED status
    BY <1>1
<1>2. CASE Pending(v) /\ t = wait[v].task
    <2>1. t \in Tasks
        BY <1>2 DEF Basic, WaitTyped, Pending
    <2>2. CASE Finishing(t)
        BY <2>1, <2>2, FinishesIs DEF Finishing
    <2>3. CASE status[t] \in AtIt /\ status'[t] \notin AtIt
        <3>1. status'[t] # "removed"
            <4>1. ~ (CreateSent /\ t = mutex.task)
                BY <1>2 DEF CreateSent, Holding, Sending, Waited, NewUnawaited, WaitsFor
            <4>2. ~ TerminateRemove
                BY DEF TerminateRemove, Holding, UntimedIInv
            <4>3. ASSUME NEW w \in Tasks, CleanupRemove(w), t = handler[w].on PROVE FALSE
                BY <2>3, <4>3 DEF CleanupRemove, At, Basic, HandlerPhases, HandlerPhase, RootPhase, Over, AtIt
            <4>4. ~ BootStep
                <5>1. boot.at = "up"
                    BY DEF Family, NoCrash, Calm, Up
                <5> QED
                    BY <5>1 DEF BootStep
            <4> QED
                BY <2>1, <2>3, <4>1, <4>2, <4>3, <4>4, RemovedIs DEF AtIt
        <3>2. ~ (SchedRecheck /\ t = This /\ status'[t] # status[t])
            <4>1. ASSUME SchedRecheck, t = This, status'[t] # status[t] PROVE wait' = End(WaitsFor(t), "error")
                BY <4>1 DEF SchedRecheck
            <4>2. wait' = End(WaitsFor(t), "error") => FALSE
                BY <1>2, EndsWaits DEF Basic, WaitTyped, WaitsFor
            <4> QED
                BY <4>1, <4>2
        <3>3. CASE MarkReported(t) /\ status'[t] = "reported"
            BY <2>1, <2>3, <3>3, ReportedIs DEF Finishing, AtIt
        <3>4. CASE CreateStored /\ t = mutex.task
            BY <2>1, <2>3, <3>4 DEF CreateStored, Holding, Creating, Basic, MutexPhases, AtIt
        <3> QED
            BY <2>1, <2>3, <3>1, <3>2, <3>3, <3>4, StatusIs DEF Steady, AtIt
    <2> QED
        BY <1>2, <2>2, <2>3 DEF Waited, Answered
<1> QED
    BY <1>1, <1>2, WaitsAre

LEMMA NewUnawaitedKept ==
    ASSUME Basic, Family, Steady, Waited, Calm, CalmStep, [Next]_vars, Moves
    PROVE  NewUnawaited'
<1> SUFFICES ASSUME Sending', NEW v \in Waits, Pending(v)', wait'[v].task = mutex'.task PROVE FALSE
    BY DEF NewUnawaited, WaitsFor
<1>1. CASE Sending /\ UNCHANGED mutex
    <2>1. ~ (Pending(v) /\ wait[v].task = mutex.task)
        BY <1>1 DEF Waited, NewUnawaited, WaitsFor
    <2> QED
        BY <1>1, <2>1, WaitsAre
<1>2. CASE Creating /\ mutex'.task = mutex.task /\ status[mutex.task] = "none"
    <2>1. mutex.task \in Tasks /\ handler[mutex.task].at = "idle"
        BY <1>2 DEF Creating, Basic, MutexPhases, Untouched, Unborn, Fresh, Marking
    <2>2. ~ (Pending(v) /\ wait[v].task = mutex.task)
        BY <1>2, <2>1 DEF Waited, Answered, AtIt, Finishing
    <2> QED
        BY <1>2, <2>2, WaitsAre DEF AtIt
<1> QED
    BY <1>1, <1>2, SendingIs

(* Undisturbed, and unless a tool terminates a task, who waits for a task  *)
(* that has ended has been told: the task he waits for is queued, works,   *)
(* awaits its report, or its handler is about to deliver the report to him *)
(* (waitForAgentReport, resolveWaiters, rejectWaiters).                    *)
THEOREM NobodyWaitsInVain == ASSUME Calm, "terminate" \notin Features PROVE Spec => []NobodyHangs
<1>1. Quiet
    BY DEF Calm, Quiet
<1>2. Spec => []Basic /\ []Family /\ []Steady /\ []UntimedIInv
    BY <1>1, AlwaysBasic, AlwaysFamily, AlwaysSteady, AlwaysUntimed
<1>3. Init => Waited
    BY DEF Init, Waited, Answered, NewUnawaited, Sending, Free, Pending, NoWait
<1>4. Basic /\ Family /\ Steady /\ UntimedIInv /\ Waited /\ [Next]_vars => Waited'
    <2> SUFFICES ASSUME Basic, Family, Steady, UntimedIInv, Waited, [Next]_vars PROVE Waited'
        OBVIOUS
    <2>1. CalmStep /\ Moves
        BY CalmIs, Steps DEF Steady
    <2>2. Answered' /\ NewUnawaited'
        BY <2>1, AnsweredKept, NewUnawaitedKept
    <2> QED
        BY <2>2 DEF Waited
<1>5. Waited => NobodyHangs
    BY DEF Waited, Answered, NobodyHangs, Ended, WaitsFor, AtIt, Finishing, Idle
<1> QED
    BY <1>2, <1>3, <1>4, <1>5, PTL DEF Spec
=============================================================================
