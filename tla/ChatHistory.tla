---------------------------- MODULE ChatHistory -----------------------------
(***************************************************************************)
(* The persisted chat of one workspace: chat.jsonl (the rows), partial.json*)
(* (the reply being streamed) and the in-memory sequence counter of        *)
(* HistoryService, with the callers that share them: the turn of the       *)
(* session (append, commit, stream, finish, abort, fail), a fork of the    *)
(* workspace, and the user's clear, truncate and edit.                     *)
(*                                                                         *)
(* Every write of HistoryService holds the workspace's file lock from its  *)
(* first read to its last write (module MutexMap), so it is one action.    *)
(* commitPartial holds the lock only inside the operations it calls: it is *)
(* one action per await.                                                   *)
(***************************************************************************)
EXTENDS Integers, Sequences, FiniteSets

CONSTANTS
    MaxMsg,     \* bound: messages ever created
    MaxParts,   \* bound: parts of a reply
    Features    \* what may happen besides sending, streaming and retrying

Feature == {"abort", "error", "crash", "fork", "clear", "truncate", "edit", "compact"}

ASSUME BoundsAssumption == MaxMsg \in Nat \ {0} /\ MaxParts \in Nat \ {0}
ASSUME FeaturesAssumption == Features \subseteq Feature

Unset == -1                     \* sequenceCounters has no entry
NoMsg == [id |-> 0]             \* no partial.json, no reply being streamed
Committer == {"turn", "fork"}   \* the calls of commitPartial that overlap

VARIABLES
    rows,       \* chat.jsonl
    partial,    \* partial.json
    counter,    \* sequenceCounters.get(workspaceId)
    pc,         \* where the session's turn is
    reply,      \* the streamed message in memory (WorkspaceStreamInfo)
    cpc,        \* cpc[c]: where committer c is in commitPartial
    snap,       \* snap[c]: the partial c has read
    plan,       \* plan[c]: what c has decided to do with it
    fresh,      \* the id of the next message
    removed,    \* history variable: ids of the rows the user removed
    finished,   \* history variable: ids of the replies that streamed to their end
    kept        \* history variable: content of a reply that reached the disk

disk == <<rows, partial>>
commit == <<cpc, snap, plan>>
ghost == <<removed, finished, kept>>
vars == <<rows, partial, counter, pc, reply, cpc, snap, plan, fresh, ghost>>

MsgId == 1..MaxMsg
Row == [id : MsgId, seq : Nat, role : {"user", "snapshot", "assistant"}, parts : 0..MaxParts,
        partial : BOOLEAN, boundary : BOOLEAN]
Partial == [id : MsgId, seq : Nat, parts : 0..MaxParts, worthy : BOOLEAN, error : BOOLEAN]

Ids(s) == {s[i].id : i \in DOMAIN s}
Largest(S) == CHOOSE n \in S : \A k \in S : k <= n

\* one more than the largest sequence of s, 0 for no rows
SeqAfter(s) == IF s = <<>> THEN 0 ELSE Largest({s[i].seq : i \in DOMAIN s}) + 1

\* getHistoryFromLatestBoundary: the positions from the latest boundary on
Epoch(s) ==
    {i \in DOMAIN s : \A j \in DOMAIN s : s[j].boundary => j <= i}

\* the first position of a set of positions, 0 when it is empty
First(I) == IF I = {} THEN 0 ELSE CHOOSE i \in I : \A j \in I : i <= j
At(s, n) == First({i \in DOMAIN s : s[i].seq = n})

Init ==
    /\ rows = <<>> /\ partial = NoMsg /\ counter = Unset
    /\ pc = "idle" /\ reply = NoMsg
    /\ cpc = [c \in Committer |-> "idle"]
    /\ snap = [c \in Committer |-> NoMsg]
    /\ plan = [c \in Committer |-> "none"]
    /\ fresh = 1
    /\ removed = {} /\ finished = {} /\ kept = [m \in MsgId |-> 0]

-----------------------------------------------------------------------------
(* The locked operations of HistoryService.                                *)

(* Operators named ...Bug are mistakes the mutation runs put in the place  *)
(* of the operator that follows; no action uses them.                      *)

\* a restart forgets what the file holds
NextFromZeroBug == IF counter # Unset THEN counter ELSE 0

\* a restart does not initialize the counter
NextUnsetBug == counter

\* getNextHistorySequence
NextSequence ==
    CASE counter # Unset                 -> counter
      [] counter = Unset /\ rows # <<>>  -> rows[Len(rows)].seq + 1
      [] OTHER                           -> 0

\* the sequence just handed out is handed out again
AppendStuckBug(role, parts) ==
    /\ rows' = Append(rows, [id |-> fresh, seq |-> NextSequence, role |-> role,
                             parts |-> parts, partial |-> FALSE, boundary |-> FALSE])
    /\ counter' = NextSequence
    /\ fresh' = fresh + 1

\* appendToHistory of a message without a historySequence
AppendNew(role, parts) ==
    /\ rows' = Append(rows, [id |-> fresh, seq |-> NextSequence, role |-> role,
                             parts |-> parts, partial |-> FALSE, boundary |-> FALSE])
    /\ counter' = NextSequence + 1
    /\ fresh' = fresh + 1

\* appendToHistory of a message that has one
AppendWithSequence(row) ==
    /\ rows' = Append(rows, row)
    /\ counter' = LET current == IF counter = Unset THEN 0 ELSE counter
                  IN  IF row.seq >= current THEN row.seq + 1 ELSE counter

\* updateHistory that overwrites whatever the row was
UpdateForgetfulBug(row) ==
    LET i == At(rows, row.seq) IN
    /\ i # 0
    /\ rows' = [rows EXCEPT ![i] = row]

\* updateHistory: the row of that sequence is replaced, but a compaction
\* boundary stays one
UpdateHistory(row) ==
    LET i == At(rows, row.seq) IN
    /\ i # 0
    /\ rows' = [rows EXCEPT ![i] = [row EXCEPT !.boundary = @ \/ rows[i].boundary]]

\* truncateAfterMessage that leaves the counter where it was
TruncateAfterStaleBug(id) ==
    LET i == First({j \in DOMAIN rows : rows[j].id = id}) IN
    /\ rows' = SubSeq(rows, 1, i - 1)
    /\ counter' = IF i = 1 THEN 0 ELSE rows[i - 1].seq

\* truncateAfterMessage, of a message that is there
TruncateAfter(id) ==
    LET i == First({j \in DOMAIN rows : rows[j].id = id}) IN
    /\ rows' = SubSeq(rows, 1, i - 1)
    /\ counter' = SeqAfter(rows')

\* truncateHistory: the oldest n rows go; with the last row the file goes
TruncateHead(n) ==
    /\ rows' = SubSeq(rows, n + 1, Len(rows))
    /\ counter' = SeqAfter(rows')

\* the rows of s that are not message id
Without(s, id) ==
    LET left[i \in 0..Len(s)] ==    \* of the first i rows
            IF i = 0 THEN <<>>
            ELSE IF s[i].id = id THEN left[i - 1] ELSE Append(left[i - 1], s[i])
    IN  left[Len(s)]

\* deleteMessage
DeleteMessage(id) ==
    /\ rows' = Without(rows, id)
    /\ counter' = IF counter < SeqAfter(rows') THEN SeqAfter(rows') ELSE counter

-----------------------------------------------------------------------------
(* commitPartial.                                                          *)

\* the row a partial becomes: its error is stripped, its partial mark stays
RowOf(p) == [id |-> p.id, seq |-> p.seq, role |-> "assistant", parts |-> p.parts,
             partial |-> TRUE, boundary |-> FALSE]

\* readPartial
CommitRead(c) ==
    /\ snap' = [snap EXCEPT ![c] = partial]
    /\ cpc' = [cpc EXCEPT ![c] = IF partial = NoMsg THEN "done" ELSE "read"]
    /\ UNCHANGED plan

\* the decision requires two new parts
CommitPlanOffByOneBug(c) ==
    LET p == snap[c]
        i == First({j \in Epoch(rows) : rows[j].seq = p.seq})
    IN
    /\ cpc[c] = "read"
    /\ plan' = [plan EXCEPT ![c] =
            IF p.worthy /\ (IF i = 0 THEN TRUE ELSE p.parts > rows[i].parts + 1)
            THEN IF i = 0 THEN "append" ELSE "update" ELSE "none"]
    /\ cpc' = [cpc EXCEPT ![c] = "planned"]
    /\ UNCHANGED <<disk, counter, pc, reply, snap, fresh, ghost>>

\* the history is read, without a lock, and the decision taken
CommitPlan(c) ==
    LET p == snap[c]
        i == First({j \in Epoch(rows) : rows[j].seq = p.seq})
        shouldCommit == p.worthy /\ (i # 0 => p.parts > rows[i].parts)
        shouldDeletePlaceholder ==
            p.error /\ ~ p.worthy /\ i # 0 /\ rows[i].id = p.id /\ rows[i].parts = 0
    IN
    /\ cpc[c] = "read"
    /\ plan' = [plan EXCEPT ![c] =
            CASE shouldCommit /\ i # 0      -> "update"
              [] shouldCommit /\ i = 0      -> "append"
              [] shouldDeletePlaceholder    -> "delete"
              [] OTHER                      -> "none"]
    /\ cpc' = [cpc EXCEPT ![c] = "planned"]
    /\ UNCHANGED <<disk, counter, pc, reply, snap, fresh, ghost>>

\* the history is written, under the lock, as decided
CommitWrite(c) ==
    LET p == snap[c] IN
    /\ cpc[c] = "planned"
    /\ \/ /\ plan[c] = "update"
          /\ UpdateHistory(RowOf(p))
          /\ cpc' = [cpc EXCEPT ![c] = "written"]
          /\ UNCHANGED counter
       \/ \* no row with that sequence any more: commitPartial returns the error
          /\ plan[c] = "update" /\ At(rows, p.seq) = 0
          /\ cpc' = [cpc EXCEPT ![c] = "failed"]
          /\ UNCHANGED <<rows, counter>>
       \/ /\ plan[c] = "append"
          /\ AppendWithSequence(RowOf(p))
          /\ cpc' = [cpc EXCEPT ![c] = "written"]
       \/ /\ plan[c] = "delete" /\ p.id \in Ids(rows)
          /\ DeleteMessage(p.id)
          /\ cpc' = [cpc EXCEPT ![c] = "written"]
       \/ /\ plan[c] = "none" \/ (plan[c] = "delete" /\ p.id \notin Ids(rows))
          /\ cpc' = [cpc EXCEPT ![c] = "written"]
          /\ UNCHANGED <<rows, counter>>
    /\ UNCHANGED <<partial, pc, reply, snap, plan, fresh, ghost>>

\* deletePartial, whatever partial.json holds by now
CommitClean(c) ==
    /\ cpc[c] = "written"
    /\ partial' = NoMsg
    /\ cpc' = [cpc EXCEPT ![c] = "done"]
    /\ UNCHANGED <<rows, counter, pc, reply, snap, plan, fresh, ghost>>

Committing == {"read", "planned", "written"}
CommitOver(c) == cpc[c] \in {"done", "failed"}
EndCommit(c) ==
    /\ cpc' = [cpc EXCEPT ![c] = "idle"]
    /\ snap' = [snap EXCEPT ![c] = NoMsg]
    /\ plan' = [plan EXCEPT ![c] = "none"]

-----------------------------------------------------------------------------
(* The turn of the session.  pc names the await it is at; Clear, Truncate  *)
(* and Edit are refused while the session is busy, which it is from        *)
(* PREPARING on, i.e. from the step Prepare.                               *)

NotBusy == pc \in {"idle", "edited", "snapshot", "appended"}
HasRoom == fresh <= MaxMsg

\* a synthetic row: a file mention or a skill that precedes the user's message,
\* or the [CONTINUE] that follows a reply which is over
AppendSnapshot ==
    /\ HasRoom
    /\ AppendNew("snapshot", 1)
    /\ \/ pc \in {"idle", "edited"} /\ pc' = "snapshot"
       \/ pc = "continue" /\ pc' = "open"
    /\ UNCHANGED <<partial, reply, commit, ghost>>

Send ==
    /\ pc \in {"idle", "snapshot", "edited"} /\ HasRoom
    /\ AppendNew("user", 1)
    /\ pc' = "appended"
    /\ UNCHANGED <<partial, reply, commit, ghost>>

Prepare ==
    /\ pc = "appended"
    /\ pc' = "commit"
    /\ UNCHANGED <<disk, counter, reply, commit, fresh, ghost>>

\* resumeStream: the user's retry, an automatic one, or the one at startup
Resume ==
    /\ pc = "idle"
    /\ pc' = "commit"
    /\ UNCHANGED <<disk, counter, reply, commit, fresh, ghost>>

\* streamWithHistory commits the partial an earlier turn has left
TurnCommitRead ==
    /\ pc = "commit" /\ cpc["turn"] = "idle"
    /\ CommitRead("turn")
    /\ UNCHANGED <<disk, counter, pc, reply, fresh, ghost>>

\* and goes on unless that failed or the history is empty
EndsWithReply ==
    LET last == rows[Len(rows)] IN last.role = "assistant" /\ ~ last.partial
TurnCommitted ==
    /\ pc = "commit" /\ CommitOver("turn")
    /\ pc' = IF cpc["turn"] = "failed" \/ rows = <<>> THEN "idle"
             ELSE IF EndsWithReply THEN "continue" ELSE "open"
    /\ EndCommit("turn")
    /\ UNCHANGED <<disk, counter, reply, fresh, ghost>>

\* streamMessage appends the empty reply, which gets the turn its sequence
OpenReply ==
    /\ pc = "open" /\ HasRoom
    /\ AppendNew("assistant", 0)
    /\ reply' = [id |-> fresh, seq |-> NextSequence, parts |-> 0, worthy |-> FALSE]
    /\ pc' = "opened"
    /\ UNCHANGED <<partial, commit, ghost>>

StartStream ==
    /\ pc = "opened"
    /\ pc' = "streaming"
    /\ UNCHANGED <<disk, counter, reply, commit, fresh, ghost>>

\* aborted before the stream started: deleteAbortedPlaceholder
DropPlaceholder ==
    /\ "abort" \in Features /\ pc = "opened"
    /\ DeleteMessage(reply.id)
    /\ reply' = NoMsg /\ pc' = "idle"
    /\ UNCHANGED <<partial, commit, fresh, ghost>>

\* a text, reasoning or finished tool part makes the reply worth committing
ReceivePart ==
    /\ pc = "streaming" /\ reply.parts < MaxParts
    /\ \E w \in {reply.worthy, TRUE} :
           reply' = [reply EXCEPT !.parts = @ + 1, !.worthy = w]
    /\ UNCHANGED <<disk, counter, pc, commit, fresh, ghost>>

\* writePartial of the reply as it is now
WritePartial(error) ==
    /\ partial' = [id |-> reply.id, seq |-> reply.seq, parts |-> reply.parts,
                   worthy |-> reply.worthy, error |-> error]
    /\ kept' = [kept EXCEPT ![reply.id] = IF reply.worthy THEN reply.parts ELSE @]
    /\ UNCHANGED <<removed, finished>>

\* schedulePartialWrite: the throttled write
FlushPartial ==
    /\ pc = "streaming"
    /\ WritePartial(FALSE)
    /\ UNCHANGED <<rows, counter, pc, reply, commit, fresh>>

\* the provider's stream ended: last flush of the partial
StreamEnds ==
    /\ pc = "streaming" /\ reply.parts > 0
    /\ WritePartial(FALSE)
    /\ pc' = "ended"
    /\ UNCHANGED <<rows, counter, reply, commit, fresh>>

EndKeepPartialBug ==
    /\ pc = "ended"
    /\ pc' = "finalizing"
    /\ UNCHANGED <<disk, counter, reply, commit, fresh, ghost>>

EndDeletePartial ==
    /\ pc = "ended"
    /\ partial' = NoMsg
    /\ pc' = "finalizing"
    /\ UNCHANGED <<rows, counter, reply, commit, fresh, ghost>>

\* updateHistory with the final message; a failure is logged
FinalRow == [id |-> reply.id, seq |-> reply.seq, role |-> "assistant",
             parts |-> reply.parts, partial |-> FALSE, boundary |-> FALSE]
EndUpdateHistory ==
    /\ pc = "finalizing"
    /\ \/ /\ UpdateHistory(FinalRow)
          /\ finished' = finished \cup {reply.id}
       \/ /\ At(rows, reply.seq) = 0
          /\ UNCHANGED <<rows, finished>>
    /\ pc' = "completed"
    /\ UNCHANGED <<partial, counter, reply, commit, fresh, removed, kept>>

\* stream-end handled: nothing more to write
TurnEnds ==
    /\ pc = "completed"
    /\ reply' = NoMsg /\ pc' = "idle"
    /\ UNCHANGED <<disk, counter, commit, fresh, ghost>>

\* performCompaction, first await: a compaction turn deletes the partial
CompactDeletePartial ==
    /\ "compact" \in Features /\ pc = "completed"
    /\ partial' = NoMsg
    /\ pc' = "compacting"
    /\ UNCHANGED <<rows, counter, reply, commit, fresh, ghost>>

\* performCompaction, second await: the streamed summary becomes the boundary,
\* or a message of its own does when the row of the summary is not there
SummaryRow == [FinalRow EXCEPT !.id = fresh, !.seq = NextSequence, !.boundary = TRUE]
CompactMarkBoundary ==
    /\ pc = "compacting"
    /\ \/ /\ UpdateHistory([FinalRow EXCEPT !.boundary = TRUE])
          /\ UNCHANGED <<counter, fresh>>
       \/ /\ At(rows, reply.seq) = 0 /\ HasRoom
          /\ AppendWithSequence(SummaryRow)
          /\ fresh' = fresh + 1
    /\ reply' = NoMsg /\ pc' = "idle"
    /\ UNCHANGED <<partial, commit, ghost>>

\* persistStreamError: the partial stays on disk, marked with the error
StreamFails ==
    /\ "error" \in Features /\ pc = "streaming"
    /\ WritePartial(TRUE)
    /\ reply' = NoMsg /\ pc' = "idle"
    /\ UNCHANGED <<rows, counter, commit, fresh>>

\* cancelStreamSafely flushes what was received; stream-abort commits it
StreamAborts ==
    /\ "abort" \in Features /\ pc = "streaming"
    /\ WritePartial(FALSE)
    /\ pc' = "aborting"
    /\ UNCHANGED <<rows, counter, reply, commit, fresh>>

AbortCommitRead ==
    /\ pc = "aborting" /\ cpc["turn"] = "idle"
    /\ CommitRead("turn")
    /\ UNCHANGED <<disk, counter, pc, reply, fresh, ghost>>

\* the handler ignores the outcome and deletes the partial once more
AbortDeletePartial ==
    /\ pc = "aborting" /\ CommitOver("turn")
    /\ partial' = NoMsg
    /\ EndCommit("turn")
    /\ reply' = NoMsg /\ pc' = "idle"
    /\ UNCHANGED <<rows, counter, fresh, ghost>>

\* interruptStream with abandonPartial: deleted first, flushed again by the
\* cancellation, deleted again by the stream-abort handler
Abandon ==
    /\ "abort" \in Features /\ pc = "streaming"
    /\ partial' = NoMsg
    /\ kept' = [kept EXCEPT ![reply.id] = 0]
    /\ pc' = "abandoning"
    /\ UNCHANGED <<rows, counter, reply, commit, fresh, removed, finished>>

AbandonFlush ==
    /\ pc = "abandoning"
    /\ partial' = [id |-> reply.id, seq |-> reply.seq, parts |-> reply.parts,
                   worthy |-> reply.worthy, error |-> FALSE]
    /\ pc' = "abandoned"
    /\ UNCHANGED <<rows, counter, reply, commit, fresh, ghost>>

AbandonDeletePartial ==
    /\ pc = "abandoned"
    /\ partial' = NoMsg
    /\ reply' = NoMsg /\ pc' = "idle"
    /\ UNCHANGED <<rows, counter, commit, fresh, ghost>>

-----------------------------------------------------------------------------
(* Fork, the user's removals, and a crash.                                 *)

\* fork commits the partial of a workspace that is streaming
ForkCommitRead ==
    /\ "fork" \in Features
    /\ pc \in {"streaming", "ended", "finalizing"} /\ cpc["fork"] = "idle"
    /\ CommitRead("fork")
    /\ UNCHANGED <<disk, counter, pc, reply, fresh, ghost>>

ForkCommitted ==
    /\ CommitOver("fork")
    /\ EndCommit("fork")
    /\ UNCHANGED <<disk, counter, pc, reply, fresh, ghost>>

TakeAway(ids) ==
    /\ removed' = removed \cup ids
    /\ kept' = [m \in MsgId |-> IF m \in ids THEN 0 ELSE kept[m]]
    /\ UNCHANGED finished

\* /clear: the file is unlinked, the partial is not
Clear ==
    /\ "clear" \in Features /\ NotBusy
    /\ TruncateHead(Len(rows))
    /\ TakeAway(Ids(rows) \cup (IF partial = NoMsg THEN {} ELSE {partial.id}))
    /\ UNCHANGED <<partial, pc, reply, commit, fresh>>

\* /truncate: some, not all, of the oldest rows
Truncate ==
    /\ "truncate" \in Features /\ NotBusy
    /\ \E n \in 1..(Len(rows) - 1) :
          /\ TruncateHead(n)
          /\ TakeAway(Ids(SubSeq(rows, 1, n)))
    /\ UNCHANGED <<partial, pc, reply, commit, fresh>>

\* where the snapshots that directly precede row i of the epoch begin
EditTarget(i) ==
    First({j \in Epoch(rows) : j <= i /\ \A k \in j..(i - 1) : rows[k].role = "snapshot"})

\* sendMessage with editMessageId truncates; the new message follows
Edit ==
    /\ "edit" \in Features /\ pc = "idle" /\ HasRoom
    /\ \E i \in Epoch(rows) :
          /\ rows[i].role = "user"
          /\ TruncateAfter(rows[EditTarget(i)].id)
          /\ TakeAway(Ids(SubSeq(rows, EditTarget(i), Len(rows))))
    /\ pc' = "edited"
    /\ UNCHANGED <<partial, reply, commit, fresh>>

Crash ==
    /\ "crash" \in Features
    /\ pc # "idle" \/ \E c \in Committer : cpc[c] # "idle"
    /\ pc' = "idle" /\ reply' = NoMsg /\ counter' = Unset
    /\ cpc' = [c \in Committer |-> "idle"]
    /\ snap' = [c \in Committer |-> NoMsg]
    /\ plan' = [c \in Committer |-> "none"]
    /\ UNCHANGED <<disk, fresh, ghost>>

-----------------------------------------------------------------------------
CommitStep == \E c \in Committer : CommitPlan(c) \/ CommitWrite(c) \/ CommitClean(c)

TurnStep ==
    \/ AppendSnapshot \/ Send \/ Prepare \/ Resume
    \/ TurnCommitRead \/ TurnCommitted
    \/ OpenReply \/ StartStream \/ DropPlaceholder
    \/ ReceivePart \/ FlushPartial
    \/ StreamEnds \/ EndDeletePartial \/ EndUpdateHistory \/ TurnEnds
    \/ CompactDeletePartial \/ CompactMarkBoundary
    \/ StreamFails
    \/ StreamAborts \/ AbortCommitRead \/ AbortDeletePartial
    \/ Abandon \/ AbandonFlush \/ AbandonDeletePartial

UserStep == ForkCommitRead \/ ForkCommitted \/ Clear \/ Truncate \/ Edit

Next == CommitStep \/ TurnStep \/ UserStep \/ Crash

Spec == Init /\ [][Next]_vars

-----------------------------------------------------------------------------
TypeOK ==
    /\ rows \in Seq(Row)
    /\ partial \in Partial \cup {NoMsg}
    /\ counter \in Nat \cup {Unset}
    /\ cpc \in [Committer -> Committing \cup {"idle", "done", "failed"}]
    /\ snap \in [Committer -> Partial \cup {NoMsg}]
    /\ plan \in [Committer -> {"none", "update", "append", "delete"}]
    /\ fresh \in 1..(MaxMsg + 1)
    /\ removed \subseteq MsgId /\ finished \subseteq MsgId
    /\ kept \in [MsgId -> 0..MaxParts]

(* historyService.ts:1023: "sequence numbers are monotonically increasing, *)
(* so the last message always holds the max".                              *)
SequencesIncrease ==
    \A i, j \in DOMAIN rows : i < j => rows[i].seq < rows[j].seq

(* A sequence handed out is never in use: the counter is ahead of the file.*)
CounterAhead ==
    counter # Unset => \A i \in DOMAIN rows : rows[i].seq < counter

(* Content of a reply that reached the disk is in the history, or still in *)
(* the partial, whenever nobody is at work (streamManager.ts:2148-2151).   *)
AtRest == pc = "idle" /\ \A c \in Committer : cpc[c] = "idle"
KeptIn(m, n) ==
    \/ \E i \in DOMAIN rows : rows[i].id = m /\ rows[i].parts >= n
    \/ partial # NoMsg /\ partial.id = m /\ partial.parts >= n
NoContentLost ==
    AtRest => \A m \in MsgId : kept[m] > 0 => KeptIn(m, kept[m])

(* A reply that streamed to its end is never again an interrupted one:     *)
(* "If the partial has already been finalized in history, it is not        *)
(* committed again" (historyService.ts:921).                               *)
FinalizedOnce ==
    \A i \in DOMAIN rows : rows[i].id \in finished => ~ rows[i].partial

(* What the user removed does not come back ("all history is permanently   *)
(* removed", docs/workspaces/compaction/manual.mdx).                       *)
RemovedStaysRemoved == Ids(rows) \cap removed = {}

(* Only the user removes what the user wrote.                              *)
UserRowsStay ==
    [][\A i \in DOMAIN rows : rows[i].role = "user"
          => rows[i].id \in Ids(rows') \cup removed']_vars

(* A compaction boundary stays one through late rewrites of its row        *)
(* (updateHistory: "Preserve compaction boundary metadata").               *)
BoundariesStay ==
    [][\A i \in DOMAIN rows : rows[i].boundary
          => \/ rows[i].id \in removed'
             \/ \E j \in DOMAIN rows' : rows'[j].seq = rows[i].seq /\ rows'[j].boundary]_vars
=============================================================================
