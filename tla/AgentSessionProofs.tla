------------------------- MODULE AgentSessionProofs -------------------------
(***************************************************************************)
(* What holds of a session in every interleaving of sends, edits, retries, *)
(* stops and stream events, for any number of them: a message is in one    *)
(* place, nobody waits for an idle session that is idle, and the queue is  *)
(* kept back only for an edit that waits.                                  *)
(*                                                                         *)
(* Each of these is kept by a step only if more is known.  For the places  *)
(* of the messages it is Located: a batch belongs to one call, and is      *)
(* unsent, a row of the history or gone as a whole.  For that, Typed adds  *)
(* to the types that a retry sends nothing of its own, and Deferral that   *)
(* the queue holds no edit.                                                *)
(***************************************************************************)
EXTENDS AgentSession, TLAPS, SequenceTheorems, FiniteSetTheorems

Phases == {"idle", "preparing", "streaming", "completing"}
States == Unsent \cup {"none", "persisted", "preparing", "starting", "failing", "done"}

\* a retry sends no message of its own
RetriesSendNothing ==
    \A r \in Retry : job[r] \notin Unsent \cup {"persisted"} /\ batch[r] = <<>>

Typed == TypeOK /\ RetriesSendNothing

-----------------------------------------------------------------------------
(* What setTurnPhase does to the calls.                                    *)
LEMMA EnterMoves ==
    ASSUME NEW p \in Phases, NEW j \in [Call -> States], Enter(p, j)
    PROVE  /\ phase' = p /\ job' \in [Call -> States]
           /\ \A c \in Call : job'[c] = IF p = "idle" /\ j[c] = "waiting" THEN "woken" ELSE j[c]
BY DEF Enter, States, Unsent

LEMMA EnterIdleFromMoves ==
    ASSUME NEW p \in Phases, NEW j \in [Call -> States], phase \in Phases, EnterIdleFrom(p, j)
    PROVE  /\ phase' = (IF phase = p THEN "idle" ELSE phase) /\ job' \in [Call -> States]
           /\ \A c \in Call :
                job'[c] = IF phase' = "idle" /\ j[c] = "waiting" THEN "woken" ELSE j[c]
<1>1. (IF phase = p THEN "idle" ELSE phase) \in Phases
    BY DEF Phases
<1> QED
    BY <1>1, EnterMoves, Zenon DEF EnterIdleFrom

(* A new session is typed.                                                 *)
LEMMA InitTyped == Init => Typed
<1> SUFFICES ASSUME Init PROVE Typed
    OBVIOUS
<1> USE DistinctAssumption DEF Init
<1>1. <<>> \in Seq(Msg)
    OBVIOUS
<1>2. goal \in [Edits -> Msg \cup {None}]
    OBVIOUS
<1>3. stream \in [Call \cup {None} -> {"none", "running", "ended", "failed", "aborted",
                                       "closing", "over"}]
    OBVIOUS
<1>4. RetriesSendNothing
    BY DEF RetriesSendNothing, Unsent, Call
<1>5. batch \in [Call -> Seq(Msg)]
    BY <1>1
<1>6. pending \in Call \cup {None}
    OBVIOUS
<1> QED
    BY <1>1, <1>2, <1>3, <1>4, <1>5, <1>6 DEF Typed, TypeOK

LEMMA RangeOf ==
    ASSUME NEW s \in Seq(Msg)
    PROVE  ToSet(s) \subseteq Msg
BY DEF ToSet

(* A queue that is taken back, and a failure, leave the messages typed.    *)
LEMMA ClearTyped ==
    ASSUME Typed, ClearQueue
    PROVE  /\ queue' = <<>> /\ queue' \in Seq(Msg)
           /\ gone' = gone \cup ToSet(queue) /\ gone' \subseteq Msg
BY RangeOf DEF Typed, TypeOK, ClearQueue, Discard

LEMMA FailsTyped ==
    ASSUME Typed, Fails
    PROVE  queue' \in Seq(Msg) /\ gone' \subseteq Msg /\ compacting' = FALSE
BY ClearTyped DEF Typed, TypeOK, Fails

(* The messages and the calls that send them after a flush.                *)
LEMMA FlushTyped ==
    ASSUME Typed, NEW p \in Phases, Flush(job, p)
    PROVE  /\ phase' \in Phases /\ job' \in [Call -> States] /\ queue' \in Seq(Msg)
           /\ batch' \in [Call -> Seq(Msg)] /\ flushed' \subseteq Msg
           /\ RetriesSendNothing'
<1>1. CASE queue = <<>>
    BY <1>1
       DEF Flush, Enter, Typed, TypeOK, RetriesSendNothing, Phases, States, Unsent,
           Call
<1>2. CASE queue # <<>>
    <2> DEFINE q == queue[1]
    <2>1. q \in Msg /\ q \in Call /\ q \notin Retry
        BY <1>2, DistinctAssumption DEF Typed, TypeOK, Call
    <2>2. /\ batch' = [batch EXCEPT ![q] = queue] /\ flushed' = flushed \cup {q} /\ queue' = <<>>
          /\ Enter("preparing", [job EXCEPT ![q] = "sending"])
        BY <1>2 DEF Flush
    <2> HIDE DEF q
    <2>3. [job EXCEPT ![q] = "sending"] \in [Call -> States]
        BY <2>1 DEF Typed, TypeOK, States, Unsent
    <2>4. phase' = "preparing" /\ job' = [job EXCEPT ![q] = "sending"]
        BY <2>2 DEF Enter
    <2>5. batch' \in [Call -> Seq(Msg)] /\ \A r \in Retry : batch'[r] = batch[r]
        BY <2>1, <2>2 DEF Typed, TypeOK, Call
    <2>6. \A r \in Retry : job'[r] = job[r]
        BY <2>1, <2>4 DEF Typed, TypeOK, Call
    <2> QED
        BY <2>1, <2>2, <2>3, <2>4, <2>5, <2>6 DEF Phases, Typed, TypeOK, RetriesSendNothing
<1> QED
    BY <1>1, <1>2

(* Every step keeps the types, and gives a retry nothing to send.          *)
LEMMA TypeStep == Typed /\ [Next]_vars => Typed'
<1> SUFFICES ASSUME Typed, [Next]_vars PROVE Typed'
    OBVIOUS
<1>1. ASSUME NEW c \in Call, Persist(c) PROVE Typed'
    BY <1>1, SubsetsAssumption, DistinctAssumption
       DEF Persist, Typed, TypeOK, RetriesSendNothing, Call, Unsent, aborts, edits,
           ToSet
<1>2. ASSUME NEW c \in Call, Prepare(c) PROVE Typed'
    BY <1>2, SubsetsAssumption, DistinctAssumption
       DEF Prepare, Typed, TypeOK, RetriesSendNothing, Call, Unsent, Enter, aborts,
           edits, ToSet
<1>3. ASSUME NEW c \in Call, StreamMessage(c) PROVE Typed'
    BY <1>3, SubsetsAssumption, DistinctAssumption
       DEF StreamMessage, Typed, TypeOK, RetriesSendNothing, Call, Unsent, messages,
           edits, ToSet
<1>4. ASSUME NEW c \in Call, NothingToStream(c) PROVE Typed'
    BY <1>4, SubsetsAssumption, DistinctAssumption
       DEF NothingToStream, Typed, TypeOK, RetriesSendNothing, Call, Unsent, Enter,
           EnterIdleFrom, messages, aborts, edits, ToSet
<1>5. ASSUME NEW c \in Call, CancelOther(c) PROVE Typed'
    BY <1>5, SubsetsAssumption, DistinctAssumption
       DEF CancelOther, Typed, TypeOK, RetriesSendNothing, Call, Unsent, turns,
           messages, edits, ToSet
<1>6. ASSUME NEW c \in Call, StreamStarts(c) PROVE Typed'
    BY <1>6, SubsetsAssumption, DistinctAssumption
       DEF StreamStarts, Typed, TypeOK, RetriesSendNothing, Call, Unsent, Enter,
           Unpend, messages, edits, ToSet
<1>7. ASSUME NEW c \in Call, StartAborted(c) PROVE Typed'
    BY <1>7, SubsetsAssumption, DistinctAssumption
       DEF StartAborted, Typed, TypeOK, RetriesSendNothing, Call, Unsent, Enter,
           EnterIdleFrom, Unpend, messages, edits, ToSet
<1>8. ASSUME NEW c \in Call, StartFailHandled(c) PROVE Typed'
    BY <1>8, SubsetsAssumption, DistinctAssumption
       DEF StartFailHandled, Typed, TypeOK, RetriesSendNothing, Call, Unsent, Enter,
           FailHandled, messages, aborts, edits, ToSet
<1>9. ASSUME NEW c \in Call, StreamEnds(c) PROVE Typed'
    BY <1>9, SubsetsAssumption, DistinctAssumption
       DEF StreamEnds, Typed, TypeOK, RetriesSendNothing, Call, Unsent, Enter,
           messages, edits, ToSet
<1>10. ASSUME NEW c \in Call, EndHandled(c) PROVE Typed'
    <2>1. CASE defer
        <3>1. /\ EnterIdleFrom("completing", job) /\ phase \in Phases /\ "completing" \in Phases
              /\ job \in [Call -> States] /\ UNCHANGED <<queue, batch, flushed>>
            BY <1>10, <2>1 DEF EndHandled, Typed, TypeOK, Phases, States
        <3>2. phase' \in Phases /\ job' \in [Call -> States]
              /\ \A c1 \in Call : job'[c1] = job[c1] \/ (job[c1] = "waiting" /\ job'[c1] = "woken")
            BY <3>1, EnterIdleFromMoves DEF Phases
        <3>3. RetriesSendNothing'
            BY <3>1, <3>2 DEF RetriesSendNothing, Typed, TypeOK, Call, Unsent
        <3> QED
            BY <1>10, <3>1, <3>2, <3>3
               DEF EndHandled, Typed, TypeOK, Phases, States, aborts, edits
    <2>2. CASE ~ defer
        <3>1. PICK p \in Phases : Flush(job, p)
            BY <1>10, <2>2 DEF EndHandled, Typed, TypeOK, Phases
        <3> QED
            BY <1>10, <2>2, <3>1, FlushTyped
               DEF EndHandled, Typed, TypeOK, Phases, States, aborts, edits
    <2> QED
        BY <2>1, <2>2
<1>11. ASSUME NEW c \in Call, StreamFailHandled(c) PROVE Typed'
    BY <1>11, SubsetsAssumption, DistinctAssumption
       DEF StreamFailHandled, Typed, TypeOK, RetriesSendNothing, Call, Unsent, Enter,
           FailHandled, messages, aborts, edits, ToSet
<1>12. ASSUME NEW c \in Call, StreamAborts(c) PROVE Typed'
    BY <1>12, SubsetsAssumption, DistinctAssumption
       DEF StreamAborts, Typed, TypeOK, RetriesSendNothing, Call, Unsent, turns,
           messages, edits, ToSet
<1>13. ASSUME NEW c \in Call, StartFails(c) PROVE Typed'
    <2>1. queue' \in Seq(Msg) /\ gone' \subseteq Msg /\ compacting' = FALSE
        BY <1>13, FailsTyped DEF StartFails
    <2> QED
        BY <1>13, <2>1
           DEF StartFails, Typed, TypeOK, RetriesSendNothing, Call, Unsent, Enter,
               EnterIdleFrom, Unpend, turns, messages, aborts, edits
<1>14. ASSUME NEW c \in Call, RuntimeFails(c) PROVE Typed'
    BY <1>14, SubsetsAssumption, DistinctAssumption
       DEF RuntimeFails, Typed, TypeOK, RetriesSendNothing, Call, Unsent, Enter,
           EnterIdleFrom, Unpend, messages, edits, ToSet
<1>15. ASSUME NEW c \in Call, StreamFails(c) PROVE Typed'
    <2>1. queue' \in Seq(Msg) /\ gone' \subseteq Msg /\ compacting' = FALSE
        BY <1>15, FailsTyped DEF StreamFails
    <2> QED
        BY <1>15, <2>1
           DEF StreamFails, Typed, TypeOK, RetriesSendNothing, Call, Unsent, Enter,
               EnterIdleFrom, Unpend, turns, messages, aborts, edits
<1>16. ASSUME NEW c \in Call \cup {None}, AbortIgnored(c) PROVE Typed'
    BY <1>16, SubsetsAssumption, DistinctAssumption
       DEF AbortIgnored, Typed, TypeOK, RetriesSendNothing, Call, Unsent, turns,
           messages, aborts, edits, ToSet
<1>17. ASSUME NEW c \in Call \cup {None}, AbortArrives(c) PROVE Typed'
    <2>1. queue' \in Seq(Msg) /\ gone' \subseteq Msg /\ compacting' = FALSE
        BY <1>17, FailsTyped DEF AbortArrives
    <2> QED
        BY <1>17, <2>1
           DEF AbortArrives, Typed, TypeOK, RetriesSendNothing, Call, Unsent, Enter,
               EnterIdleFrom, Unpend, turns, messages, aborts, edits
<1>18. ASSUME NEW c \in Call \cup {None}, AbortHandled(c) PROVE Typed'
    BY <1>18, SubsetsAssumption, DistinctAssumption
       DEF AbortHandled, Typed, TypeOK, RetriesSendNothing, Call, Unsent, Enter,
           messages, aborts, edits, ToSet
<1>19. ASSUME NEW e \in Edits, EditStop(e) PROVE Typed'
    BY <1>19, SubsetsAssumption, DistinctAssumption
       DEF EditStop, Typed, TypeOK, RetriesSendNothing, Call, Unsent, Stop, messages,
           edits, ToSet
<1>20. ASSUME NEW e \in Edits, EditWait(e) PROVE Typed'
    BY <1>20, SubsetsAssumption, DistinctAssumption
       DEF EditWait, Typed, TypeOK, RetriesSendNothing, Call, Unsent, messages, aborts,
           ToSet
<1>21. ASSUME NEW e \in Edits, EditGoes(e) PROVE Typed'
    <2>1. queue' \in Seq(Msg) /\ gone' \subseteq Msg
        BY <1>21, ClearTyped DEF EditGoes
    <2> QED
        BY <1>21, <2>1, SubsetsAssumption, DistinctAssumption
           DEF EditGoes, Typed, TypeOK, RetriesSendNothing, Call, Unsent, aborts
<1>22. ASSUME NEW e \in Edits, Truncate(e) PROVE Typed'
    <2>1. history' \in Seq(Msg) /\ gone' \subseteq Msg
        <3>1. CASE goal[e] \in ToSet(history)
            <4> DEFINE i == CHOOSE i \in DOMAIN history : history[i] = goal[e]
                       cut == SubSeq(history, i, Len(history))
            <4>1. i \in 1..Len(history)
                BY <3>1 DEF Typed, TypeOK, ToSet
            <4>2. /\ history' = SubSeq(history, 1, i - 1)
                  /\ gone' = gone \cup UNION {ToSet(batch[c]) : c \in ToSet(cut)}
                BY <1>22, <3>1 DEF Truncate, Discard
            <4> HIDE DEF i
            <4>3. SubSeq(history, 1, i - 1) \in Seq(Msg)
                BY <4>1, SubSeqProperties DEF Typed, TypeOK
            <4>4. cut \in Seq(Msg)
                BY <4>1, SubSeqProperties DEF Typed, TypeOK
            <4>5. \A c \in ToSet(cut) : ToSet(batch[c]) \subseteq Msg
                BY <4>4, RangeOf DEF Typed, TypeOK, Call
            <4> QED
                BY <4>2, <4>3, <4>5 DEF Typed, TypeOK
        <3>2. CASE goal[e] \notin ToSet(history)
            BY <1>22, <3>2 DEF Truncate, Typed, TypeOK
        <3> QED
            BY <3>1, <3>2
    <2> QED
        BY <1>22, <2>1, SubsetsAssumption, DistinctAssumption
           DEF Truncate, Typed, TypeOK, RetriesSendNothing, Call, Unsent, aborts
<1>23. ASSUME NEW e \in Edits, EditCall(e) PROVE Typed'
    <2>1. e \in Msg /\ e \in Call /\ e \notin Retry
        BY SubsetsAssumption, DistinctAssumption DEF Call
    <2>2. queue' \in Seq(Msg) /\ gone' \subseteq Msg
        BY <1>23, ClearTyped DEF EditCall, Typed, TypeOK
    <2>3. goal' \in [Edits -> Msg \cup {None}]
        <3>1. PICK i \in Editable : goal' = [goal EXCEPT ![e] = history[i]]
            BY <1>23 DEF EditCall
        <3>2. history[i] \in Msg
            BY DEF Editable, Typed, TypeOK
        <3> QED
            BY <3>1, <3>2 DEF Typed, TypeOK
    <2>4. batch' \in [Call -> Seq(Msg)] /\ \A r \in Retry : batch'[r] = <<>>
        BY <1>23, <2>1 DEF EditCall, Typed, TypeOK, RetriesSendNothing, Call
    <2>5. job' \in [Call -> States] /\ \A r \in Retry : job'[r] = job[r]
        BY <1>23, <2>1 DEF EditCall, Typed, TypeOK, Call, States, Unsent
    <2> QED
        BY <1>23, <2>2, <2>3, <2>4, <2>5
           DEF EditCall, Typed, TypeOK, RetriesSendNothing, States, aborts
<1>24. ASSUME NEW u \in User, InterruptRestores(u) PROVE Typed'
    <2>1. queue' \in Seq(Msg) /\ gone' \subseteq Msg
        BY <1>24, ClearTyped DEF InterruptRestores
    <2> QED
        BY <1>24, <2>1, SubsetsAssumption, DistinctAssumption
           DEF InterruptRestores, Typed, TypeOK, RetriesSendNothing, Call, Unsent,
               turns, edits
<1>25. ASSUME NEW u \in User, InterruptSends(u) PROVE Typed'
    <2>1. phase \in Phases /\ Flush(job, phase)
        BY <1>25 DEF InterruptSends, Typed, TypeOK, Phases
    <2> QED
        BY <1>25, <2>1, FlushTyped DEF InterruptSends, Typed, TypeOK, Phases, States, edits
<1>26. ASSUME NEW m \in Msg, SendDirect(m) PROVE Typed'
    BY <1>26, SubsetsAssumption, DistinctAssumption
       DEF SendDirect, Typed, TypeOK, RetriesSendNothing, Call, Unsent, aborts, edits,
           ToSet
<1>27. ASSUME NEW m \in Msg, Enqueue(m) PROVE Typed'
    <2>1. Append(queue, m) \in Seq(Msg)
        BY AppendProperties DEF Typed, TypeOK
    <2> QED
        BY <1>27, <2>1
           DEF Enqueue, Discard, Typed, TypeOK, RetriesSendNothing, turns, aborts,
               edits
<1>28. ASSUME NEW m \in Msg, Refused(m) PROVE Typed'
    <2>1. gone' \subseteq Msg
        BY <1>28, RangeOf DEF Refused, Discard, Typed, TypeOK, Call
    <2>2. m \in Call /\ m \notin Retry
        BY DistinctAssumption DEF Call
    <2> DEFINE j == [job EXCEPT ![m] = "done"]
    <2>3. j \in [Call -> States] /\ \A r \in Retry : j[r] = job[r]
        BY <2>2 DEF Typed, TypeOK, States, Call
    <2>4. phase' \in Phases /\ job' \in [Call -> States]
          /\ \A c \in Call : job'[c] = j[c] \/ (j[c] = "waiting" /\ job'[c] = "woken")
        <3>1. CASE m \in flushed
            <4>1. EnterIdleFrom("preparing", j) /\ phase \in Phases /\ "preparing" \in Phases
                BY <1>28, <3>1 DEF Refused, Typed, TypeOK, Phases
            <4> HIDE DEF j
            <4> QED
                BY <2>3, <4>1, EnterIdleFromMoves DEF Phases
        <3>2. CASE m \notin flushed
            BY <1>28, <2>3, <3>2 DEF Refused, Typed, TypeOK, Phases
        <3> QED
            BY <3>1, <3>2
    <2> HIDE DEF j
    <2>5. RetriesSendNothing'
        BY <1>28, <2>3, <2>4 DEF Refused, RetriesSendNothing, Typed, TypeOK, Call, Unsent
    <2> QED
        BY <1>28, <2>1, <2>4, <2>5 DEF Refused, Typed, TypeOK, Phases, States, aborts, edits
<1>29. ASSUME NEW r \in Retry, RetryFires(r) PROVE Typed'
    BY <1>29, SubsetsAssumption, DistinctAssumption
       DEF RetryFires, Typed, TypeOK, RetriesSendNothing, Call, Unsent, Enter,
           messages, aborts, edits, ToSet
<1>30. ASSUME NEW u \in User, NEW how \in Features, Interrupt(u, how) PROVE Typed'
    BY <1>30 DEF Interrupt, Typed, TypeOK, RetriesSendNothing, Stop, turns, messages, edits
<1>31. ASSUME UNCHANGED vars PROVE Typed'
    BY <1>31 DEF vars, Typed, TypeOK, RetriesSendNothing, turns, messages, aborts, edits
<1> QED
    BY <1>1, <1>2, <1>3, <1>4, <1>5, <1>6, <1>7, <1>8, <1>9, <1>10, <1>11, <1>12,
       <1>13, <1>14, <1>15, <1>16, <1>17, <1>18, <1>19, <1>20, <1>21, <1>22, <1>23,
       <1>24, <1>25, <1>26, <1>27, <1>28, <1>29, <1>30, <1>31, SubsetsAssumption
       DEF Next, ProgramStep, CallStep, StreamStep, AbortStep, EditStep, UserStep, Call
-----------------------------------------------------------------------------
(* Where messages are.  A batch belongs to one call; it is unsent, or a    *)
(* row, or gone as a whole, and a queued message is in no batch.           *)
Batch(c) == ToSet(batch[c])
Located ==
    /\ IsInjective(queue) /\ IsInjective(history)
    /\ \A m \in ToSet(queue) : m \notin gone /\ \A c \in Call : m \notin Batch(c)
    /\ \A c, d \in Call : c # d => Batch(c) \cap Batch(d) = {}
    /\ \A c \in Call : Batch(c) # {} => c \in Batch(c)
    /\ \A c \in Call : job[c] \in Unsent =>
          c \notin ToSet(history) /\ Batch(c) # {} /\ Batch(c) \cap gone = {}
    /\ \A c \in ToSet(history) : Batch(c) # {} /\ Batch(c) \cap gone = {}
    /\ \A c \in Call : job[c] \notin Unsent /\ c \notin ToSet(history) => Batch(c) \subseteq gone

\* no call begins or stops to have its messages unsent
MovesOn == \A c \in Call : job'[c] \in Unsent <=> job[c] \in Unsent

(* Sequences as sets.                                                      *)
LEMMA SetOfAppend ==
    ASSUME NEW s \in Seq(Msg), NEW x \in Msg
    PROVE  /\ ToSet(Append(s, x)) = ToSet(s) \cup {x}
           /\ IsInjective(s) /\ x \notin ToSet(s) => IsInjective(Append(s, x))
<1> DEFINE t == Append(s, x)
<1>1. /\ DOMAIN s = 1..Len(s) /\ DOMAIN t = 1..(Len(s) + 1) /\ Len(s) \in Nat
      /\ t[Len(s) + 1] = x /\ \A i \in 1..Len(s) : t[i] = s[i]
    OBVIOUS
<1> HIDE DEF t
<1>2. \A i \in DOMAIN t : i \in DOMAIN s \/ i = Len(s) + 1
    BY <1>1
<1>3. ToSet(t) = ToSet(s) \cup {x}
    BY <1>1, <1>2 DEF ToSet
<1>4. IsInjective(s) /\ x \notin ToSet(s) => IsInjective(t)
    BY <1>1, <1>2 DEF ToSet, IsInjective
<1> QED
    BY <1>3, <1>4 DEF t

LEMMA SetOfCut ==
    ASSUME NEW s \in Seq(Msg), NEW i \in 1..Len(s), IsInjective(s)
    PROVE  /\ IsInjective(SubSeq(s, 1, i - 1))
           /\ ToSet(SubSeq(s, 1, i - 1)) \cup ToSet(SubSeq(s, i, Len(s))) = ToSet(s)
           /\ ToSet(SubSeq(s, 1, i - 1)) \cap ToSet(SubSeq(s, i, Len(s))) = {}
<1> DEFINE head == SubSeq(s, 1, i - 1)
           rest == SubSeq(s, i, Len(s))
<1>1. /\ DOMAIN s = 1..Len(s) /\ Len(s) \in Nat
      /\ DOMAIN head = 1..(i - 1) /\ \A k \in 1..(i - 1) : head[k] = s[k]
    OBVIOUS
<1>2. DOMAIN rest = 1..(Len(s) - i + 1) /\ \A k \in 1..(Len(s) - i + 1) : rest[k] = s[i + k - 1]
    BY SubSeqProperties
<1> HIDE DEF head, rest
<1>3. IsInjective(head)
    BY <1>1 DEF IsInjective
<1>4. \A l \in DOMAIN rest : \E k \in i..Len(s) : rest[l] = s[k]
    <2> TAKE l \in DOMAIN rest
    <2>1. i + l - 1 \in i..Len(s) /\ rest[l] = s[i + l - 1]
        BY <1>1, <1>2
    <2> QED
        BY <2>1
<1>5. \A k \in i..Len(s) : \E l \in DOMAIN rest : rest[l] = s[k]
    <2> TAKE k \in i..Len(s)
    <2>1. k - i + 1 \in DOMAIN rest /\ i + (k - i + 1) - 1 = k
        BY <1>1, <1>2
    <2>2. PICK l \in DOMAIN rest : i + l - 1 = k
        BY <2>1
    <2>3. rest[l] = s[i + l - 1]
        BY <1>2
    <2> QED
        BY <2>2, <2>3
<1>6. \A k \in DOMAIN s : k \in 1..(i - 1) \/ k \in i..Len(s)
    BY <1>1
<1>7. /\ 1..(i - 1) \subseteq DOMAIN s /\ i..Len(s) \subseteq DOMAIN s
      /\ (1..(i - 1)) \cap (i..Len(s)) = {}
    BY <1>1
<1>8. ToSet(head) \cup ToSet(rest) = ToSet(s)
    <2>1. \A x \in ToSet(head) \cup ToSet(rest) : x \in ToSet(s)
        BY <1>1, <1>4, <1>7 DEF ToSet
    <2>2. \A x \in ToSet(s) : x \in ToSet(head) \cup ToSet(rest)
        BY <1>1, <1>5, <1>6 DEF ToSet
    <2> QED
        BY <2>1, <2>2
<1>9. ToSet(head) \cap ToSet(rest) = {}
    <2>1. \A k \in DOMAIN head, l \in DOMAIN rest : head[k] # rest[l]
        <3> TAKE k \in DOMAIN head, l \in DOMAIN rest
        <3>1. PICK n \in i..Len(s) : rest[l] = s[n]
            BY <1>4
        <3>2. k \in DOMAIN s /\ n \in DOMAIN s /\ k # n /\ head[k] = s[k]
            BY <1>1, <1>7
        <3> QED
            BY <3>1, <3>2 DEF IsInjective
    <2> QED
        BY <2>1 DEF ToSet
<1> QED
    BY <1>3, <1>8, <1>9 DEF head, rest

LEMMA SetOfFew ==
    /\ ToSet(<<>>) = {} /\ IsInjective(<<>>)
    /\ \A x : ToSet(<<x>>) = {x}
BY DEF ToSet, IsInjective

(* Steps that leave the messages where they are.                           *)
LEMMA StayLocated ==
    ASSUME Located, MovesOn, UNCHANGED <<queue, batch, history, gone>>
    PROVE  Located'
BY DEF Located, MovesOn, Batch

(* The queue goes back to the input.                                       *)
LEMMA ClearLocated ==
    ASSUME Typed, Located, MovesOn, ClearQueue, UNCHANGED <<batch, history>>
    PROVE  Located'
<1>1. queue' = <<>> /\ gone' = gone \cup ToSet(queue)
    BY DEF ClearQueue, Discard
<1>2. \A c \in Call : Batch(c)' = Batch(c)
    BY DEF Batch
<1>3. \A c \in ToSet(history) : c \in Call
    BY RangeOf DEF Typed, TypeOK, Call
<1> QED
    BY <1>1, <1>2, <1>3, SetOfFew DEF Located, MovesOn

(* It is sent as the batch of its first message.                           *)
LEMMA FlushLocated ==
    ASSUME Typed, Located, NEW p \in Phases, Flush(job, p), UNCHANGED <<history, gone>>
    PROVE  Located'
<1>1. CASE queue = <<>>
    <2>1. MovesOn /\ UNCHANGED <<queue, batch, history, gone>>
        BY <1>1 DEF Flush, Enter, MovesOn, Unsent, Typed, TypeOK
    <2> QED
        BY <2>1, StayLocated
<1>2. CASE queue # <<>>
    <2>0. PICK q \in Msg : q = queue[1] /\ q \in ToSet(queue)
        BY <1>2 DEF Typed, TypeOK, ToSet
    <2>1. q \in Call /\ q \in ToSet(queue)
        BY <2>0 DEF Call
    <2>2. /\ batch' = [batch EXCEPT ![q] = queue] /\ queue' = <<>>
          /\ job' = [job EXCEPT ![q] = "sending"]
        BY <1>2, <2>0 DEF Flush, Enter
    <2>3. Batch(q) = {}
        BY <2>1 DEF Located
    <2>4. Batch(q)' = ToSet(queue) /\ \A c \in Call \ {q} : Batch(c)' = Batch(c)
        <3>1. batch'[q] = queue /\ \A c \in Call \ {q} : batch'[c] = batch[c]
            BY <2>1, <2>2 DEF Typed, TypeOK
        <3> QED
            BY <3>1 DEF Batch
    <2>5. job'[q] = "sending" /\ \A c \in Call \ {q} : job'[c] = job[c]
        BY <2>1, <2>2 DEF Typed, TypeOK
    <2>6. q \notin ToSet(history)
        BY <2>3 DEF Located
    <2>7. \A c \in ToSet(history) : c \in Call
        BY RangeOf DEF Typed, TypeOK, Call
    <2>8. job'[q] \in Unsent /\ \A c \in Call \ {q} : job'[c] \in Unsent <=> job[c] \in Unsent
        BY <2>5 DEF Unsent
    <2>9. ToSet(queue') = {} /\ IsInjective(queue')
        BY <2>2, SetOfFew
    <2> QED
        BY <2>1, <2>3, <2>4, <2>6, <2>7, <2>8, <2>9 DEF Located
<1> QED
    BY <1>1, <1>2

(* Every step moves a message, a batch or the queue as a whole.            *)
LEMMA LocatedStep == Typed /\ Typed' /\ Located /\ [Next]_vars => Located'
<1> SUFFICES ASSUME Typed, Typed', Located, [Next]_vars PROVE Located'
    OBVIOUS
<1>1. ASSUME NEW c \in Call, StreamMessage(c) PROVE Located'
    <2>1. MovesOn /\ UNCHANGED <<queue, batch, history, gone>>
        BY <1>1
           DEF StreamMessage, Typed, TypeOK, Enter, EnterIdleFrom, FailHandled,
               MovesOn, Unsent, turns, messages
    <2> QED
        BY <2>1, StayLocated
<1>2. ASSUME NEW c \in Call, NothingToStream(c) PROVE Located'
    <2>1. MovesOn /\ UNCHANGED <<queue, batch, history, gone>>
        BY <1>2
           DEF NothingToStream, Typed, TypeOK, Enter, EnterIdleFrom, FailHandled,
               MovesOn, Unsent, turns, messages
    <2> QED
        BY <2>1, StayLocated
<1>3. ASSUME NEW c \in Call, CancelOther(c) PROVE Located'
    <2>1. MovesOn /\ UNCHANGED <<queue, batch, history, gone>>
        BY <1>3
           DEF CancelOther, Typed, TypeOK, Enter, EnterIdleFrom, FailHandled, MovesOn,
               Unsent, turns, messages
    <2> QED
        BY <2>1, StayLocated
<1>4. ASSUME NEW c \in Call, StreamStarts(c) PROVE Located'
    <2>1. MovesOn /\ UNCHANGED <<queue, batch, history, gone>>
        BY <1>4
           DEF StreamStarts, Typed, TypeOK, Enter, EnterIdleFrom, FailHandled, MovesOn,
               Unsent, turns, messages
    <2> QED
        BY <2>1, StayLocated
<1>5. ASSUME NEW c \in Call, StartAborted(c) PROVE Located'
    <2>1. MovesOn /\ UNCHANGED <<queue, batch, history, gone>>
        BY <1>5
           DEF StartAborted, Typed, TypeOK, Enter, EnterIdleFrom, FailHandled, MovesOn,
               Unsent, turns, messages
    <2> QED
        BY <2>1, StayLocated
<1>6. ASSUME NEW c \in Call, StartFailHandled(c) PROVE Located'
    <2>1. MovesOn /\ UNCHANGED <<queue, batch, history, gone>>
        BY <1>6
           DEF StartFailHandled, Typed, TypeOK, Enter, EnterIdleFrom, FailHandled,
               MovesOn, Unsent, turns, messages
    <2> QED
        BY <2>1, StayLocated
<1>7. ASSUME NEW c \in Call, Prepare(c) PROVE Located'
    <2>1. MovesOn /\ UNCHANGED <<queue, batch, history, gone>>
        BY <1>7
           DEF Prepare, Typed, TypeOK, Enter, EnterIdleFrom, FailHandled, MovesOn,
               Unsent, turns, messages
    <2> QED
        BY <2>1, StayLocated
<1>8. ASSUME NEW c \in Call, StreamEnds(c) PROVE Located'
    <2>1. MovesOn /\ UNCHANGED <<queue, batch, history, gone>>
        BY <1>8
           DEF StreamEnds, Typed, TypeOK, Enter, EnterIdleFrom, FailHandled, MovesOn,
               Unsent, turns, messages
    <2> QED
        BY <2>1, StayLocated
<1>9. ASSUME NEW c \in Call, StreamFailHandled(c) PROVE Located'
    <2>1. MovesOn /\ UNCHANGED <<queue, batch, history, gone>>
        BY <1>9
           DEF StreamFailHandled, Typed, TypeOK, Enter, EnterIdleFrom, FailHandled,
               MovesOn, Unsent, turns, messages
    <2> QED
        BY <2>1, StayLocated
<1>10. ASSUME NEW c \in Call, StreamAborts(c) PROVE Located'
    <2>1. MovesOn /\ UNCHANGED <<queue, batch, history, gone>>
        BY <1>10
           DEF StreamAborts, Typed, TypeOK, Enter, EnterIdleFrom, FailHandled, MovesOn,
               Unsent, turns, messages
    <2> QED
        BY <2>1, StayLocated
<1>11. ASSUME NEW c \in Call, RuntimeFails(c) PROVE Located'
    <2>1. MovesOn /\ UNCHANGED <<queue, batch, history, gone>>
        BY <1>11
           DEF RuntimeFails, Typed, TypeOK, Enter, EnterIdleFrom, FailHandled, MovesOn,
               Unsent, turns, messages
    <2> QED
        BY <2>1, StayLocated
<1>12. ASSUME NEW c \in Call \cup {None}, AbortIgnored(c) PROVE Located'
    <2>1. MovesOn /\ UNCHANGED <<queue, batch, history, gone>>
        BY <1>12
           DEF AbortIgnored, Typed, TypeOK, Enter, EnterIdleFrom, FailHandled, MovesOn,
               Unsent, turns, messages
    <2> QED
        BY <2>1, StayLocated
<1>13. ASSUME NEW c \in Call \cup {None}, AbortHandled(c) PROVE Located'
    <2>1. MovesOn /\ UNCHANGED <<queue, batch, history, gone>>
        BY <1>13
           DEF AbortHandled, Typed, TypeOK, Enter, EnterIdleFrom, FailHandled, MovesOn,
               Unsent, turns, messages
    <2> QED
        BY <2>1, StayLocated
<1>14. ASSUME NEW e \in Edits, EditStop(e) PROVE Located'
    <2>1. MovesOn /\ UNCHANGED <<queue, batch, history, gone>>
        BY <1>14
           DEF EditStop, Typed, TypeOK, Enter, EnterIdleFrom, FailHandled, MovesOn,
               Unsent, turns, messages
    <2> QED
        BY <2>1, StayLocated
<1>15. ASSUME NEW e \in Edits, EditWait(e) PROVE Located'
    <2>1. MovesOn /\ UNCHANGED <<queue, batch, history, gone>>
        BY <1>15
           DEF EditWait, Typed, TypeOK, Enter, EnterIdleFrom, FailHandled, MovesOn,
               Unsent, turns, messages
    <2> QED
        BY <2>1, StayLocated
<1>16. ASSUME NEW r \in Retry, RetryFires(r) PROVE Located'
    <2>1. MovesOn /\ UNCHANGED <<queue, batch, history, gone>>
        BY <1>16
           DEF RetryFires, Typed, TypeOK, Enter, EnterIdleFrom, FailHandled, MovesOn,
               Unsent, turns, messages
    <2> QED
        BY <2>1, StayLocated
<1>17. ASSUME NEW c \in Call, StartFails(c) PROVE Located'
    <2>1. MovesOn /\ UNCHANGED <<batch, history>>
        BY <1>17
           DEF StartFails, Typed, TypeOK, Enter, EnterIdleFrom, FailHandled, MovesOn,
               Unsent, turns, messages
    <2>2. CASE ClearQueue
        BY <2>1, <2>2, ClearLocated
    <2>3. CASE UNCHANGED <<queue, gone>>
        BY <2>1, <2>3, StayLocated
    <2> QED
        BY <1>17, <2>2, <2>3 DEF StartFails, Fails
<1>18. ASSUME NEW c \in Call, StreamFails(c) PROVE Located'
    <2>1. MovesOn /\ UNCHANGED <<batch, history>>
        BY <1>18
           DEF StreamFails, Typed, TypeOK, Enter, EnterIdleFrom, FailHandled, MovesOn,
               Unsent, turns, messages
    <2>2. CASE ClearQueue
        BY <2>1, <2>2, ClearLocated
    <2>3. CASE UNCHANGED <<queue, gone>>
        BY <2>1, <2>3, StayLocated
    <2> QED
        BY <1>18, <2>2, <2>3 DEF StreamFails, Fails
<1>19. ASSUME NEW c \in Call \cup {None}, AbortArrives(c) PROVE Located'
    <2>1. MovesOn /\ UNCHANGED <<batch, history>>
        BY <1>19
           DEF AbortArrives, Typed, TypeOK, Enter, EnterIdleFrom, FailHandled, MovesOn,
               Unsent, turns, messages
    <2>2. CASE ClearQueue
        BY <2>1, <2>2, ClearLocated
    <2>3. CASE UNCHANGED <<queue, gone>>
        BY <2>1, <2>3, StayLocated
    <2> QED
        BY <1>19, <2>2, <2>3 DEF AbortArrives, Fails
<1>20. ASSUME NEW e \in Edits, EditGoes(e) PROVE Located'
    <2>1. MovesOn /\ UNCHANGED <<batch, history>>
        BY <1>20
           DEF EditGoes, Typed, TypeOK, Enter, EnterIdleFrom, FailHandled, MovesOn,
               Unsent, turns, messages
    <2>2. CASE ClearQueue
        BY <2>1, <2>2, ClearLocated
    <2>3. CASE UNCHANGED <<queue, gone>>
        BY <2>1, <2>3, StayLocated
    <2> QED
        BY <1>20, <2>2, <2>3 DEF EditGoes, Fails
<1>21. ASSUME NEW u \in User, InterruptRestores(u) PROVE Located'
    <2>1. MovesOn /\ UNCHANGED <<batch, history>>
        BY <1>21
           DEF InterruptRestores, Typed, TypeOK, Enter, EnterIdleFrom, FailHandled,
               MovesOn, Unsent, turns, messages
    <2>2. CASE ClearQueue
        BY <2>1, <2>2, ClearLocated
    <2>3. CASE UNCHANGED <<queue, gone>>
        BY <2>1, <2>3, StayLocated
    <2> QED
        BY <1>21, <2>2, <2>3 DEF InterruptRestores, Fails
<1>22. ASSUME NEW c \in Call, EndHandled(c) PROVE Located'
    <2>1. CASE defer
        <3>1. MovesOn /\ UNCHANGED <<queue, batch, history, gone>>
            BY <1>22, <2>1
               DEF EndHandled, Typed, TypeOK, Enter, EnterIdleFrom, FailHandled,
                   MovesOn, Unsent, turns, messages
        <3> QED
            BY <3>1, StayLocated
    <2>2. CASE ~ defer
        <3>1. PICK p \in Phases : Flush(job, p)
            BY <1>22, <2>2 DEF EndHandled, Typed, TypeOK, Phases
        <3> QED
            BY <1>22, <3>1, FlushLocated DEF EndHandled
    <2> QED
        BY <2>1, <2>2
<1>23. ASSUME NEW u \in User, InterruptSends(u) PROVE Located'
    <2>1. phase \in Phases /\ Flush(job, phase) /\ UNCHANGED <<history, gone>>
        BY <1>23 DEF InterruptSends, Typed, TypeOK, Phases
    <2> QED
        BY <2>1, FlushLocated
<1>24. ASSUME NEW m \in Msg, SendDirect(m) PROVE Located'
    <2>1. m \notin gone /\ m \notin ToSet(queue) /\ \A c \in Call : m \notin Batch(c)
        BY <1>24 DEF SendDirect, Sent, Batch
    <2>2. m \in Call /\ Batch(m) = {} /\ m \notin ToSet(history)
        BY <2>1 DEF Located, Call
    <2>3. Batch(m)' = {m} /\ \A c \in Call \ {m} : Batch(c)' = Batch(c)
        BY <1>24, <2>2, SetOfFew DEF SendDirect, Batch, Typed, TypeOK
    <2>4. job'[m] = "sending" /\ \A c \in Call \ {m} : job'[c] = job[c]
        BY <1>24, <2>2 DEF SendDirect, Typed, TypeOK
    <2>5. \A c \in ToSet(history) : c \in Call
        BY RangeOf DEF Typed, TypeOK, Call
    <2> QED
        BY <1>24, <2>1, <2>2, <2>3, <2>4, <2>5 DEF SendDirect, Located, Unsent
<1>25. ASSUME NEW m \in Msg, Enqueue(m) PROVE Located'
    <2>1. m \notin gone /\ m \notin ToSet(queue) /\ \A c \in Call : m \notin Batch(c)
        BY <1>25 DEF Enqueue, Sent, Batch
    <2>2. MovesOn /\ UNCHANGED <<batch, history>> /\ \A c \in Call : Batch(c)' = Batch(c)
        BY <1>25 DEF Enqueue, MovesOn, Batch, turns
    <2>3. \A c \in ToSet(history) : c \in Call
        BY RangeOf DEF Typed, TypeOK, Call
    <2>4. CASE queue' = queue /\ gone' = gone \cup {m}
        BY <2>1, <2>2, <2>3, <2>4 DEF Located, MovesOn
    <2>5. CASE queue' = Append(queue, m) /\ UNCHANGED gone
        <3>1. ToSet(queue') = ToSet(queue) \cup {m} /\ IsInjective(queue')
            BY <2>1, <2>5, SetOfAppend DEF Typed, TypeOK, Located
        <3> QED
            BY <2>1, <2>2, <2>3, <2>5, <3>1 DEF Located, MovesOn
    <2> QED
        BY <1>25, <2>4, <2>5 DEF Enqueue, Discard
<1>26. ASSUME NEW m \in Msg, Refused(m) PROVE Located'
    <2>1. m \in Call /\ job[m] = "sending" /\ gone' = gone \cup Batch(m)
          /\ UNCHANGED <<queue, batch, history>>
        BY <1>26 DEF Refused, Discard, Batch, Call
    <2>2. job'[m] = "done" /\ \A c \in Call \ {m} : job'[c] \in Unsent <=> job[c] \in Unsent
        BY <1>26, <2>1 DEF Refused, Enter, EnterIdleFrom, Typed, TypeOK, Unsent
    <2>3. m \notin ToSet(history)
        BY <2>1 DEF Located, Unsent
    <2>4. \A c \in Call : Batch(c)' = Batch(c)
        BY <2>1 DEF Batch
    <2>5. \A c \in ToSet(history) : c \in Call
        BY RangeOf DEF Typed, TypeOK, Call
    <2>6. job'[m] \notin Unsent
        BY <2>2 DEF Unsent
    <2> QED
        BY <2>1, <2>2, <2>3, <2>4, <2>5, <2>6 DEF Located
<1>27. ASSUME NEW c \in Call, Persist(c) PROVE Located'
    <2>1. job[c] \in Unsent /\ c \in Msg
        BY <1>27 DEF Persist, Typed, RetriesSendNothing, Unsent, Call
    <2>2. ToSet(history') = ToSet(history) \cup {c} /\ IsInjective(history')
        BY <1>27, <2>1, SetOfAppend DEF Persist, Typed, TypeOK, Located
    <2>3. \A d \in Call : Batch(d)' = Batch(d)
        BY <1>27 DEF Persist, Batch
    <2>4. job'[c] \notin Unsent /\ \A d \in Call \ {c} : job'[d] = job[d]
        BY <1>27 DEF Persist, Typed, TypeOK, Unsent
    <2>5. \A d \in ToSet(history) : d \in Call
        BY RangeOf DEF Typed, TypeOK, Call
    <2> QED
        BY <1>27, <2>1, <2>2, <2>3, <2>4, <2>5 DEF Persist, Located
<1>28. ASSUME NEW e \in Edits, EditCall(e) PROVE Located'
    <2>1. e \notin gone /\ e \notin ToSet(queue) /\ (\A c \in Call : e \notin Batch(c)) /\ e \in Call
        BY <1>28, SubsetsAssumption DEF EditCall, Sent, Batch, Call
    <2>2. Batch(e) = {} /\ e \notin ToSet(history)
        BY <2>1 DEF Located
    <2>3. Batch(e)' = {e} /\ \A c \in Call \ {e} : Batch(c)' = Batch(c)
        BY <1>28, <2>1, SetOfFew DEF EditCall, Batch, Typed, TypeOK
    <2>4. job'[e] \in Unsent /\ (\A c \in Call \ {e} : job'[c] = job[c]) /\ UNCHANGED history
        BY <1>28, <2>1 DEF EditCall, Typed, TypeOK, Unsent
    <2>5. \A c \in ToSet(history) : c \in Call
        BY RangeOf DEF Typed, TypeOK, Call
    <2>6. \/ queue' = <<>> /\ gone' = gone \cup ToSet(queue)
          \/ UNCHANGED <<queue, gone>>
        BY <1>28 DEF EditCall, ClearQueue, Discard
    <2> QED
        BY <2>1, <2>2, <2>3, <2>4, <2>5, <2>6, SetOfFew DEF Located
<1>29. ASSUME NEW e \in Edits, Truncate(e) PROVE Located'
    <2>1. MovesOn /\ UNCHANGED <<queue, batch>> /\ \A c \in Call : Batch(c)' = Batch(c)
        BY <1>29 DEF Truncate, MovesOn, Unsent, Batch, Typed, TypeOK
    <2>2. CASE goal[e] \in ToSet(history)
        <3> DEFINE i == CHOOSE i \in DOMAIN history : history[i] = goal[e]
                   kept == SubSeq(history, 1, i - 1)
                   cut == SubSeq(history, i, Len(history))
        <3>1. i \in 1..Len(history)
            BY <2>2 DEF Typed, TypeOK, ToSet
        <3>2. history' = kept /\ gone' = gone \cup UNION {Batch(c) : c \in ToSet(cut)}
            BY <1>29, <2>2 DEF Truncate, Discard, Batch
        <3> HIDE DEF i
        <3>3. /\ IsInjective(kept) /\ ToSet(kept) \cup ToSet(cut) = ToSet(history)
              /\ ToSet(kept) \cap ToSet(cut) = {}
            BY <3>1, SetOfCut DEF Typed, TypeOK, Located
        <3>4. \A c \in ToSet(history) : c \in Call
            BY RangeOf DEF Typed, TypeOK, Call
        <3> HIDE DEF kept, cut
        <3>5. \A c \in Call : c \in ToSet(cut) => Batch(c) \subseteq gone'
            BY <3>2
        <3>6. \A c \in Call : c \notin ToSet(cut) => Batch(c) \cap gone' = Batch(c) \cap gone
            BY <3>2, <3>3, <3>4 DEF Located
        <3>7. \A m \in ToSet(queue) : m \notin gone'
            BY <3>2, <3>3, <3>4 DEF Located
        <3> QED
            BY <2>1, <3>2, <3>3, <3>4, <3>5, <3>6, <3>7 DEF Located, MovesOn
    <2>3. CASE goal[e] \notin ToSet(history)
        BY <1>29, <2>1, <2>3, StayLocated DEF Truncate
    <2> QED
        BY <2>2, <2>3
<1>30. ASSUME NEW u \in User, NEW how \in Features, Interrupt(u, how) PROVE Located'
    BY <1>30, StayLocated DEF Interrupt, MovesOn, turns, messages
<1>31. ASSUME UNCHANGED vars PROVE Located'
    BY <1>31, StayLocated DEF vars, MovesOn, turns, messages
<1> QED
    BY <1>1, <1>2, <1>3, <1>4, <1>5, <1>6, <1>7, <1>8, <1>9, <1>10, <1>11, <1>12,
       <1>13, <1>14, <1>15, <1>16, <1>17, <1>18, <1>19, <1>20, <1>21, <1>22, <1>23,
       <1>24, <1>25, <1>26, <1>27, <1>28, <1>29, <1>30, <1>31, SubsetsAssumption
       DEF Next, ProgramStep, CallStep, StreamStep, AbortStep, EditStep, UserStep, Call

-----------------------------------------------------------------------------
(* Who waits for an idle session is woken when it becomes idle, and does   *)
(* not begin to wait when it is.                                           *)
LEMMA WaitersStep == Typed /\ WaitersAreBusy /\ [Next]_vars => WaitersAreBusy'
<1> SUFFICES ASSUME Typed, WaitersAreBusy, [Next]_vars PROVE WaitersAreBusy'
    OBVIOUS
<1>1. ASSUME NEW c \in Call, Persist(c) PROVE WaitersAreBusy'
    BY <1>1
       DEF Persist, WaitersAreBusy, Typed, TypeOK, Call, Unsent, Enter, EnterIdleFrom,
           Flush, FailHandled, turns
<1>2. ASSUME NEW c \in Call, Prepare(c) PROVE WaitersAreBusy'
    BY <1>2
       DEF Prepare, WaitersAreBusy, Typed, TypeOK, Call, Unsent, Enter, EnterIdleFrom,
           Flush, FailHandled, turns
<1>3. ASSUME NEW c \in Call, StreamMessage(c) PROVE WaitersAreBusy'
    BY <1>3
       DEF StreamMessage, WaitersAreBusy, Typed, TypeOK, Call, Unsent, Enter,
           EnterIdleFrom, Flush, FailHandled, turns
<1>4. ASSUME NEW c \in Call, NothingToStream(c) PROVE WaitersAreBusy'
    BY <1>4
       DEF NothingToStream, WaitersAreBusy, Typed, TypeOK, Call, Unsent, Enter,
           EnterIdleFrom, Flush, FailHandled, turns
<1>5. ASSUME NEW c \in Call, CancelOther(c) PROVE WaitersAreBusy'
    BY <1>5
       DEF CancelOther, WaitersAreBusy, Typed, TypeOK, Call, Unsent, Enter,
           EnterIdleFrom, Flush, FailHandled, turns
<1>6. ASSUME NEW c \in Call, StreamStarts(c) PROVE WaitersAreBusy'
    BY <1>6
       DEF StreamStarts, WaitersAreBusy, Typed, TypeOK, Call, Unsent, Enter,
           EnterIdleFrom, Flush, FailHandled, turns
<1>7. ASSUME NEW c \in Call, StartAborted(c) PROVE WaitersAreBusy'
    BY <1>7
       DEF StartAborted, WaitersAreBusy, Typed, TypeOK, Call, Unsent, Enter,
           EnterIdleFrom, Flush, FailHandled, turns
<1>8. ASSUME NEW c \in Call, StartFailHandled(c) PROVE WaitersAreBusy'
    BY <1>8
       DEF StartFailHandled, WaitersAreBusy, Typed, TypeOK, Call, Unsent, Enter,
           EnterIdleFrom, Flush, FailHandled, turns
<1>9. ASSUME NEW c \in Call, StreamEnds(c) PROVE WaitersAreBusy'
    BY <1>9
       DEF StreamEnds, WaitersAreBusy, Typed, TypeOK, Call, Unsent, Enter,
           EnterIdleFrom, Flush, FailHandled, turns
<1>10. ASSUME NEW c \in Call, EndHandled(c) PROVE WaitersAreBusy'
    BY <1>10
       DEF EndHandled, WaitersAreBusy, Typed, TypeOK, Call, Unsent, Enter,
           EnterIdleFrom, Flush, FailHandled, turns
<1>11. ASSUME NEW c \in Call, StreamFailHandled(c) PROVE WaitersAreBusy'
    BY <1>11
       DEF StreamFailHandled, WaitersAreBusy, Typed, TypeOK, Call, Unsent, Enter,
           EnterIdleFrom, Flush, FailHandled, turns
<1>12. ASSUME NEW c \in Call, StreamAborts(c) PROVE WaitersAreBusy'
    BY <1>12
       DEF StreamAborts, WaitersAreBusy, Typed, TypeOK, Call, Unsent, Enter,
           EnterIdleFrom, Flush, FailHandled, turns
<1>13. ASSUME NEW c \in Call, StartFails(c) PROVE WaitersAreBusy'
    BY <1>13
       DEF StartFails, WaitersAreBusy, Typed, TypeOK, Call, Unsent, Enter,
           EnterIdleFrom, Flush, FailHandled, turns
<1>14. ASSUME NEW c \in Call, RuntimeFails(c) PROVE WaitersAreBusy'
    BY <1>14
       DEF RuntimeFails, WaitersAreBusy, Typed, TypeOK, Call, Unsent, Enter,
           EnterIdleFrom, Flush, FailHandled, turns
<1>15. ASSUME NEW c \in Call, StreamFails(c) PROVE WaitersAreBusy'
    BY <1>15
       DEF StreamFails, WaitersAreBusy, Typed, TypeOK, Call, Unsent, Enter,
           EnterIdleFrom, Flush, FailHandled, turns
<1>16. ASSUME NEW c \in Call \cup {None}, AbortIgnored(c) PROVE WaitersAreBusy'
    BY <1>16
       DEF AbortIgnored, WaitersAreBusy, Typed, TypeOK, Call, Unsent, Enter,
           EnterIdleFrom, Flush, FailHandled, turns
<1>17. ASSUME NEW c \in Call \cup {None}, AbortArrives(c) PROVE WaitersAreBusy'
    BY <1>17
       DEF AbortArrives, WaitersAreBusy, Typed, TypeOK, Call, Unsent, Enter,
           EnterIdleFrom, Flush, FailHandled, turns
<1>18. ASSUME NEW c \in Call \cup {None}, AbortHandled(c) PROVE WaitersAreBusy'
    BY <1>18
       DEF AbortHandled, WaitersAreBusy, Typed, TypeOK, Call, Unsent, Enter,
           EnterIdleFrom, Flush, FailHandled, turns
<1>19. ASSUME NEW e \in Edits, EditStop(e) PROVE WaitersAreBusy'
    BY <1>19, SubsetsAssumption
       DEF EditStop, WaitersAreBusy, Typed, TypeOK, Call, Unsent, Enter, EnterIdleFrom,
           Flush, FailHandled, turns
<1>20. ASSUME NEW e \in Edits, EditWait(e) PROVE WaitersAreBusy'
    BY <1>20, SubsetsAssumption
       DEF EditWait, WaitersAreBusy, Typed, TypeOK, Call, Unsent, Enter, EnterIdleFrom,
           Flush, FailHandled, turns
<1>21. ASSUME NEW e \in Edits, EditGoes(e) PROVE WaitersAreBusy'
    BY <1>21, SubsetsAssumption
       DEF EditGoes, WaitersAreBusy, Typed, TypeOK, Call, Unsent, Enter, EnterIdleFrom,
           Flush, FailHandled, turns
<1>22. ASSUME NEW e \in Edits, Truncate(e) PROVE WaitersAreBusy'
    BY <1>22, SubsetsAssumption
       DEF Truncate, WaitersAreBusy, Typed, TypeOK, Call, Unsent, Enter, EnterIdleFrom,
           Flush, FailHandled, turns
<1>23. ASSUME NEW e \in Edits, EditCall(e) PROVE WaitersAreBusy'
    BY <1>23, SubsetsAssumption
       DEF EditCall, WaitersAreBusy, Typed, TypeOK, Call, Unsent, Enter, EnterIdleFrom,
           Flush, FailHandled, turns
<1>24. ASSUME NEW u \in User, InterruptRestores(u) PROVE WaitersAreBusy'
    BY <1>24
       DEF InterruptRestores, WaitersAreBusy, Typed, TypeOK, Call, Unsent, Enter,
           EnterIdleFrom, Flush, FailHandled, turns
<1>25. ASSUME NEW u \in User, InterruptSends(u) PROVE WaitersAreBusy'
    BY <1>25
       DEF InterruptSends, WaitersAreBusy, Typed, TypeOK, Call, Unsent, Enter,
           EnterIdleFrom, Flush, FailHandled, turns
<1>26. ASSUME NEW m \in Msg, SendDirect(m) PROVE WaitersAreBusy'
    BY <1>26, SubsetsAssumption
       DEF SendDirect, WaitersAreBusy, Typed, TypeOK, Call, Unsent, Enter,
           EnterIdleFrom, Flush, FailHandled, turns
<1>27. ASSUME NEW m \in Msg, Enqueue(m) PROVE WaitersAreBusy'
    BY <1>27, SubsetsAssumption
       DEF Enqueue, WaitersAreBusy, Typed, TypeOK, Call, Unsent, Enter, EnterIdleFrom,
           Flush, FailHandled, turns
<1>28. ASSUME NEW m \in Msg, Refused(m) PROVE WaitersAreBusy'
    BY <1>28, SubsetsAssumption
       DEF Refused, WaitersAreBusy, Typed, TypeOK, Call, Unsent, Enter, EnterIdleFrom,
           Flush, FailHandled, turns
<1>29. ASSUME NEW r \in Retry, RetryFires(r) PROVE WaitersAreBusy'
    BY <1>29
       DEF RetryFires, WaitersAreBusy, Typed, TypeOK, Call, Unsent, Enter,
           EnterIdleFrom, Flush, FailHandled, turns
<1>30. ASSUME NEW u \in User, NEW how \in Features, Interrupt(u, how) PROVE WaitersAreBusy'
    BY <1>30 DEF Interrupt, WaitersAreBusy, turns
<1>31. ASSUME UNCHANGED vars PROVE WaitersAreBusy'
    BY <1>31 DEF vars, WaitersAreBusy, turns
<1> QED
    BY <1>1, <1>2, <1>3, <1>4, <1>5, <1>6, <1>7, <1>8, <1>9, <1>10, <1>11, <1>12,
       <1>13, <1>14, <1>15, <1>16, <1>17, <1>18, <1>19, <1>20, <1>21, <1>22, <1>23,
       <1>24, <1>25, <1>26, <1>27, <1>28, <1>29, <1>30, <1>31, SubsetsAssumption
       DEF Next, ProgramStep, CallStep, StreamStep, AbortStep, EditStep, UserStep, Call

(* An edit is never queued.                                                *)
QueueIsPlain == ToSet(queue) \cap Edits = {}
Deferral == QueueIsPlain /\ DeferredForEdit

(* A flush sends what was queued, and so no edit.                          *)
LEMMA FlushDeferral ==
    ASSUME Typed, Deferral, NEW p \in Phases, Flush(job, p), UNCHANGED defer
    PROVE  Deferral'
<1>0. Edits \subseteq Call /\ \A e \in Edits : e \notin ToSet(queue)
    BY SubsetsAssumption DEF Deferral, QueueIsPlain, Call
<1>1. CASE queue = <<>>
    BY <1>0, <1>1 DEF Flush, Enter, Deferral, QueueIsPlain, DeferredForEdit, Typed, TypeOK
<1>2. CASE queue # <<>>
    <2>1. PICK q \in Call \ Edits : q = queue[1]
        BY <1>0, <1>2 DEF Typed, TypeOK, Call, ToSet
    <2>2. \A e \in Edits : job'[e] = job[e]
        BY <1>0, <1>2, <2>1 DEF Flush, Enter, Typed, TypeOK
    <2>3. queue' = <<>>
        BY <1>2 DEF Flush
    <2> QED
        BY <2>2, <2>3, SetOfFew DEF Deferral, QueueIsPlain, DeferredForEdit
<1> QED
    BY <1>1, <1>2

(* The flag is set for an edit that begins to wait, and taken back before  *)
(* that one goes on.                                                       *)
LEMMA DeferralStep == Typed /\ Located /\ Deferral /\ [Next]_vars => Deferral'
<1> SUFFICES ASSUME Typed, Located, Deferral, [Next]_vars PROVE Deferral'
    OBVIOUS
<1>0. Edits \subseteq Call /\ \A e \in Edits : e \notin ToSet(queue)
    BY SubsetsAssumption DEF Deferral, QueueIsPlain, Call
<1>1. ASSUME NEW c \in Call, Persist(c) PROVE Deferral'
    BY <1>0, <1>1, SetOfFew
       DEF Persist, Deferral, QueueIsPlain, DeferredForEdit, Typed, TypeOK, Call,
           edits
<1>2. ASSUME NEW c \in Call, Prepare(c) PROVE Deferral'
    BY <1>0, <1>2, SetOfFew
       DEF Prepare, Deferral, QueueIsPlain, DeferredForEdit, Typed, TypeOK, Call,
           Enter, edits
<1>3. ASSUME NEW c \in Call, StreamMessage(c) PROVE Deferral'
    BY <1>0, <1>3, SetOfFew
       DEF StreamMessage, Deferral, QueueIsPlain, DeferredForEdit, Typed, TypeOK, Call,
           messages, edits
<1>4. ASSUME NEW c \in Call, NothingToStream(c) PROVE Deferral'
    BY <1>0, <1>4, SetOfFew
       DEF NothingToStream, Deferral, QueueIsPlain, DeferredForEdit, Typed, TypeOK,
           Call, Enter, EnterIdleFrom, messages, edits
<1>5. ASSUME NEW c \in Call, CancelOther(c) PROVE Deferral'
    BY <1>0, <1>5, SetOfFew
       DEF CancelOther, Deferral, QueueIsPlain, DeferredForEdit, Typed, TypeOK, Call,
           turns, messages, edits
<1>6. ASSUME NEW c \in Call, StreamStarts(c) PROVE Deferral'
    BY <1>0, <1>6, SetOfFew
       DEF StreamStarts, Deferral, QueueIsPlain, DeferredForEdit, Typed, TypeOK, Call,
           Enter, messages, edits
<1>7. ASSUME NEW c \in Call, StartAborted(c) PROVE Deferral'
    BY <1>0, <1>7, SetOfFew
       DEF StartAborted, Deferral, QueueIsPlain, DeferredForEdit, Typed, TypeOK, Call,
           Enter, EnterIdleFrom, messages, edits
<1>8. ASSUME NEW c \in Call, StartFailHandled(c) PROVE Deferral'
    BY <1>0, <1>8, SetOfFew
       DEF StartFailHandled, Deferral, QueueIsPlain, DeferredForEdit, Typed, TypeOK,
           Call, Enter, FailHandled, messages, edits
<1>9. ASSUME NEW c \in Call, StreamEnds(c) PROVE Deferral'
    BY <1>0, <1>9, SetOfFew
       DEF StreamEnds, Deferral, QueueIsPlain, DeferredForEdit, Typed, TypeOK, Call,
           Enter, messages, edits
<1>10. ASSUME NEW c \in Call, EndHandled(c) PROVE Deferral'
    <2>1. CASE defer
        BY <1>0, <1>10, <2>1
           DEF EndHandled, Deferral, QueueIsPlain, DeferredForEdit, Typed, TypeOK,
               Enter, EnterIdleFrom, edits
    <2>2. CASE ~ defer
        <3>1. PICK p \in Phases : Flush(job, p)
            BY <1>10, <2>2 DEF EndHandled, Typed, TypeOK, Phases
        <3> QED
            BY <1>10, <3>1, FlushDeferral DEF EndHandled, edits
    <2> QED
        BY <2>1, <2>2
<1>11. ASSUME NEW c \in Call, StreamFailHandled(c) PROVE Deferral'
    BY <1>0, <1>11, SetOfFew
       DEF StreamFailHandled, Deferral, QueueIsPlain, DeferredForEdit, Typed, TypeOK,
           Call, Enter, FailHandled, messages, edits
<1>12. ASSUME NEW c \in Call, StreamAborts(c) PROVE Deferral'
    BY <1>0, <1>12, SetOfFew
       DEF StreamAborts, Deferral, QueueIsPlain, DeferredForEdit, Typed, TypeOK, Call,
           turns, messages, edits
<1>13. ASSUME NEW c \in Call, StartFails(c) PROVE Deferral'
    BY <1>0, <1>13, SetOfFew
       DEF StartFails, Deferral, QueueIsPlain, DeferredForEdit, Typed, TypeOK, Call,
           Enter, Fails, ClearQueue, edits
<1>14. ASSUME NEW c \in Call, RuntimeFails(c) PROVE Deferral'
    BY <1>0, <1>14, SetOfFew
       DEF RuntimeFails, Deferral, QueueIsPlain, DeferredForEdit, Typed, TypeOK, Call,
           Enter, EnterIdleFrom, messages, edits
<1>15. ASSUME NEW c \in Call, StreamFails(c) PROVE Deferral'
    BY <1>0, <1>15, SetOfFew
       DEF StreamFails, Deferral, QueueIsPlain, DeferredForEdit, Typed, TypeOK, Call,
           Enter, Fails, ClearQueue, edits
<1>16. ASSUME NEW c \in Call \cup {None}, AbortIgnored(c) PROVE Deferral'
    BY <1>0, <1>16, SetOfFew
       DEF AbortIgnored, Deferral, QueueIsPlain, DeferredForEdit, Typed, TypeOK, Call,
           turns, messages, edits
<1>17. ASSUME NEW c \in Call \cup {None}, AbortArrives(c) PROVE Deferral'
    BY <1>0, <1>17, SetOfFew
       DEF AbortArrives, Deferral, QueueIsPlain, DeferredForEdit, Typed, TypeOK, Call,
           Enter, Fails, ClearQueue, edits
<1>18. ASSUME NEW c \in Call \cup {None}, AbortHandled(c) PROVE Deferral'
    BY <1>0, <1>18, SetOfFew
       DEF AbortHandled, Deferral, QueueIsPlain, DeferredForEdit, Typed, TypeOK, Call,
           Enter, messages, edits
<1>19. ASSUME NEW e \in Edits, EditStop(e) PROVE Deferral'
    BY <1>0, <1>19, SetOfFew
       DEF EditStop, Deferral, QueueIsPlain, DeferredForEdit, Typed, TypeOK, Call,
           messages, edits
<1>20. ASSUME NEW e \in Edits, EditWait(e) PROVE Deferral'
    BY <1>0, <1>20, SetOfFew
       DEF EditWait, Deferral, QueueIsPlain, DeferredForEdit, Typed, TypeOK, Call,
           messages
<1>21. ASSUME NEW e \in Edits, EditGoes(e) PROVE Deferral'
    BY <1>0, <1>21, SetOfFew
       DEF EditGoes, Deferral, QueueIsPlain, DeferredForEdit, Typed, TypeOK, Call,
           ClearQueue
<1>22. ASSUME NEW e \in Edits, Truncate(e) PROVE Deferral'
    BY <1>0, <1>22, SetOfFew
       DEF Truncate, Deferral, QueueIsPlain, DeferredForEdit, Typed, TypeOK, Call
<1>23. ASSUME NEW e \in Edits, EditCall(e) PROVE Deferral'
    <2>1. \A c \in Call : e \notin Batch(c)
        BY <1>23 DEF EditCall, Sent, Batch
    <2>2. job[e] \notin Unsent
        BY <1>0, <2>1 DEF Located
    <2>3. \A d \in Edits \ {e} : job'[d] = job[d]
        BY <1>0, <1>23 DEF EditCall, Typed, TypeOK
    <2>4. QueueIsPlain'
        BY <1>23, SetOfFew DEF EditCall, ClearQueue, Deferral, QueueIsPlain
    <2>5. CASE defer' = TRUE /\ job' = [job EXCEPT ![e] = "waiting"]
        BY <1>0, <2>4, <2>5 DEF Deferral, DeferredForEdit, Typed, TypeOK
    <2>6. CASE UNCHANGED defer
        BY <2>2, <2>3, <2>4, <2>6 DEF Deferral, DeferredForEdit, Unsent
    <2> QED
        BY <1>23, <2>5, <2>6 DEF EditCall
<1>24. ASSUME NEW u \in User, InterruptRestores(u) PROVE Deferral'
    BY <1>0, <1>24, SetOfFew
       DEF InterruptRestores, Deferral, QueueIsPlain, DeferredForEdit, Typed, TypeOK,
           Call, ClearQueue, turns, edits
<1>25. ASSUME NEW u \in User, InterruptSends(u) PROVE Deferral'
    <2>1. phase \in Phases /\ Flush(job, phase) /\ UNCHANGED defer
        BY <1>25 DEF InterruptSends, Typed, TypeOK, Phases, edits
    <2> QED
        BY <2>1, FlushDeferral
<1>26. ASSUME NEW m \in Msg, SendDirect(m) PROVE Deferral'
    BY <1>0, <1>26, SetOfFew
       DEF SendDirect, Deferral, QueueIsPlain, DeferredForEdit, Typed, TypeOK, Call,
           edits
<1>27. ASSUME NEW m \in Msg, Enqueue(m) PROVE Deferral'
    <2>1. ToSet(queue') \subseteq ToSet(queue) \cup {m} /\ m \notin Edits
        <3>1. ToSet(Append(queue, m)) = ToSet(queue) \cup {m}
            BY SetOfAppend DEF Typed, TypeOK
        <3>2. (queue' = queue \/ queue' = Append(queue, m)) /\ m \notin Edits
            BY <1>27 DEF Enqueue
        <3> QED
            BY <3>1, <3>2
    <2> QED
        BY <1>27, <2>1 DEF Enqueue, Deferral, QueueIsPlain, DeferredForEdit, turns, edits
<1>28. ASSUME NEW m \in Msg, Refused(m) PROVE Deferral'
    BY <1>0, <1>28, SetOfFew
       DEF Refused, Deferral, QueueIsPlain, DeferredForEdit, Typed, TypeOK, Call,
           Enter, EnterIdleFrom, edits
<1>29. ASSUME NEW r \in Retry, RetryFires(r) PROVE Deferral'
    BY <1>0, <1>29, SetOfFew
       DEF RetryFires, Deferral, QueueIsPlain, DeferredForEdit, Typed, TypeOK, Call,
           Enter, messages, edits
<1>30. ASSUME NEW u \in User, NEW how \in Features, Interrupt(u, how) PROVE Deferral'
    BY <1>30 DEF Interrupt, Deferral, QueueIsPlain, DeferredForEdit, turns, messages, edits
<1>31. ASSUME UNCHANGED vars PROVE Deferral'
    BY <1>31 DEF vars, Deferral, QueueIsPlain, DeferredForEdit, turns, messages, edits
<1> QED
    BY <1>1, <1>2, <1>3, <1>4, <1>5, <1>6, <1>7, <1>8, <1>9, <1>10, <1>11, <1>12,
       <1>13, <1>14, <1>15, <1>16, <1>17, <1>18, <1>19, <1>20, <1>21, <1>22, <1>23,
       <1>24, <1>25, <1>26, <1>27, <1>28, <1>29, <1>30, <1>31, SubsetsAssumption
       DEF Next, ProgramStep, CallStep, StreamStep, AbortStep, EditStep, UserStep, Call

-----------------------------------------------------------------------------
(* Messages that are where Located says are in one place each.             *)
LEMMA LocatedOnce == Typed /\ Located => OnePlace
<1> SUFFICES ASSUME Typed, Located, NEW m \in Msg
             PROVE  Cardinality(Places(m)) = IF Sent(m) THEN 1 ELSE 0
    BY DEF OnePlace
<1> DEFINE InQueue == {<<"queue", i>> : i \in {i \in DOMAIN queue : queue[i] = m}}
           InCall == {<<"call", c>> : c \in {c \in Call : job[c] \in Unsent /\ m \in Batch(c)}}
           InRow == {<<"row", i>> : i \in {i \in DOMAIN history : m \in Batch(history[i])}}
           InGone == IF m \in gone THEN {<<"gone">>} ELSE {}
<1>1. Places(m) = InQueue \cup InCall \cup InRow \cup InGone
    BY DEF Places, Batch
<1>2. Sent(m) <=> m \in gone \/ m \in ToSet(queue) \/ \E c \in Call : m \in Batch(c)
    BY DEF Sent, Batch
<1>3. \A i \in DOMAIN history : history[i] \in Call /\ history[i] \in ToSet(history)
    BY DEF Typed, TypeOK, Call, ToSet
<1>4. \A c \in ToSet(history) : c \in Call
    BY RangeOf DEF Typed, TypeOK, Call
<1>5. m \notin ToSet(queue) => InQueue = {}
    BY DEF ToSet
<1>6. (\A c \in Call : m \notin Batch(c)) => InCall = {} /\ InRow = {}
    BY <1>3
<1> HIDE DEF InQueue, InCall, InRow, InGone
<1>7. CASE m \in ToSet(queue)
    <2>1. PICK i \in DOMAIN queue : queue[i] = m
        BY <1>7 DEF ToSet
    <2>2. InQueue = {<<"queue", i>>}
        BY <2>1 DEF InQueue, Located, IsInjective
    <2>3. InGone = {} /\ InCall = {} /\ InRow = {}
        BY <1>6, <1>7 DEF Located, InGone
    <2>4. Places(m) = {<<"queue", i>>}
        BY <1>1, <2>2, <2>3
    <2> QED
        BY <1>2, <1>7, <2>4, FS_Singleton
<1>8. CASE m \notin ToSet(queue) /\ \E c \in Call : m \in Batch(c)
    <2>1. PICK c \in Call : m \in Batch(c)
        BY <1>8
    <2>2. \A d \in Call : m \in Batch(d) => d = c
        BY <2>1 DEF Located
    <2>3. CASE job[c] \in Unsent
        <3>1. InCall = {<<"call", c>>}
            BY <2>1, <2>2, <2>3 DEF InCall
        <3>2. InRow = {}
            BY <1>3, <2>2, <2>3 DEF InRow, Located
        <3>3. InGone = {}
            BY <2>1, <2>3 DEF InGone, Located
        <3>4. Places(m) = {<<"call", c>>}
            BY <1>1, <1>5, <1>8, <3>1, <3>2, <3>3
        <3> QED
            BY <1>2, <1>8, <3>4, FS_Singleton
    <2>4. CASE job[c] \notin Unsent /\ c \in ToSet(history)
        <3>1. PICK i \in DOMAIN history : history[i] = c
            BY <2>4 DEF ToSet
        <3>2. InRow = {<<"row", i>>}
            BY <1>3, <2>1, <2>2, <3>1 DEF InRow, Located, IsInjective
        <3>3. InCall = {}
            BY <2>2, <2>4 DEF InCall
        <3>4. InGone = {}
            BY <2>1, <2>4 DEF InGone, Located
        <3>5. Places(m) = {<<"row", i>>}
            BY <1>1, <1>5, <1>8, <3>2, <3>3, <3>4
        <3> QED
            BY <1>2, <1>8, <3>5, FS_Singleton
    <2>5. CASE job[c] \notin Unsent /\ c \notin ToSet(history)
        <3>1. InGone = {<<"gone">>}
            BY <2>1, <2>5 DEF InGone, Located
        <3>2. InCall = {} /\ InRow = {}
            BY <1>3, <2>2, <2>5 DEF InCall, InRow
        <3>3. Places(m) = {<<"gone">>}
            BY <1>1, <1>5, <1>8, <3>1, <3>2
        <3> QED
            BY <1>2, <1>8, <3>3, FS_Singleton
    <2> QED
        BY <2>3, <2>4, <2>5
<1>9. CASE m \notin ToSet(queue) /\ ~ \E c \in Call : m \in Batch(c)
    <2>1. Places(m) = InGone
        BY <1>1, <1>5, <1>6, <1>9
    <2>2. CASE m \in gone
        BY <1>2, <2>1, <2>2, FS_Singleton DEF InGone
    <2>3. CASE m \notin gone
        BY <1>2, <1>9, <2>1, <2>3, FS_EmptySet DEF InGone
    <2> QED
        BY <2>2, <2>3
<1> QED
    BY <1>7, <1>8, <1>9

-----------------------------------------------------------------------------
IInv == Typed /\ Located /\ WaitersAreBusy /\ Deferral

LEMMA InitIInv == Init => IInv
<1> SUFFICES ASSUME Init PROVE IInv
    OBVIOUS
<1>1. ToSet(queue) = {} /\ ToSet(history) = {} /\ IsInjective(queue) /\ IsInjective(history)
    BY SetOfFew DEF Init
<1>2. \A c \in Call : Batch(c) = {} /\ job[c] = "none"
    BY SetOfFew DEF Init, Batch
<1>3. Located
    BY <1>1, <1>2 DEF Located, Unsent
<1>4. WaitersAreBusy /\ Deferral
    BY <1>1, <1>2 DEF Init, WaitersAreBusy, Deferral, QueueIsPlain, DeferredForEdit
<1> QED
    BY <1>3, <1>4, InitTyped DEF IInv

(* The invariant holds in every reachable state.                           *)
LEMMA Invariance == Spec => []IInv
<1>1. IInv /\ [Next]_vars => IInv'
    BY TypeStep, LocatedStep, WaitersStep, DeferralStep DEF IInv
<1> QED
    BY <1>1, InitIInv, PTL DEF Spec

(* Every reachable state of the session is well typed, for any messages,   *)
(* edits, retries and interrupts.                                          *)
THEOREM TypeCorrect == Spec => []TypeOK
<1>1. IInv => TypeOK
    BY DEF IInv, Typed
<1> QED
    BY <1>1, Invariance, PTL

(* However sends, edits, flushes, interrupts and failures interleave, a    *)
(* message is queued, under way in one call, one row, or gone.             *)
THEOREM InOnePlace == Spec => []OnePlace
<1>1. IInv => OnePlace
    BY LocatedOnce DEF IInv
<1> QED
    BY <1>1, Invariance, PTL

(* No edit waits for an idle session that is idle (waitForIdle).           *)
THEOREM NobodyWaitsForIdle == Spec => []WaitersAreBusy
<1>1. IInv => WaitersAreBusy
    BY DEF IInv
<1> QED
    BY <1>1, Invariance, PTL

(* The flush of the queue is deferred only while an edit waits.            *)
THEOREM DeferredWhileWaiting == Spec => []DeferredForEdit
<1>1. IInv => DeferredForEdit
    BY DEF IInv, Deferral
<1> QED
    BY <1>1, Invariance, PTL
=============================================================================
