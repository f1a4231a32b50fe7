--------------------------- MODULE AutoRetryProofs ---------------------------
(***************************************************************************)
(* What holds of automatic retry for any number of messages, of failures,  *)
(* of stops, of choices and of restarts: a turn the user stopped is not    *)
(* retried, whoever opted out gets no retry, and a failed turn that may be *)
(* retried is not forgotten.                                               *)
(*                                                                         *)
(* None of it is kept by a step alone, because the preference and the mark *)
(* of an abandoned turn live in three places: the file, the memory and the *)
(* calls that read or write the file.  As long as no two calls raced for   *)
(* the file, one call at most uses it (Alone), so that what is known is    *)
(* what the file holds or will hold (Copy), and that is what the user      *)
(* chose last (Opted).  The turn behind a stop is answered, marked, or a   *)
(* stream-abort is on its way to mark it (Over), and the mark is that of   *)
(* the last message (Current, CurrentAborts): no recovery schedules it.  A *)
(* failure is answered by an attempt, a timer or a call that still asks    *)
(* for the preference (UnderWay), and no abort is about while it is owed a *)
(* retry unless an attempt is under way too (Unaborted).                   *)
(*                                                                         *)
(* The first half says what each step does to the memory and to the calls, *)
(* so that the second need not expand the actions.                         *)
(***************************************************************************)
EXTENDS AutoRetry, TLAPS, FiniteSetTheorems

-----------------------------------------------------------------------------
(* The types.  A call is of a kind, and awaits what calls of its kind do.  *)

Msgs == 0..MaxSent
Kinds == {"send", "retry", "resume", "error", "abort", "end", "choice", "startup"}
Places ==
    [send |-> {"accepting", "clearing", "saving", "reading", "starting"},
     retry |-> {"reading", "starting", "settling"},
     resume |-> {"reading", "starting"},
     error |-> {"loading", "loaded", "settling"},
     abort |-> {"forwarding", "loading", "loaded", "settling"},
     end |-> {"settling", "completing"},
     choice |-> {"loading", "loaded", "settling"},
     startup |-> {"loading", "loaded", "history", "decide", "deriving"}]
Ats == {"handling", "accepting", "clearing", "saving", "reading", "starting", "settling",
        "loading", "loaded", "forwarding", "completing", "history", "decide", "deriving"}
JobT == [kind : Kinds, at : Ats, msg : Msgs, ok : BOOLEAN, aborted : BOOLEAN, pending : BOOLEAN,
         quiet : BOOLEAN, reason : {"none", "user", "system"}, file : File]
Memory == [preference : {"unknown", "on", "off"}, abandoned : 0..Any, enabled : BOOLEAN,
           timer : BOOLEAN, resume : BOOLEAN]
Phases == {"IDLE", "PREPARING", "STREAMING", "COMPLETING"}

Typed ==
    /\ file \in File /\ last \in Msgs /\ answered \in BOOLEAN /\ memory \in Memory
    /\ phase \in Phases /\ active \in Msgs /\ stream \in BOOLEAN
    /\ jobs \subseteq JobT /\ IsFiniteSet(jobs)
    /\ sent \in Msgs
    /\ userStopped \in BOOLEAN /\ missedStop \in BOOLEAN /\ optedOut \in BOOLEAN
    /\ raced \in BOOLEAN /\ owed \in BOOLEAN

-----------------------------------------------------------------------------
(* What the functions of the memory return.                                *)
Failed(m, ok) == IF m.enabled THEN ok ELSE m.timer

LEMMA FailureIs ==
    ASSUME NEW m \in Memory, NEW ok \in BOOLEAN
    PROVE  /\ HandleStreamFailure(m, ok) \in Memory
           /\ HandleStreamFailure(m, ok).preference = m.preference
           /\ HandleStreamFailure(m, ok).abandoned = m.abandoned
           /\ HandleStreamFailure(m, ok).enabled = m.enabled
           /\ HandleStreamFailure(m, ok).resume = m.resume
           /\ HandleStreamFailure(m, ok).timer = Failed(m, ok)
BY DEF HandleStreamFailure, Memory, Failed

LEMMA CancelIs ==
    ASSUME NEW m \in Memory
    PROVE  /\ Cancel(m) \in Memory /\ Cancel(m).preference = m.preference
           /\ Cancel(m).abandoned = m.abandoned /\ Cancel(m).enabled = m.enabled
           /\ Cancel(m).resume = m.resume /\ Cancel(m).timer = FALSE
BY DEF Cancel, Memory

LEMMA ChosenIs ==
    ASSUME NEW m \in Memory, NEW on \in BOOLEAN
    PROVE  LET n == Preferring(SetEnabled(m, on), on) IN
           /\ n \in Memory /\ n.preference = (IF on THEN "on" ELSE "off")
           /\ n.abandoned = m.abandoned /\ n.enabled = on
           /\ n.resume = m.resume /\ n.timer = (m.timer /\ on)
BY DEF Preferring, SetEnabled, Memory

LEMMA LoadedIs ==
    ASSUME NEW m \in Memory, NEW f \in File
    PROVE  /\ Loaded(m, f) \in Memory
           /\ Loaded(m, f).preference = (IF f.enabled THEN "on" ELSE "off")
           /\ Loaded(m, f).abandoned = f.abandoned /\ Loaded(m, f).enabled = f.enabled
           /\ Loaded(m, f).resume = m.resume /\ Loaded(m, f).timer = (m.timer /\ f.enabled)
<1>1. f.enabled \in BOOLEAN /\ f.abandoned \in 0..Any
    BY DEF File
<1>2. PICK n : n = Preferring(SetEnabled(m, f.enabled), f.enabled)
    OBVIOUS
<1>3. /\ n \in Memory /\ n.preference = (IF f.enabled THEN "on" ELSE "off")
      /\ n.abandoned = m.abandoned /\ n.enabled = f.enabled
      /\ n.resume = m.resume /\ n.timer = (m.timer /\ f.enabled)
    BY <1>1, <1>2, ChosenIs
<1> QED
    BY <1>1, <1>2, <1>3 DEF Loaded, Memory

LEMMA MarkIs ==
    ASSUME MaxSent \in Nat, NEW m \in Memory, NEW msg \in Msgs
    PROVE  /\ Abandon(m, msg) \in Memory /\ Unabandon(m) \in Memory
           /\ \A n \in {Abandon(m, msg), Unabandon(m)} :
                 /\ n.preference = m.preference /\ n.enabled = m.enabled
                 /\ n.resume = m.resume /\ n.timer = m.timer
           /\ Abandon(m, msg).abandoned = (IF msg = None THEN Any ELSE msg)
           /\ Unabandon(m).abandoned = None
BY DEF Abandon, Unabandon, Memory, Msgs, Any, None

LEMMA PersistedIs ==
    ASSUME NEW m \in Memory
    PROVE  /\ Persisted(m) \in File /\ Persisted(m).enabled = (m.preference # "off")
           /\ Persisted(m).abandoned = m.abandoned
BY DEF Persisted, Memory, File

LEMMA DefaultIs == ASSUME MaxSent \in Nat PROVE Default \in File
BY DEF Default, File, Any, None

\* a new job, of which only the kind and what it awaits are known
Bare(d, kind, at) ==
    /\ d \in JobT /\ d.kind = kind /\ d.at = at /\ d.msg = None /\ d.ok = FALSE
    /\ d.aborted = FALSE /\ d.pending = FALSE /\ d.quiet = FALSE /\ d.reason = "none"
LEMMA JobIs ==
    ASSUME MaxSent \in Nat, NEW k \in Kinds, NEW a \in Ats
    PROVE  Bare(Job(k, a), k, a)
BY DefaultIs DEF Job, JobT, Bare, Msgs, None

-----------------------------------------------------------------------------
(* What the steps do to the memory and the jobs.                           *)

\* nothing of the memory but perhaps the timer and the resumption
Keeps(m) ==
    /\ memory' \in Memory /\ memory'.preference = m.preference
    /\ memory'.abandoned = m.abandoned /\ memory'.enabled = m.enabled

\* only the mark of an abandoned turn
Remarks(m, mark) ==
    /\ memory' \in Memory /\ memory'.preference = m.preference
    /\ memory'.abandoned = mark /\ memory'.enabled = m.enabled

\* a fresh send or a choice
Opts(m, on) ==
    /\ memory' \in Memory /\ memory'.preference = (IF on THEN "on" ELSE "off")
    /\ memory'.abandoned = m.abandoned /\ memory'.enabled = on

MarkOf(msg) == IF msg = None THEN Any ELSE msg

\* the write of the mark is under way, or there is none
Writer(d, j) ==
    /\ d \in JobT /\ d.kind = j.kind /\ d.at = "settling" /\ d.file = Persisted(memory')
    /\ d.reason = j.reason /\ d.ok = j.ok /\ d.pending = j.pending /\ d.aborted = j.aborted
SettleWrites(j, m, others) ==
    /\ j.reason # "system" /\ Remarks(m, IF j.ok THEN None ELSE MarkOf(j.msg))
    /\ \E d : Writer(d, j) /\ jobs' = others \cup {d}
SettleKeeps(j, m, others) ==
    /\ j.reason = "system" \/ (j.ok = TRUE /\ m.abandoned = None)
    /\ Keeps(m) /\ jobs' = others

LEMMA SettleDoes ==
    ASSUME MaxSent \in Nat, NEW j \in JobT, NEW m \in Memory, NEW others \in SUBSET JobT,
           Settle(j, m, others), phase \in Phases
    PROVE  /\ phase' \in Phases /\ memory'.timer = Failed(m, j.ok)
           /\ SettleWrites(j, m, others) \/ SettleKeeps(j, m, others)
<1>1. PICK s : s = HandleStreamFailure(m, j.ok)
    OBVIOUS
<1>2. /\ j.ok \in BOOLEAN /\ j.msg \in Msgs
      /\ s \in Memory /\ s.preference = m.preference /\ s.abandoned = m.abandoned
      /\ s.enabled = m.enabled /\ s.timer = Failed(m, j.ok)
    BY <1>1, FailureIs DEF JobT
<1>3. CASE j.reason # "system" /\ Marks(m, j.ok)
    <2>1. /\ memory' = Marked(s, j.ok, j.msg)
          /\ jobs' = others \cup {[j EXCEPT !.at = "settling", !.file = Persisted(memory')]}
          /\ phase' = IF j.quiet THEN phase ELSE "COMPLETING"
        BY <1>1, <1>3 DEF Settle
    <2>2. Remarks(m, IF j.ok THEN None ELSE MarkOf(j.msg)) /\ memory'.timer = s.timer
        BY <1>2, <2>1, MarkIs DEF Marked, Remarks, MarkOf
    <2>3. Persisted(memory') \in File
        BY <2>2, PersistedIs DEF Remarks
    <2>4. PICK d : d = [j EXCEPT !.at = "settling", !.file = Persisted(memory')]
        OBVIOUS
    <2>5. /\ d \in JobT /\ d.kind = j.kind /\ d.at = "settling"
          /\ d.file = Persisted(memory') /\ d.reason = j.reason /\ d.ok = j.ok
          /\ d.pending = j.pending /\ d.aborted = j.aborted
        BY <2>3, <2>4 DEF JobT, Ats
    <2>6. phase' \in Phases
        BY <2>1 DEF Phases
    <2> QED
        BY <1>2, <1>3, <2>1, <2>2, <2>4, <2>5, <2>6 DEF SettleWrites, Writer
<1>4. CASE ~ (j.reason # "system" /\ Marks(m, j.ok))
    <2>1. memory' = s /\ jobs' = others /\ phase' = PhaseAfter(j)
        BY <1>1, <1>4, Zenon DEF Settle
    <2>2. phase' \in Phases
        BY <2>1 DEF PhaseAfter, Phases
    <2>3. j.reason = "system" \/ (j.ok = TRUE /\ m.abandoned = None)
        BY <1>2, <1>4 DEF Marks
    <2> QED
        BY <1>2, <2>1, <2>2, <2>3 DEF Keeps, SettleKeeps
<1> QED
    BY <1>3, <1>4

LEMMA HandleDoes ==
    ASSUME MaxSent \in Nat, NEW j \in JobT, NEW m \in Memory, NEW others \in SUBSET JobT,
           Handle(j, m, others), phase \in Phases
    PROVE  /\ active' = None /\ phase' \in Phases
           /\ \/ /\ m.preference = "unknown" /\ memory' = m
                 /\ \E d \in JobT :
                       /\ jobs' = others \cup {d} /\ d.kind = j.kind /\ d.at = "loading"
                       /\ d.reason = j.reason /\ d.ok = j.ok /\ d.msg = j.msg
                       /\ d.pending = j.pending /\ d.aborted = j.aborted
              \/ m.preference # "unknown" /\ Settle(j, m, others)
<1>1. CASE m.preference = "unknown"
    <2>1. PICK d : d = [j EXCEPT !.at = "loading"]
        OBVIOUS
    <2>2. /\ d \in JobT /\ d.kind = j.kind /\ d.at = "loading"
          /\ d.reason = j.reason /\ d.ok = j.ok /\ d.msg = j.msg
          /\ d.pending = j.pending /\ d.aborted = j.aborted
        BY <2>1 DEF JobT, Ats
    <2>3. /\ jobs' = others \cup {d} /\ memory' = m /\ active' = None
          /\ phase' = IF j.quiet THEN phase ELSE "COMPLETING"
        BY <1>1, <2>1, Zenon DEF Handle
    <2> QED
        BY <1>1, <2>2, <2>3 DEF Phases
<1>2. CASE m.preference # "unknown"
    <2>1. Settle(j, m, others) /\ active' = None
        BY <1>2, Zenon DEF Handle
    <2> QED
        BY <1>2, <2>1, SettleDoes
<1> QED
    BY <1>1, <1>2

MarkWrites(m, others) ==
    /\ Remarks(m, MarkOf(active)) /\ memory'.timer = m.timer
    /\ \E d \in JobT :
        /\ jobs' = others \cup {d} /\ d.kind = "abort" /\ d.at = "settling"
        /\ d.file = Persisted(memory') /\ d.reason = "none" /\ d.ok = FALSE
        /\ d.pending = FALSE /\ d.aborted = FALSE

LEMMA MarkAbortedDoes ==
    ASSUME MaxSent \in Nat, Typed, NEW reason, NEW m \in Memory, NEW others \in SUBSET JobT,
           MarkAborted(reason, m, others)
    PROVE  /\ UNCHANGED <<phase, active>>
           /\ \/ reason = "system" /\ jobs' = others /\ memory' = m
              \/ reason # "system" /\ MarkWrites(m, others)
<1>1. CASE reason = "system"
    BY <1>1, Zenon DEF MarkAborted
<1>2. CASE reason # "system"
    <2>1. PICK b : b = Job("abort", "settling")
        OBVIOUS
    <2>2. Bare(b, "abort", "settling")
        BY <2>1, JobIs DEF Kinds, Ats
    <2>3. PICK d : d = [b EXCEPT !.quiet = TRUE, !.file = Persisted(memory')]
        OBVIOUS
    <2>4. /\ memory' = Abandon(m, active) /\ jobs' = others \cup {d} /\ UNCHANGED <<phase, active>>
        BY <1>2, <2>1, <2>3, Zenon DEF MarkAborted
    <2>5. active \in Msgs
        BY DEF Typed
    <2>6. Remarks(m, MarkOf(active)) /\ memory'.timer = m.timer
        BY <2>4, <2>5, MarkIs DEF Remarks, MarkOf
    <2>7. Persisted(memory') \in File
        BY <2>6, PersistedIs DEF Remarks
    <2>8. /\ d \in JobT /\ d.kind = "abort" /\ d.at = "settling"
          /\ d.file = Persisted(memory') /\ d.reason = "none" /\ d.ok = FALSE
          /\ d.pending = FALSE /\ d.aborted = FALSE
        BY <2>2, <2>3, <2>7 DEF JobT, Bare
    <2> QED
        BY <1>2, <2>4, <2>6, <2>8 DEF MarkWrites
<1> QED
    BY <1>1, <1>2

-----------------------------------------------------------------------------
(* The shape of the calls under way.                                       *)
Shape(j) ==
    /\ j.at \in Places[j.kind]
    /\ j.at # "starting" => j.pending = FALSE /\ j.aborted = FALSE
    /\ j.kind = "abort" => j.ok = FALSE
    /\ j.kind = "abort" /\ j.at = "forwarding" => j.reason \in {"user", "system"}
    /\ j.kind = "error" => j.reason # "system"
Shaped == \A j \in jobs : Shape(j)

\* a job of some kind at some point
Is(d, kind, at) == d \in JobT /\ Shape(d) /\ d.kind = kind /\ d.at = at
IsWrite(d, kind, at) == Is(d, kind, at) /\ d.file = Persisted(memory')

LEMMA BareShape ==
    ASSUME NEW d, NEW k \in Kinds, NEW a \in Places[k], Bare(d, k, a), a # "forwarding"
    PROVE  Is(d, k, a)
BY DEF Bare, Is, Shape

LEMMA OptsBackDoes ==
    ASSUME MaxSent \in Nat, NEW j \in JobT, Shape(j), j.kind = "send", j.at # "starting",
           NEW m \in Memory, OptsBackIn(j, m)
    PROVE  /\ Opts(m, TRUE) /\ memory'.timer = FALSE /\ optedOut' = FALSE /\ owed' = FALSE
           /\ \E d : IsWrite(d, "send", "saving") /\ jobs' = (jobs \ {j}) \cup {d}
<1>1. PICK c : c = Cancel(m)
    OBVIOUS
<1>2. PICK n : n = Preferring(SetEnabled(c, TRUE), TRUE)
    OBVIOUS
<1>3. PICK d : d = [j EXCEPT !.at = "saving", !.file = Persisted(n)]
    OBVIOUS
<1>4. /\ memory' = n /\ jobs' = (jobs \ {j}) \cup {d} /\ optedOut' = FALSE /\ owed' = FALSE
    BY <1>1, <1>2, <1>3, Zenon DEF OptsBackIn, Becomes
<1>5. c \in Memory /\ c.abandoned = m.abandoned /\ c.timer = FALSE
    BY <1>1, CancelIs
<1>6. /\ n \in Memory /\ n.preference = "on"
      /\ n.abandoned = m.abandoned /\ n.enabled = TRUE /\ n.timer = FALSE
    BY <1>2, <1>5, ChosenIs
<1>7. Persisted(n) \in File
    BY <1>6, PersistedIs
<1>8. /\ d \in JobT /\ d.kind = "send" /\ d.at = "saving" /\ d.file = Persisted(n)
      /\ d.pending = FALSE /\ d.aborted = FALSE
    BY <1>3, <1>7 DEF JobT, Ats, Shape
<1>9. Is(d, "send", "saving")
    BY <1>8 DEF Is, Shape, Places
<1> QED
    BY <1>4, <1>6, <1>8, <1>9 DEF Opts, IsWrite

\* a send whose row is written
LEMMA AcceptedDoes ==
    ASSUME MaxSent \in Nat, Typed, Shaped, NEW j \in jobs, Accepted(j)
    PROVE  /\ j.kind = "send" /\ j.at = "accepting"
           /\ last' \in Msgs /\ answered' = FALSE
           /\ userStopped' = FALSE /\ missedStop' = FALSE
           /\ UNCHANGED <<file, phase, active, stream, sent>>
           /\ \/ /\ Opts(memory, TRUE) /\ memory'.timer = FALSE /\ optedOut' = FALSE
                 /\ owed' = FALSE
                 /\ \E d : IsWrite(d, "send", "saving") /\ jobs' = (jobs \ {j}) \cup {d}
              \/ /\ Remarks(memory, None) /\ memory'.timer = memory.timer
                 /\ UNCHANGED <<optedOut, owed>>
                 /\ \E d : IsWrite(d, "send", "clearing") /\ jobs' = (jobs \ {j}) \cup {d}
<1>1. /\ j \in JobT /\ Shape(j) /\ memory \in Memory
    BY DEF Typed, Shaped
<1>2. /\ j.kind = "send" /\ j.at = "accepting"
      /\ last' = j.msg /\ answered' = FALSE
      /\ userStopped' = FALSE /\ missedStop' = FALSE
      /\ UNCHANGED <<file, phase, active, stream, sent>>
    BY Zenon DEF Accepted
<1>3. last' \in Msgs
    BY <1>1, <1>2 DEF JobT
<1>4. CASE memory.abandoned = None
    <2>1. OptsBackIn(j, memory)
        BY <1>4, Zenon DEF Accepted
    <2> QED
        BY <1>1, <1>2, <1>3, <2>1, OptsBackDoes
<1>5. CASE memory.abandoned # None
    <2>1. PICK n : n = Unabandon(memory)
        OBVIOUS
    <2>2. PICK d : d = [j EXCEPT !.at = "clearing", !.file = Persisted(n)]
        OBVIOUS
    <2>3. memory' = n /\ jobs' = (jobs \ {j}) \cup {d} /\ UNCHANGED <<optedOut, owed>>
        BY <1>5, <2>1, <2>2, Zenon DEF Accepted, Becomes
    <2>4. None \in Msgs
        BY DEF None, Msgs
    <2>5. Remarks(memory, None) /\ memory'.timer = memory.timer
        BY <1>1, <2>1, <2>3, <2>4, MarkIs DEF Remarks
    <2>6. Persisted(n) \in File
        BY <2>3, <2>5, PersistedIs DEF Remarks
    <2>7. /\ d \in JobT /\ d.kind = "send" /\ d.at = "clearing" /\ d.file = Persisted(n)
          /\ d.pending = FALSE /\ d.aborted = FALSE
        BY <1>1, <1>2, <2>2, <2>6 DEF JobT, Ats, Shape
    <2>8. IsWrite(d, "send", "clearing")
        BY <2>3, <2>7 DEF Is, IsWrite, Shape, Places
    <2> QED
        BY <1>2, <1>3, <2>3, <2>5, <2>8
<1> QED
    BY <1>4, <1>5

LEMMA RetryStartedDoes ==
    ASSUME MaxSent \in Nat, Typed, Shaped, NEW j \in jobs, RetryStarted(j)
    PROVE  \/ /\ j.kind = "retry" /\ Remarks(memory, None) /\ memory'.timer = memory.timer
              /\ \E d : IsWrite(d, "retry", "settling") /\ jobs' = (jobs \ {j}) \cup {d}
           \/ memory' = memory /\ jobs' = jobs \ {j}
<1>1. CASE j.kind = "retry" /\ memory.abandoned # None
    <2>1. PICK b : b = Job("retry", "settling")
        OBVIOUS
    <2>2. Bare(b, "retry", "settling")
        BY <2>1, JobIs DEF Kinds, Ats
    <2>3. PICK n : n = Unabandon(memory)
        OBVIOUS
    <2>4. PICK d : d = [b EXCEPT !.file = Persisted(n)]
        OBVIOUS
    <2>5. memory' = n /\ jobs' = (jobs \ {j}) \cup {d}
        BY <1>1, <2>1, <2>3, <2>4, Zenon DEF RetryStarted, Becomes
    <2>6. None \in Msgs /\ memory \in Memory
        BY DEF None, Msgs, Typed
    <2>7. Remarks(memory, None) /\ memory'.timer = memory.timer
        BY <2>3, <2>5, <2>6, MarkIs DEF Remarks
    <2>8. Persisted(n) \in File
        BY <2>5, <2>7, PersistedIs DEF Remarks
    <2>9. IsWrite(d, "retry", "settling")
        BY <2>2, <2>4, <2>5, <2>8 DEF JobT, Bare, Is, IsWrite, Shape, Places
    <2> QED
        BY <1>1, <2>5, <2>7, <2>9
<1>2. CASE ~(j.kind = "retry" /\ memory.abandoned # None)
    BY <1>2, Zenon DEF RetryStarted, Finishes
<1> QED
    BY <1>1, <1>2

LEMMA ReadFailsDoes ==
    ASSUME MaxSent \in Nat, Typed, Shaped, NEW j \in jobs, ReadFails(j)
    PROVE  /\ j.at = "reading" /\ phase' \in Phases
           /\ UNCHANGED <<file, last, answered, active, stream, sent, ghosts>>
           /\ \/ memory' = memory /\ jobs' = jobs \ {j} /\ j.kind # "retry"
              \/ /\ j.kind = "retry" /\ Remarks(memory, None)
                 /\ memory'.timer = Failed(memory, TRUE)
                 /\ \/ \E d : IsWrite(d, "retry", "settling") /\ jobs' = (jobs \ {j}) \cup {d}
                    \/ memory.abandoned = None /\ jobs' = jobs \ {j}
<1>1. /\ j.at = "reading" /\ LeavePreparing
      /\ UNCHANGED <<file, last, answered, active, stream, sent, ghosts>>
    BY Zenon DEF ReadFails
<1>2. phase' \in Phases
    BY <1>1 DEF LeavePreparing, Typed, Phases
<1>3. CASE j.kind # "retry"
    <2>1. memory' = memory /\ jobs' = jobs \ {j}
        BY <1>3, Zenon DEF ReadFails, Finishes
    <2> QED
        BY <1>1, <1>2, <1>3, <2>1
<1>4. CASE j.kind = "retry"
    <2>1. PICK s : s = HandleStreamFailure(memory, TRUE)
        OBVIOUS
    <2>2. PICK n : n = Marked(s, TRUE, active)
        OBVIOUS
    <2>3. PICK b : b = Job("retry", "settling")
        OBVIOUS
    <2>4. Bare(b, "retry", "settling")
        BY <2>3, JobIs DEF Kinds, Ats
    <2>5. PICK d : d = [b EXCEPT !.file = Persisted(n)]
        OBVIOUS
    <2>6. /\ memory' = n
          /\ Marks(memory, TRUE) => jobs' = (jobs \ {j}) \cup {d}
          /\ ~Marks(memory, TRUE) => jobs' = jobs \ {j}
        BY <1>4, <2>1, <2>2, <2>3, <2>5, Zenon DEF ReadFails, Becomes, Finishes
    <2>7. memory \in Memory /\ active \in Msgs
        BY DEF Typed
    <2>8. /\ s \in Memory /\ s.preference = memory.preference /\ s.abandoned = memory.abandoned
          /\ s.enabled = memory.enabled /\ s.timer = Failed(memory, TRUE)
        BY <2>1, <2>7, FailureIs
    <2>9. n = Unabandon(s)
        BY <2>2 DEF Marked
    <2>10. Remarks(memory, None) /\ memory'.timer = Failed(memory, TRUE)
        BY <2>6, <2>7, <2>8, <2>9, MarkIs DEF Remarks
    <2>11. Persisted(n) \in File
        BY <2>6, <2>10, PersistedIs DEF Remarks
    <2>12. IsWrite(d, "retry", "settling")
        BY <2>4, <2>5, <2>6, <2>11 DEF JobT, Bare, Is, IsWrite, Shape, Places
    <2>13. ~Marks(memory, TRUE) => memory.abandoned = None
        BY DEF Marks
    <2> QED
        BY <1>1, <1>2, <1>4, <2>6, <2>10, <2>12, <2>13
<1> QED
    BY <1>3, <1>4

\* the same call, but perhaps for what tells whether it can be aborted
Same(d, k) ==
    /\ d \in JobT /\ d.kind = k.kind /\ d.at = k.at /\ d.msg = k.msg /\ d.ok = k.ok
    /\ d.reason = k.reason /\ d.file = k.file
    /\ k.at # "starting" => d = k

LEMMA StreamMessageDoes ==
    ASSUME MaxSent \in Nat, Typed, Shaped, NEW j \in jobs, StreamMessage(j)
    PROVE  /\ j.at = "reading" /\ active' = last
           /\ UNCHANGED <<file, last, answered, memory, phase, stream, sent, ghosts>>
           /\ IsFiniteSet(jobs')
           /\ \A d \in jobs' : \/ Is(d, j.kind, "starting") /\ d.aborted = FALSE
                               \/ \E k \in jobs \ {j} : Same(d, k) /\ d.aborted = k.aborted
           /\ \A k \in jobs \ {j} : \E d \in jobs' : Same(d, k) /\ d.aborted = k.aborted
           /\ \E d \in jobs' : Is(d, j.kind, "starting") /\ d.aborted = FALSE
<1> DEFINE F == [k \in jobs \ {j} |-> IF k.at = "starting" THEN [k EXCEPT !.pending = FALSE] ELSE k]
           Image == {F[k] : k \in jobs \ {j}}
<1>1. PICK e : e = [j EXCEPT !.at = "starting", !.pending = TRUE]
    OBVIOUS
<1>2. /\ j.at = "reading" /\ active' = last
      /\ UNCHANGED <<file, last, answered, memory, phase, stream, sent, ghosts>>
    BY Zenon DEF StreamMessage
<1>3. jobs' = Image \cup {e}
    <2>1. jobs' = {IF k.at = "starting" THEN [k EXCEPT !.pending = FALSE] ELSE k : k \in jobs \ {j}}
                   \cup {e}
        BY <1>1, Zenon DEF StreamMessage
    <2> QED
        BY <2>1
<1>4. j \in JobT /\ Shape(j) /\ jobs \subseteq JobT /\ IsFiniteSet(jobs)
    BY DEF Typed, Shaped
<1>5. Is(e, j.kind, "starting") /\ e.aborted = FALSE
    <2>1. /\ e \in JobT /\ e.kind = j.kind /\ e.at = "starting" /\ e.aborted = FALSE
          /\ e.ok = j.ok /\ e.reason = j.reason
        BY <1>1, <1>2, <1>4 DEF JobT, Ats, Shape
    <2>2. j.kind \in {"send", "retry", "resume"}
        BY <1>2, <1>4 DEF Shape, Places, JobT, Kinds
    <2> QED
        BY <2>1, <2>2 DEF Is, Shape, Places
<1>6. \A k \in jobs \ {j} : Same(F[k], k) /\ F[k].aborted = k.aborted
    <2> SUFFICES ASSUME NEW k \in jobs \ {j} PROVE Same(F[k], k) /\ F[k].aborted = k.aborted
        OBVIOUS
    <2>1. k \in JobT
        BY <1>4
    <2>2. CASE k.at = "starting"
        <3>1. PICK d : d = [k EXCEPT !.pending = FALSE]
            OBVIOUS
        <3>2. F[k] = d
            BY <2>2, <3>1
        <3>3. /\ d \in JobT /\ d.kind = k.kind /\ d.at = k.at /\ d.msg = k.msg /\ d.ok = k.ok
              /\ d.reason = k.reason /\ d.file = k.file /\ d.aborted = k.aborted
            BY <2>1, <3>1 DEF JobT
        <3> HIDE DEF F
        <3> QED
            BY <2>2, <3>2, <3>3 DEF Same
    <2>3. CASE k.at # "starting"
        <3>1. F[k] = k
            BY <2>3
        <3> HIDE DEF F
        <3> QED
            BY <2>1, <3>1 DEF Same
    <2> QED
        BY <2>2, <2>3
<1>7. IsFiniteSet(jobs')
    <2>1. IsFiniteSet(jobs \ {j})
        BY <1>4, FS_Subset
    <2>2. F \in Surjection(jobs \ {j}, Image)
        BY DEF Surjection
    <2>3. IsFiniteSet(Image)
        BY <2>1, <2>2, FS_Surjection
    <2> QED
        BY <1>3, <2>3, FS_AddElement
<1> HIDE DEF F
<1>8. \A d \in jobs' : d = e \/ \E k \in jobs \ {j} : d = F[k]
    BY <1>3
<1>9. e \in jobs' /\ \A k \in jobs \ {j} : F[k] \in jobs'
    BY <1>3
<1> HIDE DEF Image
<1> QED
    BY <1>2, <1>5, <1>6, <1>7, <1>8, <1>9

LEMMA FailsDoes ==
    ASSUME MaxSent \in Nat, Typed, NEW others \in SUBSET jobs, NEW quiet \in BOOLEAN,
           Fails(others, quiet)
    PROVE  /\ UNCHANGED <<file, last, answered, sent, userStopped, missedStop, optedOut>>
           /\ active' = None /\ phase' \in Phases
           /\ \E ok \in BOOLEAN :
              /\ owed' \in BOOLEAN
              /\ owed' = TRUE => /\ ok = TRUE /\ userStopped = FALSE /\ optedOut = FALSE
                                 /\ \A k \in others : k.kind # "abort"
              /\ \/ /\ memory.preference = "unknown" /\ memory' = memory
                    /\ \E d : /\ Is(d, "error", "loading") /\ d.ok = ok
                              /\ jobs' = others \cup {d}
                 \/ /\ memory.preference # "unknown" /\ memory'.timer = Failed(memory, ok)
                    /\ \/ /\ \E mark \in 0..Any : Remarks(memory, mark)
                          /\ \E d : IsWrite(d, "error", "settling") /\ jobs' = others \cup {d}
                       \/ Keeps(memory) /\ jobs' = others
<1>1. PICK ok \in BOOLEAN :
        /\ Handle(Failure(ok, quiet), memory, others)
        /\ owed' = (ok /\ ~userStopped /\ ~optedOut /\ ~\E k \in others : k.kind = "abort")
    BY Zenon DEF Fails
<1>2. UNCHANGED <<file, last, answered, sent, userStopped, missedStop, optedOut>>
    BY Zenon DEF Fails
<1>3. PICK f : f = Failure(ok, quiet)
    OBVIOUS
<1>4. /\ f \in JobT /\ f.kind = "error" /\ f.ok = ok /\ f.reason = "none" /\ f.msg = active
      /\ f.pending = FALSE /\ f.aborted = FALSE
    <2>1. PICK b : b = Job("error", "handling")
        OBVIOUS
    <2>2. Bare(b, "error", "handling")
        BY <2>1, JobIs DEF Kinds, Ats
    <2>3. f = [b EXCEPT !.msg = active, !.ok = ok, !.quiet = quiet]
        BY <1>3, <2>1 DEF Failure
    <2>4. active \in Msgs
        BY DEF Typed
    <2> QED
        BY <2>2, <2>3, <2>4 DEF JobT, Bare
<1>5. others \in SUBSET JobT /\ memory \in Memory /\ phase \in Phases
    BY DEF Typed
<1>6. Handle(f, memory, others)
    BY <1>1, <1>3
<1>7. owed' \in BOOLEAN /\ (owed' = TRUE => /\ ok = TRUE /\ userStopped = FALSE /\ optedOut = FALSE
                                 /\ \A k \in others : k.kind # "abort")
    BY <1>1 DEF Typed
<1>8. active' = None /\ phase' \in Phases
    BY <1>4, <1>5, <1>6, HandleDoes
<1>9. CASE memory.preference = "unknown"
    <2>1. PICK d \in JobT :
            /\ memory' = memory /\ jobs' = others \cup {d} /\ d.kind = f.kind /\ d.at = "loading"
            /\ d.reason = f.reason /\ d.ok = f.ok
            /\ d.pending = f.pending /\ d.aborted = f.aborted
        BY <1>4, <1>5, <1>6, <1>9, HandleDoes
    <2>2. Is(d, "error", "loading") /\ d.ok = ok
        BY <1>4, <2>1 DEF Is, Shape, Places
    <2> QED
        BY <1>2, <1>7, <1>8, <1>9, <2>1, <2>2
<1>10. CASE memory.preference # "unknown"
    <2>1. Settle(f, memory, others)
        BY <1>4, <1>5, <1>6, <1>10, HandleDoes
    <2>2. memory'.timer = Failed(memory, ok)
        BY <1>4, <1>5, <2>1, SettleDoes
    <2>3. CASE Keeps(memory) /\ jobs' = others
        BY <1>2, <1>7, <1>8, <1>10, <2>2, <2>3
    <2>4. CASE SettleWrites(f, memory, others)
        <3>1. PICK d : Writer(d, f) /\ jobs' = others \cup {d}
            BY <2>4 DEF SettleWrites
        <3>2. IsWrite(d, "error", "settling")
            BY <1>4, <3>1 DEF IsWrite, Is, Shape, Places, Writer
        <3>3. memory'.abandoned \in 0..Any /\ Remarks(memory, memory'.abandoned)
            BY <2>4 DEF Remarks, Memory, SettleWrites
        <3> QED
            BY <1>2, <1>7, <1>8, <1>10, <2>2, <3>1, <3>2, <3>3
    <2>5. SettleWrites(f, memory, others) \/ SettleKeeps(f, memory, others)
        BY <1>4, <1>5, <2>1, SettleDoes
    <2> QED
        BY <2>3, <2>4, <2>5 DEF SettleKeeps
<1> QED
    BY <1>9, <1>10

\* what a call that has read the file does, or one that aborts a stream
LEMMA HandlerLoadsDoes ==
    ASSUME MaxSent \in Nat, Typed, Shaped, NEW j \in jobs, HandlerLoads(j)
    PROVE  /\ j.at = "loaded" /\ j.kind \in {"error", "abort"} /\ phase' \in Phases
           /\ UNCHANGED <<file, last, answered, active, stream, sent, ghosts>>
           /\ memory' \in Memory /\ memory'.preference = (IF j.file.enabled THEN "on" ELSE "off")
           /\ memory'.enabled = j.file.enabled
           /\ memory'.timer = (IF j.file.enabled THEN j.ok ELSE FALSE)
           /\ \/ /\ j.reason # "system"
                 /\ memory'.abandoned = (IF j.ok THEN None ELSE MarkOf(j.msg))
                 /\ \E d : IsWrite(d, j.kind, "settling") /\ jobs' = (jobs \ {j}) \cup {d}
              \/ /\ j.reason = "system" \/ j.ok = TRUE
                 /\ memory'.abandoned = j.file.abandoned /\ jobs' = jobs \ {j}
<1>1. /\ j \in JobT /\ Shape(j) /\ memory \in Memory /\ phase \in Phases /\ jobs \ {j} \in SUBSET JobT
      /\ j.file \in File /\ j.ok \in BOOLEAN
    BY DEF Typed, Shaped, JobT
<1>2. PICK m : m = Loaded(memory, j.file)
    OBVIOUS
<1>3. /\ j.at = "loaded" /\ j.kind \in {"error", "abort"} /\ Settle(j, m, jobs \ {j})
      /\ UNCHANGED <<file, last, answered, active, stream, sent, ghosts>>
    BY <1>2, Zenon DEF HandlerLoads
<1>4. /\ m \in Memory /\ m.preference = (IF j.file.enabled THEN "on" ELSE "off")
      /\ m.abandoned = j.file.abandoned /\ m.enabled = j.file.enabled
      /\ m.timer = (memory.timer /\ j.file.enabled)
    BY <1>1, <1>2, LoadedIs
<1>5. phase' \in Phases /\ memory'.timer = Failed(m, j.ok)
    BY <1>1, <1>3, <1>4, SettleDoes
<1>6. j.file.enabled \in BOOLEAN
    BY <1>1 DEF File
<1>7. memory'.timer = (IF j.file.enabled THEN j.ok ELSE FALSE)
    BY <1>1, <1>4, <1>5, <1>6 DEF Failed
<1>8. CASE SettleWrites(j, m, jobs \ {j})
    <2>1. PICK d : Writer(d, j) /\ jobs' = (jobs \ {j}) \cup {d}
        BY <1>8 DEF SettleWrites
    <2>2. IsWrite(d, j.kind, "settling")
        BY <1>1, <1>3, <2>1 DEF IsWrite, Is, Shape, Places, Writer
    <2> QED
        BY <1>3, <1>4, <1>5, <1>7, <1>8, <2>1, <2>2 DEF Remarks, SettleWrites
<1>9. CASE SettleKeeps(j, m, jobs \ {j})
    BY <1>3, <1>4, <1>5, <1>7, <1>9 DEF Keeps, SettleKeeps
<1>10. SettleWrites(j, m, jobs \ {j}) \/ SettleKeeps(j, m, jobs \ {j})
    BY <1>1, <1>3, <1>4, SettleDoes
<1> QED
    BY <1>8, <1>9, <1>10

\* a stream-abort has been looked at
LEMMA AbortEventDoes ==
    ASSUME MaxSent \in Nat, Typed, NEW c \in JobT, c.kind = "abort", c.ok = FALSE,
           c.pending = FALSE, c.aborted = FALSE,
           NEW m \in Memory, NEW others \in SUBSET JobT, AbortEvent(c, m, others)
    PROVE  /\ active' \in {active, None} /\ phase' \in Phases
           /\ \/ /\ m.preference = "unknown" /\ memory' = m
                 /\ \E d : /\ Is(d, "abort", "loading") /\ d.msg = active /\ d.reason = c.reason
                           /\ jobs' = others \cup {d}
              \/ /\ c.reason # "system" /\ Remarks(m, MarkOf(active))
                 /\ memory'.timer \in {m.timer, FALSE}
                 /\ \E d : IsWrite(d, "abort", "settling") /\ jobs' = others \cup {d}
              \/ /\ c.reason = "system" /\ jobs' = others /\ Keeps(m)
                 /\ memory'.timer \in {m.timer, FALSE}
<1>1. active \in Msgs /\ phase \in Phases
    BY DEF Typed
<1>2. CASE phase = "STREAMING"
    <2>1. PICK j : j = [c EXCEPT !.msg = active]
        OBVIOUS
    <2>2. /\ j \in JobT /\ j.kind = "abort" /\ j.ok = FALSE /\ j.msg = active /\ j.reason = c.reason
          /\ j.pending = FALSE /\ j.aborted = FALSE
        BY <1>1, <2>1 DEF JobT
    <2>3. Handle(j, m, others)
        BY <1>2, <2>1, Zenon DEF AbortEvent
    <2>4. active' = None /\ phase' \in Phases
        BY <1>1, <2>2, <2>3, HandleDoes
    <2>5. CASE m.preference = "unknown"
        <3>1. PICK d \in JobT :
                       /\ memory' = m /\ jobs' = others \cup {d} /\ d.kind = j.kind /\ d.at = "loading"
                       /\ d.reason = j.reason /\ d.ok = j.ok /\ d.msg = j.msg
                       /\ d.pending = j.pending /\ d.aborted = j.aborted
            BY <1>1, <2>2, <2>3, <2>5, HandleDoes
        <3>2. Is(d, "abort", "loading") /\ d.msg = active /\ d.reason = c.reason
            BY <2>2, <3>1 DEF Is, Shape, Places
        <3> QED
            BY <2>4, <2>5, <3>1, <3>2
    <2>6. CASE m.preference # "unknown"
        <3>1. Settle(j, m, others)
            BY <1>1, <2>2, <2>3, <2>6, HandleDoes
        <3>2. memory'.timer = Failed(m, FALSE)
            BY <1>1, <2>2, <3>1, SettleDoes
        <3>3. memory'.timer \in {m.timer, FALSE}
            BY <3>2 DEF Failed
        <3>4. CASE SettleKeeps(j, m, others)
            BY <2>2, <2>4, <3>3, <3>4 DEF SettleKeeps
        <3>5. CASE SettleWrites(j, m, others)
            <4>1. PICK d : Writer(d, j) /\ jobs' = others \cup {d}
                BY <3>5 DEF SettleWrites
            <4>2. IsWrite(d, "abort", "settling")
                BY <2>2, <4>1 DEF IsWrite, Is, Shape, Places, Writer
            <4>3. j.reason # "system" /\ Remarks(m, MarkOf(active))
                BY <2>2, <3>5 DEF SettleWrites
            <4> QED
                BY <2>2, <2>4, <3>3, <4>1, <4>2, <4>3
        <3>6. SettleKeeps(j, m, others) \/ SettleWrites(j, m, others)
            BY <1>1, <2>2, <3>1, SettleDoes
        <3> QED
            BY <3>4, <3>5, <3>6
    <2> QED
        BY <2>5, <2>6
<1>3. CASE phase # "STREAMING"
    <2>1. MarkAborted(c.reason, m, others)
        BY <1>3, Zenon DEF AbortEvent
    <2>2. UNCHANGED <<phase, active>>
        BY <2>1, MarkAbortedDoes
    <2>3. CASE c.reason = "system" /\ jobs' = others /\ memory' = m
        BY <1>1, <2>2, <2>3 DEF Keeps
    <2>4. CASE c.reason # "system" /\ MarkWrites(m, others)
        <3>1. PICK d \in JobT :
                       /\ jobs' = others \cup {d} /\ d.kind = "abort" /\ d.at = "settling"
                       /\ d.file = Persisted(memory') /\ d.reason = "none" /\ d.ok = FALSE
                       /\ d.pending = FALSE /\ d.aborted = FALSE
            BY <2>4 DEF MarkWrites
        <3>2. IsWrite(d, "abort", "settling")
            BY <3>1 DEF IsWrite, Is, Shape, Places
        <3>3. Remarks(m, MarkOf(active)) /\ memory'.timer = m.timer
            BY <2>4 DEF MarkWrites
        <3> QED
            BY <1>1, <2>2, <2>4, <3>1, <3>2, <3>3
    <2>5. \/ c.reason = "system" /\ jobs' = others /\ memory' = m
          \/ c.reason # "system" /\ MarkWrites(m, others)
        BY <2>1, MarkAbortedDoes
    <2> QED
        BY <2>3, <2>4, <2>5
<1> QED
    BY <1>2, <1>3

\* what a stop makes of the calls: those that can be aborted are
Stopping(O) ==
    /\ O \subseteq JobT /\ IsFiniteSet(O)
    /\ \A d \in O : \E k \in jobs :
          Same(d, k) /\ IF k.pending THEN d.aborted = TRUE ELSE d = k
    /\ \A k \in jobs : \E d \in O : Same(d, k)

LEMMA StopDoes ==
    ASSUME MaxSent \in Nat, Typed, Shaped, Stop
    PROVE  /\ UNCHANGED <<file, last, answered, sent, optedOut>>
           /\ stream' = FALSE /\ userStopped' = TRUE /\ owed' = FALSE /\ missedStop' \in BOOLEAN
           /\ missedStop' = FALSE => missedStop = FALSE /\ \A j \in jobs : ~BeyondStop(j)
           /\ active' \in {active, None} /\ phase' \in Phases
           /\ memory' \in Memory /\ memory'.preference = memory.preference
           /\ memory'.enabled = memory.enabled /\ memory'.timer = FALSE
           /\ \E O, c :
              /\ Stopping(O) /\ Is(c, "abort", "forwarding") /\ c.reason = "user"
              /\ \/ jobs' = O \cup {c} /\ memory'.abandoned = memory.abandoned
                 \/ /\ memory.preference = "unknown" /\ memory'.abandoned = memory.abandoned
                    /\ \E d : /\ Is(d, "abort", "loading") /\ d.msg = active /\ d.reason = "user"
                              /\ jobs' = (O \cup {c}) \cup {d}
                 \/ /\ memory'.abandoned = MarkOf(active)
                    /\ \E d : IsWrite(d, "abort", "settling") /\ jobs' = (O \cup {c}) \cup {d}
<1> DEFINE Pending == {j \in jobs : j.pending}
           G == [k \in jobs |-> IF k.pending THEN [k EXCEPT !.aborted = TRUE] ELSE k]
           O == {G[k] : k \in jobs}
<1>1. PICK c : c = [Job("abort", "forwarding") EXCEPT !.reason = "user"]
    OBVIOUS
<1>2. PICK m : m = Cancel(memory)
    OBVIOUS
<1>3. PICK others : others = (jobs \ Pending) \cup {[j EXCEPT !.aborted = TRUE] : j \in Pending}
    OBVIOUS
<1>4. /\ \/ AbortEvent(c, m, others \cup {c})
         \/ memory' = m /\ jobs' = others \cup {c} /\ UNCHANGED <<phase, active>>
      /\ UNCHANGED <<file, last, answered, sent, optedOut>>
      /\ stream' = FALSE /\ userStopped' = TRUE /\ owed' = FALSE
      /\ missedStop' = (missedStop \/ \E j \in jobs : BeyondStop(j))
    BY <1>1, <1>2, <1>3, Zenon DEF Stop
<1>5. missedStop' \in BOOLEAN /\ (missedStop' = FALSE => missedStop = FALSE /\ \A j \in jobs : ~BeyondStop(j))
    BY <1>4 DEF Typed
<1>6. /\ jobs \subseteq JobT /\ IsFiniteSet(jobs) /\ memory \in Memory /\ phase \in Phases
      /\ \A k \in jobs : Shape(k)
    BY DEF Typed, Shaped
<1>7. \A k \in jobs : Same(G[k], k) /\ IF k.pending THEN G[k].aborted = TRUE ELSE G[k] = k
    <2> SUFFICES ASSUME NEW k \in jobs
                 PROVE  Same(G[k], k) /\ IF k.pending THEN G[k].aborted = TRUE ELSE G[k] = k
        OBVIOUS
    <2>1. k \in JobT /\ Shape(k)
        BY <1>6
    <2>2. CASE k.pending
        <3>1. PICK d : d = [k EXCEPT !.aborted = TRUE]
            OBVIOUS
        <3>2. G[k] = d
            BY <2>2, <3>1
        <3>3. /\ d \in JobT /\ d.kind = k.kind /\ d.at = k.at /\ d.msg = k.msg /\ d.ok = k.ok
              /\ d.reason = k.reason /\ d.file = k.file /\ d.aborted = TRUE
            BY <2>1, <3>1 DEF JobT
        <3>4. k.at = "starting"
            BY <2>1, <2>2 DEF Shape
        <3> HIDE DEF G
        <3> QED
            BY <2>2, <3>2, <3>3, <3>4 DEF Same
    <2>3. CASE ~k.pending
        <3>1. G[k] = k
            BY <2>3
        <3> HIDE DEF G
        <3> QED
            BY <2>1, <2>3, <3>1 DEF Same
    <2> QED
        BY <2>2, <2>3
<1>8. others = O
    BY <1>3
<1>9. Stopping(O)
    <2>1. G \in Surjection(jobs, O)
        BY DEF Surjection
    <2>2. IsFiniteSet(O)
        BY <1>6, <2>1, FS_Surjection
    <2> HIDE DEF G
    <2>3. /\ \A d \in O : \E k \in jobs : d = G[k]
          /\ \A k \in jobs : G[k] \in O
        OBVIOUS
    <2>4. \A d \in O : \E k \in jobs : Same(d, k) /\ IF k.pending THEN d.aborted = TRUE ELSE d = k
        BY <1>7, <2>3
    <2>5. O \subseteq JobT
        BY <2>4 DEF Same
    <2>6. \A k \in jobs : \E d \in O : Same(d, k)
        BY <1>7, <2>3
    <2> HIDE DEF O
    <2> QED
        BY <2>2, <2>4, <2>5, <2>6 DEF Stopping
<1> HIDE DEF O
<1>10. /\ Is(c, "abort", "forwarding") /\ c.reason = "user" /\ c.ok = FALSE
       /\ c.pending = FALSE /\ c.aborted = FALSE
    <2>1. PICK b : b = Job("abort", "forwarding")
        OBVIOUS
    <2>2. Bare(b, "abort", "forwarding")
        BY <2>1, JobIs DEF Kinds, Ats
    <2>3. c = [b EXCEPT !.reason = "user"]
        BY <1>1, <2>1
    <2> QED
        BY <2>2, <2>3 DEF JobT, Bare, Is, Shape, Places
<1>11. /\ m \in Memory /\ m.preference = memory.preference /\ m.abandoned = memory.abandoned
       /\ m.enabled = memory.enabled /\ m.timer = FALSE
    BY <1>2, <1>6, CancelIs
<1>12. CASE memory' = m /\ jobs' = others \cup {c} /\ UNCHANGED <<phase, active>>
    BY <1>4, <1>5, <1>6, <1>8, <1>9, <1>10, <1>11, <1>12
<1>13. CASE AbortEvent(c, m, others \cup {c})
    <2>1. O \cup {c} \in SUBSET JobT
        BY <1>9, <1>10 DEF Stopping, Is
    <2>2. AbortEvent(c, m, O \cup {c})
        BY <1>8, <1>13
    <2>3. c \in JobT /\ c.kind = "abort"
        BY <1>10 DEF Is
    <2>4. /\ active' \in {active, None} /\ phase' \in Phases
          /\ \/ /\ m.preference = "unknown" /\ memory' = m
                 /\ \E d : /\ Is(d, "abort", "loading") /\ d.msg = active /\ d.reason = c.reason
                           /\ jobs' = (O \cup {c}) \cup {d}
             \/ /\ c.reason # "system" /\ Remarks(m, MarkOf(active))
                 /\ memory'.timer \in {m.timer, FALSE}
                 /\ \E d : IsWrite(d, "abort", "settling") /\ jobs' = (O \cup {c}) \cup {d}
             \/ /\ c.reason = "system" /\ jobs' = O \cup {c} /\ Keeps(m)
                 /\ memory'.timer \in {m.timer, FALSE}
        BY <1>10, <1>11, <2>1, <2>2, <2>3, AbortEventDoes
    <2>5. CASE /\ m.preference = "unknown" /\ memory' = m
               /\ \E d : /\ Is(d, "abort", "loading") /\ d.msg = active /\ d.reason = c.reason
                         /\ jobs' = (O \cup {c}) \cup {d}
        <3>1. PICK d : /\ Is(d, "abort", "loading") /\ d.msg = active /\ d.reason = "user"
                       /\ jobs' = (O \cup {c}) \cup {d}
            BY <1>10, <2>5
        <3> QED
            BY <1>4, <1>5, <1>9, <1>10, <1>11, <2>4, <2>5, <3>1
    <2>6. CASE /\ Remarks(m, MarkOf(active)) /\ memory'.timer \in {m.timer, FALSE}
               /\ \E d : IsWrite(d, "abort", "settling") /\ jobs' = (O \cup {c}) \cup {d}
        <3>1. PICK d : IsWrite(d, "abort", "settling") /\ jobs' = (O \cup {c}) \cup {d}
            BY <2>6
        <3> QED
            BY <1>4, <1>5, <1>9, <1>10, <1>11, <2>4, <2>6, <3>1 DEF Remarks
    <2> QED
        BY <1>10, <2>4, <2>5, <2>6
<1> QED
    BY <1>4, <1>12, <1>13

\* setAutoRetryEnabled, behind the preference
LEMMA ChosenDoes ==
    ASSUME MaxSent \in Nat, Typed, NEW on \in BOOLEAN, NEW m \in Memory,
           NEW others \in SUBSET JobT, Chosen(on, m, others)
    PROVE  /\ Opts(m, on) /\ memory'.timer = (m.timer /\ on)
           /\ optedOut' = ~on /\ owed' = (owed /\ on)
           /\ \E d : IsWrite(d, "choice", "settling") /\ jobs' = others \cup {d}
<1>1. PICK n : n = Preferring(SetEnabled(m, on), on)
    OBVIOUS
<1>2. PICK b : b = Job("choice", "settling")
    OBVIOUS
<1>3. Bare(b, "choice", "settling")
    BY <1>2, JobIs DEF Kinds, Ats
<1>4. PICK d : d = [b EXCEPT !.ok = on, !.file = Persisted(n)]
    OBVIOUS
<1>5. memory' = n /\ jobs' = others \cup {d} /\ optedOut' = ~on /\ owed' = (owed /\ on)
    BY <1>1, <1>2, <1>4, Zenon DEF Chosen
<1>6. /\ n \in Memory /\ n.preference = (IF on THEN "on" ELSE "off")
      /\ n.abandoned = m.abandoned /\ n.enabled = on /\ n.timer = (m.timer /\ on)
    BY <1>1, ChosenIs
<1>7. Persisted(n) \in File
    BY <1>6, PersistedIs
<1>8. IsWrite(d, "choice", "settling")
    <2>1. /\ d \in JobT /\ d.kind = "choice" /\ d.at = "settling" /\ d.file = Persisted(n)
          /\ d.pending = FALSE /\ d.aborted = FALSE
        BY <1>3, <1>4, <1>7 DEF JobT, Bare
    <2> QED
        BY <1>5, <2>1 DEF Is, IsWrite, Shape, Places
<1> QED
    BY <1>5, <1>6, <1>8 DEF Opts

LEMMA ChoiceLoadsDoes ==
    ASSUME MaxSent \in Nat, Typed, NEW j \in jobs, ChoiceLoads(j)
    PROVE  /\ j.kind = "choice" /\ j.at = "loaded" /\ j.ok \in BOOLEAN /\ j.file \in File
           /\ UNCHANGED <<file, last, answered, phase, active, stream, sent, userStopped, missedStop>>
           /\ memory' \in Memory /\ memory'.preference = (IF j.ok THEN "on" ELSE "off")
           /\ memory'.abandoned = j.file.abandoned /\ memory'.enabled = j.ok
           /\ memory'.timer = (memory.timer /\ j.file.enabled /\ j.ok)
           /\ optedOut' = ~j.ok /\ owed' = (owed /\ j.ok)
           /\ \E d : IsWrite(d, "choice", "settling") /\ jobs' = (jobs \ {j}) \cup {d}
<1>1. PICK m : m = Loaded(memory, j.file)
    OBVIOUS
<1>2. /\ j.kind = "choice" /\ j.at = "loaded" /\ Chosen(j.ok, m, jobs \ {j})
      /\ UNCHANGED <<file, last, answered, phase, active, stream, sent, userStopped, missedStop>>
    BY <1>1, Zenon DEF ChoiceLoads
<1>3. /\ memory \in Memory /\ j.file \in File /\ j.ok \in BOOLEAN /\ jobs \ {j} \in SUBSET JobT
    BY DEF Typed, JobT
<1>4. /\ m \in Memory /\ m.abandoned = j.file.abandoned /\ m.timer = (memory.timer /\ j.file.enabled)
    BY <1>1, <1>3, LoadedIs
<1>5. /\ Opts(m, j.ok) /\ memory'.timer = (m.timer /\ j.ok)
      /\ optedOut' = ~j.ok /\ owed' = (owed /\ j.ok)
      /\ \E d : IsWrite(d, "choice", "settling") /\ jobs' = (jobs \ {j}) \cup {d}
    BY <1>2, <1>3, <1>4, ChosenDoes
<1> QED
    BY <1>2, <1>3, <1>4, <1>5 DEF Opts

LEMMA ChooseDoes ==
    ASSUME MaxSent \in Nat, Typed, Choose
    PROVE  /\ UNCHANGED <<file, last, answered, phase, active, stream, sent, userStopped, missedStop>>
           /\ \/ /\ memory.preference = "unknown" /\ UNCHANGED <<memory, optedOut, owed>>
                 /\ \E d : Is(d, "choice", "loading") /\ jobs' = jobs \cup {d}
              \/ /\ memory.preference # "unknown"
                 /\ \E on \in BOOLEAN :
                    /\ Opts(memory, on) /\ memory'.timer = (memory.timer /\ on)
                    /\ optedOut' = ~on /\ owed' = (owed /\ on)
                 /\ \E d : IsWrite(d, "choice", "settling") /\ jobs' = jobs \cup {d}
<1>1. UNCHANGED <<file, last, answered, phase, active, stream, sent, userStopped, missedStop>>
    BY Zenon DEF Choose
<1>2. CASE memory.preference = "unknown"
    <2>1. PICK on \in BOOLEAN :
            /\ jobs' = jobs \cup {[Job("choice", "loading") EXCEPT !.ok = on]}
            /\ UNCHANGED <<memory, optedOut, owed>>
        BY <1>2, Zenon DEF Choose
    <2>2. PICK b : b = Job("choice", "loading")
        OBVIOUS
    <2>3. Bare(b, "choice", "loading")
        BY <2>2, JobIs DEF Kinds, Ats
    <2>4. PICK d : d = [b EXCEPT !.ok = on]
        OBVIOUS
    <2>5. d \in JobT /\ d.kind = "choice" /\ d.at = "loading" /\ d.pending = FALSE /\ d.aborted = FALSE
        BY <2>3, <2>4 DEF JobT, Bare
    <2>6. Is(d, "choice", "loading") /\ jobs' = jobs \cup {d}
        BY <2>1, <2>2, <2>4, <2>5 DEF Is, Shape, Places
    <2> QED
        BY <1>1, <1>2, <2>1, <2>6
<1>3. CASE memory.preference # "unknown"
    <2>1. PICK on \in BOOLEAN : Chosen(on, memory, jobs)
        BY <1>3, Zenon DEF Choose
    <2>2. memory \in Memory /\ jobs \in SUBSET JobT
        BY DEF Typed
    <2> QED
        BY <1>1, <1>3, <2>1, <2>2, ChosenDoes
<1> QED
    BY <1>2, <1>3

LEMMA SendDoes ==
    ASSUME MaxSent \in Nat, Typed, Send
    PROVE  /\ UNCHANGED <<file, last, answered, memory, phase, active, stream, ghosts>>
           /\ sent' \in Msgs
           /\ \E d : Is(d, "send", "accepting") /\ jobs' = jobs \cup {d}
<1>1. PICK b : b = Job("send", "accepting")
    OBVIOUS
<1>2. Bare(b, "send", "accepting")
    BY <1>1, JobIs DEF Kinds, Ats
<1>3. PICK d : d = [b EXCEPT !.msg = sent + 1]
    OBVIOUS
<1>4. sent \in 0..MaxSent
    BY DEF Typed, Msgs
<1>5. sent < MaxSent /\ sent' = sent + 1
    BY DEF Send
<1>6. sent + 1 \in Msgs
    BY <1>4, <1>5 DEF Msgs
<1>7. /\ jobs' = jobs \cup {d}
      /\ UNCHANGED <<file, last, answered, memory, phase, active, stream, ghosts>>
    BY <1>1, <1>3, Zenon DEF Send
<1>8. d \in JobT /\ d.kind = "send" /\ d.at = "accepting" /\ d.pending = FALSE /\ d.aborted = FALSE
    BY <1>2, <1>3, <1>6 DEF JobT, Bare
<1> QED
    BY <1>5, <1>6, <1>7, <1>8 DEF Is, Shape, Places

LEMMA ClearedDoes ==
    ASSUME MaxSent \in Nat, Typed, Shaped, NEW j \in jobs, Cleared(j)
    PROVE  /\ j.kind = "send" /\ j.at = "clearing" /\ file' = j.file
           /\ UNCHANGED <<last, answered, phase, active, stream, sent, userStopped, missedStop>>
           /\ Opts(memory, TRUE) /\ memory'.timer = FALSE /\ optedOut' = FALSE /\ owed' = FALSE
           /\ \E d : IsWrite(d, "send", "saving") /\ jobs' = (jobs \ {j}) \cup {d}
<1>1. /\ j.kind = "send" /\ j.at = "clearing" /\ file' = j.file /\ OptsBackIn(j, memory)
      /\ UNCHANGED <<last, answered, phase, active, stream, sent, userStopped, missedStop>>
    BY Zenon DEF Cleared
<1>2. j \in JobT /\ Shape(j) /\ memory \in Memory
    BY DEF Typed, Shaped
<1> QED
    BY <1>1, <1>2, OptsBackDoes

LEMMA PrepareDoes ==
    ASSUME MaxSent \in Nat, Typed, NEW j \in jobs, Prepare(j)
    PROVE  /\ j.kind = "send" /\ j.at = "saving" /\ file' = j.file
           /\ UNCHANGED <<last, answered, stream, sent, ghosts>>
           /\ Keeps(memory) /\ memory'.timer = memory.timer
           /\ phase' \in Phases /\ active' = None
           /\ \E d : Is(d, "send", "reading") /\ jobs' = (jobs \ {j}) \cup {d}
<1>1. PICK d : d = Job("send", "reading")
    OBVIOUS
<1>2. Is(d, "send", "reading")
    BY <1>1, JobIs, BareShape DEF Kinds, Ats, Places
<1>3. /\ j.kind = "send" /\ j.at = "saving" /\ file' = j.file
      /\ memory' = [memory EXCEPT !.resume = TRUE]
      /\ phase' = "PREPARING" /\ active' = None
      /\ jobs' = (jobs \ {j}) \cup {d}
      /\ UNCHANGED <<last, answered, stream, sent, ghosts>>
    BY <1>1, Zenon DEF Prepare, Becomes
<1>4. Keeps(memory) /\ memory'.timer = memory.timer
    BY <1>3 DEF Typed, Memory, Keeps
<1> QED
    BY <1>2, <1>3, <1>4 DEF Phases

LEMMA TimerFiresDoes ==
    ASSUME MaxSent \in Nat, Typed, TimerFires
    PROVE  /\ memory.timer = TRUE
           /\ UNCHANGED <<file, last, answered, stream, sent, ghosts>>
           /\ Keeps(memory) /\ phase' \in Phases
           /\ \/ /\ memory'.timer = FALSE /\ active' = None
                 /\ \E d : Is(d, "retry", "reading") /\ jobs' = jobs \cup {d}
              \/ /\ memory'.timer = (IF memory.enabled THEN TRUE ELSE FALSE)
                 /\ UNCHANGED <<active, jobs>>
<1>1. memory \in Memory /\ phase \in Phases
    BY DEF Typed
<1>2. PICK m : m = Cancel(memory)
    OBVIOUS
<1>3. /\ m \in Memory /\ m.preference = memory.preference /\ m.abandoned = memory.abandoned
      /\ m.enabled = memory.enabled /\ m.timer = FALSE
    BY <1>1, <1>2, CancelIs
<1>4. memory.timer = TRUE /\ UNCHANGED <<file, last, answered, stream, sent, ghosts>>
    <2>1. memory.timer /\ UNCHANGED <<file, last, answered, stream, sent, ghosts>>
        BY Zenon DEF TimerFires
    <2> QED
        BY <1>1, <2>1 DEF Memory
<1>5. CASE phase = "IDLE"
    <2>1. PICK d : d = Job("retry", "reading")
        OBVIOUS
    <2>2. Is(d, "retry", "reading")
        BY <2>1, JobIs, BareShape DEF Kinds, Ats, Places
    <2>3. memory' = m /\ phase' = "PREPARING" /\ active' = None /\ jobs' = jobs \cup {d}
        BY <1>2, <1>5, <2>1, Zenon DEF TimerFires
    <2> QED
        BY <1>3, <1>4, <2>2, <2>3 DEF Keeps, Phases
<1>6. CASE phase # "IDLE"
    <2>1. memory' = HandleStreamFailure(m, TRUE) /\ UNCHANGED <<phase, active, jobs>>
        BY <1>2, <1>6, Zenon DEF TimerFires
    <2>2. /\ memory' \in Memory /\ memory'.preference = m.preference
          /\ memory'.abandoned = m.abandoned /\ memory'.enabled = m.enabled
          /\ memory'.timer = Failed(m, TRUE)
        BY <1>3, <2>1, FailureIs
    <2>3. memory'.timer = (IF memory.enabled THEN TRUE ELSE FALSE)
        BY <1>3, <2>2 DEF Failed
    <2> QED
        BY <1>1, <1>3, <1>4, <2>1, <2>2, <2>3 DEF Keeps
<1> QED
    BY <1>5, <1>6

LEMMA StreamStartsDoes ==
    ASSUME MaxSent \in Nat, Typed, Shaped, NEW j \in jobs, StreamStarts(j)
    PROVE  /\ j.at = "starting" /\ j.aborted = FALSE /\ stream' = TRUE /\ phase' \in Phases
           /\ UNCHANGED <<file, last, answered, active, sent, ghosts>>
           /\ \/ /\ j.kind = "retry" /\ Remarks(memory, None) /\ memory'.timer = memory.timer
                 /\ \E d : IsWrite(d, "retry", "settling") /\ jobs' = (jobs \ {j}) \cup {d}
              \/ memory' = memory /\ jobs' = jobs \ {j}
<1>1. /\ j.at = "starting" /\ ~j.aborted /\ stream' = TRUE /\ phase' = "STREAMING" /\ RetryStarted(j)
      /\ UNCHANGED <<file, last, answered, active, sent, ghosts>>
    BY Zenon DEF StreamStarts
<1>2. j.aborted = FALSE
    BY <1>1 DEF Typed, JobT
<1> QED
    BY <1>1, <1>2, RetryStartedDoes DEF Phases

LEMMA StartReturnsDoes ==
    ASSUME MaxSent \in Nat, Typed, Shaped, NEW j \in jobs, StartReturns(j)
    PROVE  /\ j.at = "starting" /\ j.aborted = TRUE /\ phase' \in Phases
           /\ UNCHANGED <<file, last, answered, active, stream, sent, ghosts>>
           /\ \/ /\ j.kind = "retry" /\ Remarks(memory, None) /\ memory'.timer = memory.timer
                 /\ \E d : IsWrite(d, "retry", "settling") /\ jobs' = (jobs \ {j}) \cup {d}
              \/ memory' = memory /\ jobs' = jobs \ {j}
<1>1. /\ j.at = "starting" /\ j.aborted /\ LeavePreparing /\ RetryStarted(j)
      /\ UNCHANGED <<file, last, answered, active, stream, sent, ghosts>>
    BY Zenon DEF StartReturns
<1>2. j.aborted = TRUE
    BY <1>1 DEF Typed, JobT
<1>3. phase' \in Phases
    BY <1>1 DEF LeavePreparing, Typed, Phases
<1> QED
    BY <1>1, <1>2, <1>3, RetryStartedDoes

LEMMA CancelsOtherDoes ==
    ASSUME MaxSent \in Nat, Typed, NEW j \in jobs, CancelsOther(j)
    PROVE  /\ j.at = "starting" /\ j.aborted = FALSE /\ stream = TRUE /\ stream' = FALSE
           /\ UNCHANGED <<file, last, answered, memory, phase, active, sent, ghosts>>
           /\ \E d : Is(d, "abort", "forwarding") /\ d.reason = "system" /\ jobs' = jobs \cup {d}
<1>1. PICK b : b = Job("abort", "forwarding")
    OBVIOUS
<1>2. Bare(b, "abort", "forwarding")
    BY <1>1, JobIs DEF Kinds, Ats
<1>3. PICK d : d = [b EXCEPT !.reason = "system"]
    OBVIOUS
<1>4. /\ j.at = "starting" /\ ~j.aborted /\ stream /\ stream' = FALSE
      /\ UNCHANGED <<file, last, answered, memory, phase, active, sent, ghosts>>
      /\ jobs' = jobs \cup {d}
    BY <1>1, <1>3, Zenon DEF CancelsOther
<1>5. j.aborted = FALSE /\ stream = TRUE
    BY <1>4 DEF Typed, JobT
<1>6. Is(d, "abort", "forwarding") /\ d.reason = "system"
    BY <1>2, <1>3 DEF JobT, Bare, Is, Shape, Places
<1> QED
    BY <1>4, <1>5, <1>6

LEMMA StartFailsDoes ==
    ASSUME NEW j \in jobs, Typed, StartFails(j)
    PROVE  /\ j.at = "starting" /\ j.aborted = FALSE /\ stream' = stream
           /\ \E quiet \in BOOLEAN : Fails(jobs \ {j}, quiet)
<1>1. j.at = "starting" /\ ~j.aborted /\ stream' = stream
    BY Zenon DEF StartFails
<1>2. PICK quiet \in BOOLEAN : Fails(jobs \ {j}, quiet)
    BY Zenon DEF StartFails
<1>3. j.aborted = FALSE
    BY <1>1 DEF Typed, JobT
<1> QED
    BY <1>1, <1>2, <1>3

LEMMA StreamFailsDoes ==
    ASSUME Typed, StreamFails
    PROVE  stream = TRUE /\ stream' = FALSE /\ Fails(jobs, FALSE)
<1>1. stream /\ stream' = FALSE /\ Fails(jobs, FALSE)
    BY Zenon DEF StreamFails
<1> QED
    BY <1>1 DEF Typed

LEMMA SettlesDoes ==
    ASSUME MaxSent \in Nat, Typed, NEW j \in jobs, Settles(j)
    PROVE  /\ j.at = "settling" /\ file' = j.file /\ phase' \in Phases
           /\ UNCHANGED <<last, answered, memory, active, stream, sent, ghosts>>
           /\ \/ \E d : Is(d, "end", "completing") /\ jobs' = (jobs \ {j}) \cup {d}
              \/ jobs' = jobs \ {j}
<1>1. /\ j.at = "settling" /\ file' = j.file
      /\ phase' = IF j.kind \in {"error", "abort"} THEN PhaseAfter(j) ELSE phase
      /\ UNCHANGED <<last, answered, memory, active, stream, sent, ghosts>>
    BY Zenon DEF Settles
<1>2. phase' \in Phases
    BY <1>1 DEF PhaseAfter, Typed, Phases
<1>3. PICK d : d = Job("end", "completing")
    OBVIOUS
<1>4. Is(d, "end", "completing")
    BY <1>3, JobIs, BareShape DEF Kinds, Ats, Places
<1>5. jobs' = (jobs \ {j}) \cup {d} \/ jobs' = jobs \ {j}
    BY <1>3, Zenon DEF Settles, Becomes, Finishes
<1> QED
    BY <1>1, <1>2, <1>4, <1>5

LEMMA AbortArrivesDoes ==
    ASSUME MaxSent \in Nat, Typed, Shaped, NEW j \in jobs, AbortArrives(j)
    PROVE  /\ j.kind = "abort" /\ j.at = "forwarding"
           /\ UNCHANGED <<file, last, answered, stream, sent, ghosts>>
           /\ active' \in {active, None} /\ phase' \in Phases
           /\ memory'.timer \in {memory.timer, FALSE}
           /\ \/ /\ memory.preference = "unknown" /\ memory' = memory
                 /\ \E d : /\ Is(d, "abort", "loading") /\ d.msg = active /\ d.reason = j.reason
                           /\ jobs' = (jobs \ {j}) \cup {d}
              \/ /\ j.reason # "system" /\ Remarks(memory, MarkOf(active))
                 /\ \E d : IsWrite(d, "abort", "settling") /\ jobs' = (jobs \ {j}) \cup {d}
              \/ /\ j.reason = "system" /\ jobs' = jobs \ {j} /\ Keeps(memory)
<1>1. /\ j.kind = "abort" /\ j.at = "forwarding" /\ AbortEvent(j, memory, jobs \ {j})
      /\ UNCHANGED <<file, last, answered, stream, sent, ghosts>>
    BY Zenon DEF AbortArrives
<1>2. j \in JobT /\ Shape(j) /\ memory \in Memory /\ jobs \ {j} \in SUBSET JobT
    BY DEF Typed, Shaped
<1>3. j.ok = FALSE /\ j.pending = FALSE /\ j.aborted = FALSE
    BY <1>1, <1>2 DEF Shape
<1>4. /\ active' \in {active, None} /\ phase' \in Phases
           /\ \/ /\ memory.preference = "unknown" /\ memory' = memory
                 /\ \E d : /\ Is(d, "abort", "loading") /\ d.msg = active /\ d.reason = j.reason
                           /\ jobs' = (jobs \ {j}) \cup {d}
              \/ /\ j.reason # "system" /\ Remarks(memory, MarkOf(active))
                 /\ memory'.timer \in {memory.timer, FALSE}
                 /\ \E d : IsWrite(d, "abort", "settling") /\ jobs' = (jobs \ {j}) \cup {d}
              \/ /\ j.reason = "system" /\ jobs' = jobs \ {j} /\ Keeps(memory)
                 /\ memory'.timer \in {memory.timer, FALSE}
    BY <1>1, <1>2, <1>3, AbortEventDoes
<1>5. memory'.timer \in {memory.timer, FALSE}
    BY <1>4
<1> QED
    BY <1>1, <1>4, <1>5

LEMMA StreamEndsDoes ==
    ASSUME MaxSent \in Nat, Typed, StreamEnds
    PROVE  /\ stream = TRUE /\ stream' = FALSE /\ answered' = TRUE /\ phase' \in Phases /\ owed' = FALSE
           /\ UNCHANGED <<file, last, active, sent, userStopped, missedStop, optedOut>>
           /\ Remarks(memory, None) /\ memory'.timer = FALSE
           /\ \/ \E d : IsWrite(d, "end", "settling") /\ jobs' = jobs \cup {d}
              \/ memory.abandoned = None /\ \E d : Is(d, "end", "completing") /\ jobs' = jobs \cup {d}
<1>1. /\ stream /\ stream' = FALSE /\ answered' = TRUE /\ phase' = "COMPLETING" /\ owed' = FALSE
      /\ UNCHANGED <<file, last, active, sent, userStopped, missedStop, optedOut>>
      /\ memory' = Unabandon(Cancel(memory))
    BY Zenon DEF StreamEnds
<1>2. memory \in Memory /\ None \in Msgs /\ stream = TRUE
    BY <1>1 DEF Typed, None, Msgs
<1>3. PICK m : m = Cancel(memory)
    OBVIOUS
<1>4. /\ m \in Memory /\ m.preference = memory.preference
      /\ m.enabled = memory.enabled /\ m.timer = FALSE
    BY <1>2, <1>3, CancelIs
<1>5. Remarks(memory, None) /\ memory'.timer = FALSE
    BY <1>1, <1>2, <1>3, <1>4, MarkIs DEF Remarks
<1>6. CASE memory.abandoned # None
    <2>1. PICK b : b = Job("end", "settling")
        OBVIOUS
    <2>2. Bare(b, "end", "settling")
        BY <2>1, JobIs DEF Kinds, Ats
    <2>3. PICK d : d = [b EXCEPT !.file = Persisted(memory')]
        OBVIOUS
    <2>4. Persisted(memory') \in File
        BY <1>5, PersistedIs DEF Remarks
    <2>5. IsWrite(d, "end", "settling")
        BY <2>2, <2>3, <2>4 DEF JobT, Bare, Is, IsWrite, Shape, Places
    <2>6. jobs' = jobs \cup {d}
        BY <1>6, <2>1, <2>3, Zenon DEF StreamEnds
    <2> QED
        BY <1>1, <1>2, <1>5, <2>5, <2>6 DEF Phases
<1>7. CASE memory.abandoned = None
    <2>1. PICK d : d = Job("end", "completing")
        OBVIOUS
    <2>2. Is(d, "end", "completing")
        BY <2>1, JobIs, BareShape DEF Kinds, Ats, Places
    <2>3. jobs' = jobs \cup {d}
        BY <1>7, <2>1, Zenon DEF StreamEnds
    <2> QED
        BY <1>1, <1>2, <1>5, <1>7, <2>2, <2>3 DEF Phases
<1> QED
    BY <1>6, <1>7

LEMMA ReadFileDoes ==
    ASSUME MaxSent \in Nat, Typed, Shaped, NEW j \in jobs, ReadFile(j)
    PROVE  /\ j.at = "loading"
           /\ UNCHANGED <<file, last, answered, memory, phase, active, stream, sent, ghosts>>
           /\ \E d : /\ Is(d, j.kind, "loaded") /\ d.file = file /\ d.ok = j.ok /\ d.msg = j.msg
                     /\ d.reason = j.reason /\ jobs' = (jobs \ {j}) \cup {d}
<1>1. PICK d : d = [j EXCEPT !.at = "loaded", !.file = file]
    OBVIOUS
<1>2. /\ j.at = "loading" /\ jobs' = (jobs \ {j}) \cup {d}
      /\ UNCHANGED <<file, last, answered, memory, phase, active, stream, sent, ghosts>>
    BY <1>1, Zenon DEF ReadFile, Becomes
<1>3. j \in JobT /\ Shape(j) /\ file \in File
    BY DEF Typed, Shaped
<1>4. /\ d \in JobT /\ d.kind = j.kind /\ d.at = "loaded" /\ d.file = file /\ d.ok = j.ok
      /\ d.msg = j.msg /\ d.reason = j.reason /\ d.pending = j.pending /\ d.aborted = j.aborted
    BY <1>1, <1>3 DEF JobT, Ats
<1>5. j.kind \in {"error", "abort", "choice", "startup"}
    BY <1>2, <1>3 DEF Shape, Places, JobT, Kinds
<1>6. Is(d, j.kind, "loaded")
    BY <1>2, <1>3, <1>4, <1>5 DEF Is, Shape, Places
<1> QED
    BY <1>2, <1>4, <1>6

LEMMA RecoveryLoadsDoes ==
    ASSUME MaxSent \in Nat, Typed, NEW j \in jobs, RecoveryLoads(j)
    PROVE  /\ j.kind = "startup" /\ j.at = "loaded" /\ j.file \in File
           /\ UNCHANGED <<file, last, answered, phase, active, stream, sent, ghosts>>
           /\ memory' \in Memory /\ memory'.preference = (IF j.file.enabled THEN "on" ELSE "off")
           /\ memory'.abandoned = j.file.abandoned /\ memory'.enabled = j.file.enabled
           /\ memory'.timer = (memory.timer /\ j.file.enabled)
           /\ \/ \E d : Is(d, "startup", "history") /\ jobs' = (jobs \ {j}) \cup {d}
              \/ jobs' = jobs \ {j}
<1>1. /\ j.kind = "startup" /\ j.at = "loaded" /\ memory' = Loaded(memory, j.file)
      /\ UNCHANGED <<file, last, answered, phase, active, stream, sent, ghosts>>
    BY Zenon DEF RecoveryLoads
<1>2. j.file \in File /\ memory \in Memory
    BY DEF Typed, JobT
<1>3. /\ memory' \in Memory /\ memory'.preference = (IF j.file.enabled THEN "on" ELSE "off")
      /\ memory'.abandoned = j.file.abandoned /\ memory'.enabled = j.file.enabled
      /\ memory'.timer = (memory.timer /\ j.file.enabled)
    BY <1>1, <1>2, LoadedIs
<1>4. PICK d : d = Job("startup", "history")
    OBVIOUS
<1>5. Is(d, "startup", "history")
    BY <1>4, JobIs, BareShape DEF Kinds, Ats, Places
<1>6. jobs' = (jobs \ {j}) \cup {d} \/ jobs' = jobs \ {j}
    BY <1>4, Zenon DEF RecoveryLoads, Becomes, Finishes
<1> QED
    BY <1>1, <1>2, <1>3, <1>5, <1>6

LEMMA RecoveryReadsDoes ==
    ASSUME MaxSent \in Nat, Typed, Shaped, NEW j \in jobs, RecoveryReads(j)
    PROVE  /\ j.kind = "startup" /\ j.at = "history"
           /\ UNCHANGED <<file, last, answered, memory, phase, active, stream, sent, ghosts>>
           /\ \E d : /\ Is(d, "startup", "decide") /\ d.msg = last
                     /\ answered = TRUE => d.ok = FALSE
                     /\ jobs' = (jobs \ {j}) \cup {d}
<1>1. PICK d : d = [j EXCEPT !.at = "decide", !.msg = last, !.ok = ~answered]
    OBVIOUS
<1>2. /\ j.kind = "startup" /\ j.at = "history" /\ jobs' = (jobs \ {j}) \cup {d}
      /\ UNCHANGED <<file, last, answered, memory, phase, active, stream, sent, ghosts>>
    BY <1>1, Zenon DEF RecoveryReads, Becomes
<1>3. j \in JobT /\ Shape(j) /\ last \in Msgs /\ answered \in BOOLEAN
    BY DEF Typed, Shaped
<1>4. PICK u \in BOOLEAN : u = ~answered
    BY <1>3
<1>5. d = [j EXCEPT !.at = "decide", !.msg = last, !.ok = u]
    BY <1>1, <1>4
<1>6. /\ d \in JobT /\ d.kind = "startup" /\ d.at = "decide" /\ d.msg = last /\ d.ok = u
      /\ d.pending = FALSE /\ d.aborted = FALSE
    BY <1>2, <1>3, <1>5 DEF JobT, Ats, Shape
<1>7. Is(d, "startup", "decide")
    BY <1>6 DEF Is, Shape, Places
<1>8. answered = TRUE => d.ok = FALSE
    BY <1>4, <1>6
<1> QED
    BY <1>2, <1>6, <1>7, <1>8

\* a recovery that goes on, and one that schedules a retry
Scheduling(j) ==
    /\ Keeps(memory) /\ jobs' = jobs \ {j}
    /\ memory'.timer = memory.timer \/ (memory.enabled = TRUE /\ memory'.timer = TRUE)

LEMMA RecoversDoes ==
    ASSUME Typed, NEW j \in jobs, NEW m \in Memory, m.preference = memory.preference,
           m.abandoned = memory.abandoned, m.enabled = memory.enabled, m.timer = memory.timer,
           Recovers(j, m)
    PROVE  Scheduling(j)
<1>1. jobs' = jobs \ {j} /\ (memory' = m \/ memory' = HandleStreamFailure(m, TRUE))
    BY Zenon DEF Recovers, Finishes
<1>2. CASE memory' = m
    BY <1>1, <1>2 DEF Scheduling, Keeps
<1>3. CASE memory' = HandleStreamFailure(m, TRUE)
    <2>1. /\ memory' \in Memory /\ memory'.preference = m.preference
          /\ memory'.abandoned = m.abandoned /\ memory'.enabled = m.enabled
          /\ memory'.timer = Failed(m, TRUE)
        BY <1>3, FailureIs
    <2>2. memory'.timer = memory.timer \/ (memory.enabled = TRUE /\ memory'.timer = TRUE)
        BY <2>1 DEF Failed, Memory
    <2> QED
        BY <1>1, <2>1, <2>2 DEF Scheduling, Keeps
<1> QED
    BY <1>1, <1>2, <1>3

LEMMA RecoveryDecidesDoes ==
    ASSUME MaxSent \in Nat, Typed, Shaped, NEW j \in jobs, RecoveryDecides(j)
    PROVE  /\ j.kind = "startup" /\ j.at = "decide"
           /\ UNCHANGED <<file, last, answered, phase, active, stream, sent, ghosts>>
           /\ \/ memory' = memory /\ jobs' = jobs \ {j}
              \/ /\ j.ok = TRUE /\ memory.abandoned \notin {Any, j.msg}
                 /\ \/ Scheduling(j)
                    \/ /\ memory' = memory
                       /\ \E d : Is(d, "startup", "deriving") /\ jobs' = (jobs \ {j}) \cup {d}
<1>1. /\ j.kind = "startup" /\ j.at = "decide"
      /\ UNCHANGED <<file, last, answered, phase, active, stream, sent, ghosts>>
    BY Zenon DEF RecoveryDecides
<1>2. CASE ~j.ok \/ memory.abandoned \in {Any, j.msg}
    <2>1. memory' = memory /\ jobs' = jobs \ {j}
        BY <1>2, Zenon DEF RecoveryDecides, Finishes
    <2> QED
        BY <1>1, <2>1
<1>3. CASE ~(~j.ok \/ memory.abandoned \in {Any, j.msg})
    <2>1. j \in JobT /\ Shape(j) /\ memory \in Memory
        BY DEF Typed, Shaped
    <2>2. j.ok = TRUE /\ memory.abandoned \notin {Any, j.msg}
        BY <1>3, <2>1 DEF JobT
    <2>3. PICK d : d = [j EXCEPT !.at = "deriving"]
        OBVIOUS
    <2>4. Recovers(j, memory) \/ (memory' = memory /\ jobs' = (jobs \ {j}) \cup {d})
        BY <1>3, <2>3, Zenon DEF RecoveryDecides, Becomes
    <2>5. d \in JobT /\ d.kind = "startup" /\ d.at = "deriving" /\ d.pending = FALSE /\ d.aborted = FALSE
        BY <1>1, <2>1, <2>3 DEF JobT, Ats, Shape
    <2>6. Is(d, "startup", "deriving")
        BY <2>5 DEF Is, Shape, Places
    <2>7. Recovers(j, memory) => Scheduling(j)
        BY <2>1, RecoversDoes
    <2> QED
        BY <1>1, <2>2, <2>4, <2>6, <2>7
<1> QED
    BY <1>2, <1>3

LEMMA RecoveryDerivesDoes ==
    ASSUME Typed, NEW j \in jobs, RecoveryDerives(j)
    PROVE  /\ j.kind = "startup" /\ j.at = "deriving" /\ Scheduling(j)
           /\ UNCHANGED <<file, last, answered, phase, active, stream, sent, ghosts>>
<1>1. PICK m : m = [memory EXCEPT !.resume = TRUE]
    OBVIOUS
<1>2. /\ j.kind = "startup" /\ j.at = "deriving" /\ Recovers(j, m)
      /\ UNCHANGED <<file, last, answered, phase, active, stream, sent, ghosts>>
    BY <1>1, Zenon DEF RecoveryDerives
<1>3. /\ m \in Memory /\ m.preference = memory.preference /\ m.abandoned = memory.abandoned
      /\ m.enabled = memory.enabled /\ m.timer = memory.timer
    BY <1>1 DEF Typed, Memory
<1> QED
    BY <1>2, <1>3, RecoversDoes

LEMMA ResumeDoes ==
    ASSUME MaxSent \in Nat, Typed, Resume
    PROVE  /\ UNCHANGED <<file, last, answered, stream, sent, optedOut, owed>>
           /\ userStopped' = FALSE /\ missedStop' = FALSE
           /\ Keeps(memory) /\ memory'.timer = memory.timer
           /\ phase' \in Phases /\ active' = None
           /\ \E d : Is(d, "resume", "reading") /\ jobs' = jobs \cup {d}
<1>1. PICK d : d = Job("resume", "reading")
    OBVIOUS
<1>2. Is(d, "resume", "reading")
    BY <1>1, JobIs, BareShape DEF Kinds, Ats, Places
<1>3. /\ memory' = [memory EXCEPT !.resume = TRUE]
      /\ phase' = "PREPARING" /\ active' = None /\ jobs' = jobs \cup {d}
      /\ userStopped' = FALSE /\ missedStop' = FALSE
      /\ UNCHANGED <<file, last, answered, stream, sent, optedOut, owed>>
    BY <1>1, Zenon DEF Resume
<1>4. Keeps(memory) /\ memory'.timer = memory.timer
    BY <1>3 DEF Typed, Memory, Keeps
<1> QED
    BY <1>2, <1>3, <1>4 DEF Phases

LEMMA RecoverDoes ==
    ASSUME MaxSent \in Nat, Typed, Recover
    PROVE  /\ UNCHANGED <<file, last, answered, memory, phase, active, stream, sent, userStopped,
                          optedOut, owed>>
           /\ missedStop' \in BOOLEAN
           /\ missedStop' = FALSE => missedStop = FALSE /\ \A j \in jobs : j.kind # "abort"
           /\ \/ jobs' = jobs
              \/ /\ memory.preference = "on"
                 /\ \E d : Is(d, "startup", "history") /\ jobs' = jobs \cup {d}
              \/ /\ memory.preference = "unknown"
                 /\ \E d : Is(d, "startup", "loading") /\ jobs' = jobs \cup {d}
<1>1. /\ UNCHANGED <<file, last, answered, memory, phase, active, stream, sent, userStopped,
                     optedOut, owed>>
      /\ missedStop' = (missedStop \/ \E j \in jobs : j.kind = "abort")
    BY Zenon DEF Recover
<1>2. missedStop' \in BOOLEAN /\ (missedStop' = FALSE => missedStop = FALSE /\ \A j \in jobs : j.kind # "abort")
    BY <1>1 DEF Typed
<1>3. CASE jobs' = jobs
    BY <1>1, <1>2, <1>3
<1>4. CASE memory.preference = "on" /\ jobs' = jobs \cup {Job("startup", "history")}
    <2>1. PICK d : d = Job("startup", "history")
        OBVIOUS
    <2>2. Is(d, "startup", "history")
        BY <2>1, JobIs, BareShape DEF Kinds, Ats, Places
    <2> QED
        BY <1>1, <1>2, <1>4, <2>1, <2>2
<1>5. CASE memory.preference = "unknown" /\ jobs' = jobs \cup {Job("startup", "loading")}
    <2>1. PICK d : d = Job("startup", "loading")
        OBVIOUS
    <2>2. Is(d, "startup", "loading")
        BY <2>1, JobIs, BareShape DEF Kinds, Ats, Places
    <2> QED
        BY <1>1, <1>2, <1>5, <2>1, <2>2
<1>6. memory.preference \in {"unknown", "on", "off"}
    BY DEF Typed, Memory
<1>7. CASE Busy \/ memory.preference = "off"
    BY <1>3, <1>7, Zenon DEF Recover
<1>8. CASE ~(Busy \/ memory.preference = "off")
    <2>1. jobs' = jobs \cup {Job("startup", IF memory.preference = "on" THEN "history" ELSE "loading")}
        BY <1>8, Zenon DEF Recover
    <2> QED
        BY <1>4, <1>5, <1>6, <1>8, <2>1
<1> QED
    BY <1>7, <1>8

LEMMA RestartDoes ==
    ASSUME MaxSent \in Nat, Typed, Restart
    PROVE  /\ UNCHANGED <<file, last, answered, sent, userStopped, optedOut>>
           /\ memory' \in Memory /\ memory'.preference = "unknown" /\ memory'.timer = FALSE
           /\ phase' \in Phases /\ active' = None /\ stream' = FALSE /\ jobs' = {} /\ owed' = FALSE
           /\ missedStop' \in BOOLEAN /\ raced' \in BOOLEAN
           /\ missedStop' = FALSE => missedStop = FALSE /\ jobs = {} /\ stream = FALSE
           /\ raced' = FALSE => raced = FALSE /\ \A j \in jobs : ~UsesFile(j)
<1>1. /\ UNCHANGED <<file, last, answered, sent, userStopped, optedOut>>
      /\ memory' = Fresh /\ phase' = "IDLE" /\ active' = None /\ stream' = FALSE
      /\ jobs' = {} /\ owed' = FALSE
      /\ missedStop' = (missedStop \/ jobs # {} \/ stream)
      /\ raced' = (raced \/ \E j \in jobs : UsesFile(j))
    BY Zenon DEF Restart
<1>2. Fresh \in Memory /\ Fresh.preference = "unknown" /\ Fresh.timer = FALSE
    BY DEF Fresh, Memory, None, Any
<1>3. missedStop' \in BOOLEAN /\ (missedStop' = FALSE => missedStop = FALSE /\ jobs = {} /\ stream = FALSE)
    BY <1>1 DEF Typed
<1>4. raced' \in BOOLEAN /\ (raced' = FALSE => raced = FALSE /\ \A j \in jobs : ~UsesFile(j))
    BY <1>1 DEF Typed
<1> QED
    BY <1>1, <1>2, <1>3, <1>4 DEF Phases

-----------------------------------------------------------------------------
(* The types and shapes are kept.                                          *)
Scalars ==
    /\ file \in File /\ last \in Msgs /\ answered \in BOOLEAN /\ memory \in Memory
    /\ phase \in Phases /\ active \in Msgs /\ stream \in BOOLEAN /\ sent \in Msgs
    /\ userStopped \in BOOLEAN /\ missedStop \in BOOLEAN /\ optedOut \in BOOLEAN
    /\ owed \in BOOLEAN
Calls == jobs \subseteq JobT /\ IsFiniteSet(jobs) /\ Shaped

LEMMA OneMore ==
    ASSUME Typed, Shaped, NEW S \in SUBSET jobs,
           jobs' = S \/ \E d : d \in JobT /\ Shape(d) /\ jobs' = S \cup {d}
    PROVE  Calls'
<1>1. S \subseteq JobT /\ IsFiniteSet(S) /\ \A k \in S : Shape(k)
    <2>1. S \subseteq jobs /\ jobs \subseteq JobT /\ IsFiniteSet(jobs)
        BY DEF Typed
    <2> QED
        BY <2>1, FS_Subset DEF Shaped
<1>2. CASE jobs' = S
    <2>1. \A k \in jobs' : Shape(k)
        BY <1>1, <1>2
    <2> QED
        BY <1>1, <1>2, <2>1 DEF Calls, Shaped, Shape
<1>3. CASE \E d : d \in JobT /\ Shape(d) /\ jobs' = S \cup {d}
    <2>1. PICK d : d \in JobT /\ Shape(d) /\ jobs' = S \cup {d}
        BY <1>3
    <2>2. IsFiniteSet(jobs')
        BY <1>1, <2>1, FS_AddElement
    <2>3. \A k \in jobs' : Shape(k)
        BY <1>1, <2>1
    <2>4. jobs' \subseteq JobT
        BY <1>1, <2>1
    <2> QED
        BY <2>2, <2>3, <2>4 DEF Calls, Shaped, Shape
<1> QED
    BY <1>2, <1>3

LEMMA RacesIs ==
    ASSUME Typed, Races
    PROVE  /\ raced' \in BOOLEAN
           /\ raced' = FALSE =>
                /\ raced = FALSE
                /\ ~(Cardinality({j \in jobs' : UsesFile(j)}) > 1)
                /\ ~(memory'.preference = "unknown" /\ \E j \in jobs' : j.at \in {"clearing", "settling"})
<1>1. raced' = (\/ raced
                \/ Cardinality({j \in jobs' : UsesFile(j)}) > 1
                \/ memory'.preference = "unknown" /\ \E j \in jobs' : j.at \in {"clearing", "settling"})
    BY DEF Races
<1>2. raced \in BOOLEAN
    BY DEF Typed
<1> DEFINE A == Cardinality({j \in jobs' : UsesFile(j)}) > 1
           B == memory'.preference = "unknown" /\ \E j \in jobs' : j.at \in {"clearing", "settling"}
<1>3. raced' = (raced \/ A \/ B)
    BY <1>1
<1> HIDE DEF A, B
<1>4. raced' \in BOOLEAN
    BY <1>3, Zenon
<1>5. ASSUME raced' = FALSE PROVE raced = FALSE /\ ~A /\ ~B
    BY <1>2, <1>3, <1>5, Zenon
<1> QED
    BY <1>4, <1>5 DEF A, B

\* the cases of a step
LEMMA Steps ==
    ASSUME Next
    PROVE  \/ Restart
           \/ /\ Races
              /\ \/ \E j \in jobs :
                     \/ Accepted(j) \/ Cleared(j) \/ Prepare(j)
                     \/ ReadFails(j) \/ StreamMessage(j) \/ StreamStarts(j) \/ CancelsOther(j)
                     \/ StartReturns(j) \/ StartFails(j) \/ HandlerLoads(j) \/ Settles(j)
                     \/ AbortArrives(j) \/ Completed(j) \/ ChoiceLoads(j) \/ ReadFile(j)
                     \/ RecoveryLoads(j) \/ RecoveryReads(j) \/ RecoveryDecides(j)
                     \/ RecoveryDerives(j)
                 \/ Send \/ TimerFires \/ StreamFails \/ StreamEnds
                 \/ Stop \/ Resume \/ Choose \/ Recover
BY Zenon DEF Next, JobStep

LEMMA CompletedDoes ==
    ASSUME MaxSent \in Nat, Typed, NEW j \in jobs, Completed(j)
    PROVE  /\ j.kind = "end" /\ j.at = "completing" /\ jobs' = jobs \ {j}
           /\ UNCHANGED <<file, last, answered, memory, stream, sent, ghosts>>
           /\ active' = None /\ phase' \in Phases
<1>1. /\ j.kind = "end" /\ j.at = "completing" /\ jobs' = jobs \ {j}
      /\ UNCHANGED <<file, last, answered, memory, stream, sent, ghosts>>
      /\ active' = None /\ phase' = IF phase = "COMPLETING" THEN "IDLE" ELSE phase
    BY Zenon DEF Completed, Finishes
<1> QED
    BY <1>1 DEF Typed, Phases

LEMMA TypedStep ==
    ASSUME MaxSent \in Nat, Typed, Shaped, Next
    PROVE  Typed' /\ Shaped'
<1> USE DEF ghosts
<1>0. /\ Scalars /\ Calls /\ None \in Msgs /\ \A j \in jobs : j \in JobT /\ j.file \in File
      /\ \A j \in jobs : jobs \ {j} \in SUBSET jobs
    BY DEF Typed, Scalars, Calls, None, Msgs, JobT
<1>1. ASSUME NEW j \in jobs, Accepted(j)
      PROVE  Scalars' /\ Calls'
    BY <1>0, <1>1, AcceptedDoes, OneMore DEF Scalars, Opts, Remarks, Is, IsWrite
<1>2. ASSUME NEW j \in jobs, Cleared(j)
      PROVE  Scalars' /\ Calls'
    BY <1>0, <1>2, ClearedDoes, OneMore DEF Scalars, Opts, Is, IsWrite
<1>3. ASSUME NEW j \in jobs, Prepare(j)
      PROVE  Scalars' /\ Calls'
    BY <1>0, <1>3, PrepareDoes, OneMore DEF Scalars, Keeps, Is
<1>4. ASSUME NEW j \in jobs, ReadFails(j)
      PROVE  Scalars' /\ Calls'
    BY <1>0, <1>4, ReadFailsDoes, OneMore DEF Scalars, Remarks, Is, IsWrite
<1>5. ASSUME NEW j \in jobs, StreamMessage(j)
      PROVE  Scalars' /\ Calls'
    <2>1. Scalars' /\ IsFiniteSet(jobs')
        BY <1>0, <1>5, StreamMessageDoes DEF Scalars
    <2>2. \A d \in jobs' : \/ Is(d, j.kind, "starting") /\ d.aborted = FALSE
                           \/ \E k \in jobs \ {j} : Same(d, k) /\ d.aborted = k.aborted
        BY <1>5, StreamMessageDoes
    <2>3. \A d \in jobs' : d \in JobT /\ Shape(d)
        BY <1>0, <2>2 DEF Is, Same, Calls, Shaped, Shape
    <2>4. jobs' \subseteq JobT /\ Shaped'
        BY <2>3 DEF Shaped, Shape
    <2> QED
        BY <2>1, <2>4 DEF Calls
<1>6. ASSUME NEW j \in jobs, StreamStarts(j)
      PROVE  Scalars' /\ Calls'
    BY <1>0, <1>6, StreamStartsDoes, OneMore DEF Scalars, Remarks, Is, IsWrite
<1>7. ASSUME NEW j \in jobs, CancelsOther(j)
      PROVE  Scalars' /\ Calls'
    BY <1>0, <1>7, CancelsOtherDoes, OneMore DEF Scalars, Is
<1>8. ASSUME NEW j \in jobs, StartReturns(j)
      PROVE  Scalars' /\ Calls'
    BY <1>0, <1>8, StartReturnsDoes, OneMore DEF Scalars, Remarks, Is, IsWrite
<1>9. ASSUME NEW S \in SUBSET jobs, NEW quiet \in BOOLEAN, Fails(S, quiet), stream' \in BOOLEAN
      PROVE  Scalars' /\ Calls'
    <2>1. /\ UNCHANGED <<file, last, answered, sent, userStopped, missedStop, optedOut>>
          /\ active' = None /\ phase' \in Phases /\ owed' \in BOOLEAN
          /\ memory' \in Memory
        BY <1>0, <1>9, FailsDoes DEF Remarks, Keeps, Scalars
    <2>2. jobs' = S \/ \E d : d \in JobT /\ Shape(d) /\ jobs' = S \cup {d}
        BY <1>9, FailsDoes DEF Is, IsWrite
    <2> QED
        BY <1>0, <1>9, <2>1, <2>2, OneMore DEF Scalars
<1>10. ASSUME NEW j \in jobs, StartFails(j)
       PROVE  Scalars' /\ Calls'
    BY <1>0, <1>9, <1>10, StartFailsDoes DEF Scalars
<1>11. ASSUME NEW j \in jobs, HandlerLoads(j)
       PROVE  Scalars' /\ Calls'
    BY <1>0, <1>11, HandlerLoadsDoes, OneMore DEF Scalars, Is, IsWrite
<1>12. ASSUME NEW j \in jobs, Settles(j)
       PROVE  Scalars' /\ Calls'
    BY <1>0, <1>12, SettlesDoes, OneMore DEF Scalars, Is
<1>13. ASSUME NEW j \in jobs, AbortArrives(j)
       PROVE  Scalars' /\ Calls'
    BY <1>0, <1>13, AbortArrivesDoes, OneMore DEF Scalars, Remarks, Keeps, Is, IsWrite
<1>14. ASSUME NEW j \in jobs, Completed(j)
       PROVE  Scalars' /\ Calls'
    BY <1>0, <1>14, CompletedDoes, OneMore DEF Scalars
<1>15. ASSUME NEW j \in jobs, ChoiceLoads(j)
       PROVE  Scalars' /\ Calls'
    BY <1>0, <1>15, ChoiceLoadsDoes, OneMore DEF Scalars, Is, IsWrite
<1>16. ASSUME NEW j \in jobs, ReadFile(j)
       PROVE  Scalars' /\ Calls'
    BY <1>0, <1>16, ReadFileDoes, OneMore DEF Scalars, Is
<1>17. ASSUME NEW j \in jobs, RecoveryLoads(j)
       PROVE  Scalars' /\ Calls'
    BY <1>0, <1>17, RecoveryLoadsDoes, OneMore DEF Scalars, Is
<1>18. ASSUME NEW j \in jobs, RecoveryReads(j)
       PROVE  Scalars' /\ Calls'
    BY <1>0, <1>18, RecoveryReadsDoes, OneMore DEF Scalars, Is
<1>19. ASSUME NEW j \in jobs, RecoveryDecides(j)
       PROVE  Scalars' /\ Calls'
    BY <1>0, <1>19, RecoveryDecidesDoes, OneMore DEF Scalars, Is, Scheduling, Keeps
<1>20. ASSUME NEW j \in jobs, RecoveryDerives(j)
       PROVE  Scalars' /\ Calls'
    BY <1>0, <1>20, RecoveryDerivesDoes, OneMore DEF Scalars, Scheduling, Keeps
<1>21. ASSUME Send
       PROVE  Scalars' /\ Calls'
    BY <1>0, <1>21, SendDoes, OneMore DEF Scalars, Is, Typed
<1>22. ASSUME TimerFires
       PROVE  Scalars' /\ Calls'
    BY <1>0, <1>22, TimerFiresDoes, OneMore DEF Scalars, Is, Keeps
<1>23. ASSUME StreamFails
       PROVE  Scalars' /\ Calls'
    BY <1>0, <1>9, <1>23, StreamFailsDoes
<1>24. ASSUME StreamEnds
       PROVE  Scalars' /\ Calls'
    BY <1>0, <1>24, StreamEndsDoes, OneMore DEF Scalars, Is, IsWrite, Remarks
<1>25. ASSUME Resume
       PROVE  Scalars' /\ Calls'
    BY <1>0, <1>25, ResumeDoes, OneMore DEF Scalars, Is, Keeps
<1>26. ASSUME Choose
       PROVE  Scalars' /\ Calls'
    BY <1>0, <1>26, ChooseDoes, OneMore DEF Scalars, Is, IsWrite, Opts
<1>27. ASSUME Recover
       PROVE  Scalars' /\ Calls'
    BY <1>0, <1>27, RecoverDoes, OneMore DEF Scalars, Is
<1>28. ASSUME Stop
       PROVE  Scalars' /\ Calls'
    <2>1. Scalars'
        BY <1>0, <1>28, StopDoes DEF Scalars
    <2>2. PICK O, c :
              /\ Stopping(O) /\ Is(c, "abort", "forwarding")
              /\ \/ jobs' = O \cup {c}
                 \/ \E d : Is(d, "abort", "loading") /\ jobs' = (O \cup {c}) \cup {d}
                 \/ \E d : IsWrite(d, "abort", "settling") /\ jobs' = (O \cup {c}) \cup {d}
        BY <1>28, StopDoes
    <2>3. O \subseteq JobT /\ IsFiniteSet(O) /\ \A k \in O : Shape(k)
        <3>1. \A k \in O : \E i \in jobs : Same(k, i) /\ Shape(i) /\ (k.at # "starting" => k = i)
            BY <1>0, <2>2 DEF Stopping, Same, Calls, Shaped
        <3>2. \A k \in O : Shape(k)
            BY <3>1 DEF Same, Shape
        <3> QED
            BY <2>2, <3>2 DEF Stopping
    <2>4. IsFiniteSet(O \cup {c}) /\ O \cup {c} \subseteq JobT /\ \A k \in O \cup {c} : Shape(k)
        BY <2>2, <2>3, FS_AddElement DEF Is
    <2>5. \/ jobs' = O \cup {c}
          \/ \E d : d \in JobT /\ Shape(d) /\ jobs' = (O \cup {c}) \cup {d}
        BY <2>2 DEF Is, IsWrite
    <2>6. IsFiniteSet(jobs') /\ jobs' \subseteq JobT /\ \A k \in jobs' : Shape(k)
        BY <2>4, <2>5, FS_AddElement
    <2>7. Shaped'
        BY <2>6 DEF Shaped, Shape
    <2> QED
        BY <2>1, <2>6, <2>7 DEF Calls
<1>29. ASSUME Restart
       PROVE  Scalars' /\ Calls'
    <2>1. Scalars' /\ jobs' = {}
        BY <1>0, <1>29, RestartDoes DEF Scalars
    <2> QED
        BY <2>1, FS_EmptySet DEF Calls, Shaped
<1>30. Scalars' /\ Calls'
    BY <1>1, <1>2, <1>3, <1>4, <1>5, <1>6, <1>7, <1>8, <1>10, <1>11, <1>12, <1>13, <1>14, <1>15,
       <1>16, <1>17, <1>18, <1>19, <1>20, <1>21, <1>22, <1>23, <1>24, <1>25, <1>26, <1>27, <1>28,
       <1>29, Steps, Zenon
<1>31. raced' \in BOOLEAN
    BY Steps, RacesIs, RestartDoes
<1> QED
    BY <1>30, <1>31 DEF Scalars, Calls, Typed

-----------------------------------------------------------------------------
(* What the memory knows of the preference.                                *)
Late == {"saving", "history", "decide", "deriving"}
Known ==
    /\ memory.preference = "unknown" => \A j \in jobs : j.kind # "retry" /\ j.at \notin Late
    /\ memory.preference = "on" => memory.enabled = TRUE
    /\ memory.preference = "off" => memory.enabled = FALSE
    /\ memory.timer = TRUE => memory.preference = "on"

LEMMA KnownStep ==
    ASSUME MaxSent \in Nat, Typed, Shaped, Known, Next
    PROVE  Known'
<1>0. /\ memory \in Memory /\ \A j \in jobs : j \in JobT /\ j.file \in File
      /\ \A f \in File : f.enabled \in BOOLEAN
    BY DEF Typed, JobT, File
<1>1. ASSUME NEW j \in jobs, Accepted(j) PROVE Known'
    BY <1>0, <1>1, AcceptedDoes DEF Known, Opts, Remarks, Is, IsWrite, Late
<1>2. ASSUME NEW j \in jobs, Cleared(j) PROVE Known'
    BY <1>0, <1>2, ClearedDoes DEF Known, Opts
<1>3. ASSUME NEW j \in jobs, Prepare(j) PROVE Known'
    BY <1>0, <1>3, PrepareDoes DEF Known, Keeps, Is, Late
<1>4. ASSUME NEW j \in jobs, ReadFails(j) PROVE Known'
    BY <1>0, <1>4, ReadFailsDoes DEF Known, Remarks, Failed, Memory
<1>5. ASSUME NEW j \in jobs, StreamMessage(j) PROVE Known'
    <2>1. /\ memory' = memory
          /\ \A d \in jobs' : \/ Is(d, j.kind, "starting") /\ d.aborted = FALSE
                              \/ \E k \in jobs \ {j} : Same(d, k) /\ d.aborted = k.aborted
        BY <1>5, StreamMessageDoes
    <2> QED
        BY <2>1 DEF Known, Is, Same, Late
<1>6. ASSUME NEW j \in jobs, StreamStarts(j) PROVE Known'
    BY <1>0, <1>6, StreamStartsDoes DEF Known, Remarks
<1>7. ASSUME NEW j \in jobs, CancelsOther(j) PROVE Known'
    BY <1>0, <1>7, CancelsOtherDoes DEF Known, Is, Late
<1>8. ASSUME NEW j \in jobs, StartReturns(j) PROVE Known'
    BY <1>0, <1>8, StartReturnsDoes DEF Known, Remarks
<1>9. ASSUME NEW S \in SUBSET jobs, NEW quiet \in BOOLEAN, Fails(S, quiet)
      PROVE  Known'
    <2>1. PICK ok \in BOOLEAN :
              \/ /\ memory.preference = "unknown" /\ memory' = memory
                 /\ \E d : /\ Is(d, "error", "loading") /\ jobs' = S \cup {d}
              \/ /\ memory.preference # "unknown" /\ memory'.timer = Failed(memory, ok)
                 /\ (\E mark \in 0..Any : Remarks(memory, mark)) \/ Keeps(memory)
        BY <1>9, FailsDoes
    <2> QED
        BY <1>0, <2>1 DEF Known, Remarks, Keeps, Failed, Is, Late, Memory
<1>10. ASSUME NEW j \in jobs, StartFails(j) PROVE Known'
    BY <1>9, <1>10, StartFailsDoes
<1>11. ASSUME NEW j \in jobs, HandlerLoads(j) PROVE Known'
    BY <1>0, <1>11, HandlerLoadsDoes DEF Known
<1>12. ASSUME NEW j \in jobs, Settles(j) PROVE Known'
    BY <1>0, <1>12, SettlesDoes DEF Known, Is, Late
<1>13. ASSUME NEW j \in jobs, AbortArrives(j) PROVE Known'
    BY <1>0, <1>13, AbortArrivesDoes DEF Known, Remarks, Keeps, Is, IsWrite, Late
<1>14. ASSUME NEW j \in jobs, Completed(j) PROVE Known'
    BY <1>0, <1>14, CompletedDoes DEF Known
<1>15. ASSUME NEW j \in jobs, ChoiceLoads(j) PROVE Known'
    BY <1>0, <1>15, ChoiceLoadsDoes DEF Known
<1>16. ASSUME NEW j \in jobs, ReadFile(j) PROVE Known'
    BY <1>0, <1>16, ReadFileDoes DEF Known, Is, Late
<1>17. ASSUME NEW j \in jobs, RecoveryLoads(j) PROVE Known'
    BY <1>0, <1>17, RecoveryLoadsDoes DEF Known
<1>18. ASSUME NEW j \in jobs, RecoveryReads(j) PROVE Known'
    BY <1>0, <1>18, RecoveryReadsDoes DEF Known, Is, Late
<1>19. ASSUME NEW j \in jobs, RecoveryDecides(j) PROVE Known'
    BY <1>0, <1>19, RecoveryDecidesDoes DEF Known, Scheduling, Keeps, Late, Memory
<1>20. ASSUME NEW j \in jobs, RecoveryDerives(j) PROVE Known'
    BY <1>0, <1>20, RecoveryDerivesDoes DEF Known, Scheduling, Keeps, Late, Memory
<1>21. ASSUME Send PROVE Known'
    BY <1>0, <1>21, SendDoes DEF Known, Is, Late
<1>22. ASSUME TimerFires PROVE Known'
    BY <1>0, <1>22, TimerFiresDoes DEF Known, Is, Keeps, Late
<1>23. ASSUME StreamFails PROVE Known'
    BY <1>9, <1>23, StreamFailsDoes
<1>24. ASSUME StreamEnds PROVE Known'
    BY <1>0, <1>24, StreamEndsDoes DEF Known, Is, IsWrite, Remarks, Late
<1>25. ASSUME Resume PROVE Known'
    BY <1>0, <1>25, ResumeDoes DEF Known, Is, Keeps, Late
<1>26. ASSUME Choose PROVE Known'
    BY <1>0, <1>26, ChooseDoes DEF Known, Is, IsWrite, Opts, Late
<1>27. ASSUME Recover PROVE Known'
    BY <1>0, <1>27, RecoverDoes DEF Known, Is, Late
<1>28. ASSUME Stop PROVE Known'
    <2>1. /\ memory' \in Memory /\ memory'.preference = memory.preference
          /\ memory'.enabled = memory.enabled /\ memory'.timer = FALSE
        BY <1>28, StopDoes
    <2>2. PICK O, c :
              /\ Stopping(O) /\ Is(c, "abort", "forwarding")
              /\ \/ jobs' = O \cup {c}
                 \/ \E d : Is(d, "abort", "loading") /\ jobs' = (O \cup {c}) \cup {d}
                 \/ \E d : IsWrite(d, "abort", "settling") /\ jobs' = (O \cup {c}) \cup {d}
        BY <1>28, StopDoes
    <2> QED
        BY <2>1, <2>2 DEF Known, Stopping, Same, Is, IsWrite, Late
<1>29. ASSUME Restart PROVE Known'
    BY <1>29, RestartDoes DEF Known
<1> QED
    BY <1>1, <1>2, <1>3, <1>4, <1>5, <1>6, <1>7, <1>8, <1>10, <1>11, <1>12, <1>13, <1>14, <1>15,
       <1>16, <1>17, <1>18, <1>19, <1>20, <1>21, <1>22, <1>23, <1>24, <1>25, <1>26, <1>27, <1>28,
       <1>29, Steps, Zenon

-----------------------------------------------------------------------------
(* As long as no two calls raced for the file, one call at most uses it.   *)
Writing(j) == j.at \in {"clearing", "saving", "settling"}
Alone ==
    /\ \A j, k \in jobs : UsesFile(j) /\ UsesFile(k) => j = k
    /\ memory.preference = "unknown" => \A j \in jobs : ~Writing(j)

LEMMA OnlyOne ==
    ASSUME NEW S, IsFiniteSet(S), ~(Cardinality(S) > 1), NEW a \in S, NEW b \in S
    PROVE  a = b
<1> SUFFICES ASSUME a # b PROVE FALSE
    OBVIOUS
<1>1. IsFiniteSet({a}) /\ Cardinality({a}) = 1
    BY FS_Singleton
<1>2. IsFiniteSet({a} \cup {b}) /\ Cardinality({a} \cup {b}) = 2
    <2>1. b \notin {a} /\ 1 + 1 = 2
        OBVIOUS
    <2> QED
        BY <1>1, <2>1, FS_AddElement
<1>3. {a} \cup {b} \subseteq S
    OBVIOUS
<1>4. Cardinality({a} \cup {b}) <= Cardinality(S) /\ Cardinality(S) \in Nat
    BY <1>3, FS_Subset, FS_CardinalityType
<1> QED
    BY <1>2, <1>4

LEMMA AloneStep ==
    ASSUME MaxSent \in Nat, Typed, Shaped, Known, Next, raced' = FALSE
    PROVE  Alone' /\ raced = FALSE
<1>1. Typed' /\ Known'
    BY TypedStep, KnownStep
<1>2. CASE Races
    <2>1. /\ raced = FALSE
          /\ ~(Cardinality({j \in jobs' : UsesFile(j)}) > 1)
          /\ ~(memory'.preference = "unknown" /\ \E j \in jobs' : j.at \in {"clearing", "settling"})
        BY <1>2, RacesIs
    <2>2. IsFiniteSet({j \in jobs' : UsesFile(j)})
        BY <1>1, FS_Subset DEF Typed
    <2>3. \A j, k \in {i \in jobs' : UsesFile(i)} : j = k
        BY <2>1, <2>2, OnlyOne, Zenon
    <2>4. memory'.preference = "unknown" => \A j \in jobs' : ~Writing(j)
        BY <1>1, <2>1 DEF Known, Late, Writing
    <2> QED
        BY <2>1, <2>3, <2>4 DEF Alone, UsesFile, Writing
<1>3. CASE Restart
    BY <1>3, RestartDoes DEF Alone, UsesFile, Writing
<1> QED
    BY <1>2, <1>3, Steps

-----------------------------------------------------------------------------
(* The session's copy is what the file holds, or what is being written.    *)
Copy ==
    /\ memory.preference # "unknown" =>
        /\ \A j \in jobs : j.at \notin {"loading", "loaded"}
        /\ \A j \in jobs : Writing(j) => j.file = Persisted(memory)
        /\ (\A j \in jobs : ~Writing(j)) => file = Persisted(memory)
    /\ \A j \in jobs : j.at = "loaded" => j.file = file

LEMMA WriteIsCopy ==
    ASSUME Alone', NEW d \in jobs', Writing(d), d.file = Persisted(memory')
    PROVE  Copy'
<1>1. \A k \in jobs' : UsesFile(k) => k = d
    BY DEF Alone, UsesFile, Writing
<1>2. \A k \in jobs' : /\ k.at \notin {"loading", "loaded"}
                       /\ Writing(k) => k.file = Persisted(memory')
    BY <1>1 DEF UsesFile, Writing
<1> QED
    BY <1>2 DEF Copy, Writing

\* a step that neither writes nor loads
LEMMA NoWriteIsCopy ==
    ASSUME Alone, Copy, file' = file, memory'.preference = memory.preference,
           memory'.abandoned = memory.abandoned,
           \A d \in jobs' : \/ d \in jobs
                            \/ ~Writing(d) /\ d.at # "loaded"
                               /\ (d.at = "loading" => memory.preference = "unknown"),
           \A k \in jobs : Writing(k) => k \in jobs'
    PROVE  Copy'
<1>1. Persisted(memory') = Persisted(memory)
    BY DEF Persisted
<1> QED
    BY <1>1 DEF Copy, Writing

LEMMA CopyStep ==
    ASSUME MaxSent \in Nat, Typed, Shaped, Known, Alone, Copy, Alone', Next
    PROVE  Copy'
<1> USE DEF Is, IsWrite, Writing
<1>0. /\ \A m \in Memory : Persisted(m).enabled = (m.preference # "off")
                           /\ Persisted(m).abandoned = m.abandoned
      /\ \A m \in Memory : Persisted(m) \in File
      /\ memory \in Memory /\ file \in File
      /\ \A j \in jobs : j \in JobT /\ Shape(j)
      /\ jobs \subseteq JobT
    BY PersistedIs DEF Typed, Shaped
<1>1. ASSUME NEW j \in jobs, Accepted(j) PROVE Copy'
    BY <1>1, AcceptedDoes, WriteIsCopy
<1>2. ASSUME NEW j \in jobs, Cleared(j) PROVE Copy'
    BY <1>2, ClearedDoes, WriteIsCopy
\* a write lands: nobody else uses the file
<1>3. ASSUME NEW j \in jobs, Writing(j), file' = j.file, memory'.preference = memory.preference,
             memory'.abandoned = memory.abandoned,
             \A d \in jobs' : d \in jobs \ {j} \/ (~Writing(d) /\ d.at \notin {"loading", "loaded"})
      PROVE  Copy'
    <2>1. memory.preference # "unknown" /\ \A k \in jobs \ {j} : ~UsesFile(k)
        BY <1>3 DEF Alone, UsesFile
    <2>2. file' = Persisted(memory) /\ Persisted(memory') = Persisted(memory)
        BY <1>3, <2>1 DEF Copy, Persisted
    <2> QED
        BY <1>3, <2>1, <2>2 DEF Copy, UsesFile
<1>4. ASSUME NEW j \in jobs, Prepare(j) PROVE Copy'
    BY <1>3, <1>4, PrepareDoes DEF Keeps
<1>5. ASSUME NEW j \in jobs, ReadFails(j) PROVE Copy'
    BY <1>0, <1>5, ReadFailsDoes, WriteIsCopy, NoWriteIsCopy DEF Remarks
<1>6. ASSUME NEW j \in jobs, StreamMessage(j) PROVE Copy'
    <2>1. /\ j.at = "reading" /\ UNCHANGED <<file, memory>>
          /\ \A d \in jobs' : \/ Is(d, j.kind, "starting") /\ d.aborted = FALSE
                              \/ \E k \in jobs \ {j} : Same(d, k) /\ d.aborted = k.aborted
          /\ \A k \in jobs \ {j} : \E d \in jobs' : Same(d, k) /\ d.aborted = k.aborted
        BY <1>6, StreamMessageDoes
    <2> QED
        BY <2>1, NoWriteIsCopy DEF Same
<1>7. ASSUME NEW j \in jobs, StreamStarts(j) PROVE Copy'
    BY <1>0, <1>7, StreamStartsDoes, WriteIsCopy, NoWriteIsCopy
<1>8. ASSUME NEW j \in jobs, CancelsOther(j) PROVE Copy'
    BY <1>8, CancelsOtherDoes, NoWriteIsCopy
<1>9. ASSUME NEW j \in jobs, StartReturns(j) PROVE Copy'
    BY <1>0, <1>9, StartReturnsDoes, WriteIsCopy, NoWriteIsCopy
<1>10. ASSUME NEW S \in SUBSET jobs, \A k \in jobs : Writing(k) => k \in S,
              NEW quiet \in BOOLEAN, Fails(S, quiet)
       PROVE  Copy'
    <2>1. /\ file' = file
          /\ \/ /\ memory.preference = "unknown" /\ memory' = memory
                /\ \E d : /\ Is(d, "error", "loading") /\ jobs' = S \cup {d}
             \/ \E d : IsWrite(d, "error", "settling") /\ jobs' = S \cup {d}
             \/ Keeps(memory) /\ jobs' = S
        BY <1>10, FailsDoes
    <2>2. CASE /\ memory.preference = "unknown" /\ memory' = memory
               /\ \E d : /\ Is(d, "error", "loading") /\ jobs' = S \cup {d}
        BY <1>10, <2>1, <2>2, NoWriteIsCopy
    <2>3. CASE \E d : IsWrite(d, "error", "settling") /\ jobs' = S \cup {d}
        BY <2>3, WriteIsCopy
    <2>4. CASE Keeps(memory) /\ jobs' = S
        BY <1>10, <2>1, <2>4, NoWriteIsCopy DEF Keeps
    <2> QED
        BY <2>1, <2>2, <2>3, <2>4
<1>11. ASSUME NEW j \in jobs, StartFails(j) PROVE Copy'
    <2>1. \A k \in jobs : Writing(k) => k \in jobs \ {j}
        BY <1>11, StartFailsDoes
    <2> QED
        BY <1>10, <1>11, <2>1, StartFailsDoes
<1>12. ASSUME StreamFails PROVE Copy'
    BY <1>10, <1>12, StreamFailsDoes
\* a call learns what the file holds
<1>13. ASSUME NEW j \in jobs, j.at = "loaded", file' = file,
              memory'.preference = (IF j.file.enabled THEN "on" ELSE "off"),
              memory'.abandoned = j.file.abandoned,
              \A d \in jobs' : d \in jobs \ {j} \/ (~Writing(d) /\ d.at \notin {"loading", "loaded"})
       PROVE  Copy'
    <2>1. j.file = file /\ \A k \in jobs \ {j} : ~UsesFile(k)
        BY <1>13 DEF Alone, UsesFile, Copy
    <2>2. Persisted(memory') = file
        BY <1>0, <1>13, <2>1 DEF Persisted, File
    <2> QED
        BY <1>13, <2>1, <2>2 DEF Copy, UsesFile
<1>14. ASSUME NEW j \in jobs, HandlerLoads(j) PROVE Copy'
    <2>1. CASE \E d : IsWrite(d, j.kind, "settling") /\ jobs' = (jobs \ {j}) \cup {d}
        BY <2>1, WriteIsCopy
    <2>2. CASE memory'.abandoned = j.file.abandoned /\ jobs' = jobs \ {j}
        BY <1>13, <1>14, <2>2, HandlerLoadsDoes
    <2> QED
        BY <1>14, <2>1, <2>2, HandlerLoadsDoes
<1>15. ASSUME NEW j \in jobs, Settles(j) PROVE Copy'
    BY <1>3, <1>15, SettlesDoes
<1>16. ASSUME NEW j \in jobs, AbortArrives(j) PROVE Copy'
    <2>1. CASE \E d : IsWrite(d, "abort", "settling") /\ jobs' = (jobs \ {j}) \cup {d}
        BY <2>1, WriteIsCopy
    <2>2. CASE /\ memory.preference = "unknown" /\ memory' = memory
               /\ \E d : Is(d, "abort", "loading") /\ jobs' = (jobs \ {j}) \cup {d}
        BY <1>16, <2>2, AbortArrivesDoes, NoWriteIsCopy
    <2>3. CASE jobs' = jobs \ {j} /\ Keeps(memory)
        BY <1>16, <2>3, AbortArrivesDoes, NoWriteIsCopy DEF Keeps
    <2> QED
        BY <1>16, <2>1, <2>2, <2>3, AbortArrivesDoes
<1>17. ASSUME NEW j \in jobs, Completed(j) PROVE Copy'
    BY <1>17, CompletedDoes, NoWriteIsCopy
<1>18. ASSUME NEW j \in jobs, ChoiceLoads(j) PROVE Copy'
    BY <1>18, ChoiceLoadsDoes, WriteIsCopy
<1>19. ASSUME NEW j \in jobs, ReadFile(j) PROVE Copy'
    <2>1. PICK d : Is(d, j.kind, "loaded") /\ d.file = file /\ jobs' = (jobs \ {j}) \cup {d}
        BY <1>19, ReadFileDoes
    <2>2. j.at = "loading" /\ UNCHANGED <<file, memory>>
        BY <1>19, ReadFileDoes
    <2>3. memory.preference = "unknown"
        BY <2>2 DEF Copy
    <2> QED
        BY <2>1, <2>2, <2>3 DEF Copy
<1>20. ASSUME NEW j \in jobs, RecoveryLoads(j) PROVE Copy'
    BY <1>13, <1>20, RecoveryLoadsDoes
<1>21. ASSUME NEW j \in jobs, RecoveryReads(j) PROVE Copy'
    BY <1>21, RecoveryReadsDoes, NoWriteIsCopy
<1>22. ASSUME NEW j \in jobs, RecoveryDecides(j) PROVE Copy'
    BY <1>22, RecoveryDecidesDoes, NoWriteIsCopy DEF Scheduling, Keeps
<1>23. ASSUME NEW j \in jobs, RecoveryDerives(j) PROVE Copy'
    BY <1>23, RecoveryDerivesDoes, NoWriteIsCopy DEF Scheduling, Keeps
<1>24. ASSUME Send PROVE Copy'
    BY <1>24, SendDoes, NoWriteIsCopy
<1>25. ASSUME TimerFires PROVE Copy'
    BY <1>25, TimerFiresDoes, NoWriteIsCopy DEF Keeps
<1>26. ASSUME StreamEnds PROVE Copy'
    BY <1>0, <1>26, StreamEndsDoes, NoWriteIsCopy, WriteIsCopy DEF Remarks
<1>27. ASSUME Resume PROVE Copy'
    BY <1>27, ResumeDoes, NoWriteIsCopy DEF Keeps
<1>28. ASSUME Choose PROVE Copy'
    BY <1>28, ChooseDoes, NoWriteIsCopy, WriteIsCopy
<1>29. ASSUME Recover PROVE Copy'
    BY <1>29, RecoverDoes, NoWriteIsCopy
<1>30. ASSUME Stop PROVE Copy'
    <2>1. file' = file /\ memory'.preference = memory.preference
        BY <1>30, StopDoes
    <2>2. PICK O, c :
              /\ Stopping(O) /\ Is(c, "abort", "forwarding")
              /\ \/ jobs' = O \cup {c} /\ memory'.abandoned = memory.abandoned
                 \/ /\ memory.preference = "unknown" /\ memory'.abandoned = memory.abandoned
                    /\ \E d : Is(d, "abort", "loading") /\ jobs' = (O \cup {c}) \cup {d}
                 \/ \E d : IsWrite(d, "abort", "settling") /\ jobs' = (O \cup {c}) \cup {d}
        BY <1>30, StopDoes
    <2>3. /\ \A k \in O : k \in jobs \/ k.at = "starting"
          /\ \A k \in jobs : Writing(k) => k \in O
        BY <2>2 DEF Stopping, Same
    <2>4. CASE \E d : IsWrite(d, "abort", "settling") /\ jobs' = (O \cup {c}) \cup {d}
        BY <2>4, WriteIsCopy
    <2>5. CASE jobs' = O \cup {c} /\ memory'.abandoned = memory.abandoned
        BY <2>1, <2>2, <2>3, <2>5, NoWriteIsCopy
    <2>6. CASE /\ memory.preference = "unknown" /\ memory'.abandoned = memory.abandoned
               /\ \E d : Is(d, "abort", "loading") /\ jobs' = (O \cup {c}) \cup {d}
        BY <2>1, <2>2, <2>3, <2>6, NoWriteIsCopy
    <2> QED
        BY <2>2, <2>4, <2>5, <2>6
<1>31. ASSUME Restart PROVE Copy'
    BY <1>31, RestartDoes DEF Copy
<1> QED
    BY <1>1, <1>2, <1>4, <1>5, <1>6, <1>7, <1>8, <1>9, <1>11, <1>12, <1>14, <1>15,
       <1>16, <1>17, <1>18, <1>19, <1>20, <1>21, <1>22, <1>23, <1>24, <1>25, <1>26, <1>27, <1>28,
       <1>29, <1>30, <1>31, Steps, Zenon

-----------------------------------------------------------------------------
(* The preference is what the user chose last.                             *)
Opted ==
    /\ memory.preference = "on" => optedOut = FALSE
    /\ memory.preference = "off" => optedOut = TRUE
    /\ memory.preference = "unknown" => file.enabled = ~optedOut

LEMMA OptedStep ==
    ASSUME MaxSent \in Nat, Typed, Shaped, Alone, Copy, Opted, Next, raced' = FALSE
    PROVE  Opted'
<1> USE DEF ghosts
<1>0. /\ memory \in Memory /\ file \in File /\ optedOut \in BOOLEAN /\ file.enabled \in BOOLEAN
      /\ memory.preference \in {"unknown", "on", "off"}
      /\ \A j \in jobs : j \in JobT /\ j.file \in File /\ j.file.enabled \in BOOLEAN
    BY DEF Typed, Memory, File, JobT
\* the choice stands, and what is known of it
<1>1. ASSUME memory'.preference = memory.preference, optedOut' = optedOut,
             file' = file \/ \E j \in jobs : Writing(j)
      PROVE  Opted'
    BY <1>0, <1>1 DEF Opted, Alone
\* a call learns the choice from the file
<1>2. ASSUME NEW j \in jobs, j.at = "loaded", optedOut' = optedOut,
             memory'.preference = (IF j.file.enabled THEN "on" ELSE "off")
      PROVE  Opted'
    <2>1. j.file = file /\ memory.preference = "unknown"
        BY <1>0, <1>2 DEF Copy
    <2> QED
        BY <1>0, <1>2, <2>1 DEF Opted
<1>3. ASSUME NEW j \in jobs, Accepted(j) PROVE Opted'
    BY <1>0, <1>1, <1>3, AcceptedDoes DEF Opted, Opts, Remarks
<1>4. ASSUME NEW j \in jobs, Cleared(j) PROVE Opted'
    BY <1>0, <1>4, ClearedDoes DEF Opted, Opts
<1>5. ASSUME NEW j \in jobs, Prepare(j) PROVE Opted'
    BY <1>1, <1>5, PrepareDoes DEF Keeps, Writing
<1>6. ASSUME NEW j \in jobs, ReadFails(j) PROVE Opted'
    BY <1>1, <1>6, ReadFailsDoes DEF Remarks
<1>7. ASSUME NEW j \in jobs, StreamMessage(j) PROVE Opted'
    BY <1>1, <1>7, StreamMessageDoes
<1>8. ASSUME NEW j \in jobs, StreamStarts(j) PROVE Opted'
    BY <1>1, <1>8, StreamStartsDoes DEF Remarks
<1>9. ASSUME NEW j \in jobs, CancelsOther(j) PROVE Opted'
    BY <1>1, <1>9, CancelsOtherDoes
<1>10. ASSUME NEW j \in jobs, StartReturns(j) PROVE Opted'
    BY <1>1, <1>10, StartReturnsDoes DEF Remarks
<1>11. ASSUME NEW S \in SUBSET jobs, NEW quiet \in BOOLEAN, Fails(S, quiet) PROVE Opted'
    <2>1. file' = file /\ optedOut' = optedOut /\ memory'.preference = memory.preference
        BY <1>11, FailsDoes DEF Remarks, Keeps
    <2> QED
        BY <1>1, <2>1
<1>12. ASSUME NEW j \in jobs, StartFails(j) PROVE Opted'
    BY <1>11, <1>12, StartFailsDoes
<1>13. ASSUME StreamFails PROVE Opted'
    BY <1>11, <1>13, StreamFailsDoes
<1>14. ASSUME NEW j \in jobs, HandlerLoads(j) PROVE Opted'
    BY <1>2, <1>14, HandlerLoadsDoes
<1>15. ASSUME NEW j \in jobs, Settles(j) PROVE Opted'
    BY <1>1, <1>15, SettlesDoes DEF Writing
<1>16. ASSUME NEW j \in jobs, AbortArrives(j) PROVE Opted'
    BY <1>1, <1>16, AbortArrivesDoes DEF Keeps, Remarks
<1>17. ASSUME NEW j \in jobs, Completed(j) PROVE Opted'
    BY <1>1, <1>17, CompletedDoes
<1>18. ASSUME NEW j \in jobs, ChoiceLoads(j) PROVE Opted'
    BY <1>18, ChoiceLoadsDoes DEF Opted
<1>19. ASSUME NEW j \in jobs, ReadFile(j) PROVE Opted'
    BY <1>1, <1>19, ReadFileDoes
<1>20. ASSUME NEW j \in jobs, RecoveryLoads(j) PROVE Opted'
    BY <1>2, <1>20, RecoveryLoadsDoes
<1>21. ASSUME NEW j \in jobs, RecoveryReads(j) PROVE Opted'
    BY <1>1, <1>21, RecoveryReadsDoes
<1>22. ASSUME NEW j \in jobs, RecoveryDecides(j) PROVE Opted'
    BY <1>1, <1>22, RecoveryDecidesDoes DEF Scheduling, Keeps
<1>23. ASSUME NEW j \in jobs, RecoveryDerives(j) PROVE Opted'
    BY <1>1, <1>23, RecoveryDerivesDoes DEF Scheduling, Keeps
<1>24. ASSUME Send PROVE Opted'
    BY <1>1, <1>24, SendDoes
<1>25. ASSUME TimerFires PROVE Opted'
    BY <1>1, <1>25, TimerFiresDoes DEF Keeps
<1>26. ASSUME StreamEnds PROVE Opted'
    BY <1>1, <1>26, StreamEndsDoes DEF Remarks
<1>27. ASSUME Resume PROVE Opted'
    BY <1>1, <1>27, ResumeDoes DEF Keeps
<1>28. ASSUME Choose PROVE Opted'
    BY <1>1, <1>28, ChooseDoes DEF Opted, Opts
<1>29. ASSUME Recover PROVE Opted'
    BY <1>1, <1>29, RecoverDoes
<1>30. ASSUME Stop PROVE Opted'
    BY <1>1, <1>30, StopDoes
\* nobody uses the file when the program ends
<1>31. ASSUME Restart PROVE Opted'
    <2>1. /\ file' = file /\ optedOut' = optedOut /\ memory'.preference = "unknown"
          /\ \A j \in jobs : ~UsesFile(j)
        BY <1>31, RestartDoes
    <2>2. CASE memory.preference = "unknown"
        BY <2>1, <2>2 DEF Opted
    <2>3. CASE memory.preference # "unknown"
        <3>1. file = Persisted(memory)
            BY <2>1, <2>3 DEF Copy, UsesFile, Writing
        <3>2. file.enabled = (memory.preference # "off")
            BY <1>0, <3>1, PersistedIs
        <3> QED
            BY <1>0, <2>1, <2>3, <3>2 DEF Opted
    <2> QED
        BY <2>2, <2>3
<1> QED
    BY <1>3, <1>4, <1>5, <1>6, <1>7, <1>8, <1>9, <1>10, <1>12, <1>13, <1>14, <1>15,
       <1>16, <1>17, <1>18, <1>19, <1>20, <1>21, <1>22, <1>23, <1>24, <1>25, <1>26, <1>27, <1>28,
       <1>29, <1>30, <1>31, Steps, Zenon

-----------------------------------------------------------------------------
(* A stream and an abort are about the last message.                       *)
Sending == \E j \in jobs : j.kind = "send" /\ j.at \in {"clearing", "saving"}
Current == active \in {None, last} \/ Sending
Aborts(j) == j.kind = "abort" /\ j.at \in {"loading", "loaded"}
CurrentAborts == \A j \in jobs : Aborts(j) => j.msg \in {None, last}

LEMMA CurrentStep ==
    ASSUME MaxSent \in Nat, Typed, Shaped, Current, Next
    PROVE  Current'
<1> USE DEF Is, IsWrite
\* no send in between is gone
<1>1. ASSUME last' = last, active' \in {active, None},
             \A k \in jobs : k.kind = "send" /\ k.at \in {"clearing", "saving"} =>
                \E d \in jobs' : d.kind = k.kind /\ d.at = k.at
      PROVE  Current'
    BY <1>1 DEF Current, Sending
<1>2. ASSUME active' \in {None, last'} PROVE Current'
    BY <1>2 DEF Current
<1>3. ASSUME NEW j \in jobs, Accepted(j) PROVE Current'
    BY <1>3, AcceptedDoes DEF Current, Sending
<1>4. ASSUME NEW j \in jobs, Cleared(j) PROVE Current'
    BY <1>4, ClearedDoes DEF Current, Sending
<1>5. ASSUME NEW j \in jobs, Prepare(j) PROVE Current'
    BY <1>2, <1>5, PrepareDoes
<1>6. ASSUME NEW j \in jobs, ReadFails(j) PROVE Current'
    BY <1>1, <1>6, ReadFailsDoes
<1>7. ASSUME NEW j \in jobs, StreamMessage(j) PROVE Current'
    BY <1>2, <1>7, StreamMessageDoes
<1>8. ASSUME NEW j \in jobs, StreamStarts(j) PROVE Current'
    BY <1>1, <1>8, StreamStartsDoes
<1>9. ASSUME NEW j \in jobs, CancelsOther(j) PROVE Current'
    BY <1>1, <1>9, CancelsOtherDoes
<1>10. ASSUME NEW j \in jobs, StartReturns(j) PROVE Current'
    BY <1>1, <1>10, StartReturnsDoes
<1>11. ASSUME NEW S \in SUBSET jobs, NEW quiet \in BOOLEAN, Fails(S, quiet) PROVE Current'
    BY <1>2, <1>11, FailsDoes
<1>12. ASSUME NEW j \in jobs, StartFails(j) PROVE Current'
    BY <1>11, <1>12, StartFailsDoes
<1>13. ASSUME StreamFails PROVE Current'
    BY <1>11, <1>13, StreamFailsDoes
<1>14. ASSUME NEW j \in jobs, HandlerLoads(j) PROVE Current'
    BY <1>1, <1>14, HandlerLoadsDoes
<1>15. ASSUME NEW j \in jobs, Settles(j) PROVE Current'
    BY <1>1, <1>15, SettlesDoes
<1>16. ASSUME NEW j \in jobs, AbortArrives(j) PROVE Current'
    BY <1>1, <1>16, AbortArrivesDoes
<1>17. ASSUME NEW j \in jobs, Completed(j) PROVE Current'
    BY <1>2, <1>17, CompletedDoes
<1>18. ASSUME NEW j \in jobs, ChoiceLoads(j) PROVE Current'
    BY <1>1, <1>18, ChoiceLoadsDoes
<1>19. ASSUME NEW j \in jobs, ReadFile(j) PROVE Current'
    BY <1>1, <1>19, ReadFileDoes
<1>20. ASSUME NEW j \in jobs, RecoveryLoads(j) PROVE Current'
    BY <1>1, <1>20, RecoveryLoadsDoes
<1>21. ASSUME NEW j \in jobs, RecoveryReads(j) PROVE Current'
    BY <1>1, <1>21, RecoveryReadsDoes
<1>22. ASSUME NEW j \in jobs, RecoveryDecides(j) PROVE Current'
    BY <1>1, <1>22, RecoveryDecidesDoes DEF Scheduling
<1>23. ASSUME NEW j \in jobs, RecoveryDerives(j) PROVE Current'
    BY <1>1, <1>23, RecoveryDerivesDoes DEF Scheduling
<1>24. ASSUME Send PROVE Current'
    BY <1>1, <1>24, SendDoes
<1>25. ASSUME TimerFires PROVE Current'
    BY <1>1, <1>2, <1>25, TimerFiresDoes
<1>26. ASSUME StreamEnds PROVE Current'
    BY <1>1, <1>26, StreamEndsDoes
<1>27. ASSUME Resume PROVE Current'
    BY <1>2, <1>27, ResumeDoes
<1>28. ASSUME Choose PROVE Current'
    BY <1>1, <1>28, ChooseDoes
<1>29. ASSUME Recover PROVE Current'
    BY <1>1, <1>29, RecoverDoes
<1>30. ASSUME Stop PROVE Current'
    <2>1. last' = last /\ active' \in {active, None}
        BY <1>30, StopDoes
    <2>2. PICK O : Stopping(O) /\ O \subseteq jobs'
        BY <1>30, StopDoes
    <2>3. \A k \in jobs : \E d \in jobs' : d.kind = k.kind /\ d.at = k.at
        BY <2>2 DEF Stopping, Same
    <2> QED
        BY <1>1, <2>1, <2>3
<1>31. ASSUME Restart PROVE Current'
    BY <1>2, <1>31, RestartDoes
<1> QED
    BY <1>3, <1>4, <1>5, <1>6, <1>7, <1>8, <1>9, <1>10, <1>12, <1>13, <1>14, <1>15,
       <1>16, <1>17, <1>18, <1>19, <1>20, <1>21, <1>22, <1>23, <1>24, <1>25, <1>26, <1>27, <1>28,
       <1>29, <1>30, <1>31, Steps, Zenon

LEMMA CurrentAbortsStep ==
    ASSUME MaxSent \in Nat, Typed, Shaped, Current, CurrentAborts, Alone', Next
    PROVE  CurrentAborts'
<1> USE DEF Is, IsWrite, Aborts
\* no abort more, and no other message
<1>1. ASSUME last' = last, \A d \in jobs' : Aborts(d) => d \in jobs
      PROVE  CurrentAborts'
    BY <1>1 DEF CurrentAborts
\* a call that begins to write is alone
<1>2. ASSUME NEW d \in jobs', Writing(d) PROVE CurrentAborts'
    BY <1>2 DEF Alone, UsesFile, Writing, CurrentAborts
\* an abort asks for the file while no send writes
<1>3. ASSUME last' = last, NEW d \in jobs', d.at = "loading", d.msg = active,
             \A k \in jobs : k.kind = "send" /\ k.at \in {"clearing", "saving"} => k \in jobs'
      PROVE  CurrentAborts'
    <2>1. \A k \in jobs' : UsesFile(k) => k = d
        BY <1>3 DEF Alone, UsesFile
    <2>2. ~Sending
        BY <1>3, <2>1 DEF Sending, UsesFile
    <2> QED
        BY <1>3, <2>1, <2>2 DEF CurrentAborts, Current, UsesFile
<1>4. ASSUME NEW j \in jobs, Accepted(j) PROVE CurrentAborts'
    BY <1>2, <1>4, AcceptedDoes DEF Writing
<1>5. ASSUME NEW j \in jobs, Cleared(j) PROVE CurrentAborts'
    BY <1>2, <1>5, ClearedDoes DEF Writing
<1>6. ASSUME NEW j \in jobs, Prepare(j) PROVE CurrentAborts'
    BY <1>1, <1>6, PrepareDoes
<1>7. ASSUME NEW j \in jobs, ReadFails(j) PROVE CurrentAborts'
    BY <1>1, <1>7, ReadFailsDoes
<1>8. ASSUME NEW j \in jobs, StreamMessage(j) PROVE CurrentAborts'
    <2>1. /\ last' = last
          /\ \A d \in jobs' : \/ Is(d, j.kind, "starting") /\ d.aborted = FALSE
                              \/ \E k \in jobs \ {j} : Same(d, k) /\ d.aborted = k.aborted
        BY <1>8, StreamMessageDoes
    <2> QED
        BY <1>1, <2>1 DEF Same
<1>9. ASSUME NEW j \in jobs, StreamStarts(j) PROVE CurrentAborts'
    BY <1>1, <1>9, StreamStartsDoes
<1>10. ASSUME NEW j \in jobs, CancelsOther(j) PROVE CurrentAborts'
    BY <1>1, <1>10, CancelsOtherDoes
<1>11. ASSUME NEW j \in jobs, StartReturns(j) PROVE CurrentAborts'
    BY <1>1, <1>11, StartReturnsDoes
<1>12. ASSUME NEW S \in SUBSET jobs, NEW quiet \in BOOLEAN, Fails(S, quiet) PROVE CurrentAborts'
    <2>1. last' = last /\ (jobs' = S \/ \E d : d.kind = "error" /\ jobs' = S \cup {d})
        BY <1>12, FailsDoes
    <2> QED
        BY <1>1, <2>1
<1>13. ASSUME NEW j \in jobs, StartFails(j) PROVE CurrentAborts'
    BY <1>12, <1>13, StartFailsDoes
<1>14. ASSUME StreamFails PROVE CurrentAborts'
    BY <1>12, <1>14, StreamFailsDoes
<1>15. ASSUME NEW j \in jobs, HandlerLoads(j) PROVE CurrentAborts'
    BY <1>1, <1>15, HandlerLoadsDoes
<1>16. ASSUME NEW j \in jobs, Settles(j) PROVE CurrentAborts'
    BY <1>1, <1>16, SettlesDoes
<1>17. ASSUME NEW j \in jobs, AbortArrives(j) PROVE CurrentAborts'
    <2>1. CASE \E d : /\ Is(d, "abort", "loading") /\ d.msg = active
                      /\ jobs' = (jobs \ {j}) \cup {d}
        BY <1>3, <1>17, <2>1, AbortArrivesDoes
    <2>2. CASE jobs' = jobs \ {j} \/ \E d : d.at = "settling" /\ jobs' = (jobs \ {j}) \cup {d}
        BY <1>1, <1>17, <2>2, AbortArrivesDoes
    <2> QED
        BY <1>17, <2>1, <2>2, AbortArrivesDoes
<1>18. ASSUME NEW j \in jobs, Completed(j) PROVE CurrentAborts'
    BY <1>1, <1>18, CompletedDoes
<1>19. ASSUME NEW j \in jobs, ChoiceLoads(j) PROVE CurrentAborts'
    BY <1>2, <1>19, ChoiceLoadsDoes DEF Writing
<1>20. ASSUME NEW j \in jobs, ReadFile(j) PROVE CurrentAborts'
    BY <1>20, ReadFileDoes DEF CurrentAborts
<1>21. ASSUME NEW j \in jobs, RecoveryLoads(j) PROVE CurrentAborts'
    BY <1>1, <1>21, RecoveryLoadsDoes
<1>22. ASSUME NEW j \in jobs, RecoveryReads(j) PROVE CurrentAborts'
    BY <1>1, <1>22, RecoveryReadsDoes
<1>23. ASSUME NEW j \in jobs, RecoveryDecides(j) PROVE CurrentAborts'
    BY <1>1, <1>23, RecoveryDecidesDoes DEF Scheduling
<1>24. ASSUME NEW j \in jobs, RecoveryDerives(j) PROVE CurrentAborts'
    BY <1>1, <1>24, RecoveryDerivesDoes DEF Scheduling
<1>25. ASSUME Send PROVE CurrentAborts'
    BY <1>1, <1>25, SendDoes
<1>26. ASSUME TimerFires PROVE CurrentAborts'
    BY <1>1, <1>26, TimerFiresDoes
<1>27. ASSUME StreamEnds PROVE CurrentAborts'
    BY <1>1, <1>27, StreamEndsDoes
<1>28. ASSUME Resume PROVE CurrentAborts'
    BY <1>1, <1>28, ResumeDoes
<1>29. ASSUME Choose PROVE CurrentAborts'
    BY <1>1, <1>29, ChooseDoes
<1>30. ASSUME Recover PROVE CurrentAborts'
    BY <1>1, <1>30, RecoverDoes
<1>31. ASSUME Stop PROVE CurrentAborts'
    <2>1. last' = last
        BY <1>31, StopDoes
    <2>2. PICK O, c :
              /\ Stopping(O) /\ Is(c, "abort", "forwarding")
              /\ \/ jobs' = O \cup {c}
                 \/ \E d : Is(d, "abort", "loading") /\ d.msg = active /\ jobs' = (O \cup {c}) \cup {d}
                 \/ \E d : IsWrite(d, "abort", "settling") /\ jobs' = (O \cup {c}) \cup {d}
        BY <1>31, StopDoes
    <2>3. /\ \A d \in O : Aborts(d) => d \in jobs
          /\ \A k \in jobs : k.kind = "send" /\ k.at \in {"clearing", "saving"} => k \in O
        BY <2>2 DEF Stopping, Same
    <2>4. CASE \E d : Is(d, "abort", "loading") /\ d.msg = active /\ jobs' = (O \cup {c}) \cup {d}
        BY <1>3, <2>1, <2>3, <2>4
    <2>5. CASE jobs' = O \cup {c} \/ \E d : IsWrite(d, "abort", "settling") /\ jobs' = (O \cup {c}) \cup {d}
        BY <1>1, <2>1, <2>2, <2>3, <2>5
    <2> QED
        BY <2>2, <2>4, <2>5
<1>32. ASSUME Restart PROVE CurrentAborts'
    BY <1>32, RestartDoes DEF CurrentAborts
<1> QED
    BY <1>4, <1>5, <1>6, <1>7, <1>8, <1>9, <1>10, <1>11, <1>13, <1>14, <1>15,
       <1>16, <1>17, <1>18, <1>19, <1>20, <1>21, <1>22, <1>23, <1>24, <1>25, <1>26, <1>27, <1>28,
       <1>29, <1>30, <1>31, <1>32, Steps, Zenon

-----------------------------------------------------------------------------
(* Behind a stop.                                                          *)
ToMark(j) == j.kind = "abort" /\ j.reason # "system" /\ j.at \in {"forwarding", "loading", "loaded"}
Mark == IF memory.preference = "unknown" THEN file.abandoned ELSE memory.abandoned

\* the turn will not be recovered, or a call is about to mark it
Over == answered = TRUE \/ Mark \in {Any, last} \/ \E j \in jobs : ToMark(j)

\* no call under way brings the turn back
Quiet(j) ==
    /\ j.kind # "retry"
    /\ j.kind \in {"send", "resume"} => j.at = "accepting" \/ j.aborted = TRUE
    /\ j.kind = "error" => j.at = "settling"
    /\ j.kind = "startup" /\ j.at = "decide" => j.ok = FALSE \/ memory.abandoned \in {Any, j.msg}
    /\ j.kind = "startup" => j.at # "deriving" /\ \A k \in jobs : k.kind # "abort"

Halted ==
    /\ memory.timer = FALSE /\ stream = FALSE /\ Over
    /\ \A j \in jobs : Quiet(j)
Stopped == userStopped = TRUE /\ missedStop = FALSE => Halted

\* a call that a step puts among the others and that may be there behind a stop
Harmless(d) ==
    /\ d.kind \in {"send", "abort", "end", "choice"}
    /\ d.kind = "send" => d.at = "accepting"

\* steps that add such a call at most, keep the mark, and end nothing that would set it
LEMMA StaysHalted ==
    ASSUME Typed, Halted, stream' = FALSE, memory'.timer = FALSE, answered' = answered \/ answered' = TRUE,
           last' = last, Mark' = Mark,
           memory.preference = "unknown" => \A j \in jobs : j.at # "decide",
           memory.preference # "unknown" => memory'.abandoned = memory.abandoned,
           \A d \in jobs' : \/ \E k \in jobs : d = k
                            \/ Harmless(d) /\ (d.kind = "abort" => \E k \in jobs : k.kind = "abort"),
           \A k \in jobs : ToMark(k) => \E d \in jobs' : ToMark(d)
    PROVE  Halted'
<1>1. Over'
    BY DEF Halted, Over
<1>2. \A d \in jobs' : Quiet(d)'
    <2> SUFFICES ASSUME NEW d \in jobs' PROVE Quiet(d)'
        OBVIOUS
    <2>1. CASE d \in jobs
        BY <2>1 DEF Halted, Quiet, Harmless
    <2>2. CASE d \notin jobs
        BY <2>2 DEF Halted, Quiet, Harmless
    <2> QED
        BY <2>1, <2>2
<1> QED
    BY <1>1, <1>2 DEF Halted

LEMMA StoppedStep ==
    ASSUME MaxSent \in Nat, Typed, Shaped, Known, Alone, Copy, Current, CurrentAborts, Stopped,
           Alone', Next
    PROVE  Stopped'
<1> SUFFICES ASSUME userStopped' = TRUE, missedStop' = FALSE PROVE Halted'
    BY DEF Stopped, Halted, Over, Mark, Quiet, ToMark
<1> USE DEF ghosts, Is, IsWrite
<1>0. /\ \A j \in jobs : j \in JobT /\ Shape(j) /\ j.file \in File
      /\ memory.preference = "unknown" => \A j \in jobs : j.at # "decide"
      /\ \A j \in jobs : j.at = "loaded" => j.file = file /\ memory.preference = "unknown"
      /\ \A f \in File : f.enabled \in BOOLEAN
      /\ memory \in Memory
    BY DEF Typed, Shaped, JobT, Known, Late, Copy, File
<1>1. ASSUME NEW j \in jobs, Accepted(j) PROVE FALSE
    BY <1>1, AcceptedDoes
<1>2. ASSUME Resume PROVE FALSE
    BY <1>2, ResumeDoes
<1>3. ASSUME UNCHANGED <<userStopped, missedStop>> PROVE Halted
    BY <1>3 DEF Stopped
<1>4. ASSUME Halted, NEW j \in jobs, j.at \in {"clearing", "saving", "reading", "starting"}
      PROVE  /\ j.at = "starting" /\ j.aborted = TRUE /\ j.kind # "retry"
    BY <1>0, <1>4 DEF Halted, Quiet, Shape, Places, JobT, Kinds
<1>5. ASSUME NEW j \in jobs, Cleared(j) PROVE FALSE
    BY <1>3, <1>4, <1>5, ClearedDoes
<1>6. ASSUME NEW j \in jobs, Prepare(j) PROVE FALSE
    BY <1>3, <1>4, <1>6, PrepareDoes
<1>7. ASSUME NEW j \in jobs, ReadFails(j) PROVE FALSE
    BY <1>3, <1>4, <1>7, ReadFailsDoes
<1>8. ASSUME NEW j \in jobs, StreamMessage(j) PROVE FALSE
    BY <1>3, <1>4, <1>8, StreamMessageDoes
<1>9. ASSUME NEW j \in jobs, StreamStarts(j) PROVE FALSE
    BY <1>3, <1>4, <1>9, StreamStartsDoes
<1>10. ASSUME NEW j \in jobs, CancelsOther(j) PROVE FALSE
    BY <1>3, <1>4, <1>10, CancelsOtherDoes
<1>11. ASSUME NEW j \in jobs, StartReturns(j) PROVE Halted'
    <2>1. Halted /\ memory' = memory /\ jobs' = jobs \ {j} /\ j.at = "starting"
          /\ UNCHANGED <<file, last, answered, stream>>
        BY <1>3, <1>4, <1>11, StartReturnsDoes
    <2> QED
        BY <1>0, <2>1, StaysHalted DEF Mark, Halted, ToMark
<1>12. ASSUME NEW j \in jobs, StartFails(j) PROVE FALSE
    <2>1. /\ j.at = "starting" /\ j.aborted = FALSE /\ UNCHANGED <<userStopped, missedStop>>
        BY <1>12, StartFailsDoes, FailsDoes
    <2> QED
        BY <1>3, <1>4, <2>1
<1>13. ASSUME StreamFails PROVE FALSE
    <2>1. stream = TRUE /\ UNCHANGED <<userStopped, missedStop>>
        BY <1>13, StreamFailsDoes, FailsDoes
    <2> QED
        BY <1>3, <2>1 DEF Halted
<1>14. ASSUME StreamEnds PROVE FALSE
    BY <1>3, <1>14, StreamEndsDoes DEF Halted
<1>15. ASSUME TimerFires PROVE FALSE
    BY <1>3, <1>15, TimerFiresDoes DEF Halted
<1>16. ASSUME NEW j \in jobs, HandlerLoads(j) PROVE Halted'
    <2>1. /\ Halted /\ j.at = "loaded" /\ j.kind \in {"error", "abort"}
          /\ UNCHANGED <<file, last, answered, stream>>
        BY <1>3, <1>16, HandlerLoadsDoes
    <2>2. j.kind = "abort" /\ j.ok = FALSE /\ j.file = file /\ memory.preference = "unknown"
        BY <1>0, <2>1 DEF Halted, Quiet, Shape
    <2>3. memory'.timer = FALSE /\ memory'.preference # "unknown"
        BY <1>0, <1>16, <2>2, HandlerLoadsDoes
    <2>4. CASE /\ j.reason = "system" /\ memory'.abandoned = j.file.abandoned /\ jobs' = jobs \ {j}
        BY <1>0, <2>1, <2>2, <2>3, <2>4, StaysHalted DEF Mark, Halted, ToMark
    <2>5. CASE /\ memory'.abandoned = MarkOf(j.msg)
               /\ \E d : Is(d, "abort", "settling") /\ jobs' = (jobs \ {j}) \cup {d}
        <3>1. j.msg \in {None, last}
            BY <2>1, <2>2 DEF CurrentAborts, Aborts
        <3>2. Over'
            BY <2>1, <2>3, <2>5, <3>1 DEF Over, Mark, MarkOf
        <3>3. \A d \in jobs' : Quiet(d)'
            BY <2>1, <2>2, <2>5 DEF Halted, Quiet
        <3> QED
            BY <2>1, <2>3, <3>2, <3>3 DEF Halted
    <2> QED
        BY <1>16, <2>2, <2>4, <2>5, HandlerLoadsDoes
<1>17. ASSUME NEW j \in jobs, Settles(j) PROVE Halted'
    <2>1. /\ Halted /\ j.at = "settling" /\ memory' = memory
          /\ UNCHANGED <<last, answered, stream>>
          /\ \/ \E d : Is(d, "end", "completing") /\ jobs' = (jobs \ {j}) \cup {d}
             \/ jobs' = jobs \ {j}
        BY <1>3, <1>17, SettlesDoes
    <2>2. memory.preference # "unknown"
        BY <2>1 DEF Alone, Writing
    <2> QED
        BY <2>1, <2>2, StaysHalted DEF Mark, Halted, Harmless, ToMark
<1>18. ASSUME NEW j \in jobs, AbortArrives(j) PROVE Halted'
    <2>1. /\ Halted /\ j.kind = "abort" /\ j.at = "forwarding" /\ memory'.timer = FALSE
          /\ UNCHANGED <<file, last, answered, stream>>
        BY <1>3, <1>18, AbortArrivesDoes DEF Halted
    <2>2. CASE /\ memory' = memory
               /\ \E d : /\ Is(d, "abort", "loading") /\ d.reason = j.reason
                         /\ jobs' = (jobs \ {j}) \cup {d}
        BY <1>0, <2>1, <2>2, StaysHalted DEF Mark, Halted, Harmless, ToMark
    <2>3. CASE j.reason = "system" /\ jobs' = jobs \ {j} /\ Keeps(memory)
        BY <1>0, <2>1, <2>3, StaysHalted DEF Mark, Halted, Harmless, ToMark, Keeps
    <2>4. CASE /\ Remarks(memory, MarkOf(active))
               /\ \E d : IsWrite(d, "abort", "settling") /\ jobs' = (jobs \ {j}) \cup {d}
        <3>1. active \in {None, last}
            BY <1>4, <2>1 DEF Current, Sending
        <3>2. memory'.preference # "unknown"
            BY <2>4 DEF Alone, Writing
        <3>3. Over'
            BY <2>1, <2>4, <3>1, <3>2 DEF Over, Mark, MarkOf, Remarks
        <3>4. \A d \in jobs' : Quiet(d)'
            BY <2>1, <2>4 DEF Halted, Quiet
        <3> QED
            BY <2>1, <3>3, <3>4 DEF Halted
    <2> QED
        BY <1>18, <2>2, <2>3, <2>4, AbortArrivesDoes
<1>19. ASSUME NEW j \in jobs, Completed(j) PROVE Halted'
    <2>1. /\ Halted /\ j.kind = "end" /\ memory' = memory /\ jobs' = jobs \ {j}
          /\ UNCHANGED <<file, last, answered, stream>>
        BY <1>3, <1>19, CompletedDoes
    <2> QED
        BY <1>0, <2>1, StaysHalted DEF Mark, Halted, ToMark
<1>20. ASSUME NEW j \in jobs, ChoiceLoads(j) PROVE Halted'
    <2>1. /\ Halted /\ j.kind = "choice" /\ j.at = "loaded" /\ memory'.preference # "unknown"
          /\ UNCHANGED <<file, last, answered, stream>>
          /\ \E d : IsWrite(d, "choice", "settling") /\ jobs' = (jobs \ {j}) \cup {d}
        BY <1>3, <1>20, ChoiceLoadsDoes
    <2>2. memory'.timer = FALSE /\ memory'.abandoned = j.file.abandoned
        BY <1>0, <1>20, <2>1, ChoiceLoadsDoes DEF Halted
    <2>3. j.file = file /\ memory.preference = "unknown"
        BY <1>0, <2>1
    <2> QED
        BY <1>0, <2>1, <2>2, <2>3, StaysHalted DEF Mark, Halted, Harmless, ToMark
<1>21. ASSUME Choose PROVE Halted'
    <2>1. Halted /\ UNCHANGED <<file, last, answered, stream>>
        BY <1>3, <1>21, ChooseDoes
    <2>2. /\ memory'.timer = FALSE /\ memory'.abandoned = memory.abandoned
          /\ memory.preference = "unknown" <=> memory'.preference = "unknown"
        BY <1>0, <1>21, <2>1, ChooseDoes DEF Halted, Opts
    <2>3. \E d : d \in JobT /\ d.kind = "choice" /\ jobs' = jobs \cup {d}
        BY <1>21, ChooseDoes
    <2> QED
        BY <1>0, <2>1, <2>2, <2>3, StaysHalted DEF Mark, Halted, Harmless, ToMark
<1>22. ASSUME NEW j \in jobs, ReadFile(j) PROVE Halted'
    <2>1. /\ Halted /\ j.at = "loading" /\ UNCHANGED <<file, last, answered, memory, stream>>
        BY <1>3, <1>22, ReadFileDoes
    <2>2. PICK d : /\ Is(d, j.kind, "loaded") /\ d.reason = j.reason /\ jobs' = (jobs \ {j}) \cup {d}
        BY <1>22, ReadFileDoes
    <2>3. Over'
        BY <2>1, <2>2 DEF Halted, Over, Mark, ToMark
    <2>4. j.kind \in {"abort", "choice", "startup"}
        BY <1>0, <2>1 DEF Halted, Quiet, Shape, Places, JobT, Kinds
    <2>5. \A k \in jobs' : Quiet(k)'
        BY <2>1, <2>2, <2>4 DEF Halted, Quiet
    <2> QED
        BY <2>1, <2>3, <2>5 DEF Halted
<1>23. ASSUME NEW j \in jobs, RecoveryLoads(j) PROVE Halted'
    <2>1. /\ Halted /\ j.kind = "startup" /\ j.at = "loaded" /\ memory'.preference # "unknown"
          /\ UNCHANGED <<file, last, answered, stream>>
        BY <1>3, <1>23, RecoveryLoadsDoes
    <2>2. memory'.timer = FALSE /\ memory'.abandoned = j.file.abandoned
        BY <1>0, <1>23, <2>1, RecoveryLoadsDoes DEF Halted
    <2>3. j.file = file /\ memory.preference = "unknown"
        BY <1>0, <2>1
    <2>4. CASE jobs' = jobs \ {j}
        BY <1>0, <2>1, <2>2, <2>3, <2>4, StaysHalted DEF Mark, Halted, ToMark
    <2>5. CASE \E d : Is(d, "startup", "history") /\ jobs' = (jobs \ {j}) \cup {d}
        <3>1. Over'
            BY <2>1, <2>2, <2>3, <2>5 DEF Halted, Over, Mark, ToMark
        <3>2. \A k \in jobs' : Quiet(k)'
            BY <1>0, <2>1, <2>3, <2>5 DEF Halted, Quiet
        <3> QED
            BY <2>1, <2>2, <3>1, <3>2 DEF Halted
    <2> QED
        BY <1>23, <2>4, <2>5, RecoveryLoadsDoes
\* what the recovery reads is answered or marked
<1>24. ASSUME NEW j \in jobs, RecoveryReads(j) PROVE Halted'
    <2>1. /\ Halted /\ j.kind = "startup" /\ j.at = "history"
          /\ UNCHANGED <<file, last, answered, memory, stream>>
        BY <1>3, <1>24, RecoveryReadsDoes
    <2>2. PICK d : /\ Is(d, "startup", "decide") /\ d.msg = last
                   /\ answered = TRUE => d.ok = FALSE
                   /\ jobs' = (jobs \ {j}) \cup {d}
        BY <1>24, RecoveryReadsDoes
    <2>3. memory.preference # "unknown"
        BY <2>1 DEF Known, Late
    <2>4. \A k \in jobs : k.kind # "abort"
        BY <2>1 DEF Halted, Quiet
    <2>5. answered = TRUE \/ memory.abandoned \in {Any, last}
        BY <2>1, <2>3, <2>4 DEF Halted, Over, Mark, ToMark
    <2>6. Over'
        BY <2>1, <2>3, <2>5 DEF Over, Mark
    <2>7. \A k \in jobs' : Quiet(k)'
        BY <2>1, <2>2, <2>4, <2>5 DEF Halted, Quiet
    <2> QED
        BY <2>1, <2>6, <2>7 DEF Halted
<1>25. ASSUME NEW j \in jobs, RecoveryDecides(j) PROVE Halted'
    <2>1. /\ Halted /\ j.kind = "startup" /\ j.at = "decide"
          /\ UNCHANGED <<file, last, answered, stream>>
        BY <1>3, <1>25, RecoveryDecidesDoes
    <2>2. j.ok = FALSE \/ memory.abandoned \in {Any, j.msg}
        BY <2>1 DEF Halted, Quiet
    <2>3. memory' = memory /\ jobs' = jobs \ {j}
        BY <1>25, <2>2, RecoveryDecidesDoes
    <2> QED
        BY <1>0, <2>1, <2>3, StaysHalted DEF Mark, Halted, ToMark
<1>26. ASSUME NEW j \in jobs, RecoveryDerives(j) PROVE FALSE
    BY <1>3, <1>26, RecoveryDerivesDoes DEF Halted, Quiet
<1>27. ASSUME Send PROVE Halted'
    <2>1. Halted /\ UNCHANGED <<file, last, answered, memory, stream>>
        BY <1>3, <1>27, SendDoes
    <2>2. PICK d : Is(d, "send", "accepting") /\ jobs' = jobs \cup {d}
        BY <1>27, SendDoes
    <2> QED
        BY <1>0, <2>1, <2>2, StaysHalted DEF Mark, Halted, Harmless, ToMark
<1>28. ASSUME Recover PROVE Halted'
    <2>1. /\ Halted /\ UNCHANGED <<file, last, answered, memory, stream>>
          /\ \A j \in jobs : j.kind # "abort"
        BY <1>28, RecoverDoes DEF Stopped
    <2>2. jobs' = jobs \/ \E d : d.kind = "startup" /\ d.at \in {"history", "loading"} /\ jobs' = jobs \cup {d}
        BY <1>28, RecoverDoes
    <2>3. Over'
        BY <2>1 DEF Halted, Over, Mark, ToMark
    <2>4. \A k \in jobs' : Quiet(k)'
        BY <2>1, <2>2 DEF Halted, Quiet
    <2> QED
        BY <2>1, <2>3, <2>4 DEF Halted
\* a stop that meets no call it cannot reach
<1>29. ASSUME Stop PROVE Halted'
    <2>1. /\ stream' = FALSE /\ memory'.timer = FALSE /\ \A k \in jobs : ~BeyondStop(k)
          /\ UNCHANGED <<last, answered>>
        BY <1>29, StopDoes
    <2>2. PICK O, c :
              /\ Stopping(O) /\ Is(c, "abort", "forwarding") /\ c.reason = "user"
              /\ \/ jobs' = O \cup {c}
                 \/ \E d : Is(d, "abort", "loading") /\ jobs' = (O \cup {c}) \cup {d}
                 \/ \E d : IsWrite(d, "abort", "settling") /\ jobs' = (O \cup {c}) \cup {d}
        BY <1>29, StopDoes
    <2>3. Over'
        BY <2>2 DEF Over, ToMark
    <2>4. \A k \in jobs : /\ k.kind \notin {"retry", "startup"}
                          /\ k.kind \in {"send", "resume"} => k.pending
                          /\ k.kind = "error" => k.at = "settling"
        BY <1>0, <2>1 DEF BeyondStop, Shape, Places
    <2>5. \A d \in O : /\ d.kind \notin {"retry", "startup"}
                       /\ d.kind \in {"send", "resume"} => d.aborted = TRUE
                       /\ d.kind = "error" => d.at = "settling"
        BY <2>2, <2>4 DEF Stopping, Same
    <2>6. \A d \in jobs' : d \in O \/ d.kind = "abort"
        BY <2>2
    <2>7. \A d \in jobs' : Quiet(d)'
        BY <2>5, <2>6 DEF Quiet
    <2> QED
        BY <2>1, <2>3, <2>7 DEF Halted
<1>30. ASSUME Restart PROVE Halted'
    <2>1. /\ missedStop = FALSE /\ userStopped = TRUE /\ jobs = {} /\ UNCHANGED <<file, last, answered>>
          /\ jobs' = {} /\ memory'.timer = FALSE /\ stream' = FALSE /\ memory'.preference = "unknown"
        BY <1>30, RestartDoes
    <2>2. Halted
        BY <2>1 DEF Stopped
    <2>3. memory.preference # "unknown" => file = Persisted(memory)
        BY <2>1 DEF Copy
    <2>4. memory.preference # "unknown" => file.abandoned = memory.abandoned
        BY <1>0, <2>3, PersistedIs
    <2>5. Over'
        BY <2>1, <2>2, <2>4 DEF Halted, Over, Mark
    <2> QED
        BY <2>1, <2>5 DEF Halted
<1> QED
    BY <1>1, <1>2, <1>5, <1>6, <1>7, <1>8, <1>9, <1>10, <1>11, <1>12, <1>13, <1>14, <1>15,
       <1>16, <1>17, <1>18, <1>19, <1>20, <1>21, <1>22, <1>23, <1>24, <1>25, <1>26, <1>27, <1>28,
       <1>29, <1>30, Steps, Zenon

-----------------------------------------------------------------------------
(* A failed turn that may be retried.                                      *)
Starts(j) == j.at = "starting" /\ j.aborted = FALSE
Asks(j) == j.kind = "error" /\ j.at \in {"loading", "loaded"}
Retries(j) == j.kind = "retry" /\ j.at = "reading"

\* no abort is under way unless an attempt is
Unaborted == stream = TRUE \/ (\E j \in jobs : Starts(j)) \/ \A j \in jobs : j.kind # "abort"
Owing == owed = TRUE => optedOut = FALSE /\ Unaborted

\* something is under way, and a failure that waits for the preference may be retried
UnderWay ==
    /\ stream = TRUE \/ memory.timer = TRUE \/ \E j \in jobs : Starts(j) \/ Asks(j) \/ Retries(j)
    /\ \A j \in jobs : Asks(j) => j.ok = TRUE
Going == owed = TRUE => UnderWay

LEMMA OwingStep ==
    ASSUME MaxSent \in Nat, Typed, Shaped, Owing, Next
    PROVE  Owing'
<1> SUFFICES ASSUME owed' = TRUE PROVE optedOut' = FALSE /\ Unaborted'
    BY DEF Owing, Unaborted, Starts
<1> USE DEF ghosts, Is, IsWrite
<1>0. /\ \A j \in jobs : j \in JobT /\ Shape(j)
      /\ owed \in BOOLEAN
    BY DEF Typed, Shaped
\* no abort more, and no attempt less
<1>1. ASSUME owed = TRUE, stream' = stream,
             \A d \in jobs' : d.kind = "abort" => \E k \in jobs : k.kind = "abort",
             \A k \in jobs : Starts(k) => \E d \in jobs' : Starts(d)
      PROVE  Unaborted'
    <2>1. Unaborted
        BY <1>1 DEF Owing
    <2> QED
        BY <1>1, <2>1 DEF Unaborted, Starts
<1>2. ASSUME owed = TRUE PROVE optedOut = FALSE
    BY <1>2 DEF Owing
<1>3. ASSUME NEW j \in jobs, Accepted(j) PROVE optedOut' = FALSE /\ Unaborted'
    BY <1>1, <1>2, <1>3, AcceptedDoes DEF Starts
<1>4. ASSUME NEW j \in jobs, Cleared(j) PROVE FALSE
    BY <1>4, ClearedDoes
<1>5. ASSUME NEW j \in jobs, Prepare(j) PROVE optedOut' = FALSE /\ Unaborted'
    BY <1>1, <1>2, <1>5, PrepareDoes DEF Starts
<1>6. ASSUME NEW j \in jobs, ReadFails(j) PROVE optedOut' = FALSE /\ Unaborted'
    BY <1>1, <1>2, <1>6, ReadFailsDoes DEF Starts
<1>7. ASSUME NEW j \in jobs, StreamMessage(j) PROVE optedOut' = FALSE /\ Unaborted'
    <2>1. owed = TRUE /\ optedOut' = optedOut /\ \E d \in jobs' : Starts(d)
        BY <1>7, StreamMessageDoes DEF Starts
    <2> QED
        BY <1>2, <2>1 DEF Unaborted, Starts
<1>8. ASSUME NEW j \in jobs, StreamStarts(j) PROVE optedOut' = FALSE /\ Unaborted'
    BY <1>2, <1>8, StreamStartsDoes DEF Unaborted
<1>9. ASSUME NEW j \in jobs, CancelsOther(j) PROVE optedOut' = FALSE /\ Unaborted'
    <2>1. owed = TRUE /\ optedOut' = optedOut /\ Starts(j) /\ j \in jobs'
        BY <1>9, CancelsOtherDoes DEF Starts
    <2> QED
        BY <1>2, <2>1 DEF Unaborted, Starts
<1>10. ASSUME NEW j \in jobs, StartReturns(j) PROVE optedOut' = FALSE /\ Unaborted'
    BY <1>1, <1>2, <1>10, StartReturnsDoes DEF Starts
<1>11. ASSUME NEW S \in SUBSET jobs, NEW quiet \in BOOLEAN, Fails(S, quiet)
       PROVE  optedOut' = FALSE /\ Unaborted'
    <2>1. /\ optedOut' = FALSE /\ \A k \in S : k.kind # "abort"
        BY <1>11, FailsDoes
    <2>2. jobs' = S \/ \E d : d.kind = "error" /\ jobs' = S \cup {d}
        BY <1>11, FailsDoes
    <2> QED
        BY <2>1, <2>2 DEF Unaborted
<1>12. ASSUME NEW j \in jobs, StartFails(j) PROVE optedOut' = FALSE /\ Unaborted'
    BY <1>11, <1>12, StartFailsDoes
<1>13. ASSUME StreamFails PROVE optedOut' = FALSE /\ Unaborted'
    BY <1>11, <1>13, StreamFailsDoes
<1>14. ASSUME NEW j \in jobs, HandlerLoads(j) PROVE optedOut' = FALSE /\ Unaborted'
    <2>1. /\ owed = TRUE /\ optedOut' = optedOut /\ stream' = stream /\ j.at = "loaded"
          /\ jobs' = jobs \ {j} \/ \E d : Is(d, j.kind, "settling") /\ jobs' = (jobs \ {j}) \cup {d}
        BY <1>14, HandlerLoadsDoes
    <2> QED
        BY <1>1, <1>2, <2>1 DEF Starts
<1>15. ASSUME NEW j \in jobs, Settles(j) PROVE optedOut' = FALSE /\ Unaborted'
    BY <1>1, <1>2, <1>15, SettlesDoes DEF Starts
<1>16. ASSUME NEW j \in jobs, AbortArrives(j) PROVE optedOut' = FALSE /\ Unaborted'
    <2>1. /\ owed = TRUE /\ optedOut' = optedOut /\ stream' = stream
          /\ j.kind = "abort" /\ j.at = "forwarding"
        BY <1>16, AbortArrivesDoes
    <2>2. jobs' = jobs \ {j} \/ \E d : jobs' = (jobs \ {j}) \cup {d}
        BY <1>16, AbortArrivesDoes
    <2> QED
        BY <1>1, <1>2, <2>1, <2>2 DEF Starts
<1>17. ASSUME NEW j \in jobs, Completed(j) PROVE optedOut' = FALSE /\ Unaborted'
    BY <1>1, <1>2, <1>17, CompletedDoes DEF Starts
<1>18. ASSUME NEW j \in jobs, ChoiceLoads(j) PROVE optedOut' = FALSE /\ Unaborted'
    <2>1. owed = TRUE /\ j.ok = TRUE /\ optedOut' = FALSE
        BY <1>0, <1>18, ChoiceLoadsDoes
    <2> QED
        BY <1>1, <1>18, <2>1, ChoiceLoadsDoes DEF Starts
<1>19. ASSUME Choose PROVE optedOut' = FALSE /\ Unaborted'
    <2>1. owed = TRUE /\ optedOut' = FALSE
        BY <1>0, <1>2, <1>19, ChooseDoes
    <2>2. \E d : d.kind = "choice" /\ jobs' = jobs \cup {d}
        BY <1>19, ChooseDoes
    <2>3. stream' = stream
        BY <1>19, ChooseDoes
    <2> QED
        BY <1>1, <2>1, <2>2, <2>3
<1>20. ASSUME NEW j \in jobs, ReadFile(j) PROVE optedOut' = FALSE /\ Unaborted'
    BY <1>1, <1>2, <1>20, ReadFileDoes DEF Starts
<1>21. ASSUME NEW j \in jobs, RecoveryLoads(j) PROVE optedOut' = FALSE /\ Unaborted'
    BY <1>1, <1>2, <1>21, RecoveryLoadsDoes DEF Starts
<1>22. ASSUME NEW j \in jobs, RecoveryReads(j) PROVE optedOut' = FALSE /\ Unaborted'
    BY <1>1, <1>2, <1>22, RecoveryReadsDoes DEF Starts
<1>23. ASSUME NEW j \in jobs, RecoveryDecides(j) PROVE optedOut' = FALSE /\ Unaborted'
    BY <1>1, <1>2, <1>23, RecoveryDecidesDoes DEF Starts, Scheduling
<1>24. ASSUME NEW j \in jobs, RecoveryDerives(j) PROVE optedOut' = FALSE /\ Unaborted'
    BY <1>1, <1>2, <1>24, RecoveryDerivesDoes DEF Starts, Scheduling
<1>25. ASSUME Send PROVE optedOut' = FALSE /\ Unaborted'
    BY <1>1, <1>2, <1>25, SendDoes
<1>26. ASSUME TimerFires PROVE optedOut' = FALSE /\ Unaborted'
    BY <1>1, <1>2, <1>26, TimerFiresDoes
<1>27. ASSUME StreamEnds PROVE FALSE
    BY <1>27, StreamEndsDoes
<1>28. ASSUME Resume PROVE optedOut' = FALSE /\ Unaborted'
    BY <1>1, <1>2, <1>28, ResumeDoes
<1>29. ASSUME Recover PROVE optedOut' = FALSE /\ Unaborted'
    BY <1>1, <1>2, <1>29, RecoverDoes
<1>30. ASSUME Stop PROVE FALSE
    BY <1>30, StopDoes
<1>31. ASSUME Restart PROVE FALSE
    BY <1>31, RestartDoes
<1> QED
    BY <1>3, <1>4, <1>5, <1>6, <1>7, <1>8, <1>9, <1>10, <1>12, <1>13, <1>14, <1>15,
       <1>16, <1>17, <1>18, <1>19, <1>20, <1>21, <1>22, <1>23, <1>24, <1>25, <1>26, <1>27, <1>28,
       <1>29, <1>30, <1>31, Steps, Zenon

LEMMA GoingStep ==
    ASSUME MaxSent \in Nat, Typed, Shaped, Known, Alone, Copy, Opted, Owing, Going, Alone', Copy', Next
    PROVE  Going'
<1> SUFFICES ASSUME owed' = TRUE PROVE UnderWay'
    BY DEF Going, UnderWay, Starts, Asks, Retries
<1> USE DEF ghosts, Is, IsWrite
<1>0. /\ \A j \in jobs : j \in JobT /\ Shape(j) /\ j.file \in File
      /\ owed \in BOOLEAN /\ optedOut \in BOOLEAN /\ memory \in Memory
      /\ memory.preference \in {"unknown", "on", "off"}
      /\ \A j \in jobs : j.at = "loaded" => j.file = file /\ memory.preference = "unknown"
      /\ memory.timer \in BOOLEAN
    BY DEF Typed, Shaped, JobT, Copy, Memory
\* nothing that is under way ends, but perhaps in something else that is
<1>1. ASSUME owed = TRUE, stream' = stream, memory'.timer = memory.timer,
             \A k \in jobs : Starts(k) \/ Asks(k) \/ Retries(k) =>
                \E d \in jobs' : Starts(d) \/ Asks(d) \/ Retries(d),
             \A d \in jobs' : Asks(d) => \E k \in jobs : Asks(k) /\ d.ok = k.ok
      PROVE  UnderWay'
    <2>1. UnderWay
        BY <1>1 DEF Going
    <2> QED
        BY <1>1, <2>1 DEF UnderWay, Starts, Asks, Retries
\* something begins
<1>2. ASSUME owed = TRUE,
             stream' = TRUE \/ memory'.timer = TRUE \/ \E d \in jobs' : Starts(d) \/ Retries(d),
             \A d \in jobs' : Asks(d) => \E k \in jobs : Asks(k) /\ d.ok = k.ok
      PROVE  UnderWay'
    <2>1. UnderWay
        BY <1>2 DEF Going
    <2> QED
        BY <1>2, <2>1 DEF UnderWay, Starts, Asks, Retries
<1>3. ASSUME owed = TRUE
      PROVE  /\ memory.preference # "off" /\ optedOut = FALSE
             /\ memory.preference = "on" => memory.enabled = TRUE
             /\ memory.preference = "unknown" => file.enabled = TRUE /\ memory.timer = FALSE
    BY <1>0, <1>3 DEF Owing, Opted, Known
<1>4. ASSUME NEW j \in jobs, Accepted(j) PROVE UnderWay'
    BY <1>1, <1>4, AcceptedDoes DEF Starts, Asks, Retries
<1>5. ASSUME NEW j \in jobs, Cleared(j) PROVE FALSE
    BY <1>5, ClearedDoes
<1>6. ASSUME NEW j \in jobs, Prepare(j) PROVE UnderWay'
    BY <1>1, <1>6, PrepareDoes DEF Starts, Asks, Retries
<1>7. ASSUME NEW j \in jobs, ReadFails(j) PROVE UnderWay'
    <2>1. owed = TRUE /\ j.at = "reading" /\ stream' = stream
        BY <1>7, ReadFailsDoes
    <2>2. CASE memory' = memory /\ jobs' = jobs \ {j} /\ j.kind # "retry"
        BY <1>1, <2>1, <2>2 DEF Starts, Asks, Retries
    <2>3. CASE /\ j.kind = "retry" /\ memory'.timer = Failed(memory, TRUE)
               /\ \/ \E d : Is(d, "retry", "settling") /\ jobs' = (jobs \ {j}) \cup {d}
                  \/ jobs' = jobs \ {j}
        <3>1. memory.enabled = TRUE
            BY <1>0, <1>3, <2>1, <2>3 DEF Known
        <3>2. memory'.timer = TRUE
            BY <2>3, <3>1 DEF Failed
        <3> QED
            BY <1>2, <2>1, <2>3, <3>2 DEF Asks
    <2> QED
        BY <1>7, <2>2, <2>3, ReadFailsDoes
<1>8. ASSUME NEW j \in jobs, StreamMessage(j) PROVE UnderWay'
    <2>1. /\ owed = TRUE
          /\ \A d \in jobs' : \/ Is(d, j.kind, "starting") /\ d.aborted = FALSE
                              \/ \E k \in jobs \ {j} : Same(d, k) /\ d.aborted = k.aborted
          /\ \E d \in jobs' : Is(d, j.kind, "starting") /\ d.aborted = FALSE
        BY <1>8, StreamMessageDoes
    <2> QED
        BY <1>2, <2>1 DEF Starts, Asks, Same
<1>9. ASSUME NEW j \in jobs, StreamStarts(j) PROVE UnderWay'
    BY <1>2, <1>9, StreamStartsDoes DEF Asks
<1>10. ASSUME NEW j \in jobs, CancelsOther(j) PROVE UnderWay'
    <2>1. owed = TRUE /\ Starts(j) /\ \E d : d.kind = "abort" /\ jobs' = jobs \cup {d}
        BY <1>10, CancelsOtherDoes DEF Starts
    <2> QED
        BY <1>2, <2>1 DEF Asks
<1>11. ASSUME NEW j \in jobs, StartReturns(j) PROVE UnderWay'
    BY <1>1, <1>11, StartReturnsDoes DEF Starts, Asks, Retries
<1>12. ASSUME NEW S \in SUBSET jobs, NEW quiet \in BOOLEAN, Fails(S, quiet)
       PROVE  UnderWay'
    <2>1. PICK ok \in BOOLEAN :
              /\ owed' = TRUE => ok = TRUE /\ userStopped = FALSE /\ optedOut = FALSE
              /\ \/ /\ memory.preference = "unknown" /\ memory' = memory
                    /\ \E d : /\ Is(d, "error", "loading") /\ d.ok = ok
                              /\ jobs' = S \cup {d}
                 \/ /\ memory.preference # "unknown" /\ memory'.timer = Failed(memory, ok)
                    /\ \/ \E mark \in 0..Any : Remarks(memory, mark)
                       \/ Keeps(memory)
        BY <1>12, FailsDoes
    <2>2. ok = TRUE /\ optedOut = FALSE
        BY <2>1
    <2>3. CASE \E d : /\ Is(d, "error", "loading") /\ d.ok = ok /\ jobs' = S \cup {d}
        <3>1. PICK d : d.kind = "error" /\ d.at = "loading" /\ d.ok = TRUE /\ d \in jobs'
            BY <2>2, <2>3
        <3>2. \A k \in jobs' : Asks(k) => k = d
            BY <3>1 DEF Alone, UsesFile, Asks
        <3> QED
            BY <3>1, <3>2 DEF UnderWay, Asks
    <2>4. CASE /\ memory.preference # "unknown" /\ memory'.timer = Failed(memory, ok)
               /\ \/ \E mark \in 0..Any : Remarks(memory, mark)
                  \/ Keeps(memory)
        <3>1. memory'.preference # "unknown"
            BY <2>4 DEF Remarks, Keeps
        <3>2. \A k \in jobs' : ~Asks(k)
            BY <3>1 DEF Copy, Asks
        <3>3. memory.enabled = TRUE
            BY <1>0, <2>2, <2>4 DEF Opted, Known
        <3>4. memory'.timer = TRUE
            BY <2>2, <2>4, <3>3 DEF Failed
        <3> QED
            BY <3>2, <3>4 DEF UnderWay, Asks
    <2> QED
        BY <2>1, <2>3, <2>4
<1>13. ASSUME NEW j \in jobs, StartFails(j) PROVE UnderWay'
    BY <1>12, <1>13, StartFailsDoes
<1>14. ASSUME StreamFails PROVE UnderWay'
    BY <1>12, <1>14, StreamFailsDoes
<1>15. ASSUME NEW j \in jobs, HandlerLoads(j) PROVE UnderWay'
    <2>1. /\ owed = TRUE /\ j.at = "loaded" /\ stream' = stream
          /\ memory'.timer = (IF j.file.enabled THEN j.ok ELSE FALSE)
          /\ j.kind \in {"error", "abort"}
          /\ jobs' = jobs \ {j} \/ \E d : Is(d, j.kind, "settling") /\ jobs' = (jobs \ {j}) \cup {d}
        BY <1>15, HandlerLoadsDoes
    <2>2. j.file.enabled = TRUE /\ memory.timer = FALSE
        BY <1>0, <1>3, <2>1
    <2>3. memory'.timer = j.ok
        BY <2>1, <2>2
    <2>4. \A d \in jobs' : Asks(d) => d \in jobs
        BY <2>1 DEF Asks
    <2>5. CASE j.kind = "error"
        <3>1. j.ok = TRUE
            BY <2>1, <2>5 DEF Going, UnderWay, Asks
        <3> QED
            BY <1>2, <2>1, <2>3, <2>4, <3>1
    <2>6. CASE j.kind = "abort"
        <3>1. j.ok = FALSE
            BY <1>0, <2>6 DEF Shape
        <3>2. memory'.timer = memory.timer
            BY <2>2, <2>3, <3>1
        <3>3. \A k \in jobs : Starts(k) \/ Asks(k) \/ Retries(k) => k \in jobs'
            BY <2>1, <2>6 DEF Starts, Asks, Retries
        <3> QED
            BY <1>1, <2>1, <2>4, <3>2, <3>3
    <2> QED
        BY <2>1, <2>5, <2>6
<1>16. ASSUME NEW j \in jobs, Settles(j) PROVE UnderWay'
    BY <1>1, <1>16, SettlesDoes DEF Starts, Asks, Retries
\* an abort arrives only while an attempt is under way
<1>17. ASSUME NEW j \in jobs, AbortArrives(j) PROVE UnderWay'
    <2>1. /\ owed = TRUE /\ stream' = stream /\ j.kind = "abort" /\ j.at = "forwarding"
        BY <1>17, AbortArrivesDoes
    <2>2. jobs' = jobs \ {j} \/ \E d : d.kind = "abort" /\ jobs' = (jobs \ {j}) \cup {d}
        BY <1>17, AbortArrivesDoes
    <2>3. stream = TRUE \/ \E k \in jobs : Starts(k)
        BY <2>1 DEF Owing, Unaborted
    <2>4. stream' = TRUE \/ \E d \in jobs' : Starts(d)
        BY <2>1, <2>2, <2>3 DEF Starts
    <2> QED
        BY <1>2, <2>1, <2>2, <2>4 DEF Asks
<1>18. ASSUME NEW j \in jobs, Completed(j) PROVE UnderWay'
    BY <1>1, <1>18, CompletedDoes DEF Starts, Asks, Retries
<1>19. ASSUME NEW j \in jobs, ChoiceLoads(j) PROVE UnderWay'
    <2>1. owed = TRUE /\ j.kind = "choice" /\ j.at = "loaded" /\ stream' = stream
        BY <1>0, <1>19, ChoiceLoadsDoes
    <2>2. memory.timer = FALSE
        BY <1>0, <1>3, <2>1
    <2>3. memory'.timer = memory.timer
        BY <1>19, <2>2, ChoiceLoadsDoes
    <2>4. \E d : d.kind = "choice" /\ jobs' = (jobs \ {j}) \cup {d}
        BY <1>19, ChoiceLoadsDoes
    <2> QED
        BY <1>1, <2>1, <2>3, <2>4 DEF Starts, Asks, Retries
<1>20. ASSUME Choose PROVE UnderWay'
    <2>1. owed = TRUE /\ memory'.timer = memory.timer
        BY <1>0, <1>20, ChooseDoes
    <2>2. stream' = stream /\ \E d : d.kind = "choice" /\ jobs' = jobs \cup {d}
        BY <1>20, ChooseDoes
    <2> QED
        BY <1>1, <2>1, <2>2 DEF Asks
<1>21. ASSUME NEW j \in jobs, ReadFile(j) PROVE UnderWay'
    <2>1. j.at = "loading" /\ UNCHANGED <<memory, stream, owed>>
        BY <1>21, ReadFileDoes
    <2>2. PICK d : d.kind = j.kind /\ d.at = "loaded" /\ d.ok = j.ok /\ jobs' = (jobs \ {j}) \cup {d}
        BY <1>21, ReadFileDoes
    <2>3. /\ \A k \in jobs : Starts(k) \/ Asks(k) \/ Retries(k) => k \in jobs' \/ Asks(d)
          /\ \A k \in jobs' : Asks(k) => k \in jobs \/ (Asks(j) /\ k.ok = j.ok)
        BY <2>1, <2>2 DEF Starts, Asks, Retries
    <2> QED
        BY <1>1, <2>1, <2>2, <2>3
<1>22. ASSUME NEW j \in jobs, RecoveryLoads(j) PROVE UnderWay'
    <2>1. owed = TRUE /\ j.kind = "startup" /\ j.at = "loaded" /\ stream' = stream
        BY <1>22, RecoveryLoadsDoes
    <2>2. memory.timer = FALSE
        BY <1>0, <1>3, <2>1
    <2>3. memory'.timer = memory.timer
        BY <1>22, <2>2, RecoveryLoadsDoes
    <2>4. jobs' = jobs \ {j} \/ \E d : d.kind = "startup" /\ d.at = "history" /\ jobs' = (jobs \ {j}) \cup {d}
        BY <1>22, RecoveryLoadsDoes
    <2> QED
        BY <1>1, <2>1, <2>3, <2>4 DEF Starts, Asks, Retries
<1>23. ASSUME NEW j \in jobs, RecoveryReads(j) PROVE UnderWay'
    BY <1>1, <1>23, RecoveryReadsDoes DEF Starts, Asks, Retries
<1>24. ASSUME NEW j \in jobs, j.kind = "startup", j.at \in {"decide", "deriving"}, Scheduling(j),
              owed = TRUE, stream' = stream
       PROVE  UnderWay'
    <2>1. jobs' = jobs \ {j} /\ (memory'.timer = memory.timer \/ memory'.timer = TRUE)
        BY <1>24 DEF Scheduling
    <2> QED
        BY <1>1, <1>2, <1>24, <2>1 DEF Starts, Asks, Retries
<1>25. ASSUME NEW j \in jobs, RecoveryDecides(j) PROVE UnderWay'
    <2>1. owed = TRUE /\ stream' = stream /\ j.kind = "startup" /\ j.at = "decide"
        BY <1>25, RecoveryDecidesDoes
    <2>2. \/ Scheduling(j)
          \/ memory' = memory /\ jobs' = jobs \ {j}
          \/ /\ memory' = memory
             /\ \E d : d.kind = "startup" /\ d.at = "deriving" /\ jobs' = (jobs \ {j}) \cup {d}
        BY <1>25, RecoveryDecidesDoes
    <2> QED
        BY <1>1, <1>24, <2>1, <2>2 DEF Starts, Asks, Retries
<1>26. ASSUME NEW j \in jobs, RecoveryDerives(j) PROVE UnderWay'
    BY <1>24, <1>26, RecoveryDerivesDoes
<1>27. ASSUME Send PROVE UnderWay'
    BY <1>1, <1>27, SendDoes DEF Asks
<1>28. ASSUME TimerFires PROVE UnderWay'
    <2>1. owed = TRUE /\ memory.timer = TRUE /\ stream' = stream
        BY <1>28, TimerFiresDoes
    <2>2. memory.enabled = TRUE
        BY <2>1 DEF Known
    <2>3. \/ \E d : d.kind = "retry" /\ d.at = "reading" /\ jobs' = jobs \cup {d}
          \/ memory'.timer = TRUE /\ jobs' = jobs
        BY <1>28, <2>2, TimerFiresDoes
    <2> QED
        BY <1>2, <2>1, <2>3 DEF Asks, Retries
<1>29. ASSUME StreamEnds PROVE FALSE
    BY <1>29, StreamEndsDoes
<1>30. ASSUME Resume PROVE UnderWay'
    BY <1>1, <1>30, ResumeDoes DEF Asks
<1>31. ASSUME Recover PROVE UnderWay'
    <2>1. owed = TRUE /\ stream' = stream /\ memory' = memory
        BY <1>31, RecoverDoes
    <2>2. jobs' = jobs \/ \E d : d.kind = "startup" /\ jobs' = jobs \cup {d}
        BY <1>31, RecoverDoes
    <2> QED
        BY <1>1, <2>1, <2>2 DEF Asks
<1>32. ASSUME Stop PROVE FALSE
    BY <1>32, StopDoes
<1>33. ASSUME Restart PROVE FALSE
    BY <1>33, RestartDoes
<1> QED
    BY <1>4, <1>5, <1>6, <1>7, <1>8, <1>9, <1>10, <1>11, <1>13, <1>14, <1>15,
       <1>16, <1>17, <1>18, <1>19, <1>20, <1>21, <1>22, <1>23, <1>25, <1>26, <1>27, <1>28,
       <1>29, <1>30, <1>31, <1>32, <1>33, Steps, Zenon

-----------------------------------------------------------------------------
(* The inductive invariant.                                                *)
Calm == Alone /\ Copy /\ Opted /\ CurrentAborts /\ Stopped /\ Going

IInv ==
    /\ Typed /\ Shaped /\ Known /\ Current /\ Owing
    /\ raced = FALSE => Calm

LEMMA Starting == ASSUME MaxSent \in Nat, Init PROVE IInv
<1> USE DEF Init
<1>1. Fresh \in Memory /\ Fresh.preference = "unknown" /\ Fresh.timer = FALSE
    BY DEF Fresh, Memory, None, Any
<1>2. Default \in File /\ Default.enabled = TRUE
    BY DefaultIs DEF Default
<1>3. None \in Msgs /\ 0 \in Msgs
    BY DEF None, Msgs
<1>4. Typed
    BY <1>1, <1>2, <1>3, FS_EmptySet DEF Typed, Phases
<1>5. Shaped /\ Known /\ Current /\ Owing
    BY <1>1 DEF Shaped, Known, Current, Owing
<1>6. Calm
    <2>1. Alone /\ Copy /\ CurrentAborts
        BY <1>1 DEF Alone, Copy, CurrentAborts
    <2>2. Opted
        BY <1>1, <1>2 DEF Opted
    <2>3. Stopped /\ Going
        BY DEF Stopped, Going
    <2> QED
        BY <2>1, <2>2, <2>3 DEF Calm
<1> QED
    BY <1>4, <1>5, <1>6 DEF IInv

LEMMA Stuttering == ASSUME IInv, UNCHANGED retryVars PROVE IInv'
<1> USE DEF retryVars, ghosts
<1>1. Typed' /\ Shaped' /\ Known' /\ Current' /\ Owing'
    BY DEF IInv, Typed, Shaped, Shape, Known, Current, Sending, Owing, Unaborted, Starts
<1>2. Alone => Alone'
    BY DEF Alone, UsesFile, Writing
<1>3. Copy => Copy'
    BY DEF Copy, Writing, Persisted
<1>4. Opted /\ CurrentAborts => Opted' /\ CurrentAborts'
    BY DEF Opted, CurrentAborts, Aborts
<1>5. Stopped => Stopped'
    BY DEF Stopped, Halted, Over, Mark, ToMark, Quiet
<1>6. Going => Going'
    BY DEF Going, UnderWay, Starts, Asks, Retries
<1> QED
    BY <1>1, <1>2, <1>3, <1>4, <1>5, <1>6 DEF IInv, Calm

LEMMA Stepping == ASSUME MaxSent \in Nat, IInv, [Next]_retryVars PROVE IInv'
<1>1. CASE UNCHANGED retryVars
    BY <1>1, Stuttering
<1>2. CASE Next
    <2>1. Typed /\ Shaped /\ Known /\ Current /\ Owing
        BY DEF IInv
    <2>2. Typed' /\ Shaped' /\ Known' /\ Current' /\ Owing'
        BY <1>2, <2>1, TypedStep, KnownStep, CurrentStep, OwingStep
    <2>3. ASSUME raced' = FALSE PROVE Calm'
        <3>1. Alone' /\ raced = FALSE
            BY <1>2, <2>1, <2>3, AloneStep
        <3>2. Alone /\ Copy /\ Opted /\ CurrentAborts /\ Stopped /\ Going
            BY <3>1 DEF IInv, Calm
        <3>3. Copy' /\ Opted' /\ CurrentAborts'
            BY <1>2, <2>1, <2>3, <3>1, <3>2, CopyStep, OptedStep, CurrentAbortsStep
        <3>4. Stopped' /\ Going'
            BY <1>2, <2>1, <3>1, <3>2, <3>3, StoppedStep, GoingStep
        <3> QED
            BY <3>1, <3>3, <3>4 DEF Calm
    <2> QED
        BY <2>2, <2>3 DEF IInv
<1> QED
    BY <1>1, <1>2

LEMMA Always == ASSUME MaxSent \in Nat PROVE Spec => []IInv
<1>1. Init => IInv
    BY Starting
<1>2. IInv /\ [Next]_retryVars => IInv'
    BY Stepping
<1> QED
    BY <1>1, <1>2, PTL DEF Spec

(* The variables have their types: what the file, the memory and the calls *)
(* say of a message is a message, none, or any.                            *)
THEOREM TypeCorrect == ASSUME MaxSent \in Nat PROVE Spec => []TypeOK
<1>1. IInv => TypeOK
    <2> SUFFICES ASSUME IInv PROVE TypeOK
        OBVIOUS
    <2>1. Typed
        BY DEF IInv
    <2> QED
        BY <2>1 DEF Typed, TypeOK, Msgs, Memory, Phases, JobT
<1> QED
    BY <1>1, Always, PTL

(* A turn the user stopped is not retried by itself, whatever fails, ends, *)
(* is recovered or restarts behind the stop (interruptStream), if the stop *)
(* met no call it cannot reach and no two calls raced for the file.        *)
THEOREM StopsAreKept == ASSUME MaxSent \in Nat PROVE Spec => []StopsHold
<1>1. IInv => StopsHold
    <2> SUFFICES ASSUME IInv, userStopped, ~missedStop, ~raced PROVE ~memory.timer
        BY DEF StopsHold
    <2>1. userStopped = TRUE /\ missedStop = FALSE /\ raced = FALSE
        BY DEF IInv, Typed
    <2>2. Stopped
        BY <2>1 DEF IInv, Calm
    <2> QED
        BY <2>1, <2>2 DEF Stopped, Halted
<1> QED
    BY <1>1, Always, PTL

(* Whoever opted out of retries (setAutoRetryEnabled) has no timer running *)
(* until a send or a choice opts in again, if no two calls raced for the   *)
(* preference file.                                                        *)
THEOREM OptOutsAreKept == ASSUME MaxSent \in Nat PROVE Spec => []OptOutHolds
<1>1. IInv => OptOutHolds
    <2> SUFFICES ASSUME IInv, optedOut, ~raced PROVE ~memory.timer
        BY DEF OptOutHolds
    <2>1. optedOut = TRUE /\ raced = FALSE /\ memory.timer \in BOOLEAN
        BY DEF IInv, Typed, Memory
    <2>2. Opted /\ Known
        BY <2>1 DEF IInv, Calm
    <2> QED
        BY <2>1, <2>2 DEF Opted, Known
<1> QED
    BY <1>1, Always, PTL

(* When a turn failed in a way worth a retry, a retry is scheduled once    *)
(* nothing is under way (handleStreamFailureForAutoRetry, the timer, and   *)
(* retryActiveStream), if no two calls raced for the preference file.      *)
THEOREM NoFailureIsForgotten == ASSUME MaxSent \in Nat PROVE Spec => []RetriesGoOn
<1>1. IInv => RetriesGoOn
    <2> SUFFICES ASSUME IInv, owed, ~raced, jobs = {}, ~stream PROVE memory.timer
        BY DEF RetriesGoOn
    <2>1. owed = TRUE /\ raced = FALSE /\ stream = FALSE
        BY DEF IInv, Typed
    <2>2. UnderWay
        BY <2>1 DEF IInv, Calm, Going
    <2>3. memory.timer = TRUE
        BY <2>1, <2>2 DEF UnderWay
    <2> QED
        BY <2>3
<1> QED
    BY <1>1, Always, PTL
=============================================================================
