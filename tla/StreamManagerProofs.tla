------------------------ MODULE StreamManagerProofs -------------------------
(***************************************************************************)
(* For any number of starts and stops, hard or soft: the events of a stream*)
(* come in order, and a start reported aborted never streams.  Without     *)
(* stops, at most one stream of the workspace runs and it can be found.    *)
(***************************************************************************)
EXTENDS StreamManager, TLAPS

CancelTyped ==
    /\ target \in [Start \cup Stops -> Start \cup {NoStream}]
    /\ cancel \in [Start \cup Stops -> {"none", "flush", "join", "usage"}]
    /\ state \in [Start -> {"IDLE", "STREAMING", "STOPPING", "ERROR", "COMPLETED"}]

(* Cancelling a stream keeps the records of cancellations well typed.      *)
LEMMA BeginTyped ==
    ASSUME NEW c \in Start \cup Stops, NEW s \in Start, CancelTyped, CancelBegin(c, s)
    PROVE  CancelTyped'
BY DEF CancelBegin, CancelTyped

(* The state is well typed whatever the starts and stops do.               *)
LEMMA TypeStep == StreamsTypeOK /\ [StreamsNext]_streamVars => StreamsTypeOK'
<1> SUFFICES ASSUME StreamsTypeOK, [StreamsNext]_streamVars PROVE StreamsTypeOK'
    OBVIOUS
<1> USE NoneAssumption
<1>1. ASSUME NEW c \in Start \cup Stops, CancelAbort(c) PROVE StreamsTypeOK'
    <2>1. aborted' \in [Start -> BOOLEAN]
        BY <1>1 DEF CancelAbort, StreamsTypeOK
    <2>2. cancel' \in [Start \cup Stops -> {"none", "flush", "join", "usage"}]
        BY <1>1 DEF CancelAbort, StreamsTypeOK
    <2> QED
        BY <1>1, <2>1, <2>2 DEF CancelAbort, StreamsTypeOK, calls
<1>2. ASSUME NEW c \in Start \cup Stops, CancelJoin(c) PROVE StreamsTypeOK'
    BY <1>2 DEF CancelJoin, StreamsTypeOK, calls, streams, cancels
<1>3. ASSUME NEW c \in Start \cup Stops, CancelEmit(c) PROVE StreamsTypeOK'
    <2> DEFINE Log == Seq({"start", "end", "error", "abort"})
    <2>1. \A s \in Start : Append(events[s], "abort") \in Log
        BY DEF StreamsTypeOK
    <2>2. events' \in [Start -> Log]
        <3> HIDE DEF Log
        <3>1. events \in [Start -> Log]
            BY DEF StreamsTypeOK, Log
        <3> QED
            BY <1>3, <2>1, <3>1 DEF CancelEmit
    <2>3. cancel' \in [Start \cup Stops -> {"none", "flush", "join", "usage"}]
        BY <1>3 DEF CancelEmit, StreamsTypeOK
    <2>4. turn' \in {"idle", "preparing", "streaming"} /\ active' \in Start \cup {NoStream}
        BY <1>3 DEF CancelEmit, AbortTurn, StreamsTypeOK
    <2> QED
        BY <1>3, <2>2, <2>3, <2>4 DEF CancelEmit, StreamsTypeOK, calls, streams
<1>4. ASSUME NEW s \in Start, StartCall(s) PROVE StreamsTypeOK'
    BY <1>4 DEF StartCall, StreamsTypeOK, calls, streams, cancels
<1>5. ASSUME NEW s \in Start, Acquire(s) PROVE StreamsTypeOK'
    <2>1. CancelTyped'
        <3>1. CASE active = NoStream
            BY <1>5, <3>1 DEF Acquire, CancelTyped, StreamsTypeOK, cancels
        <3>2. CASE active # NoStream
            <4>1. active \in Start /\ CancelBegin(s, active)
                BY <1>5, <3>2 DEF Acquire, StreamsTypeOK
            <4> QED
                BY <4>1, BeginTyped DEF StreamsTypeOK, CancelTyped
        <3> QED
            BY <3>1, <3>2
    <2>2. started' \in [Start -> {"none", "pending", "cancelling", "tempdir", "done"}]
        <3>1. started' = [started EXCEPT ![s] = "tempdir"] \/ started' = [started EXCEPT ![s] = "cancelling"]
            BY <1>5, Zenon DEF Acquire
        <3> QED
            BY <3>1 DEF StreamsTypeOK
    <2> QED
        BY <1>5, <2>1, <2>2 DEF Acquire, CancelTyped, StreamsTypeOK
<1>6. ASSUME NEW s \in Start, Cancelled(s) PROVE StreamsTypeOK'
    BY <1>6 DEF Cancelled, StreamsTypeOK, calls, streams, cancels
<1>7. ASSUME NEW s \in Start, Register(s) PROVE StreamsTypeOK'
    BY <1>7 DEF Register, Return, StreamsTypeOK, calls, streams, cancels
<1>8. ASSUME NEW s \in Start, StartAborted(s) PROVE StreamsTypeOK'
    BY <1>8 DEF StartAborted, Return, LeaveTurn, StreamsTypeOK, calls, streams, cancels
<1>9. ASSUME NEW s \in Start, StartFails(s) PROVE StreamsTypeOK'
    BY <1>9 DEF StartFails, Return, LeaveTurn, StreamsTypeOK, calls, streams, cancels
<1>10. ASSUME NEW s \in Start, SoftAbort(s) PROVE StreamsTypeOK'
    BY <1>10 DEF SoftAbort, StreamsTypeOK, calls, streams, cancels
<1>11. ASSUME NEW s \in Start, FlushedAborted(s) PROVE StreamsTypeOK'
    BY <1>11 DEF FlushedAborted, Finally, StreamsTypeOK, calls, streams, cancels
<1>12. ASSUME NEW s \in Start, FlushedDone(s) PROVE StreamsTypeOK'
    BY <1>12 DEF FlushedDone, StreamsTypeOK, calls, streams, cancels
<1>13. ASSUME NEW s \in Start, FlushedRetry(s) PROVE StreamsTypeOK'
    BY <1>13 DEF FlushedRetry, StreamsTypeOK, calls, streams, cancels
<1>14. ASSUME NEW s \in Start, FlushedEmpty(s) PROVE StreamsTypeOK'
    BY <1>14 DEF FlushedEmpty, Failing, StreamsTypeOK, calls, streams, cancels
<1>15. ASSUME NEW s \in Start, FailEmit(s) PROVE StreamsTypeOK'
    BY <1>15 DEF FailEmit, Finally, StreamsTypeOK, calls, streams, cancels
<1>16. ASSUME NEW s \in Start, Complete(s) PROVE StreamsTypeOK'
    BY <1>16 DEF Complete, Finally, StreamsTypeOK, calls, streams, cancels
<1>17. ASSUME NEW s \in Start, PartArrives(s) PROVE StreamsTypeOK'
    BY <1>17 DEF PartArrives, StreamsTypeOK, calls, streams, cancels
<1>18. ASSUME NEW s \in Start, SoftCheck(s) PROVE StreamsTypeOK'
    BY <1>18 DEF SoftCheck, StreamsTypeOK, calls, streams, cancels
<1>19. ASSUME NEW s \in Start, Break(s) PROVE StreamsTypeOK'
    BY <1>19 DEF Break, StreamsTypeOK, calls, streams, cancels
<1>20. ASSUME NEW s \in Start, Fail(s) PROVE StreamsTypeOK'
    BY <1>20 DEF Fail, Failing, StreamsTypeOK, calls, streams, cancels
<1>21. ASSUME NEW p \in Stops, StopNothing(p) PROVE StreamsTypeOK'
    BY <1>21 DEF StopNothing, StopCall, AbortPending, IsStreaming, AbortTurn, StreamsTypeOK, calls, streams, cancels
<1>22. ASSUME NEW p \in Stops, StopSoft(p) PROVE StreamsTypeOK'
    BY <1>22 DEF StopSoft, StopCall, AbortPending, IsStreaming, AbortTurn, StreamsTypeOK, calls, streams, cancels
<1>23. ASSUME NEW p \in Stops, StopHard(p) PROVE StreamsTypeOK'
    <2>1. active \in Start /\ CancelBegin(p, active)
        BY <1>23 DEF StopHard, StreamsTypeOK
    <2>2. CancelTyped'
        BY <2>1, BeginTyped DEF StreamsTypeOK, CancelTyped
    <2>3. stopped' \subseteq Stops /\ aborted' \in [Start -> BOOLEAN] /\ told' \subseteq Start
        BY <1>23 DEF StopHard, StopCall, AbortPending, StreamsTypeOK
    <2>4. turn' \in {"idle", "preparing", "streaming"}
        BY <1>23 DEF StopHard, AbortTurn, StreamsTypeOK
    <2> QED
        BY <1>23, <2>2, <2>3, <2>4 DEF StopHard, CancelTyped, StreamsTypeOK
<1>24. ASSUME UNCHANGED streamVars PROVE StreamsTypeOK'
    BY <1>24 DEF streamVars, StreamsTypeOK, calls, streams, cancels
<1> QED
    BY <1>1, <1>2, <1>3, <1>4, <1>5, <1>6, <1>7, <1>8, <1>9, <1>10, <1>11, <1>12, <1>13, <1>14, <1>15, <1>16, <1>17, <1>18, <1>19, <1>20, <1>21, <1>22, <1>23, <1>24
       DEF StreamsNext, CancelStep, StartStep, ProcessStep, ProviderStep

(* Every reachable state is well typed.                                    *)
THEOREM TypeCorrect == StreamsSpec => []StreamsTypeOK
<1>1. StreamsInit => StreamsTypeOK
    BY NoneAssumption DEF StreamsInit, StreamsTypeOK
<1> QED
    BY <1>1, TypeStep, PTL DEF StreamsSpec

(* Who may be where: a start that has not returned has no stream, what is  *)
(* cancelled was registered, and a cancellation records usage only when    *)
(* the stream's processing is over.                                        *)
Starting == {"pending", "cancelling", "tempdir"}
Placed ==
    /\ \A s \in Start : started[s] \in Starting \cup {"none"} => loc[s] = "none"
    /\ \A c \in Start \cup Stops : cancel[c] # "none"
          => target[c] \in Start /\ loc[target[c]] # "none"
    /\ \A c \in Start \cup Stops : cancel[c] = "usage" => loc[target[c]] = "done"
    /\ active # NoStream => loc[active] # "none"
    /\ pending # NoStream => started[pending] \in Starting
    /\ \A s \in told : aborted[s] /\ loc[s] = "none"

(* No step misplaces a start, a stream or a cancellation.                  *)
LEMMA PlacedStep == StreamsTypeOK /\ Placed /\ [StreamsNext]_streamVars => Placed'
<1> SUFFICES ASSUME StreamsTypeOK, Placed, [StreamsNext]_streamVars PROVE Placed'
    OBVIOUS
<1> USE NoneAssumption, DistinctAssumption
<1>1. ASSUME NEW c \in Start \cup Stops, CancelAbort(c) PROVE Placed'
    BY <1>1 DEF CancelAbort, Placed, Starting, StreamsTypeOK, calls, streams, cancels
<1>2. ASSUME NEW c \in Start \cup Stops, CancelJoin(c) PROVE Placed'
    BY <1>2 DEF CancelJoin, Placed, Starting, StreamsTypeOK, calls, streams, cancels
<1>3. ASSUME NEW c \in Start \cup Stops, CancelEmit(c) PROVE Placed'
    BY <1>3 DEF CancelEmit, Placed, Starting, StreamsTypeOK, calls, streams, cancels
<1>4. ASSUME NEW s \in Start, StartCall(s) PROVE Placed'
    BY <1>4 DEF StartCall, Placed, Starting, StreamsTypeOK, calls, streams, cancels
<1>5. ASSUME NEW s \in Start, Acquire(s) PROVE Placed'
    <2> HIDE DEF StreamsTypeOK
    <2>1. UNCHANGED <<active, pending, told, loc, aborted>>
        BY <1>5 DEF Acquire
    <2>2. /\ started \in [Start -> {"none", "done"} \cup Starting]
          /\ cancel \in [Start \cup Stops -> {"none", "flush", "join", "usage"}]
          /\ target \in [Start \cup Stops -> Start \cup {NoStream}]
          /\ active \in Start \cup {NoStream} /\ pending \in Start \cup {NoStream}
        BY DEF StreamsTypeOK, Starting
    <2>3. \/ started' = [started EXCEPT ![s] = "tempdir"] /\ UNCHANGED <<cancel, target>>
          \/ /\ started' = [started EXCEPT ![s] = "cancelling"] /\ active # NoStream
             /\ target' = [target EXCEPT ![s] = active]
             /\ cancel' = [cancel EXCEPT ![s] = "flush"]
        BY <1>5 DEF Acquire, CancelBegin, cancels
    <2>4. started[s] = "pending"
        BY <1>5 DEF Acquire
    <2> QED
        BY <2>1, <2>2, <2>3, <2>4 DEF Placed, Starting
<1>6. ASSUME NEW s \in Start, Cancelled(s) PROVE Placed'
    BY <1>6 DEF Cancelled, Placed, Starting, StreamsTypeOK, calls, streams, cancels
<1>7. ASSUME NEW s \in Start, Register(s) PROVE Placed'
    BY <1>7 DEF Register, Return, Placed, Starting, StreamsTypeOK, calls, streams, cancels
<1>8. ASSUME NEW s \in Start, StartAborted(s) PROVE Placed'
    BY <1>8 DEF StartAborted, Return, Placed, Starting, StreamsTypeOK, calls, streams, cancels
<1>9. ASSUME NEW s \in Start, StartFails(s) PROVE Placed'
    BY <1>9 DEF StartFails, Return, Placed, Starting, StreamsTypeOK, calls, streams, cancels
<1>10. ASSUME NEW s \in Start, SoftAbort(s) PROVE Placed'
    BY <1>10 DEF SoftAbort, Placed, Starting, StreamsTypeOK, calls, streams, cancels
<1>11. ASSUME NEW s \in Start, FlushedAborted(s) PROVE Placed'
    BY <1>11 DEF FlushedAborted, Finally, Placed, Starting, StreamsTypeOK, calls, streams, cancels
<1>12. ASSUME NEW s \in Start, FlushedDone(s) PROVE Placed'
    BY <1>12 DEF FlushedDone, Placed, Starting, StreamsTypeOK, calls, streams, cancels
<1>13. ASSUME NEW s \in Start, FlushedRetry(s) PROVE Placed'
    BY <1>13 DEF FlushedRetry, Placed, Starting, StreamsTypeOK, calls, streams, cancels
<1>14. ASSUME NEW s \in Start, FlushedEmpty(s) PROVE Placed'
    BY <1>14 DEF FlushedEmpty, Failing, Placed, Starting, StreamsTypeOK, calls, streams, cancels
<1>15. ASSUME NEW s \in Start, FailEmit(s) PROVE Placed'
    BY <1>15 DEF FailEmit, Finally, Placed, Starting, StreamsTypeOK, calls, streams, cancels
<1>16. ASSUME NEW s \in Start, Complete(s) PROVE Placed'
    BY <1>16 DEF Complete, Finally, Placed, Starting, StreamsTypeOK, calls, streams, cancels
<1>17. ASSUME NEW s \in Start, PartArrives(s) PROVE Placed'
    BY <1>17 DEF PartArrives, Placed, Starting, StreamsTypeOK, calls, streams, cancels
<1>18. ASSUME NEW s \in Start, SoftCheck(s) PROVE Placed'
    BY <1>18 DEF SoftCheck, Placed, Starting, StreamsTypeOK, calls, streams, cancels
<1>19. ASSUME NEW s \in Start, Break(s) PROVE Placed'
    BY <1>19 DEF Break, Placed, Starting, StreamsTypeOK, calls, streams, cancels
<1>20. ASSUME NEW s \in Start, Fail(s) PROVE Placed'
    BY <1>20 DEF Fail, Failing, Placed, Starting, StreamsTypeOK, calls, streams, cancels
<1>21. ASSUME NEW p \in Stops, StopNothing(p) PROVE Placed'
    BY <1>21 DEF StopNothing, AbortPending, Placed, Starting, StreamsTypeOK, calls, streams, cancels
<1>22. ASSUME NEW p \in Stops, StopSoft(p) PROVE Placed'
    BY <1>22 DEF StopSoft, AbortPending, IsStreaming, Placed, Starting, StreamsTypeOK, calls, streams, cancels
<1>23. ASSUME NEW p \in Stops, StopHard(p) PROVE Placed'
    BY <1>23 DEF StopHard, AbortPending, IsStreaming, CancelBegin, Placed, Starting, StreamsTypeOK, calls, streams, cancels
<1>24. ASSUME UNCHANGED streamVars PROVE Placed'
    BY <1>24 DEF streamVars, Placed, Starting, StreamsTypeOK, calls, streams, cancels
<1> QED
    BY <1>1, <1>2, <1>3, <1>4, <1>5, <1>6, <1>7, <1>8, <1>9, <1>10, <1>11, <1>12, <1>13, <1>14, <1>15, <1>16, <1>17, <1>18, <1>19, <1>20, <1>21, <1>22, <1>23, <1>24
       DEF StreamsNext, CancelStep, StartStep, ProcessStep, ProviderStep

(* What was emitted follows from where the stream is.                      *)
Logged ==
    /\ \A s \in Start : loc[s] = "none" => events[s] = <<>>
    /\ \A s \in Start : Live(s) => events[s] = <<"start">>
    /\ AbortIsLast

(* The log of a stream that emits nothing stays in order.                  *)
LEMMA Silent ==
    ASSUME Logged, UNCHANGED events,
           \A s \in Start : (loc[s] = "none")' => loc[s] = "none",
           \A s \in Start : Live(s)' => Live(s)
    PROVE  Logged'
BY DEF Logged, AbortIsLast

(* Append adds one element at the end.                                     *)
LEMMA AppendAt ==
    ASSUME NEW S, NEW q \in Seq(S), NEW e \in S
    PROVE  /\ Len(q) \in Nat /\ DOMAIN q = 1..Len(q)
           /\ DOMAIN Append(q, e) = 1..(Len(q) + 1)
           /\ Append(q, e)[Len(q) + 1] = e
           /\ \A i \in 1..Len(q) : Append(q, e)[i] = q[i]
OBVIOUS

(* An abort may follow anything.                                           *)
LEMMA AbortInOrder ==
    ASSUME NEW e \in Seq({"start", "end", "error", "abort"}), InOrder(e)
    PROVE  InOrder(Append(e, "abort"))
<1> DEFINE r == Append(e, "abort")
<1>1. /\ Len(e) \in Nat /\ DOMAIN e = 1..Len(e) /\ DOMAIN r = 1..(Len(e) + 1)
      /\ r[Len(e) + 1] = "abort"
      /\ \A i \in 1..Len(e) : r[i] = e[i]
    BY AppendAt
<1> HIDE DEF r
<1> SUFFICES ASSUME NEW i \in DOMAIN r, NEW j \in DOMAIN r, i < j
             PROVE  r[j] \in Closing /\ (r[i] \in Closing => r[j] = "abort")
    BY DEF InOrder, r
<1>2. CASE j = Len(e) + 1
    BY <1>1, <1>2 DEF Closing
<1>3. CASE j \in 1..Len(e)
    BY <1>1, <1>3 DEF InOrder
<1> QED
    BY <1>1, <1>2, <1>3

(* So may the end or the failure of a stream whose start alone was emitted.*)
LEMMA ClosingInOrder ==
    /\ InOrder(<<>>)
    /\ Append(<<>>, "start") = <<"start">>
    /\ InOrder(<<"start">>)
    /\ \A e \in Closing : InOrder(Append(<<"start">>, e))
<1>1. ASSUME NEW e \in Closing PROVE InOrder(Append(<<"start">>, e))
    <2> DEFINE q == <<"start">>
               r == Append(q, e)
    <2>1. q \in Seq({"start"} \cup Closing) /\ Len(q) = 1 /\ q[1] = "start"
        OBVIOUS
    <2> HIDE DEF q
    <2>2. DOMAIN r = 1..2 /\ r[1] = "start" /\ r[2] = e
        <3> DEFINE S == {"start"} \cup Closing
        <3>1. q \in Seq(S) /\ e \in S
            BY <2>1
        <3> HIDE DEF S
        <3>2. /\ DOMAIN r = 1..(Len(q) + 1) /\ r[Len(q) + 1] = e
              /\ \A i \in 1..Len(q) : r[i] = q[i]
            BY <3>1, AppendAt
        <3> QED
            BY <2>1, <3>2
    <2>3. "start" \notin Closing
        BY DEF Closing
    <2> HIDE DEF r
    <2>4. InOrder(r)
        BY <2>2, <2>3 DEF InOrder
    <2> QED
        BY <2>4 DEF r, q
<1> QED
    BY <1>1 DEF InOrder

(* A stream that is over emits only the abort its cancellation announces.  *)
LEMMA LoggedStep == StreamsTypeOK /\ Placed /\ Logged /\ [StreamsNext]_streamVars => Logged'
<1> SUFFICES ASSUME StreamsTypeOK, Placed, Logged, [StreamsNext]_streamVars PROVE Logged'
    OBVIOUS
<1>t. /\ events \in [Start -> Seq({"start", "end", "error", "abort"})]
      /\ loc \in [Start -> {"none", "stream", "softflush", "flush", "ending",
                           "failing", "done"}]
    BY DEF StreamsTypeOK
<1>1. ASSUME NEW c \in Start \cup Stops, CancelEmit(c) PROVE Logged'
    <2>1. /\ target[c] \in Start /\ loc[target[c]] = "done" /\ UNCHANGED loc
          /\ events' = [events EXCEPT ![target[c]] = Append(@, "abort")]
        BY <1>1 DEF CancelEmit, Placed, streams
    <2>2. InOrder(Append(events[target[c]], "abort"))
        BY <1>t, <2>1, AbortInOrder DEF Logged, AbortIsLast
    <2> QED
        BY <1>t, <2>1, <2>2 DEF Logged, AbortIsLast, Live
<1>2. ASSUME NEW s \in Start, Register(s) PROVE Logged'
    <2>1. /\ loc[s] = "none" /\ loc' = [loc EXCEPT ![s] = "stream"]
          /\ events' = [events EXCEPT ![s] = Append(@, "start")]
        BY <1>2 DEF Register, Placed, Starting
    <2>2. events'[s] = <<"start">>
        BY <1>t, <2>1, ClosingInOrder DEF Logged
    <2> QED
        BY <1>t, <2>1, <2>2, ClosingInOrder DEF Logged, AbortIsLast, Live
<1>3. ASSUME NEW s \in Start, FailEmit(s) \/ Complete(s) PROVE Logged'
    <2>1. PICK e \in {"end", "error"} :
             /\ Live(s) /\ loc' = [loc EXCEPT ![s] = "done"]
             /\ events' = [events EXCEPT ![s] = Append(@, e)]
        BY <1>3 DEF FailEmit, Complete, Finally, Live
    <2>2. InOrder(events'[s])
        BY <1>t, <2>1, ClosingInOrder DEF Logged, Closing
    <2> QED
        BY <1>t, <2>1, <2>2 DEF Logged, AbortIsLast, Live
<1>4. ASSUME NEW c \in Start \cup Stops, CancelAbort(c) \/ CancelJoin(c) PROVE Logged'
    BY <1>4, Silent DEF CancelAbort, CancelJoin, Live, streams
<1>5. ASSUME NEW s \in Start,
             StartCall(s) \/ Acquire(s) \/ Cancelled(s) \/ StartAborted(s) \/ StartFails(s)
      PROVE  Logged'
    <2>1. UNCHANGED events /\ UNCHANGED loc
        BY <1>5 DEF StartCall, Acquire, Cancelled, StartAborted, StartFails, streams
    <2> QED
        BY <2>1, Silent DEF Live
<1>6. ASSUME NEW s \in Start,
             \/ SoftAbort(s) \/ FlushedDone(s) \/ FlushedRetry(s) \/ FlushedEmpty(s)
             \/ FlushedAborted(s) \/ PartArrives(s) \/ SoftCheck(s) \/ Break(s) \/ Fail(s)
      PROVE  Logged'
    <2>1. UNCHANGED events
        BY <1>6 DEF SoftAbort, FlushedDone, FlushedRetry, FlushedEmpty, FlushedAborted,
                    PartArrives, SoftCheck, Break, Fail, Failing
    <2>2. Live(s) /\ \E l \in {"stream", "softflush", "flush", "ending", "failing", "done"} :
                        loc' = [loc EXCEPT ![s] = l]
        <3>1. CASE PartArrives(s)
            BY <1>t, <3>1 DEF PartArrives, Live
        <3> QED
            BY <1>6, <3>1 DEF SoftAbort, FlushedDone, FlushedRetry, FlushedEmpty,
                     FlushedAborted, SoftCheck, Break, Fail, Failing, Finally, Live
    <2> QED
        BY <1>t, <2>1, <2>2, Silent DEF Live
<1>7. ASSUME NEW p \in Stops, StopNothing(p) \/ StopSoft(p) \/ StopHard(p) PROVE Logged'
    BY <1>7, Silent DEF StopNothing, StopSoft, StopHard, Live
<1>8. ASSUME UNCHANGED streamVars PROVE Logged'
    BY <1>8, Silent DEF streamVars, streams, Live
<1> QED
    BY <1>1, <1>2, <1>3, <1>4, <1>5, <1>6, <1>7, <1>8
       DEF StreamsNext, CancelStep, StartStep, ProcessStep, ProviderStep

(* The inductive invariant of the stream life cycle.                       *)
LEMMA Lifecycle == StreamsSpec => [](StreamsTypeOK /\ Placed /\ Logged)
<1>1. StreamsInit => StreamsTypeOK /\ Placed /\ Logged
    BY NoneAssumption DEF StreamsInit, StreamsTypeOK, Placed, Starting, Logged, AbortIsLast, InOrder, Live
<1>2. StreamsTypeOK /\ Placed /\ Logged /\ [StreamsNext]_streamVars => (StreamsTypeOK /\ Placed /\ Logged)'
    BY TypeStep, PlacedStep, LoggedStep
<1> QED
    BY <1>1, <1>2, PTL DEF StreamsSpec

(* A stream-abort is emitted only when the stream's processing is over, and*)
(* no stream that was announced ends or fails twice.                       *)
THEOREM AbortsLast == StreamsSpec => []AbortIsLast
<1>1. StreamsTypeOK /\ Placed /\ Logged => AbortIsLast
    BY DEF Logged
<1> QED
    BY <1>1, Lifecycle, PTL

(* A start the user has been told is aborted never becomes a stream.       *)
THEOREM ToldIsTrue == StreamsSpec => []ToldNeverStarts
<1>1. StreamsTypeOK /\ Placed /\ Logged => ToldNeverStarts
    BY DEF StreamsTypeOK, Placed, Logged, ToldNeverStarts
<1> QED
    BY <1>1, Lifecycle, PTL

(* Without stops only a start that holds the mutex cancels, and the stream *)
(* it cancels is the one registered.                                       *)
Alone ==
    /\ \A s \in Start : ~ soft[s] /\ loc[s] # "softflush"
    /\ \A s \in Start : Live(s) => active = s
    /\ \A s \in Start : started[s] \in {"cancelling", "tempdir"} => holder = s
    /\ \A s \in Start : started[s] = "tempdir" => active = NoStream
    /\ \A s \in Start : started[s] = "cancelling" /\ cancel[s] = "none" => active = NoStream
    /\ \A s \in Start : cancel[s] # "none"
          => started[s] = "cancelling" /\ active \in {NoStream, target[s]}

\* what of StreamsTypeOK the proof needs
Typed ==
    /\ active \in Start \cup {NoStream} /\ holder \in Start \cup {NoStream}
    /\ DOMAIN started = Start /\ DOMAIN loc = Start /\ DOMAIN soft = Start
    /\ DOMAIN cancel = Start \cup Stops /\ DOMAIN target = Start \cup Stops

(* Without stops no step leaves a stream that runs unregistered.           *)
LEMMA AloneStep ==
    ASSUME Stops = {}
    PROVE  StreamsTypeOK /\ Placed /\ Alone /\ [StreamsNext]_streamVars => Alone'
<1> SUFFICES ASSUME StreamsTypeOK, Placed, Alone, [StreamsNext]_streamVars PROVE Alone'
    OBVIOUS
<1> USE NoneAssumption
<1>t. Typed
    BY DEF StreamsTypeOK, Typed
<1> USE <1>t
<1>1. ASSUME NEW c \in Start, CancelAbort(c) PROVE Alone'
    BY <1>1 DEF CancelAbort, Alone, Live, Placed, Typed, calls, streams, cancels
<1>2. ASSUME NEW c \in Start, CancelJoin(c) PROVE Alone'
    BY <1>2 DEF CancelJoin, Alone, Live, Placed, Typed, calls, streams, cancels
<1>3. ASSUME NEW c \in Start, CancelEmit(c) PROVE Alone'
    BY <1>3 DEF CancelEmit, Alone, Live, Placed, Typed, calls, streams, cancels
<1>4. ASSUME NEW s \in Start, StartCall(s) PROVE Alone'
    BY <1>4 DEF StartCall, Alone, Live, Placed, Typed, calls, streams, cancels
<1>5. ASSUME NEW s \in Start, Acquire(s) PROVE Alone'
    BY <1>5 DEF Acquire, CancelBegin, Alone, Live, Placed, Typed, calls, streams, cancels
<1>6. ASSUME NEW s \in Start, Cancelled(s) PROVE Alone'
    BY <1>6 DEF Cancelled, Alone, Live, Placed, Typed, calls, streams, cancels
<1>7. ASSUME NEW s \in Start, Register(s) PROVE Alone'
    BY <1>7 DEF Register, Return, Alone, Live, Placed, Typed, calls, streams, cancels
<1>8. ASSUME NEW s \in Start, StartAborted(s) PROVE Alone'
    BY <1>8 DEF StartAborted, Return, Alone, Live, Placed, Typed, calls, streams, cancels
<1>9. ASSUME NEW s \in Start, StartFails(s) PROVE Alone'
    BY <1>9 DEF StartFails, Return, Alone, Live, Placed, Typed, calls, streams, cancels
<1>10. ASSUME NEW s \in Start, SoftAbort(s) PROVE Alone'
    BY <1>10 DEF SoftAbort, Alone, Live, Placed, Typed, calls, streams, cancels
<1>11. ASSUME NEW s \in Start, FlushedAborted(s) PROVE Alone'
    BY <1>11 DEF FlushedAborted, Finally, Alone, Live, Placed, Typed, calls, streams, cancels
<1>12. ASSUME NEW s \in Start, FlushedDone(s) PROVE Alone'
    BY <1>12 DEF FlushedDone, Alone, Live, Placed, Typed, calls, streams, cancels
<1>13. ASSUME NEW s \in Start, FlushedRetry(s) PROVE Alone'
    BY <1>13 DEF FlushedRetry, Alone, Live, Placed, Typed, calls, streams, cancels
<1>14. ASSUME NEW s \in Start, FlushedEmpty(s) PROVE Alone'
    BY <1>14 DEF FlushedEmpty, Failing, Alone, Live, Placed, Typed, calls, streams, cancels
<1>15. ASSUME NEW s \in Start, FailEmit(s) PROVE Alone'
    BY <1>15 DEF FailEmit, Finally, Alone, Live, Placed, Typed, calls, streams, cancels
<1>16. ASSUME NEW s \in Start, Complete(s) PROVE Alone'
    BY <1>16 DEF Complete, Finally, Alone, Live, Placed, Typed, calls, streams, cancels
<1>17. ASSUME NEW s \in Start, PartArrives(s) PROVE Alone'
    BY <1>17 DEF PartArrives, Alone, Live, Placed, Typed, calls, streams, cancels
<1>18. ASSUME NEW s \in Start, SoftCheck(s) PROVE Alone'
    BY <1>18 DEF SoftCheck, Alone, Live, Placed, Typed, calls, streams, cancels
<1>19. ASSUME NEW s \in Start, Break(s) PROVE Alone'
    BY <1>19 DEF Break, Alone, Live, Placed, Typed, calls, streams, cancels
<1>20. ASSUME NEW s \in Start, Fail(s) PROVE Alone'
    BY <1>20 DEF Fail, Failing, Alone, Live, Placed, Typed, calls, streams, cancels
<1>21. ASSUME UNCHANGED streamVars PROVE Alone'
    BY <1>21 DEF streamVars, Alone, Live, calls, streams, cancels
<1> QED
    BY <1>1, <1>2, <1>3, <1>4, <1>5, <1>6, <1>7, <1>8, <1>9, <1>10, <1>11, <1>12, <1>13, <1>14, <1>15, <1>16, <1>17, <1>18, <1>19, <1>20, <1>21
       DEF StreamsNext, CancelStep, StartStep, ProcessStep, ProviderStep

(* "Only one active stream per workspace at any time", and the one that    *)
(* runs can be found, as long as nobody stops a stream: the mutex of       *)
(* startStream and the wait for the stream before are enough.              *)
THEOREM OneStream == Stops = {} => (StreamsSpec => [](OneLive /\ Registered))
<1> SUFFICES ASSUME Stops = {} PROVE StreamsSpec => [](OneLive /\ Registered)
    OBVIOUS
<1>1. StreamsInit => Alone
    BY DEF StreamsInit, Alone, Live
<1>2. StreamsTypeOK /\ Placed /\ Alone /\ [StreamsNext]_streamVars => Alone'
    BY AloneStep
<1>3. Alone => OneLive /\ Registered
    BY DEF Alone, OneLive, Registered
<1> QED
    BY <1>1, <1>2, <1>3, Lifecycle, PTL DEF StreamsSpec
=============================================================================
