-------------------------- MODULE ProcessesProofs --------------------------
(***************************************************************************)
(* Background processes, in two parts: what getOutput returns of one, and  *)
(* which of any number are in the map.                                     *)
(***************************************************************************)
EXTENDS ProcessOutput, BackgroundProcesses, TLAPS, SequenceTheorems, FiniteSetTheorems,
    WellFoundedInduction

-----------------------------------------------------------------------------
(***************************************************************************)
(* For any number of calls of getOutput and any amount of output: what was *)
(* read is returned once and in order, or kept for the next call.          *)
(*                                                                         *)
(* That is not inductive by itself.  A call that has read something not    *)
(* yet counted must find the position where it was when it read, which it  *)
(* does because whoever has left the lock's queue holds the lock; and no   *)
(* line may be split when the complete lines are cut from the rest, which  *)
(* needs that CompleteUpTo is a place in the sequence.                     *)
(***************************************************************************)

Inside == {"read", "append", "decide", "drain", "drained", "return"}
Uncounted == {"append", "drained"}

Positions == Seq(Nat)

Call == [at : Inside \cup {"idle", "locking"}, raw : Positions, before : Positions,
         chunk : Positions, over : BOOLEAN, drains : 0..2, new : BOOLEAN, hides : BOOLEAN]

OutputTyped ==
    /\ output \in Seq(Byte)
    /\ bytesRead \in Nat
    /\ fragment \in Positions /\ given \in Positions
    /\ over \in BOOLEAN /\ exited \in BOOLEAN /\ dropped \in BOOLEAN /\ torn \in BOOLEAN
    /\ reader \in [Reader -> Call]

\* whoever holds the lock is inside, started from the fragment, and nobody else is
OneInside ==
    /\ outputLock \in Reader \cup {"nobody"}
    /\ \A r \in Reader : /\ reader[r].at \in Inside <=> outputLock = r
                         /\ outputLock = r => reader[r].before = fragment
                         /\ reader[r].at = "locking" => reader[r].raw = <<>>

\* what was read and is not counted yet begins where the count ends, unless it
\* was decoded to something else
ChunksFollow ==
    ~torn => \A r \in Reader : reader[r].at \in Uncounted =>
        reader[r].chunk = [i \in 1..Len(reader[r].chunk) |-> bytesRead + i]

OutputIInv == OutputTyped /\ OneInside /\ ChunksFollow /\ OutputOnceInOrder

-----------------------------------------------------------------------------
(* A non-empty set of numbers up to a bound has a greatest element.        *)
LEMMA Greatest ==
    ASSUME NEW n \in Nat, NEW S \in SUBSET (1..n), S # {}
    PROVE  Max(S) \in S
<1> DEFINE Below == {k \in Nat : \E y \in S : k = n - y}
           Less == OpToRel(<, Nat)
<1>1. Below \in SUBSET Nat
    OBVIOUS
<1>2. Below # {}
    <2>1. PICK s \in S : TRUE
        OBVIOUS
    <2>2. n - s \in Nat
        BY <2>1
    <2>3. n - s \in Below
        BY <2>1, <2>2
    <2> QED
        BY <2>3
<1>3. \A x, y \in Nat : <<y, x>> \in Less <=> y < x
    BY DEF OpToRel
<1>4. PICK k \in Below : \A m \in Below : <<m, k>> \notin Less
    <2> HIDE DEF Below
    <2>1. IsWellFoundedOn(Less, Nat)
        BY NatLessThanWellFounded, Zenon DEF Less
    <2> HIDE DEF Less
    <2> QED
        BY <1>1, <1>2, <2>1, WFMin
<1>5. PICK x \in S : k = n - x
    OBVIOUS
<1>6. ASSUME NEW y \in S PROVE x >= y
    <2> HIDE DEF Less
    <2>1. n - y \in Nat
        OBVIOUS
    <2>2. n - y \in Below
        BY <2>1
    <2>3. ~(n - y < k)
        <3> HIDE DEF Below
        <3> QED
            BY <1>1, <1>3, <1>4, <2>2
    <2> QED
        BY <1>5, <2>3
<1> HIDE DEF Below, Less
<1>7. \E z \in S : \A y \in S : z >= y
    BY <1>6
<1> QED
    BY <1>7 DEF Max

(* The number of positions that are complete lines is one of the sequence. *)
LEMMA CompleteIsWithin ==
    ASSUME NEW s \in Positions
    PROVE  CompleteUpTo(s) \in 0..Len(s)
<1> DEFINE ends == {i \in DOMAIN s : s[i] # Replacement /\ Is(s, i, "line")}
<1>1. Len(s) \in Nat /\ DOMAIN s = 1..Len(s)
    BY DEF Positions
<1>2. ends \in SUBSET (1..Len(s))
    BY <1>1
<1>3. CompleteUpTo(s) = IF ends = {} THEN 0 ELSE Max(ends)
    BY DEF CompleteUpTo
<1>4. CASE ends = {}
    <2> HIDE DEF ends
    <2> QED BY <1>1, <1>3, <1>4
<1>5. CASE ends # {}
    <2> HIDE DEF ends
    <2>1. Max(ends) \in ends
        BY <1>1, <1>2, <1>5, Greatest
    <2>2. CompleteUpTo(s) \in ends
        BY <1>3, <1>5, <2>1, Zenon
    <2>3. CompleteUpTo(s) \in 1..Len(s)
        BY <1>2, <2>2, Zenon
    <2> QED
        BY <1>1, <2>3
<1> QED
    BY <1>4, <1>5

(* Cutting a sequence in two loses nothing.                                *)
LEMMA Cut ==
    ASSUME NEW s \in Positions, NEW k \in 0..Len(s)
    PROVE  /\ SubSeq(s, 1, k) \in Positions /\ SubSeq(s, k + 1, Len(s)) \in Positions
           /\ SubSeq(s, 1, k) \o SubSeq(s, k + 1, Len(s)) = s
<1> USE DEF Positions
<1>1. Len(s) \in Nat
    OBVIOUS
<1>2. \A i \in 1..Len(s) : s[i] \in Nat
    BY ElementOfSeq
<1>3. SubSeq(s, 1, k) \in Seq(Nat)
    BY <1>1, <1>2, SubSeqProperties
<1>4. SubSeq(s, k + 1, Len(s)) \in Seq(Nat)
    BY <1>1, <1>2, SubSeqProperties
<1>5. SubSeq(s, 1, k) \o SubSeq(s, k + 1, Len(s)) = SubSeq(s, 1, Len(s))
    <2>1. 1 \in 1..Len(s) + 1 /\ k \in 1 - 1..Len(s) /\ Len(s) \in k..Len(s)
        BY <1>1
    <2> QED
        BY <2>1, ConcatAdjacentSubSeq
<1> QED
    BY <1>3, <1>4, <1>5, SubSeqFull

LEMMA Regroup ==
    ASSUME NEW a \in Positions, NEW b \in Positions, NEW c \in Positions
    PROVE  a \o (b \o c) = (a \o b) \o c
<1>1. a \in Seq(Nat) /\ b \in Seq(Nat) /\ c \in Seq(Nat)
    BY DEF Positions
<1>2. (a \o b) \o c = a \o (b \o c)
    BY <1>1, ConcatAssociative
<1> QED
    BY <1>2

Upto(n) == [i \in 1..n |-> i]

(* The next positions continue those before.                               *)
LEMMA Continues ==
    ASSUME NEW n \in Nat, NEW c \in Positions, c = [i \in 1..Len(c) |-> n + i]
    PROVE  Upto(n) \o c = Upto(n + Len(c))
<1> USE DEF Positions, Upto
<1>1. Len(c) \in Nat
    OBVIOUS
<1>2. Upto(n) \in Seq(Nat) /\ Len(Upto(n)) = n
    BY IsASeq
<1>3. Upto(n + Len(c)) \in Seq(Nat) /\ Len(Upto(n + Len(c))) = n + Len(c)
    BY <1>1, IsASeq
<1>4. /\ Upto(n) \o c \in Seq(Nat)
      /\ Len(Upto(n) \o c) = n + Len(c)
      /\ \A i \in 1..n + Len(c) :
            (Upto(n) \o c)[i] = IF i <= n THEN Upto(n)[i] ELSE c[i - n]
    BY <1>2, ConcatProperties
<1>5. \A i \in 1..n + Len(c) : (Upto(n) \o c)[i] = Upto(n + Len(c))[i]
    <2> SUFFICES ASSUME NEW i \in 1..n + Len(c)
                 PROVE  (Upto(n) \o c)[i] = Upto(n + Len(c))[i]
        OBVIOUS
    <2>1. CASE i <= n
        BY <1>1, <1>4, <2>1
    <2>2. CASE ~(i <= n)
        <3>1. i - n \in 1..Len(c)
            BY <1>1, <2>2
        <3>2. c[i - n] = n + (i - n)
            BY <3>1
        <3> QED
            BY <1>1, <1>4, <2>2, <3>2
    <2> QED
        BY <2>1, <2>2
<1> QED
    BY <1>3, <1>4, <1>5, SeqEqual
-----------------------------------------------------------------------------
(* Nothing is read before the first call.                                  *)
LEMMA Empty == <<>> \in Positions /\ Len(<<>>) = 0 /\ NoRead \in Call
<1>1. <<>> \in Positions
    BY EmptySeq DEF Positions
<1>2. Len(<<>>) = 0
    OBVIOUS
<1>3. "idle" \in Inside \cup {"idle", "locking"} /\ 0 \in 0..2 /\ FALSE \in BOOLEAN
    OBVIOUS
<1>4. NoRead \in Call
    BY <1>1, <1>3 DEF NoRead, Call
<1> QED
    BY <1>1, <1>2, <1>4

LEMMA OutputStarts == "nobody" \notin Reader /\ OutputInit => OutputIInv
<1> SUFFICES ASSUME "nobody" \notin Reader, OutputInit PROVE OutputIInv
    OBVIOUS
<1>1. OutputTyped
    <2>1. reader \in [Reader -> Call]
        BY Empty DEF OutputInit
    <2>2. output \in Seq(Byte) /\ bytesRead \in Nat
        BY DEF OutputInit
    <2> QED
        BY <2>1, <2>2, Empty DEF OutputInit, OutputTyped
<1>2. OneInside
    BY DEF OutputInit, OneInside, NoRead, Inside
<1>3. ChunksFollow
    BY DEF OutputInit, ChunksFollow, NoRead, Uncounted
<1>4. OutputOnceInOrder
    <2>1. <<>> \in Seq(Nat) /\ Len(<<>>) = 0
        OBVIOUS
    <2>2. <<>> \o <<>> = <<>>
        BY <2>1, ConcatEmptySeq
    <2>3. [i \in 1..0 |-> i] = <<>>
        OBVIOUS
    <2> QED
        BY <2>2, <2>3 DEF OutputInit, OutputOnceInOrder, NothingIsLost, Pending
<1> QED
    BY <1>1, <1>2, <1>3, <1>4 DEF OutputIInv

(* The process and those who refresh its status touch nothing that counts. *)
LEMMA ProcessSteps ==
    ASSUME OutputIInv, Write \/ Exit \/ StatusChanges
    PROVE  OutputIInv'
<1> USE DEF OutputIInv
<1>1. UNCHANGED <<bytesRead, fragment, outputLock, reader, given, dropped, torn>>
    BY DEF Write, Exit, StatusChanges
<1>2. output' \in Seq(Byte)
    <2>1. CASE Write
        BY <2>1 DEF Write, OutputTyped
    <2>2. CASE Exit \/ StatusChanges
        BY <2>2 DEF Exit, StatusChanges, OutputTyped
    <2> QED
        BY <2>1, <2>2
<1>3. over' \in BOOLEAN /\ exited' \in BOOLEAN
    BY DEF Write, Exit, StatusChanges, OutputTyped
<1>4. OutputTyped'
    BY <1>1, <1>2, <1>3 DEF OutputTyped
<1>5. OneInside'
    BY <1>1 DEF OneInside
<1>6. ChunksFollow'
    BY <1>1 DEF ChunksFollow
<1>7. OutputOnceInOrder'
    BY <1>1 DEF OutputOnceInOrder, NothingIsLost, Pending, Raw
<1> QED
    BY <1>4, <1>5, <1>6, <1>7

(* Before a call holds the lock, and whenever it only looks at what it has,*)
(* nothing that counts moves.                                              *)
LEMMA QuietSteps ==
    ASSUME OutputIInv, NEW r \in Reader, "nobody" \notin Reader,
           GetOutput(r) \/ Lock(r) \/ Enough(r) \/ Ended(r) \/ PollOrTimeout(r)
    PROVE  OutputIInv'
<1> USE DEF OutputIInv
<1>1. UNCHANGED <<output, exited, bytesRead, fragment, given, dropped, torn>>
    BY DEF GetOutput, Lock, Enough, Ended, PollOrTimeout
<1>2. OutputTyped'
    <2>1. over' \in BOOLEAN
        BY DEF GetOutput, Lock, Enough, Ended, PollOrTimeout, OutputTyped
    <2>2. reader \in [Reader -> Call] /\ reader[r] \in Call
        BY DEF OutputTyped
    <2>3. reader' \in [Reader -> Call]
        <3> HIDE DEF OutputIInv
        <3>1. CASE GetOutput(r)
            <4>1. PICK h \in BOOLEAN : reader' =
                    [reader EXCEPT ![r] = [NoRead EXCEPT !.at = "locking", !.hides = h]]
                BY <3>1 DEF GetOutput
            <4>2. [NoRead EXCEPT !.at = "locking", !.hides = h] \in Call
                BY Empty DEF Call
            <4> QED
                BY <2>2, <4>1, <4>2
        <3>2. CASE Lock(r)
            <4>1. reader' = [reader EXCEPT ![r] =
                    [reader[r] EXCEPT !.at = "read", !.before = fragment, !.over = over]]
                BY <2>2, <3>2 DEF Lock
            <4>2. fragment \in Positions /\ over \in BOOLEAN
                BY DEF OutputIInv, OutputTyped
            <4>3. [reader[r] EXCEPT !.at = "read", !.before = fragment, !.over = over] \in Call
                BY <2>2, <4>2 DEF Call, Inside
            <4> QED
                BY <2>2, <4>1, <4>3
        <3>3. CASE Enough(r)
            <4> DEFINE next == IF reader[r].over THEN "drain" ELSE "return"
            <4>1. reader' = [reader EXCEPT ![r] =
                    [reader[r] EXCEPT !.at = next, !.drains = 1, !.new = FALSE]]
                BY <2>2, <3>3 DEF Enough
            <4>2. 1 \in 0..2 /\ next \in Inside
                BY DEF Inside
            <4> HIDE DEF next
            <4>3. [reader[r] EXCEPT !.at = next, !.drains = 1, !.new = FALSE] \in Call
                BY <2>2, <4>2 DEF Call
            <4> QED
                BY <2>2, <4>1, <4>3
        <3>4. CASE Ended(r)
            <4>1. reader' = [reader EXCEPT ![r] = [reader[r] EXCEPT !.at = "drain", !.drains = 2]]
                BY <2>2, <3>4 DEF Ended
            <4>2. 2 \in 0..2 /\ "drain" \in Inside
                BY DEF Inside
            <4>3. [reader[r] EXCEPT !.at = "drain", !.drains = 2] \in Call
                BY <2>2, <4>2 DEF Call
            <4> QED
                BY <2>2, <4>1, <4>3
        <3>5. CASE PollOrTimeout(r)
            <4>1. PICK next \in {"read", "return"} :
                    reader' = [reader EXCEPT ![r] = [reader[r] EXCEPT !.at = next]]
                BY <2>2, <3>5 DEF PollOrTimeout
            <4>2. [reader[r] EXCEPT !.at = next] \in Call
                BY <2>2 DEF Call, Inside
            <4> QED
                BY <2>2, <4>1, <4>2
        <3> QED
            BY <3>1, <3>2, <3>3, <3>4, <3>5
    <2> QED
        BY <1>1, <2>1, <2>3 DEF OutputTyped
<1>3. OneInside'
    <2>0. reader \in [Reader -> Call]
        BY DEF OutputTyped
    <2>1. \A q \in Reader : q # r => reader'[q] = reader[q]
        BY <2>0 DEF GetOutput, Lock, Enough, Ended, PollOrTimeout
    <2>2. \A q \in Reader : OneInside!2!(q)
        BY DEF OneInside
    <2>3. CASE GetOutput(r)
        <3>1. reader'[r].at = "locking" /\ reader'[r].raw = <<>> /\ outputLock # r
            BY <2>0, <2>2, <2>3 DEF GetOutput, NoRead, Inside
        <3>2. outputLock' = outputLock
            BY <2>3 DEF GetOutput
        <3> QED
            BY <1>1, <2>1, <2>2, <3>1, <3>2 DEF OneInside, Inside
    <2>4. CASE Lock(r)
        <3>1. reader'[r].at = "read" /\ reader'[r].before = fragment
            BY <2>0, <2>4 DEF Lock, Call
        <3>2. outputLock = "nobody" /\ outputLock' = r
            BY <2>4 DEF Lock
        <3> QED
            BY <1>1, <2>1, <2>2, <3>1, <3>2 DEF OneInside, Inside
    <2>5. CASE Enough(r) \/ Ended(r) \/ PollOrTimeout(r)
        <3>1. reader[r].at \in Inside /\ reader'[r].at \in Inside
            BY <2>0, <2>5 DEF Enough, Ended, PollOrTimeout, Call, Inside
        <3>2. reader'[r].before = reader[r].before /\ outputLock' = outputLock
            BY <2>0, <2>5 DEF Enough, Ended, PollOrTimeout, Call
        <3>3. reader'[r].at # "locking"
            BY <3>1 DEF Inside
        <3> QED
            BY <1>1, <2>1, <2>2, <3>1, <3>2, <3>3 DEF OneInside
    <2> QED
        BY <2>3, <2>4, <2>5
<1>4. ChunksFollow'
    <2>1. reader'[r].at \notin Uncounted
        <3>0. reader \in [Reader -> Call]
            BY DEF OutputTyped
        <3>1. CASE GetOutput(r)
            BY <3>0, <3>1 DEF GetOutput, Uncounted, NoRead
        <3>3. CASE Lock(r)
            BY <3>0, <3>3 DEF Lock, Call, Uncounted
        <3>2. CASE Enough(r) \/ Ended(r) \/ PollOrTimeout(r)
            BY <3>2 DEF Enough, Ended, PollOrTimeout, OutputTyped, Call, Uncounted
        <3> QED
            BY <3>1, <3>2, <3>3
    <2>2. \A q \in Reader : q # r => reader'[q] = reader[q]
        BY DEF GetOutput, Lock, Enough, Ended, PollOrTimeout, OutputTyped
    <2> QED
        BY <1>1, <2>1, <2>2 DEF ChunksFollow
<1>5. Pending' = Pending
    <2>1. CASE Lock(r)
        <3>1. Pending = fragment /\ reader[r].raw = <<>> /\ fragment \in Seq(Nat)
            BY <2>1 DEF Lock, Pending, OneInside, OutputTyped, Positions
        <3>2. reader'[r].before = fragment /\ reader'[r].raw = <<>>
            BY <2>1, <3>1 DEF Lock, OutputTyped
        <3>3. Pending' = fragment \o <<>>
            BY <2>1, <3>2 DEF Lock, Pending, Raw
        <3> QED
            BY <3>1, <3>3, ConcatEmptySeq
    <2>2. CASE GetOutput(r)
        <3>1. outputLock' = outputLock /\ outputLock # r
            BY <2>2 DEF GetOutput, OneInside, Inside
        <3>2. \A q \in Reader : q # r => reader'[q] = reader[q]
            BY <2>2 DEF GetOutput, OutputTyped
        <3> QED
            BY <1>1, <3>1, <3>2 DEF Pending, Raw, OneInside
    <2>3. CASE Enough(r) \/ Ended(r) \/ PollOrTimeout(r)
        <3>1. outputLock' = outputLock
            BY <2>3 DEF Enough, Ended, PollOrTimeout
        <3>2. \A q \in Reader : reader'[q].raw = reader[q].raw
                               /\ reader'[q].before = reader[q].before
            BY <2>3 DEF Enough, Ended, PollOrTimeout, OutputTyped, Call
        <3> QED
            BY <1>1, <3>1, <3>2 DEF Pending, Raw, OneInside
    <2> QED
        BY <2>1, <2>2, <2>3
<1>6. OutputOnceInOrder'
    BY <1>1, <1>5 DEF OutputOnceInOrder, NothingIsLost
<1> QED
    BY <1>2, <1>3, <1>4, <1>6

(* What a read is decoded to is again a sequence, whose bytes are a number *)
(* of its own.                                                             *)
LEMMA Decoding ==
    ASSUME NEW s \in Positions
    PROVE  Decoded(s) \in Positions /\ ByteLength(s) \in Nat
<1>1. \A t \in Positions : Text(t) \in Positions
    <2> TAKE t \in Positions
    <2>1. Len(t) \in Nat /\ DOMAIN t = 1..Len(t) /\ \A i \in 1..Len(t) : t[i] \in Nat
        BY ElementOfSeq DEF Positions
    <2> DEFINE byte(i) == IF Whole(t, i) THEN t[i] ELSE Replacement
    <2>2. \A i \in 1..Len(t) : byte(i) \in Nat
        BY <2>1 DEF Replacement
    <2>3. Text(t) = [i \in 1..Len(t) |-> byte(i)]
        BY <2>1 DEF Text
    <2> HIDE DEF byte
    <2> QED
        BY <2>1, <2>2, <2>3, IsASeq DEF Positions
<1>2. Is(s, 1, "mark") => Tail(s) \in Positions
    <2>1. Is(s, 1, "mark") => s # <<>>
        BY DEF Is, Positions
    <2> QED
        BY <2>1 DEF Positions
<1>3. ByteLength(s) \in Nat
    <2>1. Len(s) \in Nat /\ DOMAIN s = 1..Len(s)
        BY DEF Positions
    <2>2. IsFiniteSet(1..Len(s)) /\ Replaced(s) \subseteq 1..Len(s)
        BY <2>1, FS_Interval DEF Replaced
    <2>3. Cardinality(Replaced(s)) \in Nat
        BY <2>2, FS_Subset, FS_CardinalityType
    <2> QED
        BY <2>1, <2>3 DEF ByteLength
<1> QED
    BY <1>1, <1>2, <1>3 DEF Decoded

(* Positions that follow each other have as many bytes as there are.       *)
LEMMA NothingReplaced ==
    ASSUME NEW s \in Positions, NEW n \in Nat, s = [i \in 1..Len(s) |-> n + i]
    PROVE  ByteLength(s) = Len(s)
<1>1. Len(s) \in Nat /\ DOMAIN s = 1..Len(s)
    BY DEF Positions
<1>2. Replaced(s) = {}
    <2> SUFFICES ASSUME NEW i \in 1..Len(s) PROVE s[i] # 0
        BY <1>1 DEF Replaced, Replacement
    <2>1. s[i] = n + i
        OBVIOUS
    <2> QED
        BY <2>1
<1> QED
    BY <1>1, <1>2, FS_EmptySet DEF ByteLength

LEMMA UnreadPositions ==
    ASSUME output \in Seq(Byte), bytesRead \in Nat
    PROVE  Unread \in Positions /\ Unread = [i \in 1..Len(Unread) |-> bytesRead + i]
<1> DEFINE n == Len(output) - bytesRead
           next(i) == bytesRead + i
<1>1. n \in Int /\ \A i \in 1..n : next(i) \in Nat
    OBVIOUS
<1>2. Unread = [i \in 1..n |-> next(i)]
    BY DEF Unread
<1>3. CASE n \in Nat
    <2> HIDE DEF n
    <2>1. [i \in 1..n |-> next(i)] \in Seq(Nat)
        BY <1>1, <1>3
    <2>2. Len([i \in 1..n |-> next(i)]) = n
        BY <1>1, <1>3
    <2> QED
        BY <1>2, <2>1, <2>2 DEF Positions
<1>4. CASE n \notin Nat
    <2>1. 1..n = {}
        BY <1>1, <1>4
    <2> HIDE DEF n
    <2>2. Unread = <<>>
        BY <1>2, <2>1
    <2>3. <<>> = [i \in 1..Len(<<>>) |-> bytesRead + i]
        BY Empty
    <2> QED
        BY <2>2, <2>3, Empty
<1> QED
    BY <1>3, <1>4

(* What is read follows what was read before.                              *)
LEMMA ReadStep ==
    ASSUME OutputIInv, NEW r \in Reader, "nobody" \notin Reader, Read(r)
    PROVE  OutputIInv'
<1> USE DEF OutputIInv
<1>1. UNCHANGED <<output, exited, over, bytesRead, fragment, outputLock, given, dropped>>
    BY DEF Read
<1>2. Len(output) \in Nat /\ bytesRead \in Nat
    BY DEF OutputTyped
<1>3. Unread \in Positions /\ Unread = [i \in 1..Len(Unread) |-> bytesRead + i]
    BY UnreadPositions DEF OutputTyped
<1>4. \A q \in Reader : q # r => reader'[q] = reader[q]
    BY DEF Read, OutputTyped
<1>5. PICK chunk \in {Decoded(Unread), <<>>} :
        /\ reader' = [reader EXCEPT ![r].at = IF @ = "read" THEN "append" ELSE "drained",
                                    ![r].chunk = chunk]
        /\ torn' = (torn \/ chunk \notin {Unread, <<>>})
    BY DEF Read
<1>6. chunk \in Positions
    BY <1>3, Decoding, Empty
<1>7. OutputTyped'
    <2>1. reader \in [Reader -> Call] /\ reader[r] \in Call
        BY DEF OutputTyped
    <2>2. reader'[r] = [reader[r] EXCEPT !.at = IF @ = "read" THEN "append" ELSE "drained",
                                         !.chunk = chunk]
        BY <1>5, <2>1
    <2>3. reader'[r] \in Call
        BY <1>6, <2>1, <2>2 DEF Call, Inside
    <2>4. reader' \in [Reader -> Call]
        BY <1>5, <2>1, <2>3
    <2>5. torn' \in BOOLEAN
        BY <1>5 DEF OutputTyped
    <2> QED
        BY <1>1, <2>4, <2>5 DEF OutputTyped
<1>8. OneInside'
    <2>1. reader[r].at \in {"read", "drain"}
        BY DEF Read
    <2> QED
        BY <1>1, <1>5, <2>1 DEF OneInside, OutputTyped, Inside
<1>9. ChunksFollow'
    <2>1. reader'[r].chunk = chunk
        BY <1>5 DEF OutputTyped
    <2>2. \A s : s \in {Unread, <<>>} => s = [i \in 1..Len(s) |-> bytesRead + i]
        <3>1. <<>> = [i \in 1..Len(<<>>) |-> bytesRead + i]
            BY Empty
        <3> QED
            BY <1>3, <3>1
    <2>3. ASSUME ~torn', NEW q \in Reader, reader'[q].at \in Uncounted
          PROVE  reader'[q].chunk = [i \in 1..Len(reader'[q].chunk) |-> bytesRead' + i]
        <3>1. ~torn /\ chunk \in {Unread, <<>>}
            BY <1>5, <2>3, Zenon
        <3>2. CASE q = r
            <4>1. chunk = [i \in 1..Len(chunk) |-> bytesRead + i]
                BY <2>2, <3>1
            <4> QED
                BY <1>1, <2>1, <3>2, <4>1, Zenon
        <3>3. CASE q # r
            BY <1>1, <1>4, <2>3, <3>1, <3>3 DEF ChunksFollow
        <3> QED
            BY <3>2, <3>3
    <2> QED
        BY <2>3 DEF ChunksFollow
<1>10. Pending' = Pending
    <2>1. \A q \in Reader : reader'[q].raw = reader[q].raw /\ reader'[q].before = reader[q].before
        BY <1>5 DEF OutputTyped
    <2> QED
        BY <1>1, <2>1 DEF Pending, Raw, OneInside
<1>11. OutputOnceInOrder'
    BY <1>1, <1>5, <1>10 DEF OutputOnceInOrder, NothingIsLost
<1> QED
    BY <1>7, <1>8, <1>9, <1>11

(* Whoever has left the queue holds the lock, and is alone in doing so.    *)
LEMMA InsideHolds ==
    ASSUME OutputIInv, NEW r \in Reader, reader[r].at \in Inside
    PROVE  /\ outputLock = r /\ reader[r].before = fragment
           /\ \A q \in Reader \ {r} : reader[q].at \notin Inside
BY DEF OutputIInv, OneInside

(* A call that counts what it read, whether in its loop or while it drains.*)
LEMMA CountStep ==
    ASSUME OutputIInv, NEW r \in Reader, "nobody" \notin Reader, Accumulate(r) \/ Drain(r)
    PROVE  OutputIInv'
<1> USE DEF OutputIInv
<1> DEFINE chunk == reader[r].chunk
<1>1. UNCHANGED <<output, exited, fragment, outputLock, given, dropped, torn>>
    BY DEF Accumulate, Drain
<1>2. reader \in [Reader -> Call] /\ reader[r] \in Call
    BY DEF OutputTyped
<1>3. /\ reader[r].at \in Uncounted /\ reader[r].at \in Inside
      /\ chunk \in Positions /\ reader[r].raw \in Positions /\ reader[r].before \in Positions
    BY <1>2 DEF Accumulate, Drain, Uncounted, Inside, Call
<1>4. bytesRead' = bytesRead + ByteLength(chunk) /\ bytesRead \in Nat /\ Len(chunk) \in Nat
      /\ ByteLength(chunk) \in Nat
    <2>1. bytesRead' = bytesRead + ByteLength(chunk)
        BY DEF Accumulate, Drain
    <2>2. ByteLength(chunk) \in Nat /\ Len(chunk) \in Nat
        BY <1>3, Decoding DEF Positions
    <2> QED
        BY <2>1, <2>2 DEF OutputTyped
<1>5. ~torn => chunk = [i \in 1..Len(chunk) |-> bytesRead + i] /\ ByteLength(chunk) = Len(chunk)
    <2> HIDE DEF chunk
    <2>1. ~torn => chunk = [i \in 1..Len(chunk) |-> bytesRead + i]
        BY <1>3 DEF ChunksFollow, chunk
    <2> QED
        BY <1>3, <1>4, <2>1, NothingReplaced
<1>6. outputLock = r /\ reader[r].before = fragment
      /\ \A q \in Reader \ {r} : reader[q].at \notin Inside
    BY <1>3, InsideHolds
<1>7. \A q \in Reader : q # r => reader'[q] = reader[q]
    BY <1>2 DEF Accumulate, Drain
<1>8. reader[r].raw \o chunk \in Positions /\ <<>> \in Positions
    BY <1>3, Empty, ConcatProperties DEF Positions
<1>9. /\ reader' \in [Reader -> Call] /\ reader'[r].raw = reader[r].raw \o chunk
      /\ reader'[r].before = reader[r].before /\ reader'[r].at \in Inside \ Uncounted
      /\ over' \in BOOLEAN
    <2>1. CASE Accumulate(r)
        <3>1. over' \in BOOLEAN
            BY <2>1 DEF Accumulate, OutputTyped
        <3> DEFINE c == [reader[r] EXCEPT !.at = "decide", !.raw = reader[r].raw \o chunk,
                                          !.over = over', !.chunk = <<>>]
        <3>2. reader' = [reader EXCEPT ![r] = c]
            BY <1>2, <2>1 DEF Accumulate
        <3>3. c \in Call
            BY <1>2, <1>8, <3>1 DEF Call, Inside
        <3>4. c.at = "decide" /\ c.raw = reader[r].raw \o chunk /\ c.before = reader[r].before
            BY <1>2 DEF Call
        <3> HIDE DEF c
        <3> QED
            BY <1>2, <3>1, <3>2, <3>3, <3>4 DEF Inside, Uncounted
    <2>2. CASE Drain(r)
        <3> DEFINE once == [reader[r] EXCEPT !.raw = reader[r].raw \o chunk, !.chunk = <<>>]
                   again == [once EXCEPT !.at = "drain", !.new = (reader[r].drains = 1)]
                   next == [once EXCEPT !.at = "drain", !.drains = reader[r].drains - 1]
                   done == [once EXCEPT !.at = "return"]
        <3>1. once \in Call /\ once.raw = reader[r].raw \o chunk
              /\ once.before = reader[r].before /\ once.drains = reader[r].drains
            BY <1>2, <1>8 DEF Call
        <3>2. over' = over
            BY <2>2 DEF Drain
        <3>3. reader' = [reader EXCEPT ![r] = again]
              \/ (reader[r].drains \in {1, 2} /\ reader' = [reader EXCEPT ![r] = next])
              \/ reader' = [reader EXCEPT ![r] = done]
            <4>1. reader' = [reader EXCEPT ![r] =
                    IF chunk # <<>> THEN again
                    ELSE IF reader[r].drains = 2 \/ (reader[r].drains = 1 /\ ~reader[r].new)
                         THEN next ELSE done]
                <5>1. once.drains - 1 = reader[r].drains - 1
                    BY <3>1
                <5>2. next = [once EXCEPT !.at = "drain", !.drains = once.drains - 1]
                    BY <5>1
                <5> QED
                    BY <2>2, <5>2, Zenon DEF Drain
            <4> HIDE DEF again, next, done, chunk
            <4> QED
                BY <4>1
        <3>4. again \in Call /\ again.raw = once.raw /\ again.before = once.before
              /\ again.at = "drain"
            <4> HIDE DEF once
            <4>1. "drain" \in Inside /\ (reader[r].drains = 1) \in BOOLEAN
                BY DEF Inside
            <4> QED
                BY <3>1, <4>1 DEF Call
        <3>5. ASSUME reader[r].drains \in {1, 2}
              PROVE  next \in Call /\ next.raw = once.raw /\ next.before = once.before
                     /\ next.at = "drain"
            <4> HIDE DEF once
            <4>1. "drain" \in Inside /\ reader[r].drains - 1 \in 0..2
                BY <3>5 DEF Inside
            <4> QED
                BY <3>1, <4>1 DEF Call
        <3>6. done \in Call /\ done.raw = once.raw /\ done.before = once.before
              /\ done.at = "return"
            <4> HIDE DEF once
            <4>1. "return" \in Inside
                BY DEF Inside
            <4> QED
                BY <3>1, <4>1 DEF Call
        <3>7. PICK c \in Call : /\ reader' = [reader EXCEPT ![r] = c]
                                /\ c.raw = reader[r].raw \o chunk
                                /\ c.before = reader[r].before
                                /\ c.at \in {"drain", "return"}
            <4> HIDE DEF again, next, done, once, chunk
            <4> QED
                BY <3>1, <3>3, <3>4, <3>5, <3>6
        <3> QED
            BY <1>2, <3>2, <3>7 DEF Inside, Uncounted, OutputTyped
    <2> QED
        BY <2>1, <2>2
<1> HIDE DEF chunk
<1>10. OutputTyped'
    <2>1. bytesRead' \in Nat
        BY <1>4
    <2> QED
        BY <1>1, <1>9, <2>1 DEF OutputTyped
<1>11. OneInside'
    <2>1. \A q \in Reader : OneInside!2!(q)
        BY DEF OneInside
    <2>2. reader'[r].at # "locking"
        BY <1>9 DEF Inside
    <2> QED
        BY <1>1, <1>6, <1>7, <1>9, <2>1, <2>2 DEF OneInside
<1>12. ChunksFollow'
    <2>1. \A q \in Reader : reader'[q].at \notin Uncounted
        BY <1>6, <1>7, <1>9 DEF Inside, Uncounted
    <2> QED
        BY <2>1 DEF ChunksFollow
<1>13. OutputOnceInOrder'
    <2> SUFFICES ASSUME ~torn', ~dropped'
                 PROVE  given' \o Pending' = Upto(bytesRead')
        BY DEF OutputOnceInOrder, NothingIsLost, Upto
    <2> DEFINE before == reader[r].before
               raw == reader[r].raw
    <2>1. given \in Positions /\ before \in Positions /\ raw \in Positions
        BY <1>3 DEF OutputTyped
    <2>2. given \o Pending = Upto(bytesRead) /\ Pending = before \o raw /\ outputLock \in Reader
        BY <1>1, <1>6 DEF OutputOnceInOrder, NothingIsLost, Upto, Pending, Raw
    <2>3. given' \o Pending' = given \o (before \o (raw \o chunk))
        BY <1>1, <1>6, <1>9, <2>2 DEF Pending, Raw
    <2> HIDE DEF before, raw
    <2>4. before \o (raw \o chunk) = (before \o raw) \o chunk
        BY <1>3, <2>1, Regroup
    <2>5. before \o raw \in Positions
        BY <2>1, ConcatProperties DEF Positions
    <2>6. given \o ((before \o raw) \o chunk) = (given \o (before \o raw)) \o chunk
        <3> DEFINE both == before \o raw
        <3>1. both \in Positions
            BY <2>5
        <3> HIDE DEF both
        <3>2. given \o (both \o chunk) = (given \o both) \o chunk
            BY <1>3, <2>1, <3>1, Regroup
        <3> QED
            BY <3>2 DEF both
    <2>7. given' \o Pending' = Upto(bytesRead) \o chunk
        BY <2>2, <2>3, <2>4, <2>6, Zenon
    <2> QED
        BY <1>1, <1>3, <1>4, <1>5, <2>7, Continues
<1> QED
    BY <1>10, <1>11, <1>12, <1>13

(* A call that ends gives back its lock.                                   *)
LEMMA EndStep ==
    ASSUME OutputIInv, NEW r \in Reader, "nobody" \notin Reader, Interrupt(r) \/ GiveLines(r)
    PROVE  OutputIInv'
<1> USE DEF OutputIInv
<1>1. UNCHANGED <<output, exited, over, bytesRead, torn>>
    BY DEF Interrupt, GiveLines
<1>2. /\ reader \in [Reader -> Call] /\ reader[r] \in Call
      /\ reader' = [reader EXCEPT ![r] = NoRead] /\ outputLock' = "nobody"
    BY DEF OutputTyped, Interrupt, GiveLines
<1>3. /\ outputLock = r /\ reader[r].before = fragment
      /\ \A q \in Reader \ {r} : reader[q].at \notin Inside
    <2>1. reader[r].at \in Inside
        BY DEF Interrupt, GiveLines, Inside
    <2> QED
        BY <2>1, InsideHolds
<1>4. /\ Raw(r) \in Positions /\ Pending = Raw(r) /\ Pending' = fragment'
      /\ given \in Positions /\ fragment \in Positions
    <2>1. Raw(r) \in Positions
        <3>1. reader[r].before \in Positions /\ reader[r].raw \in Positions
            BY <1>2 DEF Call
        <3> QED
            BY <3>1, ConcatProperties DEF Raw, Positions
    <2> QED
        BY <1>2, <1>3, <2>1 DEF Pending, OutputTyped
<1>5. /\ given' \in Positions /\ fragment' \in Positions /\ dropped' \in BOOLEAN
      /\ ~dropped' => ~dropped /\ given' \o fragment' = given \o Raw(r)
    <2>1. CASE Interrupt(r)
        <3>1. given' = given /\ fragment' = fragment
              /\ dropped' = (dropped \/ reader[r].raw # <<>>)
            BY <2>1 DEF Interrupt
        <3>2. ASSUME ~dropped' PROVE Raw(r) = fragment
            <4>1. reader[r].raw = <<>> /\ reader[r].before \in Seq(Nat)
                BY <1>2, <3>1, <3>2 DEF Call, Positions
            <4> QED
                BY <1>3, <4>1, ConcatEmptySeq DEF Raw
        <3> QED
            BY <1>4, <3>1, <3>2 DEF OutputTyped
    <2>2. CASE GiveLines(r)
        <3> DEFINE lines == IF reader[r].over THEN Len(Raw(r)) ELSE CompleteUpTo(Raw(r))
                   first == SubSeq(Raw(r), 1, lines)
                   rest == SubSeq(Raw(r), lines + 1, Len(Raw(r)))
        <3>1. given' = given \o first /\ fragment' = rest /\ dropped' = dropped
            BY <2>2 DEF GiveLines
        <3>2. lines \in 0..Len(Raw(r))
            <4>1. CompleteUpTo(Raw(r)) \in 0..Len(Raw(r))
                BY <1>4, CompleteIsWithin
            <4>2. Len(Raw(r)) \in 0..Len(Raw(r))
                <5>1. Len(Raw(r)) \in Nat
                    BY <1>4 DEF Positions
                <5> QED
                    BY <5>1
            <4> QED
                BY <4>1, <4>2
        <3> HIDE DEF lines
        <3>3. first \in Positions /\ rest \in Positions /\ first \o rest = Raw(r)
            BY <1>4, <3>2, Cut
        <3> HIDE DEF first, rest
        <3>4. given \o first \in Positions
            BY <1>4, <3>3, ConcatProperties DEF Positions
        <3>5. (given \o first) \o rest = given \o Raw(r)
            <4>1. given \o (first \o rest) = (given \o first) \o rest
                BY <1>4, <3>3, Regroup
            <4> QED
                BY <3>3, <4>1, Zenon
        <3>6. dropped \in BOOLEAN
            BY DEF OutputTyped
        <3> QED
            BY <3>1, <3>3, <3>4, <3>5, <3>6, Zenon
    <2> QED
        BY <2>1, <2>2
<1>6. OutputTyped'
    <2>1. reader' \in [Reader -> Call]
        BY <1>2, Empty
    <2> QED
        BY <1>1, <1>5, <2>1 DEF OutputTyped
<1>7. reader'[r] = NoRead /\ \A q \in Reader : q # r => reader'[q] = reader[q]
    BY <1>2
<1>8. OneInside'
    <2>1. \A q \in Reader : OneInside!2!(q)
        BY DEF OneInside
    <2>2. NoRead.at \notin Inside /\ NoRead.at # "locking"
        BY DEF NoRead, Inside
    <2> QED
        BY <1>2, <1>3, <1>7, <2>1, <2>2 DEF OneInside
<1>9. ChunksFollow'
    <2>1. \A q \in Reader : reader'[q].at \notin Uncounted
        BY <1>3, <1>7 DEF Inside, Uncounted, NoRead
    <2> QED
        BY <2>1 DEF ChunksFollow
<1>10. OutputOnceInOrder'
    <2> SUFFICES ASSUME ~torn', ~dropped' PROVE given' \o Pending' = [i \in 1..bytesRead' |-> i]
        BY DEF OutputOnceInOrder, NothingIsLost
    <2>1. given \o Raw(r) = [i \in 1..bytesRead |-> i]
        BY <1>1, <1>4, <1>5 DEF OutputOnceInOrder, NothingIsLost
    <2> QED
        BY <1>1, <1>4, <1>5, <2>1
<1> QED
    BY <1>6, <1>8, <1>9, <1>10

-----------------------------------------------------------------------------
(* Every step keeps the inductive invariant.                               *)
LEMMA OutputSteps == "nobody" \notin Reader /\ OutputIInv /\ [OutputNext]_outputVars => OutputIInv'
<1> SUFFICES ASSUME "nobody" \notin Reader, OutputIInv, [OutputNext]_outputVars PROVE OutputIInv'
    OBVIOUS
<1>1. CASE Write \/ Exit \/ StatusChanges
    BY <1>1, ProcessSteps
<1>2. CASE \E r \in Reader : ReaderStep(r)
    <2>1. PICK r \in Reader : ReaderStep(r)
        BY <1>2
    <2>2. CASE GetOutput(r) \/ Lock(r) \/ Enough(r) \/ Ended(r) \/ PollOrTimeout(r)
        BY <2>2, QuietSteps
    <2>3. CASE Read(r)
        BY <2>3, ReadStep
    <2>4. CASE Accumulate(r) \/ Drain(r)
        BY <2>4, CountStep
    <2>5. CASE Interrupt(r) \/ GiveLines(r)
        BY <2>5, EndStep
    <2> QED
        BY <2>1, <2>2, <2>3, <2>4, <2>5 DEF ReaderStep
<1>3. CASE UNCHANGED outputVars
    <2>1. OutputTyped' /\ OneInside' /\ ChunksFollow'
        BY <1>3 DEF outputVars, OutputIInv, OutputTyped, OneInside, ChunksFollow
    <2>2. OutputOnceInOrder'
        BY <1>3 DEF outputVars, OutputIInv, OutputOnceInOrder, NothingIsLost, Pending, Raw
    <2> QED
        BY <2>1, <2>2 DEF OutputIInv
<1> QED
    BY <1>1, <1>2, <1>3 DEF OutputNext

(* Whatever is read from a process's output is returned once and in order, *)
(* or kept as the start of the next line, however many calls overlap,      *)
(* whichever reads fail and whenever the process ends - until a read is    *)
(* decoded to something else than it holds, or an interrupted call has     *)
(* read something; "nobody" only has to name no call.                      *)
THEOREM OnceInOrder == "nobody" \notin Reader => (OutputSpec => []OutputOnceInOrder)
<1> SUFFICES ASSUME "nobody" \notin Reader PROVE OutputSpec => []OutputOnceInOrder
    OBVIOUS
<1>1. OutputInit => OutputIInv
    BY OutputStarts
<1>2. OutputIInv /\ [OutputNext]_outputVars => OutputIInv'
    BY OutputSteps
<1>3. OutputIInv => OutputOnceInOrder
    BY DEF OutputIInv
<1> QED
    BY <1>1, <1>2, <1>3, PTL DEF OutputSpec

-----------------------------------------------------------------------------
(* The types of the output.  What is kept or returned is in the file,      *)
(* because what a call has read, counted and taken over is.                *)
Within(s) == \A i \in DOMAIN s : s[i] \in DOMAIN output \cup {Replacement}
InFile ==
    /\ Within(fragment) /\ Within(given)
    /\ \A r \in Reader : Within(reader[r].raw) /\ Within(reader[r].before) /\ Within(reader[r].chunk)

LEMMA BothWithin ==
    ASSUME NEW s \in Positions, NEW t \in Positions, Within(s), Within(t)
    PROVE  Within(s \o t)
BY DEF Within, Positions

LEMMA PartWithin ==
    ASSUME NEW s \in Positions, Within(s), NEW n \in 0 .. Len(s)
    PROVE  Within(SubSeq(s, 1, n)) /\ Within(SubSeq(s, n + 1, Len(s)))
<1>1. SubSeq(s, 1, n) = [i \in 1 .. n |-> s[i]]
    BY DEF Positions
<1>2. SubSeq(s, n + 1, Len(s)) = [i \in 1 .. (Len(s) - n) |-> s[n + i]]
    BY DEF Positions
<1>3. Len(s) \in Nat /\ DOMAIN s = 1 .. Len(s)
    BY DEF Positions
<1> QED
    BY <1>1, <1>2, <1>3 DEF Within

\* what a read is decoded to is of the file, or a replacement character
LEMMA DecodedWithin ==
    ASSUME output \in Seq(Byte), bytesRead \in Nat
    PROVE  Within(Decoded(Unread))
<1>1. \A s : Within(s) => Within(Text(s))
    BY DEF Within, Text
<1>2. Within(Unread)
    BY DEF Within, Unread
<1>3. Unread \in Seq(Nat)
    BY UnreadPositions DEF Positions
<1>4. Is(Unread, 1, "mark") => Within(Tail(Unread))
    <2> SUFFICES ASSUME Is(Unread, 1, "mark") PROVE Within(Tail(Unread))
        OBVIOUS
    <2>1. 1 \in DOMAIN Unread
        BY DEF Is
    <2>2. \A i \in DOMAIN Tail(Unread) : i + 1 \in DOMAIN Unread /\ Tail(Unread)[i] = Unread[i + 1]
        BY <1>3, <2>1
    <2> QED
        BY <1>2, <2>2 DEF Within
<1> QED
    BY <1>1, <1>2, <1>4 DEF Decoded

\* the file only grows
LEMMA FileGrows ==
    ASSUME OutputIInv, [OutputNext]_outputVars
    PROVE  DOMAIN output \subseteq DOMAIN output'
<1>1. CASE Write
    BY <1>1 DEF Write, OutputIInv, OutputTyped
<1>2. CASE UNCHANGED output
    BY <1>2
<1> QED
    BY <1>1, <1>2 DEF OutputNext, Exit, StatusChanges, ReaderStep, GetOutput, Lock, Read, Accumulate, Enough, Ended, Interrupt,
        PollOrTimeout, Drain, GiveLines, outputVars

LEMMA InFileSteps ==
    ASSUME "nobody" \notin Reader, OutputIInv, InFile, [OutputNext]_outputVars
    PROVE  InFile'
<1>1. \A s : Within(s) => Within(s)'
    BY FileGrows DEF Within
<1>2. /\ reader \in [Reader -> Call] /\ fragment \in Positions /\ given \in Positions
      /\ output \in Seq(Byte) /\ bytesRead \in Nat
    BY DEF OutputIInv, OutputTyped
<1>3. Within(<<>>)
    BY DEF Within
<1>4. CASE UNCHANGED <<fragment, given, reader>>
    BY <1>1, <1>4 DEF InFile, Within
<1>5. ASSUME NEW r \in Reader, ReaderStep(r) PROVE InFile'
    <2>1. \A q \in Reader : q # r => reader'[q] = reader[q]
        BY <1>2, <1>5 DEF ReaderStep, GetOutput, Lock, Read, Accumulate, Enough, Ended, Interrupt, PollOrTimeout, Drain, GiveLines
    <2>2. CASE GiveLines(r)
        <3> DEFINE lines == IF reader[r].over THEN Len(Raw(r)) ELSE CompleteUpTo(Raw(r))
        <3>1. Raw(r) \in Positions /\ Within(Raw(r))
            BY <1>2, BothWithin DEF Raw, InFile, Call, Positions
        <3>2. lines \in 0 .. Len(Raw(r))
            BY <3>1, <1>2, CompleteIsWithin DEF Positions
        <3>3. given' = given \o SubSeq(Raw(r), 1, lines) /\ fragment' = SubSeq(Raw(r), lines + 1, Len(Raw(r))) /\ reader'[r] = NoRead
            BY <1>2, <2>2 DEF GiveLines
        <3> HIDE DEF lines
        <3>4. Within(SubSeq(Raw(r), 1, lines)) /\ Within(fragment')
            BY <3>1, <3>2, <3>3, PartWithin
        <3>5. SubSeq(Raw(r), 1, lines) \in Positions
            BY <3>1, <3>2 DEF Positions
        <3>6. Within(given')
            BY <3>3, <3>4, <3>5, <1>2, BothWithin DEF InFile
        <3>7. UNCHANGED output
            BY <2>2 DEF GiveLines
        <3>8. reader'[r].raw = <<>> /\ reader'[r].before = <<>> /\ reader'[r].chunk = <<>>
            BY <3>3 DEF NoRead
        <3>9. \A q \in Reader : Within(reader'[q].raw) /\ Within(reader'[q].before) /\ Within(reader'[q].chunk)
            BY <1>3, <2>1, <3>8 DEF InFile
        <3> QED
            BY <3>4, <3>6, <3>7, <3>9 DEF InFile, Within
    <2>3. CASE ~ GiveLines(r)
        <3>1. UNCHANGED <<fragment, given, output>>
            BY <1>5, <2>3 DEF ReaderStep, GetOutput, Lock, Read, Accumulate, Enough, Ended, Interrupt, PollOrTimeout, Drain
        <3>2. Within(reader'[r].raw) /\ Within(reader'[r].before) /\ Within(reader'[r].chunk)
            <4>1. CASE Accumulate(r) \/ Drain(r)
                <5>1. reader'[r].before = reader[r].before /\ reader'[r].chunk \in {<<>>, reader[r].chunk}
                      /\ reader'[r].raw \in {reader[r].raw, reader[r].raw \o reader[r].chunk}
                    <6>1. CASE Accumulate(r)
                        BY <1>2, <6>1 DEF Accumulate, Call
                    <6>2. CASE Drain(r)
                        <7> DEFINE once == [reader[r] EXCEPT !.raw = @ \o reader[r].chunk, !.chunk = <<>>]
                        <7>1. once.before = reader[r].before /\ once.chunk = <<>> /\ once.raw = reader[r].raw \o reader[r].chunk
                            BY <1>2 DEF Call
                        <7>2. /\ reader'[r].before = once.before /\ reader'[r].chunk = once.chunk
                              /\ reader'[r].raw = once.raw
                            BY <1>2, <6>2 DEF Drain, Call
                        <7> QED
                            BY <7>1, <7>2
                    <6> QED
                        BY <4>1, <6>1, <6>2
                <5>2. reader[r].raw \in Positions /\ reader[r].chunk \in Positions
                    BY <1>2 DEF Call
                <5>3. Within(reader[r].raw \o reader[r].chunk)
                    BY <5>2, BothWithin DEF InFile
                <5> QED
                    BY <1>3, <5>1, <5>3 DEF InFile
            <4>2. CASE Read(r)
                <5>1. /\ reader'[r].before = reader[r].before /\ reader'[r].raw = reader[r].raw
                      /\ reader'[r].chunk \in {Decoded(Unread), <<>>}
                    BY <1>2, <4>2 DEF Read, Call
                <5>2. Within(Decoded(Unread))
                    BY <1>2, DecodedWithin
                <5> QED
                    BY <1>3, <5>1, <5>2 DEF InFile
            <4>3. CASE GetOutput(r) \/ Interrupt(r)
                <5>1. reader'[r].raw = <<>> /\ reader'[r].before = <<>> /\ reader'[r].chunk = <<>>
                    <6>1. CASE Interrupt(r)
                        <7>1. reader'[r] = NoRead
                            BY <1>2, <6>1 DEF Interrupt
                        <7> QED
                            BY <7>1 DEF NoRead
                    <6>2. CASE GetOutput(r)
                        <7>1. PICK hides \in BOOLEAN : reader'[r] = [NoRead EXCEPT !.at = "locking", !.hides = hides]
                            BY <1>2, <6>2 DEF GetOutput
                        <7> QED
                            BY <7>1 DEF NoRead
                    <6> QED
                        BY <4>3, <6>1, <6>2
                <5> QED
                    BY <1>3, <5>1
            <4>4. CASE Lock(r)
                BY <1>2, <4>4 DEF Lock, Call, InFile
            <4>5. CASE Enough(r) \/ Ended(r) \/ PollOrTimeout(r)
                BY <1>2, <4>5 DEF Enough, Ended, PollOrTimeout, Call, InFile
            <4> QED
                BY <1>5, <2>3, <4>1, <4>2, <4>3, <4>4, <4>5 DEF ReaderStep
        <3> QED
            BY <2>1, <3>1, <3>2 DEF InFile, Within
    <2> QED
        BY <2>2, <2>3
<1> QED
    BY <1>4, <1>5 DEF OutputNext, Write, Exit, StatusChanges, outputVars

(* The output that is kept or returned is a part of output.log, but for    *)
(* the characters that a cut read replaces.                                *)
THEOREM OutputTypeCorrect == "nobody" \notin Reader => (OutputSpec => []OutputTypeOK)
<1> SUFFICES ASSUME "nobody" \notin Reader PROVE OutputSpec => []OutputTypeOK
    OBVIOUS
<1>1. OutputInit => OutputIInv /\ InFile
    BY OutputStarts DEF OutputInit, InFile, Within, NoRead
<1>2. OutputIInv /\ InFile /\ [OutputNext]_outputVars => OutputIInv' /\ InFile'
    BY OutputSteps, InFileSteps
<1>3. OutputIInv /\ InFile => OutputTypeOK
    BY DEF OutputIInv, OutputTyped, OneInside, InFile, Within, OutputTypeOK, ToSet, Positions
<1> QED
    BY <1>1, <1>2, <1>3, PTL DEF OutputSpec

-----------------------------------------------------------------------------
(***************************************************************************)
(* For any number of processes: one that is taken to run is in the map.    *)
(*                                                                         *)
(* That is not inductive.  A cleanup drops, behind its kills, whatever has *)
(* the ids of what it found: it must not have found a process that still   *)
(* counts as running, and the ids must still be theirs.  The first holds   *)
(* because it terminated every one that ran, the second because an id is   *)
(* chosen among the free ones and stays free until its process registers.  *)
(***************************************************************************)

\* 0 is no process
Positive == Proc \subseteq Nat \ {0}

BackgroundTyped ==
    /\ processes \in [Id -> Proc \cup {0}] /\ idOf \in [Proc -> Id \cup {0}]
    /\ spawning \in [Proc -> {"idle", "launching", "launched", "done"}]
    /\ status \in [Proc -> {"none", "running", "exited", "killed"}]
    /\ matching \subseteq Proc
    /\ overlapped \in BOOLEAN

\* the map has a process for its id, and has finished its spawn
Holds(p) == idOf[p] \in Id /\ processes[idOf[p]] = p

IdsOfTheirOwn ==
    /\ \A p \in InFlight : idOf[p] \in Id /\ processes[idOf[p]] = 0
    /\ \A p, q \in InFlight : idOf[p] = idOf[q] => p = q
    /\ \A i \in Id : processes[i] # 0 => /\ idOf[processes[i]] = i
                                         /\ spawning[processes[i]] = "done"

RunningHeld == \A p \in Proc : status[p] = "running" => Holds(p)

MatchedStop ==
    \A p \in matching : Holds(p) /\ (<<"cleanup", p>> \in stopping \/ status[p] # "running")

Placed == IdsOfTheirOwn /\ RunningHeld /\ MatchedStop

BackgroundIInv == BackgroundTyped /\ (overlapped \/ Placed)

-----------------------------------------------------------------------------
(* A non-empty set of numbers has a least element.                         *)
LEMMA Least ==
    ASSUME NEW S \in SUBSET Nat, S # {}
    PROVE  Min(S) \in S
<1> DEFINE Less == OpToRel(<, Nat)
<1>1. \A x, y \in Nat : <<y, x>> \in Less <=> y < x
    BY DEF OpToRel
<1>2. PICK x \in S : \A y \in S : <<y, x>> \notin Less
    <2>1. IsWellFoundedOn(Less, Nat)
        BY NatLessThanWellFounded, Zenon DEF Less
    <2> HIDE DEF Less
    <2> QED
        BY <2>1, WFMin
<1> HIDE DEF Less
<1>3. ASSUME NEW y \in S PROVE x <= y
    <2>1. x \in Nat /\ y \in Nat
        OBVIOUS
    <2>2. ~(y < x)
        BY <1>1, <1>2, <2>1, Zenon
    <2> QED
        BY <2>1, <2>2
<1>4. \E z \in S : \A y \in S : z <= y
    BY <1>3
<1> QED
    BY <1>4 DEF Min

(* The id chosen for a new process is free.                                *)
LEMMA UniqueIdIsFree ==
    ASSUME Positive, \E i \in Id : processes[i] = 0
    PROVE  UniqueId \in Id /\ processes[UniqueId] = 0
<1> DEFINE free == {i \in Id : processes[i] = 0}
<1>1. free \in SUBSET Nat /\ free # {}
    BY DEF Positive, Id
<1>2. Min(free) \in free
    <2> HIDE DEF free
    <2> QED
        BY <1>1, Least
<1> QED
    BY <1>2 DEF UniqueId

LEMMA BackgroundStarts == ProcessesInit => BackgroundIInv
<1> SUFFICES ASSUME ProcessesInit PROVE BackgroundIInv
    OBVIOUS
<1>1. BackgroundTyped
    BY DEF ProcessesInit, BackgroundTyped
<1>2. Placed
    BY DEF ProcessesInit, Placed, IdsOfTheirOwn, RunningHeld, MatchedStop, InFlight
<1> QED
    BY <1>1, <1>2 DEF BackgroundIInv

(* A process that is in the map has been spawned.                          *)
LEMMA HeldIsDone ==
    ASSUME Positive, IdsOfTheirOwn, NEW p \in Proc, Holds(p)
    PROVE  spawning[p] = "done"
BY DEF Positive, IdsOfTheirOwn, Holds

-----------------------------------------------------------------------------
LEMMA SpawnStep ==
    ASSUME Positive, BackgroundIInv, NEW p \in Proc, Spawn(p)
    PROVE  BackgroundIInv'
<1> USE DEF BackgroundIInv
<1>1. BackgroundTyped'
    BY UniqueIdIsFree DEF Spawn, BackgroundTyped, Id
<1>2. ASSUME ~overlapped' PROVE Placed'
    <2>1. ~overlapped /\ Placed /\ \A q \in InFlight : idOf[q] # idOf'[p]
        BY <1>2 DEF Spawn
    <2>2. /\ idOf'[p] = UniqueId /\ UniqueId \in Id /\ processes[UniqueId] = 0
          /\ spawning[p] = "idle" /\ spawning'[p] = "launching"
          /\ \A q \in Proc : q # p => idOf'[q] = idOf[q] /\ spawning'[q] = spawning[q]
        BY UniqueIdIsFree DEF Spawn, BackgroundTyped
    <2>3. UNCHANGED <<processes, status, stopping, matching>>
        BY DEF Spawn
    <2>4. InFlight' = InFlight \cup {p}
        BY <2>2 DEF InFlight
    <2>5. \A q \in Proc : Holds(q) => q # p /\ Holds(q)'
        BY <2>1, <2>2, <2>3, HeldIsDone DEF Placed, Holds
    <2>6. IdsOfTheirOwn'
        <3>1. \A q \in InFlight : q \in Proc
            BY DEF InFlight
        <3>2. \A i \in Id : processes[i] # 0 => processes[i] \in Proc /\ processes[i] # p
            BY <2>1, <2>2 DEF BackgroundTyped, Placed, IdsOfTheirOwn
        <3> QED
            BY <2>1, <2>2, <2>3, <2>4, <3>1, <3>2 DEF Placed, IdsOfTheirOwn, Id
    <2>7. RunningHeld'
        BY <2>1, <2>3, <2>5 DEF Placed, RunningHeld
    <2>8. MatchedStop'
        BY <2>1, <2>3, <2>5 DEF Placed, MatchedStop, BackgroundTyped
    <2> QED
        BY <2>6, <2>7, <2>8 DEF Placed
<1> QED
    BY <1>1, <1>2 DEF BackgroundTyped

(* A process that launches or ends changes nothing the map is about.       *)
LEMMA LaunchAndEndSteps ==
    ASSUME BackgroundIInv, NEW p \in Proc, Launch(p) \/ End(p)
    PROVE  BackgroundIInv'
<1> USE DEF BackgroundIInv
<1>1. UNCHANGED <<processes, idOf, status, stopping, matching, overlapped>>
    BY DEF Launch, End
<1>2. BackgroundTyped'
    BY <1>1 DEF Launch, End, BackgroundTyped
<1>3. ASSUME Placed PROVE Placed'
    <2>1. InFlight' \subseteq InFlight
        BY DEF Launch, End, InFlight, BackgroundTyped
    <2>2. \A q \in Proc : spawning[q] = "done" => spawning'[q] = "done"
        BY DEF Launch, End, BackgroundTyped
    <2>3. IdsOfTheirOwn'
        BY <1>1, <1>3, <2>1, <2>2 DEF Placed, IdsOfTheirOwn, BackgroundTyped
    <2> QED
        BY <1>1, <1>3, <2>3 DEF Placed, RunningHeld, MatchedStop, Holds
<1> QED
    BY <1>1, <1>2, <1>3

LEMMA RegisterStep ==
    ASSUME Positive, BackgroundIInv, NEW p \in Proc, EnterProcess(p)
    PROVE  BackgroundIInv'
<1> USE DEF BackgroundIInv
<1>1. UNCHANGED <<idOf, stopping, matching, overlapped>>
    BY DEF EnterProcess
<1>2. BackgroundTyped'
    BY <1>1 DEF EnterProcess, BackgroundTyped, Id
<1>3. ASSUME Placed PROVE Placed'
    <2>1. p \in InFlight /\ spawning[p] = "launched"
        BY DEF EnterProcess, InFlight
    <2>2. idOf[p] \in Id /\ processes[idOf[p]] = 0 /\ p # 0
        BY <1>3, <2>1 DEF Placed, IdsOfTheirOwn, Positive
    <2>3. /\ processes'[idOf[p]] = p
          /\ \A i \in Id : i # idOf[p] => processes'[i] = processes[i]
          /\ spawning'[p] = "done" /\ status'[p] = "running"
          /\ \A q \in Proc : q # p => spawning'[q] = spawning[q] /\ status'[q] = status[q]
        BY <2>2 DEF EnterProcess, BackgroundTyped
    <2>4. InFlight' = InFlight \ {p}
        BY <2>3 DEF InFlight
    <2>5. \A q \in Proc : Holds(q) => q # p /\ Holds(q)'
        BY <1>1, <1>3, <2>1, <2>2, <2>3, HeldIsDone DEF Placed, Holds, Positive
    <2>6. IdsOfTheirOwn'
        <3>1. \A q \in InFlight' : idOf'[q] \in Id /\ processes'[idOf'[q]] = 0
            BY <1>1, <1>3, <2>1, <2>3, <2>4 DEF Placed, IdsOfTheirOwn
        <3>2. \A q, u \in InFlight' : idOf'[q] = idOf'[u] => q = u
            BY <1>1, <1>3, <2>4 DEF Placed, IdsOfTheirOwn
        <3>3. ASSUME NEW i \in Id, processes'[i] # 0
              PROVE  idOf'[processes'[i]] = i /\ spawning'[processes'[i]] = "done"
            <4>1. CASE i = idOf[p]
                BY <1>1, <2>3, <4>1
            <4>2. CASE i # idOf[p]
                <5>1. processes'[i] = processes[i] /\ processes[i] \in Proc
                    BY <2>3, <3>3, <4>2 DEF BackgroundTyped
                <5> QED
                    BY <1>1, <1>3, <2>3, <3>3, <5>1 DEF Placed, IdsOfTheirOwn
            <4> QED
                BY <4>1, <4>2
        <3> QED
            BY <3>1, <3>2, <3>3 DEF IdsOfTheirOwn, Id
    <2>7. RunningHeld'
        <3>1. Holds(p)'
            BY <1>1, <2>2, <2>3 DEF Holds, Id
        <3> QED
            BY <1>3, <2>3, <2>5, <3>1 DEF Placed, RunningHeld
    <2>8. MatchedStop'
        BY <1>1, <1>3, <2>3, <2>5 DEF Placed, MatchedStop, BackgroundTyped
    <2> QED
        BY <2>6, <2>7, <2>8 DEF Placed
<1> QED
    BY <1>1, <1>2, <1>3

(* No refresh and no termination, whoever asks, makes a process run, or    *)
(* takes back what the cleanup under way has terminated.                   *)
LEMMA StopSteps ==
    ASSUME BackgroundIInv,
           \/ \E p \in Proc : TimerFires(p) \/ RefreshEnd(p) \/ \E c \in Caller : Stopped(c, p)
           \/ \E i \in Id : RefreshBegin(i) \/ UserTerminates(i)
    PROVE  BackgroundIInv'
<1> USE DEF BackgroundIInv
<1>1. UNCHANGED <<processes, idOf, spawning, matching, overlapped>>
    BY DEF TimerFires, RefreshEnd, Stopped, RefreshBegin, UserTerminates
<1>2. /\ status' \in [Proc -> {"none", "running", "exited", "killed"}]
      /\ \A q \in Proc : status'[q] = "running" => status[q] = "running"
    BY DEF TimerFires, RefreshEnd, Stopped, RefreshBegin, UserTerminates, BackgroundTyped
<1>3. \A q \in Proc : <<"cleanup", q>> \in stopping =>
                        <<"cleanup", q>> \in stopping' \/ status'[q] # "running"
    BY DEF TimerFires, RefreshEnd, Stopped, RefreshBegin, UserTerminates, BackgroundTyped
<1>4. BackgroundTyped'
    BY <1>1, <1>2 DEF BackgroundTyped
<1>5. ASSUME Placed PROVE Placed'
    <2>1. IdsOfTheirOwn'
        BY <1>1, <1>5 DEF Placed, IdsOfTheirOwn, InFlight
    <2>2. RunningHeld'
        BY <1>1, <1>2, <1>5 DEF Placed, RunningHeld, Holds
    <2>3. MatchedStop'
        BY <1>1, <1>2, <1>3, <1>5 DEF Placed, MatchedStop, Holds, BackgroundTyped
    <2> QED
        BY <2>1, <2>2, <2>3 DEF Placed
<1> QED
    BY <1>1, <1>4, <1>5

(* A cleanup terminates whatever runs of what it finds.                    *)
LEMMA CleanupStep ==
    ASSUME BackgroundIInv, Cleanup
    PROVE  BackgroundIInv'
<1> USE DEF BackgroundIInv
<1>1. UNCHANGED <<processes, idOf, spawning, status, overlapped>>
    BY DEF Cleanup
<1>2. Known \subseteq Proc
    BY DEF Known, BackgroundTyped
<1>3. BackgroundTyped'
    BY <1>1, <1>2 DEF Cleanup, BackgroundTyped
<1>4. ASSUME Placed PROVE Placed'
    <2>1. IdsOfTheirOwn'
        BY <1>1, <1>4 DEF Placed, IdsOfTheirOwn, InFlight
    <2>2. RunningHeld'
        BY <1>1, <1>4 DEF Placed, RunningHeld, Holds
    <2>3. ASSUME NEW p \in Known
          PROVE  Holds(p)' /\ (<<"cleanup", p>> \in stopping' \/ status'[p] # "running")
        <3>1. PICK i \in Id : p = processes[i] /\ p # 0
            BY <2>3 DEF Known
        <3>2. Holds(p)
            BY <1>4, <3>1 DEF Placed, IdsOfTheirOwn, Holds
        <3>3. status[p] = "running" => p \in ToStop(Id)
            BY <3>1 DEF ToStop
        <3> QED
            BY <1>1, <3>2, <3>3 DEF Cleanup, Holds
    <2>4. MatchedStop'
        BY <2>3 DEF Cleanup, MatchedStop
    <2> QED
        BY <2>1, <2>2, <2>4 DEF Placed
<1> QED
    BY <1>1, <1>3, <1>4

(* What it drops then no longer runs.                                      *)
LEMMA CleanedUpStep ==
    ASSUME Positive, BackgroundIInv, CleanedUp
    PROVE  BackgroundIInv'
<1> USE DEF BackgroundIInv
<1> DEFINE gone == {idOf[p] : p \in matching}
<1>1. /\ UNCHANGED <<idOf, spawning, status, overlapped>> /\ matching' = {}
      /\ processes' = [i \in Id |-> IF i \in gone THEN 0 ELSE processes[i]]
    BY DEF CleanedUp
<1>2. BackgroundTyped'
    BY <1>1 DEF BackgroundTyped
<1>3. ASSUME Placed PROVE Placed'
    <2>1. \A p \in matching : processes[idOf[p]] = p /\ status[p] # "running"
        BY <1>3 DEF Placed, MatchedStop, Holds, CleanedUp, BackgroundTyped
    <2>2. \A i \in Id : processes'[i] # 0 => processes'[i] = processes[i]
        BY <1>1
    <2>3. IdsOfTheirOwn'
        BY <1>1, <1>3, <2>2 DEF Placed, IdsOfTheirOwn, InFlight, Id
    <2>4. RunningHeld'
        <3> SUFFICES ASSUME NEW p \in Proc, status'[p] = "running" PROVE Holds(p)'
            BY DEF RunningHeld
        <3>1. Holds(p) /\ status[p] = "running"
            BY <1>1, <1>3 DEF Placed, RunningHeld
        <3>2. idOf[p] \notin gone
            <4>1. \A q \in matching : idOf[q] # idOf[p]
                BY <2>1, <3>1 DEF Holds
            <4> QED
                BY <4>1
        <3> QED
            BY <1>1, <3>1, <3>2 DEF Holds, Id
    <2> QED
        BY <1>1, <2>3, <2>4 DEF Placed, MatchedStop
<1> QED
    BY <1>1, <1>2, <1>3

-----------------------------------------------------------------------------
LEMMA BackgroundSteps == Positive /\ BackgroundIInv /\ [ProcessesNext]_processVars => BackgroundIInv'
<1> SUFFICES ASSUME Positive, BackgroundIInv, [ProcessesNext]_processVars PROVE BackgroundIInv'
    OBVIOUS
<1>1. CASE \E p \in Proc : Spawn(p)
    BY <1>1, SpawnStep
<1>2. CASE \E p \in Proc : Launch(p) \/ End(p)
    BY <1>2, LaunchAndEndSteps
<1>3. CASE \E p \in Proc : EnterProcess(p)
    BY <1>3, RegisterStep
<1>4. CASE \/ \E p \in Proc : TimerFires(p) \/ RefreshEnd(p) \/ \E c \in Caller : Stopped(c, p)
           \/ \E i \in Id : RefreshBegin(i) \/ UserTerminates(i)
    BY <1>4, StopSteps
<1>5. CASE Cleanup
    BY <1>5, CleanupStep
<1>6. CASE CleanedUp
    BY <1>6, CleanedUpStep
<1>7. CASE UNCHANGED processVars
    BY <1>7 DEF processVars, BackgroundIInv, BackgroundTyped, Placed, IdsOfTheirOwn, RunningHeld, MatchedStop, Holds,
                InFlight
<1> QED
    BY <1>1, <1>2, <1>3, <1>4, <1>5, <1>6, <1>7 DEF ProcessesNext

(* However many processes are spawned, however refreshes, terminations,    *)
(* time limits and cleanups overlap, and whether or not kills succeed: a   *)
(* process that is taken to run is in the map, unless two spawns of one    *)
(* name overlapped.                                                        *)
THEOREM KnownWhileRunning == Positive => (ProcessesSpec => []RunningIsKnown)
<1> SUFFICES ASSUME Positive PROVE ProcessesSpec => []RunningIsKnown
    OBVIOUS
<1>1. ProcessesInit => BackgroundIInv
    BY BackgroundStarts
<1>2. BackgroundIInv /\ [ProcessesNext]_processVars => BackgroundIInv'
    BY BackgroundSteps
<1>3. BackgroundIInv => RunningIsKnown
    BY DEF BackgroundIInv, Placed, RunningHeld, RunningIsKnown, Holds
<1> QED
    BY <1>1, <1>2, <1>3, PTL DEF ProcessesSpec

-----------------------------------------------------------------------------
(* The types of the processes.  An exit code is written under the id of a  *)
(* process, which it has from the start of its spawn: so whoever runs, is  *)
(* in the map or is being terminated has been spawned.                     *)
Started == {p \in Proc : spawning[p] # "idle"}
StartedHaveIds ==
    /\ os \in [Proc -> {"none", "running", "dead"}]
    /\ \A p \in Started : idOf[p] \in Id
    /\ \A p \in Proc : os[p] = "running" => p \in Started
    /\ \A i \in Id : processes[i] # 0 => processes[i] \in Started
    /\ stopping \subseteq Caller \X Started
    /\ exitFile \subseteq Id /\ timers \subseteq Started /\ refreshing \subseteq Proc

\* what is terminated was in the map
LEMMA StopsStarted ==
    ASSUME StartedHaveIds, NEW S \in SUBSET Id, NEW c \in Caller
    PROVE  {c} \X ToStop(S) \subseteq Caller \X Started
BY DEF StartedHaveIds, ToStop

\* who has been spawned stays so
LEMMA StartedGrow ==
    ASSUME Positive, BackgroundTyped, StartedHaveIds, [ProcessesNext]_processVars
    PROVE  /\ Started \subseteq Started'
           /\ \A p \in Started' : idOf'[p] \in Id
<1>1. CASE \E p \in Proc : Spawn(p)
    BY <1>1, UniqueIdIsFree DEF Spawn, Started, StartedHaveIds, BackgroundTyped, Id
<1>2. CASE \E p \in Proc : Launch(p) \/ EnterProcess(p)
    BY <1>2 DEF Launch, EnterProcess, Started, StartedHaveIds, BackgroundTyped
<1>3. CASE UNCHANGED <<spawning, idOf>>
    BY <1>3 DEF Started, StartedHaveIds
<1> QED
    BY <1>1, <1>2, <1>3 DEF ProcessesNext, End, TimerFires, RefreshEnd, Stopped, RefreshBegin, UserTerminates, Cleanup,
        CleanedUp, processVars

LEMMA StartedSteps ==
    ASSUME Positive, BackgroundTyped, StartedHaveIds, [ProcessesNext]_processVars
    PROVE  StartedHaveIds'
<1>1. Started \subseteq Started' /\ \A p \in Started' : idOf'[p] \in Id
    BY StartedGrow
<1>2. os' \in [Proc -> {"none", "running", "dead"}] /\ \A p \in Proc : os'[p] = "running" => p \in Started'
    <2>1. CASE \E p \in Proc : Launch(p)
        BY <1>1, <2>1 DEF Launch, StartedHaveIds, Started, BackgroundTyped
    <2>2. CASE \E p \in Proc : End(p) \/ \E c \in Caller : Stopped(c, p)
        BY <1>1, <2>2 DEF End, Stopped, StartedHaveIds
    <2>3. CASE UNCHANGED os
        BY <1>1, <2>3 DEF StartedHaveIds
    <2> QED
        BY <2>1, <2>2, <2>3 DEF ProcessesNext, Spawn, EnterProcess, TimerFires, RefreshEnd, RefreshBegin, UserTerminates, Cleanup,
            CleanedUp, processVars
<1>3. \A i \in Id : processes'[i] # 0 => processes'[i] \in Started'
    <2>1. CASE \E p \in Proc : EnterProcess(p)
        BY <1>1, <2>1 DEF EnterProcess, StartedHaveIds, Started, BackgroundTyped
    <2>2. CASE CleanedUp
        BY <1>1, <2>2 DEF CleanedUp, StartedHaveIds
    <2>3. CASE UNCHANGED processes
        BY <1>1, <2>3 DEF StartedHaveIds
    <2> QED
        BY <2>1, <2>2, <2>3 DEF ProcessesNext, Spawn, Launch, End, Stopped, TimerFires, RefreshEnd, RefreshBegin,
            UserTerminates, Cleanup, processVars
<1>4. stopping' \subseteq Caller \X Started'
    <2>1. stopping' \subseteq stopping \/ \E c \in Caller, S \in SUBSET Id : stopping' = stopping \cup ({c} \X ToStop(S))
        <3>1. CASE \E i \in Id : UserTerminates(i)
            BY <3>1 DEF UserTerminates, Caller
        <3>2. CASE \E p \in Proc : TimerFires(p)
            BY <3>2 DEF TimerFires, Caller, StartedHaveIds
        <3>3. CASE Cleanup
            BY <3>3 DEF Cleanup, Caller
        <3>4. CASE \E p \in Proc, c \in Caller : Stopped(c, p)
            BY <3>4 DEF Stopped
        <3>5. CASE UNCHANGED stopping
            BY <3>5
        <3> QED
            BY <3>1, <3>2, <3>3, <3>4, <3>5 DEF ProcessesNext, Spawn, Launch, EnterProcess, End, RefreshEnd, RefreshBegin,
                CleanedUp, processVars
    <2> QED
        BY <1>1, <2>1, StopsStarted DEF StartedHaveIds
<1>5. exitFile' \subseteq Id
    <2>1. CASE \E p \in Proc : End(p)
        BY <2>1 DEF End, StartedHaveIds
    <2>2. CASE \E p \in Proc, c \in Caller : Stopped(c, p)
        BY <2>2 DEF Stopped, StartedHaveIds
    <2>3. CASE UNCHANGED exitFile
        BY <2>3 DEF StartedHaveIds
    <2> QED
        BY <2>1, <2>2, <2>3 DEF ProcessesNext, Spawn, Launch, EnterProcess, TimerFires, RefreshEnd, RefreshBegin, UserTerminates,
            Cleanup, CleanedUp, processVars
<1>6. timers' \subseteq Started'
    <2>1. CASE \E p \in Proc : EnterProcess(p)
        BY <1>1, <2>1 DEF EnterProcess, StartedHaveIds, Started
    <2>2. CASE timers' \subseteq timers
        BY <1>1, <2>2 DEF StartedHaveIds
    <2> QED
        BY <2>1, <2>2 DEF ProcessesNext, Spawn, Launch, End, Stopped, TimerFires, RefreshEnd, RefreshBegin, UserTerminates,
            Cleanup, CleanedUp, processVars
<1>7. refreshing' \subseteq Proc
    <2>1. CASE \E i \in Id : RefreshBegin(i)
        BY <2>1 DEF RefreshBegin, StartedHaveIds, BackgroundTyped
    <2>2. CASE refreshing' \subseteq refreshing
        BY <2>2 DEF StartedHaveIds
    <2> QED
        BY <2>1, <2>2 DEF ProcessesNext, Spawn, Launch, EnterProcess, End, Stopped, TimerFires, RefreshEnd, UserTerminates,
            Cleanup, CleanedUp, processVars
<1> QED
    BY <1>1, <1>2, <1>3, <1>4, <1>5, <1>6, <1>7 DEF StartedHaveIds

(* The maps and sets of the manager are well typed, overlapping spawns     *)
(* included: an exit code is only ever written in the directory of an id.  *)
THEOREM ProcessesTypeCorrect == Positive => (ProcessesSpec => []ProcessesTypeOK)
<1> SUFFICES ASSUME Positive PROVE ProcessesSpec => []ProcessesTypeOK
    OBVIOUS
<1>1. ProcessesInit => BackgroundIInv /\ StartedHaveIds
    BY BackgroundStarts DEF ProcessesInit, StartedHaveIds, Started
<1>2. BackgroundIInv /\ StartedHaveIds /\ [ProcessesNext]_processVars => BackgroundIInv' /\ StartedHaveIds'
    BY BackgroundSteps, StartedSteps DEF BackgroundIInv
<1>3. BackgroundIInv /\ StartedHaveIds => ProcessesTypeOK
    BY DEF BackgroundIInv, BackgroundTyped, StartedHaveIds, Started, ProcessesTypeOK
<1> QED
    BY <1>1, <1>2, <1>3, PTL DEF ProcessesSpec
=============================================================================
