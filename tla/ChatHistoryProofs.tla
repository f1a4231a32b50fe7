------------------------- MODULE ChatHistoryProofs -------------------------
(***************************************************************************)
(* What holds of the history file, for any number of messages and parts.   *)
(*                                                                         *)
(* Whatever may happen: the types (TypeCorrect); and, unless mux crashes,  *)
(* a counter that is ahead of the file (CounterStaysAhead).                *)
(*                                                                         *)
(* The other properties speak of a row over time, and they hold of a       *)
(* session that is alone with its files (Steady): no fork commits the      *)
(* partial of a session that streams, and the user's removals do not meet  *)
(* a partial that an error or a crash has left.  TLC shows what happens    *)
(* otherwise: see the README.  The invariant (SInv) says that the reply    *)
(* and the partial are versions of one row, the last one of its epoch, so  *)
(* that whatever is written late is written in its place.                  *)
(*                                                                         *)
(* At the end, the two that hold with forks as well, unless something is   *)
(* removed or mux crashes (Undisturbed, ForkInv).                          *)
(***************************************************************************)
EXTENDS ChatHistory, TLAPS, SequenceTheorems, WellFoundedInduction

-----------------------------------------------------------------------------
(* The least and the largest of a set of numbers, and the operators that   *)
(* choose them.                                                            *)
LEMMA LeastOf ==
    ASSUME NEW I, I \subseteq Nat, I # {}
    PROVE  \E i \in I : \A j \in I : i <= j
<1>1. PICK i \in I : \A j \in I : ~ (<<j, i>> \in OpToRel(<, Nat))
    BY NatLessThanWellFounded, WFMin
<1>2. \A j \in I : ~ (j < i)
    BY <1>1 DEF OpToRel
<1> QED
    BY <1>2

\* Largest, of a bounded set of numbers that is not empty
LEMMA LargestOf ==
    ASSUME NEW I, I \subseteq Nat, I # {}, NEW b \in Nat, \A i \in I : i < b
    PROVE  /\ Largest(I) \in I /\ Largest(I) \in Nat /\ Largest(I) < b
           /\ \A i \in I : i <= Largest(I)
<1> DEFINE J == {b - i : i \in I}
<1>1. J \subseteq Nat /\ J # {}
    <2>1. \A i \in I : b - i \in Nat
        OBVIOUS
    <2> QED
        BY <2>1
<1>2. PICK m \in J : \A j \in J : m <= j
    BY <1>1, LeastOf
<1>3. PICK n \in I : m = b - n
    BY <1>2
<1>4. \A i \in I : i <= n
    <2> TAKE i \in I
    <2>1. b - i \in J
        OBVIOUS
    <2> QED
        BY <1>2, <1>3, <2>1
<1>5. Largest(I) \in I /\ \A i \in I : i <= Largest(I)
    BY <1>4 DEF Largest
<1> QED
    BY <1>5

\* First, of a set of positions
LEMMA FirstOf ==
    ASSUME NEW I, I \subseteq Nat, 0 \notin I
    PROVE  /\ First(I) = 0 <=> I = {}
           /\ I # {} => First(I) \in I /\ \A i \in I : First(I) <= i
<1>1. CASE I = {}
    BY <1>1 DEF First
<1>2. CASE I # {}
    <2>1. \E i \in I : \A j \in I : i <= j
        BY <1>2, LeastOf
    <2>2. First(I) \in I /\ \A i \in I : First(I) <= i
        BY <1>2, <2>1 DEF First
    <2> QED
        BY <1>2, <2>2
<1> QED
    BY <1>1, <1>2

(* The position of the first row with a sequence number.                   *)
LEMMA AtOf ==
    ASSUME NEW s \in Seq(Row), NEW n
    PROVE  /\ At(s, n) = 0 <=> \A i \in DOMAIN s : s[i].seq # n
           /\ At(s, n) # 0 => At(s, n) \in DOMAIN s /\ s[At(s, n)].seq = n
<1> DEFINE I == {i \in DOMAIN s : s[i].seq = n}
<1>1. I \subseteq Nat /\ 0 \notin I
    OBVIOUS
<1>2. At(s, n) = First(I)
    BY DEF At
<1> HIDE DEF I
<1>3. (First(I) = 0 <=> I = {}) /\ (I # {} => First(I) \in I)
    BY <1>1, FirstOf
<1> QED
    BY <1>2, <1>3 DEF I

\* a row of the file, by its position
LEMMA RowTyped ==
    ASSUME NEW s \in Seq(Row), NEW i \in DOMAIN s
    PROVE  /\ s[i] \in Row /\ s[i].id \in MsgId /\ s[i].seq \in Nat
           /\ s[i].parts \in 0..MaxParts /\ i \in 1..Len(s) /\ i \in Nat
<1>1. s[i] \in Row /\ i \in 1..Len(s)
    BY ElementOfSeq
<1> QED
    BY <1>1 DEF Row

(* The next sequence number after those of some rows.                      *)
LEMMA SeqAfterOf ==
    ASSUME NEW s \in Seq(Row), NEW b \in Nat, \A i \in DOMAIN s : s[i].seq < b
    PROVE  /\ SeqAfter(s) \in Nat /\ SeqAfter(s) <= b
           /\ \A i \in DOMAIN s : s[i].seq < SeqAfter(s)
<1>1. CASE s = <<>>
    BY <1>1 DEF SeqAfter
<1>2. CASE s # <<>>
    <2> DEFINE I == {s[i].seq : i \in DOMAIN s}
    <2>1. \A i \in DOMAIN s : s[i].seq \in Nat
        BY RowTyped
    <2>2. I \subseteq Nat /\ \A i \in I : i < b
        BY <2>1
    <2>5. 1 \in DOMAIN s
        BY <1>2
    <2>6. I # {}
        BY <2>5
    <2>3. SeqAfter(s) = Largest(I) + 1
        BY <1>2 DEF SeqAfter
    <2> HIDE DEF I
    <2>4. Largest(I) \in Nat /\ Largest(I) < b /\ \A i \in I : i <= Largest(I)
        BY <2>2, <2>6, LargestOf
    <2>7. \A i \in DOMAIN s : s[i].seq \in I
        BY DEF I
    <2> QED
        BY <2>1, <2>3, <2>4, <2>7
<1> QED
    BY <1>1, <1>2

-----------------------------------------------------------------------------
(* deleteMessage filters the rows: what is left are the other rows, each   *)
(* of them, in their order.                                                *)
Left(f, s, id, n) ==
    /\ f \in [0..n -> Seq(Row)]
    /\ f[0] = <<>>
    /\ \A i \in 1..n : f[i] = IF s[i].id = id THEN f[i - 1] ELSE Append(f[i - 1], s[i])

\* g says where the rows of t are among the first n of s
Picks(g, t, s, id, n) ==
    /\ g \in [DOMAIN t -> 1..n]
    /\ \A k \in DOMAIN t : t[k] = s[g[k]] /\ s[g[k]].id # id
    /\ \A k, l \in DOMAIN t : k < l => g[k] < g[l]
    /\ \A i \in 1..n : s[i].id # id => \E k \in DOMAIN t : g[k] = i

\* the recursive function of Without is one: it exists and obeys its equations
LEMMA LeftExists ==
    ASSUME NEW s \in Seq(Row), NEW id
    PROVE  \E f : Left(f, s, id, Len(s))
<1> DEFINE Not == {n \in 0..Len(s) : ~ \E f : Left(f, s, id, n)}
<1> SUFFICES ASSUME Not # {} PROVE FALSE
    <2>1. Len(s) \in 0..Len(s)
        OBVIOUS
    <2> QED
        BY <2>1
<1>1. PICK n \in Not : \A m \in Not : n <= m
    <2>1. Not \subseteq Nat
        OBVIOUS
    <2> QED
        BY <2>1, LeastOf
<1>2. n # 0
    <2>1. Left([i \in 0..0 |-> <<>>], s, id, 0)
        BY DEF Left
    <2> QED
        BY <2>1
<1>3. n - 1 \in 0..Len(s) /\ n - 1 \notin Not /\ n \in 1..Len(s) /\ n \in Nat
    BY <1>1, <1>2
<1>4. PICK f : Left(f, s, id, n - 1)
    BY <1>3
<1> DEFINE h == [i \in 0..n |-> IF i < n THEN f[i]
                               ELSE IF s[n].id = id THEN f[n - 1] ELSE Append(f[n - 1], s[n])]
<1>5. f[n - 1] \in Seq(Row) /\ s[n] \in Row
    BY <1>3, <1>4, ElementOfSeq DEF Left
<1>6. Append(f[n - 1], s[n]) \in Seq(Row)
    BY <1>5, AppendProperties
<1>7. h \in [0..n -> Seq(Row)]
    <2>1. \A i \in 0..n : i < n => i \in 0..(n - 1)
        BY <1>3
    <2> QED
        BY <1>4, <1>5, <1>6, <2>1 DEF Left
<1>8. h[0] = <<>>
    BY <1>3, <1>4 DEF Left
<1>9. ASSUME NEW i \in 1..n
      PROVE  h[i] = IF s[i].id = id THEN h[i - 1] ELSE Append(h[i - 1], s[i])
    <2>1. i - 1 \in 0..n /\ i \in 0..n /\ i - 1 < n
        BY <1>3
    <2>2. h[i - 1] = f[i - 1]
        BY <2>1
    <2>3. CASE i = n
        BY <2>1, <2>2, <2>3
    <2>4. CASE i # n
        <3>1. i < n /\ i \in 1..(n - 1)
            BY <1>3, <2>4
        <3>2. h[i] = f[i]
            BY <2>1, <3>1
        <3> QED
            BY <1>4, <2>2, <3>1, <3>2 DEF Left
    <2> QED
        BY <2>3, <2>4
<1>10. Left(h, s, id, n)
    BY <1>7, <1>8, <1>9 DEF Left
<1> QED
    BY <1>10

\* and Without takes its last value
LEMMA WithoutIsLeft ==
    ASSUME NEW s \in Seq(Row), NEW id
    PROVE  \E f : Left(f, s, id, Len(s)) /\ Without(s, id) = f[Len(s)]
<1> DEFINE D(f) == [i \in 0..Len(s) |->
                      IF i = 0 THEN <<>>
                      ELSE IF s[i].id = id THEN f[i - 1] ELSE Append(f[i - 1], s[i])]
           left == CHOOSE f : f = D(f)
<1>1. PICK f : Left(f, s, id, Len(s))
    BY LeftExists
<1>2. Len(s) \in Nat
    OBVIOUS
<1>3. f = D(f)
    <2>1. \A i \in 0..Len(s) : i # 0 => i \in 1..Len(s)
        BY <1>2
    <2> QED
        BY <1>1, <2>1 DEF Left
<1>4. left = D(left)
    BY <1>3
<1>5. Without(s, id) = left[Len(s)]
    BY DEF Without
<1> HIDE DEF left
<1>6. left[0] = <<>> /\ DOMAIN left = 0..Len(s)
    BY <1>2, <1>4
<1>7. \A i \in 1..Len(s) :
         left[i] = IF s[i].id = id THEN left[i - 1] ELSE Append(left[i - 1], s[i])
    <2> TAKE i \in 1..Len(s)
    <2>1. i \in 0..Len(s) /\ i # 0
        BY <1>2
    <2> QED
        BY <1>4, <2>1
<1> HIDE DEF D
<1> DEFINE Not == {i \in 0..Len(s) : left[i] \notin Seq(Row)}
<1>8. Not = {}
    <2> SUFFICES ASSUME Not # {} PROVE FALSE
        OBVIOUS
    <2>1. Not \subseteq Nat
        BY <1>2
    <2>2. PICK i \in Not : \A m \in Not : i <= m
        BY <2>1, LeastOf
    <2>3. i # 0
        BY <1>6, EmptySeq
    <2>4. i \in 1..Len(s) /\ i - 1 \in 0..Len(s) /\ i - 1 \notin Not
        BY <1>2, <2>2, <2>3
    <2>5. left[i - 1] \in Seq(Row) /\ s[i] \in Row
        BY <2>4, ElementOfSeq
    <2>6. Append(left[i - 1], s[i]) \in Seq(Row)
        BY <2>5, AppendProperties
    <2> QED
        BY <1>7, <2>4, <2>5, <2>6
<1>9. left = [i \in 0..Len(s) |-> left[i]]
    BY <1>4, <1>6 DEF D
<1>10. Left(left, s, id, Len(s))
    BY <1>6, <1>7, <1>8, <1>9 DEF Left
<1> QED
    BY <1>5, <1>10

\* what Without returns: the rows with another id, and only those
LEMMA WithoutOf ==
    ASSUME NEW s \in Seq(Row), NEW id
    PROVE  /\ Without(s, id) \in Seq(Row)
           /\ \E g : Picks(g, Without(s, id), s, id, Len(s))
<1>1. PICK f : Left(f, s, id, Len(s)) /\ Without(s, id) = f[Len(s)]
    BY WithoutIsLeft
<1>2. Len(s) \in Nat /\ Len(s) \in 0..Len(s)
    OBVIOUS
<1> DEFINE Not == {n \in 0..Len(s) : ~ \E g : Picks(g, f[n], s, id, n)}
<1>3. Not = {}
    <2> SUFFICES ASSUME Not # {} PROVE FALSE
        OBVIOUS
    <2>1. Not \subseteq Nat
        BY <1>2
    <2>2. PICK n \in Not : \A m \in Not : n <= m
        BY <2>1, LeastOf
    <2>3. n # 0
        <3>1. f[0] = <<>>
            BY <1>1 DEF Left
        <3>2. Picks(<<>>, f[0], s, id, 0)
            BY <3>1 DEF Picks
        <3> QED
            BY <3>2
    <2>4. /\ n \in 1..Len(s) /\ n \in Nat /\ n - 1 \in Nat
          /\ n - 1 \in 0..Len(s) /\ n - 1 \notin Not
        BY <1>2, <2>2, <2>3
    <2>5. PICK g, t : t = f[n - 1] /\ Picks(g, t, s, id, n - 1)
        BY <2>4
    <2>6. t \in Seq(Row) /\ s[n] \in Row
        BY <1>1, <2>4, <2>5, ElementOfSeq DEF Left
    <2>9. /\ \A k \in DOMAIN t : g[k] \in 1..(n - 1) /\ t[k] = s[g[k]] /\ s[g[k]].id # id
          /\ \A k, l \in DOMAIN t : k < l => g[k] < g[l]
          /\ \A i \in 1..(n - 1) : s[i].id # id => \E k \in DOMAIN t : g[k] = i
        BY <2>5 DEF Picks
    <2>7. CASE s[n].id = id
        <3>1. f[n] = t
            BY <1>1, <2>4, <2>5, <2>7 DEF Left
        <3>2. \A i \in 1..n : s[i].id # id => i \in 1..(n - 1)
            BY <2>4, <2>7
        <3>3. 1..(n - 1) \subseteq 1..n
            BY <2>4
        <3>4. g \in [DOMAIN t -> 1..n]
            BY <2>5, <3>3 DEF Picks
        <3>5. Picks(g, f[n], s, id, n)
            BY <2>5, <3>1, <3>2, <3>4, Zenon DEF Picks
        <3> QED
            BY <3>5
    <2>8. CASE s[n].id # id
        <3> DEFINE t1 == Append(t, s[n])
                   g1 == [k \in DOMAIN t1 |-> IF k <= Len(t) THEN g[k] ELSE n]
        <3>1. f[n] = t1
            BY <1>1, <2>4, <2>5, <2>8 DEF Left
        <3>2. /\ t1 \in Seq(Row) /\ Len(t1) = Len(t) + 1 /\ Len(t) \in Nat
              /\ \A k \in 1..Len(t) : t1[k] = t[k]
              /\ t1[Len(t) + 1] = s[n]
              /\ DOMAIN t1 = 1..(Len(t) + 1) /\ DOMAIN t = 1..Len(t)
            BY <2>6, AppendProperties
        <3> HIDE DEF t1
        <3>3. /\ \A k \in 1..Len(t) : g1[k] = g[k] /\ g[k] \in 1..(n - 1)
              /\ g1[Len(t) + 1] = n
              /\ g1 = [k \in DOMAIN t1 |-> g1[k]]
            <4>1. \A k \in 1..Len(t) : k \in DOMAIN t1 /\ k <= Len(t) /\ g[k] \in 1..(n - 1)
                BY <2>9, <3>2
            <4>2. Len(t) + 1 \in DOMAIN t1 /\ ~ (Len(t) + 1 <= Len(t))
                BY <3>2
            <4> QED
                BY <4>1, <4>2
        <3>4. g1 \in [DOMAIN t1 -> 1..n]
            <4>1. \A k \in DOMAIN t1 : k \in 1..Len(t) \/ k = Len(t) + 1
                BY <3>2
            <4>2. n \in 1..n /\ \A m \in 1..(n - 1) : m \in 1..n
                BY <2>4
            <4> HIDE DEF g1
            <4>3. \A k \in DOMAIN t1 : g1[k] \in 1..n
                BY <3>3, <4>1, <4>2
            <4> QED
                BY <3>3, <4>3
        <3> HIDE DEF g1
        <3>5. \A k \in DOMAIN t1 : k \in 1..Len(t) \/ k = Len(t) + 1
            BY <3>2
        <3>6. ASSUME NEW k \in DOMAIN t1 PROVE t1[k] = s[g1[k]] /\ s[g1[k]].id # id
            BY <2>8, <2>9, <3>2, <3>3, <3>5
        <3>7. ASSUME NEW k \in DOMAIN t1, NEW l \in DOMAIN t1, k < l PROVE g1[k] < g1[l]
            <4>1. k \in 1..Len(t)
                BY <3>2, <3>7
            <4>2. CASE l \in 1..Len(t)
                BY <2>9, <3>2, <3>3, <3>7, <4>1, <4>2
            <4>3. CASE l = Len(t) + 1
                <5>1. g1[k] \in 1..(n - 1) /\ g1[l] = n
                    BY <3>3, <4>1, <4>3
                <5> QED
                    BY <2>4, <5>1
            <4> QED
                BY <3>5, <4>2, <4>3
        <3>8. ASSUME NEW i \in 1..n, s[i].id # id PROVE \E k \in DOMAIN t1 : g1[k] = i
            <4>1. CASE i = n
                BY <3>2, <3>3, <4>1
            <4>2. CASE i # n
                <5>1. i \in 1..(n - 1)
                    BY <2>4, <4>2
                <5>2. PICK k \in DOMAIN t : g[k] = i
                    BY <2>9, <3>8, <5>1
                <5>3. k \in 1..Len(t) /\ k \in DOMAIN t1
                    BY <3>2, <5>2
                <5> QED
                    BY <3>3, <5>2, <5>3
            <4> QED
                BY <4>1, <4>2
        <3>9. Picks(g1, t1, s, id, n)
            BY <3>4, <3>6, <3>7, <3>8 DEF Picks
        <3> QED
            BY <3>1, <3>9
    <2> QED
        BY <2>7, <2>8
<1>4. f[Len(s)] \in Seq(Row)
    BY <1>1, <1>2 DEF Left
<1> QED
    BY <1>1, <1>2, <1>3, <1>4

-----------------------------------------------------------------------------
(* Every operation that removes rows leaves some of them, in their order.  *)
Within(t, s) ==
    \E g \in [DOMAIN t -> DOMAIN s] :
       /\ \A k \in DOMAIN t : t[k] = s[g[k]]
       /\ \A k, l \in DOMAIN t : k < l => g[k] < g[l]

\* deleteMessage leaves rows of the file
LEMMA WithoutWithin ==
    ASSUME NEW s \in Seq(Row), NEW id
    PROVE  /\ Without(s, id) \in Seq(Row) /\ Within(Without(s, id), s)
           /\ \A k \in DOMAIN Without(s, id) : Without(s, id)[k].id # id
           /\ \A i \in DOMAIN s : s[i].id # id => \E k \in DOMAIN Without(s, id) : Without(s, id)[k] = s[i]
<1>1. PICK t : t = Without(s, id)
    OBVIOUS
<1>2. t \in Seq(Row) /\ \E g : Picks(g, t, s, id, Len(s))
    BY <1>1, WithoutOf
<1>3. PICK g : Picks(g, t, s, id, Len(s))
    BY <1>2
<1>4. DOMAIN s = 1..Len(s)
    OBVIOUS
<1>5. Within(t, s)
    BY <1>3, <1>4 DEF Picks, Within
<1>6. \A k \in DOMAIN t : t[k].id # id
    BY <1>3 DEF Picks
<1>7. \A i \in DOMAIN s : s[i].id # id => \E k \in DOMAIN t : t[k] = s[i]
    BY <1>3, <1>4 DEF Picks
<1> QED
    BY <1>1, <1>2, <1>5, <1>6, <1>7

\* so do the truncations
LEMMA SubSeqWithin ==
    ASSUME NEW s \in Seq(Row), NEW m \in 1..(Len(s) + 1), NEW n \in 0..Len(s)
    PROVE  SubSeq(s, m, n) \in Seq(Row) /\ Within(SubSeq(s, m, n), s)
<1>1. PICK t : t = SubSeq(s, m, n)
    OBVIOUS
<1>2. /\ t \in Seq(Row) /\ Len(t) = IF m <= n THEN n - m + 1 ELSE 0
      /\ \A i \in 1..(n - m + 1) : t[i] = s[m + i - 1]
    BY <1>1, SubSeqProperties
<1> DEFINE g == [k \in DOMAIN t |-> m + k - 1]
<1>3. ASSUME NEW k \in DOMAIN t PROVE m + k - 1 \in DOMAIN s /\ t[k] = s[m + k - 1]
    <2>1. DOMAIN t = 1..Len(t)
        BY <1>2
    <2>2. m <= n /\ k \in 1..(n - m + 1)
        BY <1>2, <2>1
    <2> QED
        BY <1>2, <2>2
<1>4. g \in [DOMAIN t -> DOMAIN s] /\ \A k \in DOMAIN t : g[k] = m + k - 1
    BY <1>3
<1>5. \A k, l \in DOMAIN t : k < l => g[k] < g[l]
    BY <1>2, <1>4
<1> HIDE DEF g
<1>6. \A k \in DOMAIN t : t[k] = s[g[k]]
    BY <1>3, <1>4
<1> QED
    BY <1>1, <1>2, <1>4, <1>5, <1>6 DEF Within

-----------------------------------------------------------------------------
(* Types, which hold of every behaviour, whatever the features.            *)
Replying == {"opened", "streaming", "ended", "finalizing", "completed", "compacting",
             "aborting", "abandoning", "abandoned"}
Places == Replying \cup {"idle", "edited", "snapshot", "appended", "commit", "continue", "open"}
Reply == [id : MsgId, seq : Nat, parts : 0..MaxParts, worthy : BOOLEAN]

\* there is a sequence number above those of the rows
Bounded(s) == \E b \in Nat : \A i \in DOMAIN s : s[i].seq < b

Typed ==
    /\ TypeOK /\ Bounded(rows)
    /\ pc \in Places
    /\ IF pc \in Replying THEN reply \in Reply ELSE reply = NoMsg
    /\ \A c \in Committer : cpc[c] \in Committing => snap[c] # NoMsg

\* the next sequence number is a number
LEMMA NextTyped ==
    ASSUME Typed
    PROVE  NextSequence \in Nat
<1>1. rows \in Seq(Row) /\ counter \in Nat \cup {Unset}
    BY DEF Typed, TypeOK
<1>2. CASE counter # Unset
    BY <1>1, <1>2 DEF NextSequence
<1>3. CASE counter = Unset /\ rows # <<>>
    <2>1. Len(rows) \in DOMAIN rows
        BY <1>1, <1>3
    <2>2. rows[Len(rows)].seq \in Nat
        BY <1>1, <2>1, RowTyped
    <2> QED
        BY <1>3, <2>2 DEF NextSequence
<1>4. CASE counter = Unset /\ rows = <<>>
    BY <1>4 DEF NextSequence
<1> QED
    BY <1>2, <1>3, <1>4

\* a row is appended
LEMMA AppendTyped ==
    ASSUME Typed, NEW row \in Row, rows' = Append(rows, row)
    PROVE  rows' \in Seq(Row) /\ Bounded(rows')
<1>1. /\ rows \in Seq(Row) /\ rows' \in Seq(Row) /\ Len(rows') = Len(rows) + 1
      /\ \A i \in 1..Len(rows) : rows'[i] = rows[i]
      /\ rows'[Len(rows) + 1] = row
    BY AppendProperties DEF Typed, TypeOK
<1>2. PICK b \in Nat : \A i \in DOMAIN rows : rows[i].seq < b
    BY DEF Typed, Bounded
<1>3. row.seq \in Nat
    BY DEF Row
<1>4. PICK d \in Nat : b <= d /\ row.seq < d
    <2>1. CASE row.seq < b
        BY <2>1
    <2>2. CASE ~ (row.seq < b)
        <3>1. row.seq + 1 \in Nat /\ b <= row.seq + 1 /\ row.seq < row.seq + 1
            BY <1>3, <2>2
        <3> QED
            BY <3>1
    <2> QED
        BY <2>1, <2>2
<1>5. ASSUME NEW i \in DOMAIN rows' PROVE rows'[i].seq < d
    <2>1. CASE i \in 1..Len(rows)
        <3>1. rows[i].seq \in Nat /\ rows[i].seq < b
            BY <1>1, <1>2, <2>1, RowTyped
        <3> QED
            BY <1>1, <1>4, <2>1, <3>1
    <2>2. CASE i = Len(rows) + 1
        BY <1>1, <1>4, <2>2
    <2> QED
        BY <1>1, <2>1, <2>2
<1> QED
    BY <1>1, <1>5 DEF Bounded

\* appendToHistory of a message without a historySequence
LEMMA AppendNewTyped ==
    ASSUME Typed, HasRoom, NEW role \in {"user", "snapshot", "assistant"},
           NEW parts \in 0..MaxParts, AppendNew(role, parts)
    PROVE  /\ rows' \in Seq(Row) /\ Bounded(rows') /\ counter' \in Nat
           /\ fresh \in MsgId /\ fresh' \in 1..(MaxMsg + 1)
<1>1. fresh \in MsgId
    BY DEF Typed, TypeOK, HasRoom, MsgId
<1>2. [id |-> fresh, seq |-> NextSequence, role |-> role, parts |-> parts,
       partial |-> FALSE, boundary |-> FALSE] \in Row
    BY <1>1, NextTyped DEF Row
<1>3. rows' \in Seq(Row) /\ Bounded(rows')
    BY <1>2, AppendTyped DEF AppendNew
<1>4. counter' \in Nat /\ fresh' \in 1..(MaxMsg + 1)
    BY <1>1, NextTyped, BoundsAssumption DEF AppendNew, MsgId
<1> QED
    BY <1>1, <1>3, <1>4

\* appendToHistory of a message that has one
LEMMA AppendWithSequenceTyped ==
    ASSUME Typed, NEW row \in Row, AppendWithSequence(row)
    PROVE  rows' \in Seq(Row) /\ Bounded(rows') /\ counter' \in Nat \cup {Unset}
<1>1. row.seq \in Nat /\ counter \in Nat \cup {Unset}
    BY DEF Row, Typed, TypeOK
<1> QED
    BY <1>1, AppendTyped DEF AppendWithSequence, Unset

\* the row of a compaction whose streamed summary is not there
LEMMA SummaryTyped ==
    ASSUME Typed, HasRoom, pc \in Replying
    PROVE  /\ SummaryRow \in Row /\ fresh + 1 \in 1..(MaxMsg + 1)
           /\ SummaryRow.id = fresh /\ SummaryRow.seq = NextSequence /\ SummaryRow.boundary
<1>1. fresh \in MsgId /\ fresh + 1 \in 1..(MaxMsg + 1)
    BY BoundsAssumption DEF Typed, TypeOK, HasRoom, MsgId
<1>2. reply \in Reply
    BY DEF Typed
<1> QED
    BY <1>1, <1>2, NextTyped DEF SummaryRow, FinalRow, Row, Reply

\* updateHistory
LEMMA UpdateTyped ==
    ASSUME Typed, NEW row \in Row, UpdateHistory(row)
    PROVE  rows' \in Seq(Row) /\ Bounded(rows')
<1>1. rows \in Seq(Row)
    BY DEF Typed, TypeOK
<1>2. PICK i : i = At(rows, row.seq)
    OBVIOUS
<1>3. i \in DOMAIN rows /\ rows[i].seq = row.seq /\ i \in 1..Len(rows)
    BY <1>1, <1>2, AtOf DEF UpdateHistory
<1>4. PICK new : new = [row EXCEPT !.boundary = @ \/ rows[i].boundary]
    OBVIOUS
<1>5. new \in Row /\ new.seq = row.seq
    BY <1>4 DEF Row
<1>6. rows' = [rows EXCEPT ![i] = new]
    BY <1>2, <1>4 DEF UpdateHistory
<1>7. rows' \in Seq(Row) /\ DOMAIN rows' = DOMAIN rows
    BY <1>1, <1>3, <1>5, <1>6, ExceptSeq
<1>8. \A k \in DOMAIN rows : rows'[k].seq = rows[k].seq
    BY <1>3, <1>5, <1>6
<1> QED
    BY <1>7, <1>8 DEF Typed, Bounded

\* fewer rows have the bound of the rows they are from
LEMMA WithinTyped ==
    ASSUME Typed, rows' \in Seq(Row), Within(rows', rows)
    PROVE  Bounded(rows') /\ SeqAfter(rows') \in Nat
<1>1. PICK b \in Nat : \A i \in DOMAIN rows : rows[i].seq < b
    BY DEF Typed, Bounded
<1>2. \A k \in DOMAIN rows' : rows'[k].seq < b
    BY <1>1 DEF Within
<1> QED
    BY <1>2, SeqAfterOf DEF Bounded

\* deleteMessage
LEMMA DeleteTyped ==
    ASSUME Typed, NEW id, DeleteMessage(id)
    PROVE  rows' \in Seq(Row) /\ Bounded(rows') /\ counter' \in Nat
<1>1. rows' \in Seq(Row) /\ Within(rows', rows)
    BY WithoutWithin DEF DeleteMessage, Typed, TypeOK
<1> QED
    BY <1>1, WithinTyped DEF DeleteMessage, Typed, TypeOK, Unset

\* truncateHistory
LEMMA TruncateHeadTyped ==
    ASSUME Typed, NEW n \in 0..Len(rows), TruncateHead(n)
    PROVE  rows' \in Seq(Row) /\ Within(rows', rows) /\ Bounded(rows') /\ counter' \in Nat
<1>1. rows \in Seq(Row) /\ n + 1 \in 1..(Len(rows) + 1) /\ Len(rows) \in 0..Len(rows)
    BY DEF Typed, TypeOK
<1>2. rows' \in Seq(Row) /\ Within(rows', rows)
    BY <1>1, SubSeqWithin DEF TruncateHead
<1> QED
    BY <1>2, WithinTyped DEF TruncateHead

\* truncateAfterMessage
LEMMA TruncateAfterTyped ==
    ASSUME Typed, NEW i \in DOMAIN rows, TruncateAfter(rows[i].id)
    PROVE  rows' \in Seq(Row) /\ Within(rows', rows) /\ Bounded(rows') /\ counter' \in Nat
<1> DEFINE J == {j \in DOMAIN rows : rows[j].id = rows[i].id}
<1>1. rows \in Seq(Row)
    BY DEF Typed, TypeOK
<1>2. J \subseteq Nat /\ 0 \notin J /\ J # {}
    BY <1>1
<1>3. First(J) \in J
    BY <1>2, FirstOf
<1>4. First(J) - 1 \in 0..Len(rows) /\ 1 \in 1..(Len(rows) + 1)
    BY <1>1, <1>3
<1>5. rows' = SubSeq(rows, 1, First(J) - 1)
    BY DEF TruncateAfter
<1>6. rows' \in Seq(Row) /\ Within(rows', rows)
    BY <1>1, <1>4, <1>5, SubSeqWithin
<1> QED
    BY <1>6, WithinTyped DEF TruncateAfter

\* an edit truncates at a row that is there
LEMMA EditTargetOf ==
    ASSUME rows \in Seq(Row), NEW i \in Epoch(rows)
    PROVE  EditTarget(i) \in DOMAIN rows
<1> DEFINE J == {j \in Epoch(rows) : j <= i /\ \A k \in j..(i - 1) : rows[k].role = "snapshot"}
<1>1. i \in DOMAIN rows /\ i \in Nat
    BY DEF Epoch
<1>2. J \subseteq DOMAIN rows
    BY DEF Epoch
<1>3. i \in J
    BY <1>1
<1>4. J \subseteq Nat /\ 0 \notin J
    BY <1>2
<1>5. EditTarget(i) = First(J)
    BY DEF EditTarget
<1> HIDE DEF J
<1>6. First(J) \in J
    BY <1>3, <1>4, FirstOf
<1> QED
    BY <1>2, <1>5, <1>6

\* the history variables of a removal
LEMMA TakeAwayTyped ==
    ASSUME Typed, NEW ids, ids \subseteq MsgId, TakeAway(ids)
    PROVE  /\ removed' \subseteq MsgId /\ finished' \subseteq MsgId
           /\ kept' \in [MsgId -> 0..MaxParts]
BY BoundsAssumption DEF Typed, TypeOK, TakeAway

\* the types hold at the start
LEMMA InitTyped == Init => Typed
<1> SUFFICES ASSUME Init PROVE Typed
    OBVIOUS
<1>1. rows \in Seq(Row) /\ Bounded(rows)
    BY EmptySeq DEF Init, Bounded
<1> QED
    BY <1>1, BoundsAssumption
       DEF Init, Typed, TypeOK, Places, Replying, Committing, MsgId, Unset

\* and are kept by every step
LEMMA TypeStep == Typed /\ [Next]_vars => Typed'
<1> SUFFICES ASSUME Typed, [Next]_vars PROVE Typed'
    OBVIOUS
<1>1. ASSUME Prepare PROVE Typed'
    BY <1>1
       DEF Prepare, EndCommit, disk, commit, ghost, Typed, TypeOK, Places, Replying, Reply,
           Committing, CommitOver, Partial, Unset
<1>2. ASSUME Resume PROVE Typed'
    BY <1>2
       DEF Resume, EndCommit, disk, commit, ghost, Typed, TypeOK, Places, Replying, Reply,
           Committing, CommitOver, Partial, Unset
<1>3. ASSUME TurnCommitted PROVE Typed'
    BY <1>3
       DEF TurnCommitted, EndCommit, disk, commit, ghost, Typed, TypeOK, Places, Replying, Reply,
           Committing, CommitOver, Partial, Unset
<1>4. ASSUME StartStream PROVE Typed'
    BY <1>4
       DEF StartStream, EndCommit, disk, commit, ghost, Typed, TypeOK, Places, Replying, Reply,
           Committing, CommitOver, Partial, Unset
<1>5. ASSUME ReceivePart PROVE Typed'
    <2>1. reply \in Reply /\ reply.parts + 1 \in 0..MaxParts
        BY <1>5, BoundsAssumption DEF ReceivePart, Typed, Replying, Reply
    <2>2. reply' \in Reply
        BY <1>5, <2>1 DEF ReceivePart, Reply
    <2> QED
        BY <1>5, <2>2 DEF ReceivePart, disk, commit, ghost, Typed, TypeOK, Places, Replying
<1>6. ASSUME EndDeletePartial PROVE Typed'
    BY <1>6
       DEF EndDeletePartial, EndCommit, disk, commit, ghost, Typed, TypeOK, Places, Replying, Reply,
           Committing, CommitOver, Partial, Unset
<1>7. ASSUME TurnEnds PROVE Typed'
    BY <1>7
       DEF TurnEnds, EndCommit, disk, commit, ghost, Typed, TypeOK, Places, Replying, Reply,
           Committing, CommitOver, Partial, Unset
<1>8. ASSUME CompactDeletePartial PROVE Typed'
    BY <1>8
       DEF CompactDeletePartial, EndCommit, disk, commit, ghost, Typed, TypeOK, Places, Replying, Reply,
           Committing, CommitOver, Partial, Unset
<1>9. ASSUME AbortDeletePartial PROVE Typed'
    BY <1>9
       DEF AbortDeletePartial, EndCommit, disk, commit, ghost, Typed, TypeOK, Places, Replying, Reply,
           Committing, CommitOver, Partial, Unset
<1>10. ASSUME AbandonDeletePartial PROVE Typed'
    BY <1>10
       DEF AbandonDeletePartial, EndCommit, disk, commit, ghost, Typed, TypeOK, Places, Replying, Reply,
           Committing, CommitOver, Partial, Unset
<1>11. ASSUME ForkCommitted PROVE Typed'
    BY <1>11
       DEF ForkCommitted, EndCommit, disk, commit, ghost, Typed, TypeOK, Places, Replying, Reply,
           Committing, CommitOver, Partial, Unset
<1>12. ASSUME Crash PROVE Typed'
    BY <1>12
       DEF Crash, EndCommit, disk, commit, ghost, Typed, TypeOK, Places, Replying, Reply,
           Committing, CommitOver, Partial, Unset
<1>13. ASSUME TurnCommitRead PROVE Typed'
    BY <1>13
       DEF TurnCommitRead, CommitRead, disk, commit, ghost, Typed, TypeOK, Places, Replying, Reply,
           Committing, Partial
<1>14. ASSUME AbortCommitRead PROVE Typed'
    BY <1>14
       DEF AbortCommitRead, CommitRead, disk, commit, ghost, Typed, TypeOK, Places, Replying, Reply,
           Committing, Partial
<1>15. ASSUME ForkCommitRead PROVE Typed'
    BY <1>15
       DEF ForkCommitRead, CommitRead, disk, commit, ghost, Typed, TypeOK, Places, Replying, Reply,
           Committing, Partial
<1>16. ASSUME FlushPartial PROVE Typed'
    BY <1>16
       DEF FlushPartial, WritePartial, disk, commit, ghost, Typed, TypeOK, Places, Replying, Reply,
           Partial
<1>17. ASSUME StreamEnds PROVE Typed'
    BY <1>17
       DEF StreamEnds, WritePartial, disk, commit, ghost, Typed, TypeOK, Places, Replying, Reply,
           Partial
<1>18. ASSUME StreamFails PROVE Typed'
    BY <1>18
       DEF StreamFails, WritePartial, disk, commit, ghost, Typed, TypeOK, Places, Replying, Reply,
           Partial
<1>19. ASSUME StreamAborts PROVE Typed'
    BY <1>19
       DEF StreamAborts, WritePartial, disk, commit, ghost, Typed, TypeOK, Places, Replying, Reply,
           Partial
<1>20. ASSUME Abandon PROVE Typed'
    BY <1>20, BoundsAssumption
       DEF Abandon, commit, Typed, TypeOK, Places, Replying, Reply
<1>21. ASSUME AbandonFlush PROVE Typed'
    BY <1>21
       DEF AbandonFlush, disk, commit, ghost, Typed, TypeOK, Places, Replying, Reply, Partial
<1>22. ASSUME AppendSnapshot PROVE Typed'
    <2>1. rows' \in Seq(Row) /\ Bounded(rows') /\ counter' \in Nat /\ fresh' \in 1..(MaxMsg + 1)
        BY <1>22, AppendNewTyped, BoundsAssumption DEF AppendSnapshot
    <2> QED
        BY <1>22, <2>1 DEF AppendSnapshot, commit, ghost, Typed, TypeOK, Places, Replying
<1>23. ASSUME Send PROVE Typed'
    <2>1. rows' \in Seq(Row) /\ Bounded(rows') /\ counter' \in Nat /\ fresh' \in 1..(MaxMsg + 1)
        BY <1>23, AppendNewTyped, BoundsAssumption DEF Send
    <2> QED
        BY <1>23, <2>1 DEF Send, commit, ghost, Typed, TypeOK, Places, Replying
<1>24. ASSUME OpenReply PROVE Typed'
    <2>1. /\ rows' \in Seq(Row) /\ Bounded(rows') /\ counter' \in Nat
          /\ fresh \in MsgId /\ fresh' \in 1..(MaxMsg + 1)
        BY <1>24, AppendNewTyped, BoundsAssumption DEF OpenReply
    <2>2. [id |-> fresh, seq |-> NextSequence, parts |-> 0, worthy |-> FALSE] \in Reply
        BY <2>1, NextTyped, BoundsAssumption DEF Reply
    <2> QED
        BY <1>24, <2>1, <2>2
           DEF OpenReply, commit, ghost, Typed, TypeOK, Places, Replying
<1>25. ASSUME DropPlaceholder PROVE Typed'
    <2>1. rows' \in Seq(Row) /\ Bounded(rows') /\ counter' \in Nat
        BY <1>25, DeleteTyped DEF DropPlaceholder
    <2> QED
        BY <1>25, <2>1 DEF DropPlaceholder, commit, ghost, Typed, TypeOK, Places, Replying
<1>26. ASSUME EndUpdateHistory PROVE Typed'
    <2>1. reply \in Reply /\ FinalRow \in Row
        BY <1>26 DEF EndUpdateHistory, Typed, Replying, Reply, FinalRow, Row
    <2>2. rows' \in Seq(Row) /\ Bounded(rows')
        BY <1>26, <2>1, UpdateTyped DEF EndUpdateHistory, Typed, TypeOK, FinalRow
    <2> QED
        BY <1>26, <2>1, <2>2
           DEF EndUpdateHistory, commit, ghost, Typed, TypeOK, Places, Replying, Reply
<1>27. ASSUME CompactMarkBoundary PROVE Typed'
    <2>1. reply \in Reply
        BY <1>27 DEF CompactMarkBoundary, Typed, Replying
    <2>2. [FinalRow EXCEPT !.boundary = TRUE] \in Row
        BY <2>1 DEF Reply, FinalRow, Row
    <2>3. CASE UpdateHistory([FinalRow EXCEPT !.boundary = TRUE]) /\ UNCHANGED <<counter, fresh>>
        <3>1. rows' \in Seq(Row) /\ Bounded(rows')
            BY <2>2, <2>3, UpdateTyped
        <3> QED
            BY <1>27, <2>3, <3>1
               DEF CompactMarkBoundary, commit, ghost, Typed, TypeOK, Places, Replying
    <2>4. CASE HasRoom /\ AppendWithSequence(SummaryRow) /\ fresh' = fresh + 1
        <3>1. SummaryRow \in Row /\ fresh' \in 1..(MaxMsg + 1)
            BY <1>27, <2>4, SummaryTyped DEF CompactMarkBoundary, Replying
        <3>2. rows' \in Seq(Row) /\ Bounded(rows') /\ counter' \in Nat \cup {Unset}
            BY <2>4, <3>1, AppendWithSequenceTyped
        <3> QED
            BY <1>27, <3>1, <3>2
               DEF CompactMarkBoundary, commit, ghost, Typed, TypeOK, Places, Replying
    <2> QED
        BY <1>27, <2>3, <2>4 DEF CompactMarkBoundary
<1>28. ASSUME Clear PROVE Typed'
    <2>1. Len(rows) \in 0..Len(rows) /\ rows \in Seq(Row)
        BY DEF Typed, TypeOK
    <2>2. rows' \in Seq(Row) /\ Bounded(rows') /\ counter' \in Nat
        BY <1>28, <2>1, TruncateHeadTyped DEF Clear
    <2>3. Ids(rows) \subseteq MsgId
        BY <2>1, RowTyped DEF Ids
    <2>4. partial # NoMsg => partial.id \in MsgId
        BY DEF Typed, TypeOK, Partial
    <2>5. PICK ids : /\ ids = Ids(rows) \cup (IF partial = NoMsg THEN {} ELSE {partial.id})
                     /\ TakeAway(ids)
        BY <1>28 DEF Clear
    <2>6. ids \subseteq MsgId
        BY <2>3, <2>4, <2>5
    <2>9. removed' \subseteq MsgId /\ finished' \subseteq MsgId /\ kept' \in [MsgId -> 0..MaxParts]
        BY <2>5, <2>6, TakeAwayTyped
    <2> QED
        BY <1>28, <2>2, <2>9 DEF Clear, NotBusy, commit, Typed, TypeOK, Places, Replying
<1>29. ASSUME Truncate PROVE Typed'
    <2>1. PICK n \in 1..(Len(rows) - 1) : TruncateHead(n) /\ TakeAway(Ids(SubSeq(rows, 1, n)))
        BY <1>29 DEF Truncate
    <2>7. rows \in Seq(Row) /\ n \in 0..Len(rows) /\ 1 \in 1..(Len(rows) + 1)
        BY DEF Typed, TypeOK
    <2>2. rows' \in Seq(Row) /\ Bounded(rows') /\ counter' \in Nat
        BY <2>1, <2>7, TruncateHeadTyped
    <2>5. PICK ids : ids = Ids(SubSeq(rows, 1, n)) /\ TakeAway(ids)
        BY <2>1
    <2>6. ids \subseteq MsgId
        BY <2>5, <2>7, SubSeqWithin, RowTyped DEF Ids
    <2>9. removed' \subseteq MsgId /\ finished' \subseteq MsgId /\ kept' \in [MsgId -> 0..MaxParts]
        BY <2>5, <2>6, TakeAwayTyped
    <2> QED
        BY <1>29, <2>2, <2>9 DEF Truncate, NotBusy, commit, Typed, TypeOK, Places, Replying
<1>30. ASSUME Edit PROVE Typed'
    <2>1. PICK i \in Epoch(rows) : /\ TruncateAfter(rows[EditTarget(i)].id)
                                  /\ TakeAway(Ids(SubSeq(rows, EditTarget(i), Len(rows))))
        BY <1>30 DEF Edit
    <2>7. EditTarget(i) \in DOMAIN rows /\ rows \in Seq(Row)
        BY EditTargetOf DEF Typed, TypeOK
    <2>2. rows' \in Seq(Row) /\ Bounded(rows') /\ counter' \in Nat
        BY <2>1, <2>7, TruncateAfterTyped
    <2>5. PICK ids : ids = Ids(SubSeq(rows, EditTarget(i), Len(rows))) /\ TakeAway(ids)
        BY <2>1
    <2>8. EditTarget(i) \in 1..(Len(rows) + 1) /\ Len(rows) \in 0..Len(rows)
        BY <2>7
    <2>6. ids \subseteq MsgId
        BY <2>5, <2>7, <2>8, SubSeqWithin, RowTyped DEF Ids
    <2>9. removed' \subseteq MsgId /\ finished' \subseteq MsgId /\ kept' \in [MsgId -> 0..MaxParts]
        BY <2>5, <2>6, TakeAwayTyped
    <2> QED
        BY <1>30, <2>2, <2>9 DEF Edit, NotBusy, commit, Typed, TypeOK, Places, Replying
<1>31. ASSUME NEW c \in Committer, CommitPlan(c) PROVE Typed'
    <2>1. PICK v \in {"none", "update", "append", "delete"} : plan' = [plan EXCEPT ![c] = v]
        BY <1>31 DEF CommitPlan
    <2> QED
        BY <1>31, <2>1 DEF CommitPlan, disk, ghost, Typed, TypeOK, Committing
<1>32. ASSUME NEW c \in Committer, CommitWrite(c) PROVE Typed'
    <2>1. snap[c] \in Partial
        BY <1>32 DEF CommitWrite, Typed, TypeOK, Committing
    <2>2. RowOf(snap[c]) \in Row
        BY <2>1 DEF RowOf, Row, Partial
    <2>3. rows' \in Seq(Row) /\ Bounded(rows') /\ counter' \in Nat \cup {Unset}
        <3>1. CASE UpdateHistory(RowOf(snap[c])) /\ UNCHANGED counter
            BY <2>2, <3>1, UpdateTyped DEF Typed, TypeOK
        <3>2. CASE AppendWithSequence(RowOf(snap[c]))
            BY <2>2, <3>2, AppendWithSequenceTyped
        <3>3. CASE DeleteMessage(snap[c].id)
            BY <3>3, DeleteTyped
        <3>4. CASE UNCHANGED <<rows, counter>>
            BY <3>4 DEF Typed, TypeOK
        <3> QED
            BY <1>32, <3>1, <3>2, <3>3, <3>4 DEF CommitWrite
    <2>4. cpc' = [cpc EXCEPT ![c] = "written"] \/ cpc' = [cpc EXCEPT ![c] = "failed"]
        BY <1>32 DEF CommitWrite
    <2> QED
        BY <1>32, <2>1, <2>3, <2>4 DEF CommitWrite, ghost, Typed, TypeOK, Committing
<1>33. ASSUME NEW c \in Committer, CommitClean(c) PROVE Typed'
    BY <1>33 DEF CommitClean, ghost, Typed, TypeOK, Committing
<1>34. ASSUME UNCHANGED vars PROVE Typed'
    BY <1>34 DEF vars, commit, ghost, Typed, TypeOK
<1> QED
    BY <1>1, <1>2, <1>3, <1>4, <1>5, <1>6, <1>7, <1>8, <1>9, <1>10, <1>11, <1>12,
       <1>13, <1>14, <1>15, <1>16, <1>17, <1>18, <1>19, <1>20, <1>21, <1>22,
       <1>23, <1>24, <1>25, <1>26, <1>27, <1>28, <1>29, <1>30, <1>31, <1>32,
       <1>33, <1>34
       DEF Next, CommitStep, TurnStep, UserStep

(* Every reachable state of the chat is well typed.                        *)
THEOREM TypeCorrect == Spec => []TypeOK
<1>1. Spec => []Typed
    BY InitTyped, TypeStep, PTL DEF Spec
<1>2. Typed => TypeOK
    BY DEF Typed
<1> QED
    BY <1>1, <1>2, PTL

-----------------------------------------------------------------------------
(* The counter.  It is ahead of every sequence number in the file, and     *)
(* unset only before the first row; after a restart it is rebuilt from the *)
(* last row, which is the highest if sequence numbers increase.            *)
Ahead(n) == \A i \in DOMAIN rows : rows[i].seq < n
Counted == CounterAhead /\ (counter = Unset => rows = <<>>)

\* getNextHistorySequence returns a number no row has
LEMMA NextAhead ==
    ASSUME Typed, CounterAhead, counter = Unset => rows = <<>> \/ SequencesIncrease
    PROVE  Ahead(NextSequence)
<1>1. rows \in Seq(Row) /\ counter \in Nat \cup {Unset}
    BY DEF Typed, TypeOK
<1>2. CASE counter # Unset
    BY <1>2 DEF NextSequence, CounterAhead, Ahead
<1>3. CASE rows = <<>>
    BY <1>3 DEF Ahead
<1>4. CASE counter = Unset /\ rows # <<>> /\ SequencesIncrease
    <2>1. Len(rows) \in DOMAIN rows /\ \A i \in DOMAIN rows : i <= Len(rows)
        BY <1>1, <1>4
    <2>2. NextSequence = rows[Len(rows)].seq + 1
        BY <1>4 DEF NextSequence
    <2>3. ASSUME NEW i \in DOMAIN rows PROVE rows[i].seq < rows[Len(rows)].seq + 1
        <3>1. rows[i].seq \in Nat /\ rows[Len(rows)].seq \in Nat
            BY <1>1, <2>1, RowTyped
        <3>2. i = Len(rows) \/ i < Len(rows)
            BY <1>1, <2>1
        <3> QED
            BY <1>4, <2>1, <3>1, <3>2 DEF SequencesIncrease
    <2> QED
        BY <2>2, <2>3 DEF Ahead
<1> QED
    BY <1>2, <1>3, <1>4

\* and the append moves the counter beyond it
LEMMA AppendNewAhead ==
    ASSUME Typed, CounterAhead, counter = Unset => rows = <<>> \/ SequencesIncrease, HasRoom,
           NEW role \in {"user", "snapshot", "assistant"}, NEW parts \in 0..MaxParts,
           AppendNew(role, parts)
    PROVE  CounterAhead' /\ counter' # Unset
<1>1. NextSequence \in Nat /\ counter' = NextSequence + 1
    BY NextTyped DEF AppendNew
<1>2. PICK row : rows' = Append(rows, row) /\ row.seq = NextSequence
    BY DEF AppendNew
<1>3. rows \in Seq(Row)
    BY DEF Typed, TypeOK
<1>4. /\ Len(rows') = Len(rows) + 1 /\ DOMAIN rows' = 1..(Len(rows) + 1)
      /\ \A i \in DOMAIN rows : rows'[i] = rows[i]
      /\ rows'[Len(rows) + 1] = row
    BY <1>2, <1>3
<1>5. ASSUME NEW i \in DOMAIN rows' PROVE rows'[i].seq < NextSequence + 1
    <2>1. CASE i \in DOMAIN rows
        <3>1. rows[i].seq \in Nat /\ rows[i].seq < NextSequence
            BY <1>3, <2>1, RowTyped, NextAhead DEF Ahead
        <3> QED
            BY <1>1, <1>4, <2>1, <3>1
    <2>2. CASE i = Len(rows) + 1
        BY <1>1, <1>2, <1>4, <2>2
    <2> QED
        BY <1>3, <1>4, <2>1, <2>2
<1> QED
    BY <1>1, <1>5 DEF CounterAhead, Unset

\* appendToHistory of a given sequence moves the counter only up
LEMMA AppendWithSequenceAhead ==
    ASSUME Typed, Counted, NEW row \in Row, AppendWithSequence(row)
    PROVE  Counted'
<1>1. row.seq \in Nat /\ counter \in Nat \cup {Unset} /\ rows \in Seq(Row)
    BY DEF Row, Typed, TypeOK
<1>2. /\ DOMAIN rows' = 1..(Len(rows) + 1)
      /\ \A i \in DOMAIN rows : rows'[i] = rows[i]
      /\ rows'[Len(rows) + 1] = row
    BY <1>1 DEF AppendWithSequence
<1>3. counter' \in Nat /\ row.seq < counter' /\ (counter # Unset => counter <= counter')
    BY <1>1 DEF AppendWithSequence, Unset
<1>4. ASSUME NEW i \in DOMAIN rows' PROVE rows'[i].seq < counter'
    <2>1. CASE i \in DOMAIN rows
        <3>1. counter # Unset /\ rows[i].seq < counter /\ rows[i].seq \in Nat
            BY <1>1, <2>1, RowTyped DEF Counted, CounterAhead
        <3> QED
            BY <1>1, <1>2, <1>3, <2>1, <3>1
    <2>2. CASE i = Len(rows) + 1
        BY <1>2, <1>3, <2>2
    <2> QED
        BY <1>1, <1>2, <2>1, <2>2
<1> QED
    BY <1>3, <1>4 DEF Counted, CounterAhead, Unset

\* the rows keep their sequence numbers
LEMMA UpdateAhead ==
    ASSUME Typed, CounterAhead, NEW row \in Row, UpdateHistory(row), UNCHANGED counter
    PROVE  CounterAhead' /\ (rows = <<>> => rows' = <<>>)
<1>1. PICK i, new : i = At(rows, row.seq) /\ new = [row EXCEPT !.boundary = @ \/ rows[i].boundary]
    OBVIOUS
<1>2. rows \in Seq(Row) /\ i \in DOMAIN rows /\ rows[i].seq = row.seq
    BY <1>1, AtOf DEF UpdateHistory, Typed, TypeOK
<1>3. new.seq = row.seq /\ rows' = [rows EXCEPT ![i] = new]
    BY <1>1 DEF UpdateHistory, Row
<1>4. DOMAIN rows' = DOMAIN rows /\ \A k \in DOMAIN rows : rows'[k].seq = rows[k].seq
    BY <1>2, <1>3
<1> QED
    BY <1>2, <1>4 DEF CounterAhead

\* a bound on the sequences left is one on each of them
LEMMA WithinAhead ==
    ASSUME Typed, rows' \in Seq(Row), Within(rows', rows),
           NEW n \in Nat, SeqAfter(rows') <= n
    PROVE  \A k \in DOMAIN rows' : rows'[k].seq < n
<1>1. PICK b \in Nat : \A k \in DOMAIN rows' : rows'[k].seq < b
    BY WithinTyped DEF Bounded
<1>2. SeqAfter(rows') \in Nat /\ \A k \in DOMAIN rows' : rows'[k].seq < SeqAfter(rows')
    BY <1>1, SeqAfterOf
<1>3. \A k \in DOMAIN rows' : rows'[k].seq \in Nat
    BY RowTyped
<1> QED
    BY <1>2, <1>3

\* deleteMessage raises the counter to what the file needs
LEMMA DeleteAhead ==
    ASSUME Typed, NEW id, DeleteMessage(id)
    PROVE  CounterAhead' /\ counter' # Unset
<1>1. rows' \in Seq(Row) /\ Within(rows', rows) /\ counter \in Nat \cup {Unset}
    BY WithoutWithin DEF DeleteMessage, Typed, TypeOK
<1>2. counter' \in Nat /\ SeqAfter(rows') <= counter'
    BY <1>1, WithinTyped DEF DeleteMessage, Unset
<1> QED
    BY <1>1, <1>2, WithinAhead DEF CounterAhead, Unset

\* truncations set it to what the file needs
LEMMA RemovalAhead ==
    ASSUME Typed, Clear \/ Truncate \/ Edit
    PROVE  CounterAhead' /\ counter' # Unset /\ rows' \in Seq(Row) /\ Within(rows', rows)
<1>1. rows \in Seq(Row) /\ Len(rows) \in 0..Len(rows)
    BY DEF Typed, TypeOK
<1>2. /\ rows' \in Seq(Row) /\ Within(rows', rows) /\ counter' \in Nat
      /\ counter' = SeqAfter(rows')
    <2>1. CASE Clear
        BY <1>1, <2>1, TruncateHeadTyped DEF Clear, TruncateHead
    <2>2. CASE Truncate
        <3>1. PICK n \in 1..(Len(rows) - 1) : TruncateHead(n)
            BY <2>2 DEF Truncate
        <3>2. n \in 0..Len(rows)
            BY <1>1
        <3> QED
            BY <3>1, <3>2, TruncateHeadTyped DEF TruncateHead
    <2>3. CASE Edit
        <3>1. PICK i \in Epoch(rows) : TruncateAfter(rows[EditTarget(i)].id)
            BY <2>3 DEF Edit
        <3>2. EditTarget(i) \in DOMAIN rows
            BY <1>1, EditTargetOf
        <3> QED
            BY <3>1, <3>2, TruncateAfterTyped DEF TruncateAfter
    <2> QED
        BY <2>1, <2>2, <2>3
<1> QED
    BY <1>2, WithinAhead DEF CounterAhead, Unset

(* What the reply and a partial are written to.                            *)
LEMMA RowOfTyped ==
    ASSUME Typed, NEW c \in Committer, cpc[c] \in Committing
    PROVE  RowOf(snap[c]) \in Row
BY DEF Typed, TypeOK, RowOf, Row, Partial

\* the final row, or the boundary it becomes, is a row
LEMMA FinalRowTyped ==
    ASSUME Typed, pc \in Replying
    PROVE  FinalRow \in Row /\ [FinalRow EXCEPT !.boundary = TRUE] \in Row
BY DEF Typed, Reply, FinalRow, Row

(* The steps of a turn that leave the file alone.                          *)
LEMMA TurnKeepsRows ==
    ASSUME TurnStep,
           ~ (\/ AppendSnapshot \/ Send \/ OpenReply \/ DropPlaceholder
              \/ EndUpdateHistory \/ CompactMarkBoundary)
    PROVE  UNCHANGED <<rows, counter, fresh>>
BY DEF TurnStep, Prepare, Resume, TurnCommitRead, TurnCommitted, StartStream,
       ReceivePart, FlushPartial, StreamEnds, EndDeletePartial, TurnEnds, CompactDeletePartial, StreamFails,
       StreamAborts, AbortCommitRead, AbortDeletePartial, Abandon, AbandonFlush, AbandonDeletePartial, disk

\* without crashes every step keeps the counter ahead
LEMMA CountedStep ==
    "crash" \notin Features /\ Typed /\ Counted /\ [Next]_vars => Counted'
<1> SUFFICES ASSUME "crash" \notin Features, Typed, Counted, [Next]_vars PROVE Counted'
    OBVIOUS
<1>1. CASE UNCHANGED <<rows, counter>>
    BY <1>1 DEF Counted, CounterAhead
<1>2. ASSUME NEW role \in {"user", "snapshot", "assistant"}, NEW parts \in 0..MaxParts,
             HasRoom, AppendNew(role, parts)
      PROVE  Counted'
    BY <1>2, AppendNewAhead DEF Counted
<1>3. ASSUME NEW id, DeleteMessage(id) PROVE Counted'
    BY <1>3, DeleteAhead DEF Counted
<1>4. ASSUME NEW row \in Row, UpdateHistory(row), UNCHANGED counter PROVE Counted'
    BY <1>4, UpdateAhead DEF Counted
<1>5. ASSUME NEW row \in Row, AppendWithSequence(row) PROVE Counted'
    BY <1>5, AppendWithSequenceAhead
<1>20. CASE CommitStep
    <2>1. PICK c \in Committer : CommitPlan(c) \/ CommitWrite(c) \/ CommitClean(c)
        BY <1>20 DEF CommitStep
    <2>2. CASE CommitWrite(c)
        <3>1. RowOf(snap[c]) \in Row
            BY <2>2, RowOfTyped DEF CommitWrite, Committing
        <3> QED
            BY <2>2, <3>1, <1>1, <1>3, <1>4, <1>5 DEF CommitWrite
    <2>3. CASE CommitPlan(c) \/ CommitClean(c)
        BY <2>3, <1>1 DEF CommitPlan, CommitClean, disk
    <2> QED
        BY <2>1, <2>2, <2>3
<1>21. CASE TurnStep
    <2>1. CASE AppendSnapshot \/ Send \/ OpenReply
        BY <2>1, <1>2, BoundsAssumption DEF AppendSnapshot, Send, OpenReply
    <2>2. CASE DropPlaceholder
        BY <2>2, <1>3 DEF DropPlaceholder
    <2>3. CASE EndUpdateHistory
        <3>1. FinalRow \in Row
            BY <2>3, FinalRowTyped DEF EndUpdateHistory, Replying
        <3> QED
            BY <2>3, <3>1, <1>1, <1>4 DEF EndUpdateHistory
    <2>4. CASE CompactMarkBoundary
        <3>1. pc \in Replying /\ [FinalRow EXCEPT !.boundary = TRUE] \in Row
            BY <2>4, FinalRowTyped DEF CompactMarkBoundary, Replying
        <3>2. HasRoom => SummaryRow \in Row
            BY <3>1, SummaryTyped
        <3> QED
            BY <2>4, <3>1, <3>2, <1>4, <1>5 DEF CompactMarkBoundary
    <2>5. CASE ~ (\/ AppendSnapshot \/ Send \/ OpenReply \/ DropPlaceholder
                  \/ EndUpdateHistory \/ CompactMarkBoundary)
        <3>1. UNCHANGED <<rows, counter>>
            BY <1>21, <2>5, TurnKeepsRows
        <3> QED
            BY <3>1, <1>1
    <2> QED
        BY <2>1, <2>2, <2>3, <2>4, <2>5
<1>22. CASE UserStep
    <2>1. CASE Clear \/ Truncate \/ Edit
        BY <2>1, RemovalAhead DEF Counted
    <2>2. CASE ForkCommitRead \/ ForkCommitted
        BY <2>2, <1>1 DEF ForkCommitRead, ForkCommitted, disk
    <2> QED
        BY <1>22, <2>1, <2>2 DEF UserStep
<1>23. ~ Crash
    BY DEF Crash
<1>24. CASE UNCHANGED vars
    BY <1>24, <1>1 DEF vars
<1> QED
    BY <1>20, <1>21, <1>22, <1>23, <1>24 DEF Next

(* Unless mux crashes, a sequence number that is handed out is not in use, *)
(* whatever is removed, and whatever a fork's commit writes late.          *)
THEOREM CounterStaysAhead == "crash" \notin Features => (Spec => []CounterAhead)
<1> SUFFICES ASSUME "crash" \notin Features PROVE Spec => []CounterAhead
    OBVIOUS
<1>1. Init => Typed /\ Counted
    BY InitTyped DEF Init, Counted, CounterAhead
<1>2. (Typed /\ Counted) /\ [Next]_vars => (Typed /\ Counted)'
    BY TypeStep, CountedStep
<1>3. Typed /\ Counted => CounterAhead
    BY DEF Counted
<1> QED
    BY <1>1, <1>2, <1>3, PTL DEF Spec

-----------------------------------------------------------------------------
(* Without forks, and with removals only where no partial is left behind   *)
(* by an error or a crash, every row of the file keeps its place: the      *)
(* partial and the reply are those of one row, and only that row is        *)
(* rewritten.  Operators on a sequence of rows, to speak of two states.    *)
Increasing(s) == \A i, j \in DOMAIN s : i < j => s[i].seq < s[j].seq
Distinct(s) == \A i, j \in DOMAIN s : s[i].id = s[j].id => i = j
Below(s, n) == \A i \in DOMAIN s : s[i].id < n

\* a row with the id of x is the reply that x is a version of
Placed(s, x) ==
    \A i \in DOMAIN s : s[i].id = x.id =>
        s[i].seq = x.seq /\ s[i].role = "assistant" /\ ~ s[i].boundary

\* and it is there, behind every boundary
There(s, x) ==
    \E i \in DOMAIN s : s[i].id = x.id /\ \A j \in DOMAIN s : s[j].boundary => j <= i

\* Placed and There look at the id and the sequence only
LEMMA SameMessage ==
    ASSUME NEW s, NEW x, NEW y, x.id = y.id, x.seq = y.seq
    PROVE  (Placed(s, x) => Placed(s, y)) /\ (There(s, x) => There(s, y))
BY DEF Placed, There

\* a new row with a higher id and sequence goes behind all others
LEMMA AppendKeeps ==
    ASSUME NEW s \in Seq(Row), NEW row \in Row, ~ row.boundary,
           Increasing(s), Distinct(s), Below(s, row.id), \A i \in DOMAIN s : s[i].seq < row.seq,
           NEW t, t = Append(s, row)
    PROVE  /\ Increasing(t) /\ Distinct(t) /\ Below(t, row.id + 1)
           /\ \A x : x.id < row.id /\ Placed(s, x) => Placed(t, x)
           /\ \A x : There(s, x) => There(t, x)
           /\ There(t, row) /\ (row.role = "assistant" => Placed(t, row))
<1>1. /\ DOMAIN t = 1..(Len(s) + 1) /\ DOMAIN s = 1..Len(s) /\ Len(s) \in Nat
      /\ \A i \in DOMAIN s : t[i] = s[i]
      /\ t[Len(s) + 1] = row
    OBVIOUS
<1>2. row.id \in Nat /\ row.seq \in Nat
    BY DEF Row, MsgId
<1>3. \A i \in DOMAIN s : s[i].id \in Nat /\ s[i].seq \in Nat /\ s[i].id # row.id
    BY <1>2, RowTyped DEF Below, MsgId
<1>4. \A i \in DOMAIN t : i \in DOMAIN s \/ i = Len(s) + 1
    BY <1>1
<1>5. Increasing(t)
    <2> SUFFICES ASSUME NEW i \in DOMAIN t, NEW j \in DOMAIN t, i < j PROVE t[i].seq < t[j].seq
        BY DEF Increasing
    <2>1. i \in DOMAIN s
        BY <1>1
    <2>2. CASE j \in DOMAIN s
        BY <1>1, <2>1, <2>2 DEF Increasing
    <2>3. CASE j = Len(s) + 1
        BY <1>1, <2>1, <2>3
    <2> QED
        BY <1>4, <2>2, <2>3
<1>6. Distinct(t)
    BY <1>1, <1>3, <1>4 DEF Distinct
<1>7. Below(t, row.id + 1)
    BY <1>1, <1>2, <1>3, <1>4 DEF Below
<1>8. ASSUME NEW x, x.id < row.id, Placed(s, x) PROVE Placed(t, x)
    <2>1. row.id # x.id
        BY <1>2, <1>8
    <2> QED
        BY <1>1, <1>4, <1>8, <2>1 DEF Placed
<1>9. ASSUME NEW x, There(s, x) PROVE There(t, x)
    <2>1. PICK i \in DOMAIN s : s[i].id = x.id /\ \A j \in DOMAIN s : s[j].boundary => j <= i
        BY <1>9 DEF There
    <2>2. i \in DOMAIN t /\ t[i].id = x.id
        BY <1>1, <2>1
    <2>3. \A j \in DOMAIN t : t[j].boundary => j <= i
        BY <1>1, <1>4, <2>1
    <2> QED
        BY <2>2, <2>3 DEF There
<1>10. There(t, row)
    <2>1. Len(s) + 1 \in DOMAIN t /\ \A j \in DOMAIN t : j <= Len(s) + 1
        BY <1>1
    <2> QED
        BY <1>1, <2>1 DEF There
<1>11. row.role = "assistant" => Placed(t, row)
    BY <1>1, <1>3, <1>4 DEF Placed
<1> QED
    BY <1>5, <1>6, <1>7, <1>8, <1>9, <1>10, <1>11

\* row, with its id, sequence and role, is written in the place of s[i]
Rewrites(s, i, row, t) ==
    /\ i \in DOMAIN s /\ t = [s EXCEPT ![i] = row]
    /\ s[i].id = row.id /\ s[i].seq = row.seq
    /\ s[i].role = "assistant" /\ row.role = "assistant" /\ ~ s[i].boundary

\* the rewrite of one row moves nothing
LEMMA RewriteKeeps ==
    ASSUME NEW s \in Seq(Row), NEW i, NEW row \in Row, NEW t, Rewrites(s, i, row, t)
    PROVE  /\ DOMAIN t = DOMAIN s /\ \A k \in DOMAIN s : t[k].id = s[k].id
           /\ Increasing(s) => Increasing(t)
           /\ Distinct(s) => Distinct(t)
           /\ \A n : Below(s, n) => Below(t, n)
           /\ ~ row.boundary => /\ \A x : Placed(s, x) => Placed(t, x)
                                /\ \A x : There(s, x) => There(t, x)
<1>1. /\ DOMAIN t = DOMAIN s
      /\ \A k \in DOMAIN s : t[k].id = s[k].id /\ t[k].seq = s[k].seq /\ (k # i => t[k] = s[k])
      /\ t[i] = row /\ i \in DOMAIN s
    BY DEF Rewrites
<1>2. Increasing(s) => Increasing(t)
    BY <1>1 DEF Increasing
<1>3. (Distinct(s) => Distinct(t)) /\ \A n : Below(s, n) => Below(t, n)
    BY <1>1 DEF Distinct, Below
<1>4. ASSUME ~ row.boundary, NEW x, Placed(s, x) PROVE Placed(t, x)
    BY <1>1, <1>4 DEF Placed, Rewrites
<1>5. ASSUME ~ row.boundary, NEW x, There(s, x) PROVE There(t, x)
    <2>1. PICK k \in DOMAIN s : s[k].id = x.id /\ \A j \in DOMAIN s : s[j].boundary => j <= k
        BY <1>5 DEF There
    <2>2. \A j \in DOMAIN t : t[j].boundary => s[j].boundary
        BY <1>1, <1>5
    <2> QED
        BY <1>1, <2>1, <2>2 DEF There
<1> QED
    BY <1>1, <1>2, <1>3, <1>4, <1>5

\* and neither does the removal of rows, which may take one away
LEMMA WithinKeeps ==
    ASSUME NEW s \in Seq(Row), NEW t \in Seq(Row), Within(t, s)
    PROVE  /\ Increasing(s) => Increasing(t)
           /\ Distinct(s) => Distinct(t)
           /\ \A n : Below(s, n) => Below(t, n)
           /\ \A x : Placed(s, x) => Placed(t, x)
           /\ Ids(t) \subseteq Ids(s)
<1>1. PICK g \in [DOMAIN t -> DOMAIN s] :
         /\ \A k \in DOMAIN t : t[k] = s[g[k]]
         /\ \A k, l \in DOMAIN t : k < l => g[k] < g[l]
    BY DEF Within
<1>2. Increasing(s) => Increasing(t)
    BY <1>1 DEF Increasing
<1>3. \A n : Below(s, n) => Below(t, n)
    BY <1>1 DEF Below
<1>4. \A x : Placed(s, x) => Placed(t, x)
    BY <1>1 DEF Placed
<1>5. Ids(t) \subseteq Ids(s)
    BY <1>1 DEF Ids
<1>6. ASSUME Distinct(s) PROVE Distinct(t)
    <2> SUFFICES ASSUME NEW k \in DOMAIN t, NEW l \in DOMAIN t, t[k].id = t[l].id, k < l
                 PROVE  FALSE
        <3>1. \A k, l \in DOMAIN t : k = l \/ k < l \/ l < k
            OBVIOUS
        <3> QED
            BY <3>1 DEF Distinct
    <2>1. g[k] = g[l]
        BY <1>1, <1>6 DEF Distinct
    <2>2. g[k] < g[l] /\ g[k] \in Nat /\ g[l] \in Nat
        BY <1>1
    <2> QED
        BY <2>1, <2>2
<1> QED
    BY <1>2, <1>3, <1>4, <1>5, <1>6

-----------------------------------------------------------------------------
Steady ==
    /\ "fork" \notin Features
    /\ \/ Features \cap {"error", "crash"} = {}
       \/ Features \cap {"clear", "truncate", "edit"} = {}

FileInv == Increasing(rows) /\ CounterAhead /\ Distinct(rows) /\ Below(rows, fresh)

\* only the turn commits, and nobody writes the partial meanwhile
CommitPhases ==
    /\ cpc["fork"] = "idle" /\ cpc["turn"] # "failed"
    /\ cpc["turn"] # "idle" => pc \in {"commit", "aborting"}
    /\ cpc["turn"] \in Committing => snap["turn"] = partial
    /\ cpc["turn"] = "planned" =>
          /\ plan["turn"] # "append"
          /\ plan["turn"] = "update" => partial.worthy
          /\ plan["turn"] = "delete" => ~ partial.worthy
    /\ cpc["turn"] = "done" => partial = NoMsg

\* a turn leaves no partial behind, unless it failed or mux crashed
PartialPhases ==
    /\ pc \in {"continue", "open", "opened", "finalizing", "completed", "compacting"}
          => partial = NoMsg
    /\ Features \cap {"error", "crash"} = {} =>
         (pc \notin {"streaming", "ended", "aborting", "abandoning", "abandoned"}
            => partial = NoMsg)

Own(x) == x.id < fresh /\ Placed(rows, x)
Belongs ==
    /\ pc \in Replying => Own(reply)
    /\ pc \in Replying \ {"aborting"} => There(rows, reply)
    /\ partial # NoMsg => Own(partial)
    /\ partial # NoMsg /\ partial.worthy => There(rows, partial)

History ==
    /\ \A m \in removed \cup finished : m < fresh
    /\ partial # NoMsg => partial.id \notin finished
    /\ pc \in Replying \ {"completed", "compacting"} => reply.id \notin finished
    /\ FinalizedOnce /\ RemovedStaysRemoved

SInv == Typed /\ FileInv /\ CommitPhases /\ PartialPhases /\ Belongs /\ History

-----------------------------------------------------------------------------
(* What a step does to the file.                                           *)
FileStep ==
    \/ UNCHANGED <<rows, fresh>> /\ counter' \in {counter, Unset}
    \/ \E role \in {"user", "snapshot", "assistant"}, parts \in 0..MaxParts :
          HasRoom /\ AppendNew(role, parts)
    \/ /\ \E i \in DOMAIN rows, row \in Row : Rewrites(rows, i, row, rows')
       /\ UNCHANGED <<counter, fresh>>
    \/ /\ \E x \in Partial \cup Reply : Placed(rows, x) /\ DeleteMessage(x.id)
       /\ UNCHANGED fresh
    \/ Clear \/ Truncate \/ Edit

\* updateHistory finds the row of a message that is there
LEMMA UpdateRewrites ==
    ASSUME Typed, Increasing(rows), NEW row \in Row, row.role = "assistant",
           Placed(rows, row), There(rows, row)
    PROVE  /\ At(rows, row.seq) # 0
           /\ UpdateHistory(row) => \E i \in DOMAIN rows : Rewrites(rows, i, row, rows')
<1>1. rows \in Seq(Row)
    BY DEF Typed, TypeOK
<1>2. PICK i \in DOMAIN rows : rows[i].id = row.id
    BY DEF There
<1>3. rows[i].seq = row.seq /\ rows[i].role = "assistant" /\ ~ rows[i].boundary
    BY <1>2 DEF Placed
<1>4. At(rows, row.seq) \in DOMAIN rows /\ rows[At(rows, row.seq)].seq = row.seq
    BY <1>1, <1>2, <1>3, AtOf
<1>5. At(rows, row.seq) = i
    <2>1. \A j, k \in DOMAIN rows : j # k => j < k \/ k < j
        BY <1>1
    <2>2. rows[i].seq \in Nat
        BY <1>1, <1>2, RowTyped
    <2> QED
        BY <1>2, <1>3, <1>4, <2>1, <2>2 DEF Increasing
<1>6. ASSUME UpdateHistory(row) PROVE Rewrites(rows, i, row, rows')
    <2>1. PICK new : new = [row EXCEPT !.boundary = @ \/ rows[i].boundary]
        OBVIOUS
    <2>2. new = row
        BY <1>3, <2>1 DEF Row
    <2>3. rows' = [rows EXCEPT ![i] = row]
        BY <1>5, <1>6, <2>1, <2>2 DEF UpdateHistory
    <2> QED
        BY <1>2, <1>3, <2>3 DEF Rewrites
<1>7. i # 0
    BY <1>1
<1> QED
    BY <1>2, <1>5, <1>6, <1>7

\* what a commit of the turn writes
LEMMA CommitWrites ==
    ASSUME SInv, NEW c \in Committer, CommitWrite(c)
    PROVE  /\ c = "turn" /\ partial \in Partial /\ cpc' = [cpc EXCEPT ![c] = "written"]
           /\ pc \in {"commit", "aborting"} /\ snap["turn"] = partial
           /\ \/ UNCHANGED <<rows, counter>> /\ (plan["turn"] = "none" \/ ~ partial.worthy)
              \/ /\ \E i \in DOMAIN rows : Rewrites(rows, i, RowOf(partial), rows')
                 /\ UNCHANGED counter
              \/ ~ partial.worthy /\ DeleteMessage(partial.id)
<1>1. /\ c = "turn" /\ cpc["turn"] = "planned" /\ pc \in {"commit", "aborting"}
      /\ snap["turn"] = partial /\ partial # NoMsg
    BY DEF SInv, Typed, CommitPhases, CommitWrite, Committer, Committing
<1>2. partial \in Partial
    BY <1>1 DEF SInv, Typed, TypeOK
<1>3. Own(partial)
    BY <1>1 DEF SInv, Belongs
<1>4. ASSUME partial.worthy
      PROVE  /\ At(rows, partial.seq) # 0
             /\ UpdateHistory(RowOf(partial)) =>
                   \E i \in DOMAIN rows : Rewrites(rows, i, RowOf(partial), rows')
    <2>1. There(rows, partial) /\ Placed(rows, partial)
        BY <1>1, <1>3, <1>4 DEF SInv, Belongs, Own
    <2>2. PICK row : row = RowOf(partial)
        OBVIOUS
    <2>3. /\ row \in Row /\ row.role = "assistant"
          /\ row.id = partial.id /\ row.seq = partial.seq
        BY <1>2, <2>2 DEF RowOf, Row, Partial
    <2>4. There(rows, row) /\ Placed(rows, row)
        BY <2>1, <2>3, SameMessage
    <2> QED
        BY <2>2, <2>3, <2>4, UpdateRewrites DEF SInv, FileInv
<1>5. CASE plan["turn"] = "update"
    <2>1. partial.worthy
        BY <1>1, <1>5 DEF SInv, CommitPhases
    <2>2. UpdateHistory(RowOf(partial)) /\ cpc' = [cpc EXCEPT ![c] = "written"] /\ UNCHANGED counter
        BY <1>1, <1>4, <1>5, <2>1 DEF CommitWrite
    <2> QED
        BY <1>1, <1>2, <1>4, <2>1, <2>2
<1>6. CASE plan["turn"] = "delete"
    <2>1. ~ partial.worthy
        BY <1>1, <1>6 DEF SInv, CommitPhases
    <2> QED
        BY <1>1, <1>2, <1>6, <2>1 DEF CommitWrite
<1>7. CASE plan["turn"] \notin {"update", "delete"}
    BY <1>1, <1>2, <1>7 DEF CommitWrite, SInv, CommitPhases
<1> QED
    BY <1>5, <1>6, <1>7

\* the final row, and the boundary, are rewrites of the reply's row
LEMMA FinalWrites ==
    ASSUME SInv, pc \in Replying \ {"aborting"}, NEW b \in BOOLEAN,
           NEW row, row = [FinalRow EXCEPT !.boundary = b]
    PROVE  /\ row \in Row /\ row.id = reply.id /\ ~ row.partial
           /\ At(rows, reply.seq) # 0
           /\ UpdateHistory(row) => \E i \in DOMAIN rows : Rewrites(rows, i, row, rows')
<1>1. reply \in Reply
    BY DEF SInv, Typed
<1>2. /\ row \in Row /\ row.role = "assistant" /\ ~ row.partial
      /\ row.id = reply.id /\ row.seq = reply.seq
    BY <1>1 DEF FinalRow, Row, Reply
<1>3. There(rows, row) /\ Placed(rows, row)
    BY <1>2, SameMessage DEF SInv, Belongs, Own
<1> QED
    BY <1>2, <1>3, UpdateRewrites DEF SInv, FileInv

\* every step does one of these things to the file
LEMMA FileSteps ==
    ASSUME Steady, SInv, [Next]_vars
    PROVE  FileStep
<1>1. CASE CommitStep
    <2>1. PICK c \in Committer : CommitPlan(c) \/ CommitWrite(c) \/ CommitClean(c)
        BY <1>1 DEF CommitStep
    <2>2. CASE CommitWrite(c)
        <3>1. UNCHANGED fresh
            BY <2>2 DEF CommitWrite
        <3>2. partial \in Partial /\ RowOf(partial) \in Row /\ Placed(rows, partial)
            <4>1. partial \in Partial /\ partial # NoMsg
                BY <2>2, CommitWrites DEF Partial, NoMsg, MsgId
            <4> QED
                BY <4>1 DEF RowOf, Row, Partial, SInv, Belongs, Own
        <3> QED
            BY <2>2, <3>1, <3>2, CommitWrites DEF FileStep
    <2>3. CASE CommitPlan(c) \/ CommitClean(c)
        BY <2>3 DEF CommitPlan, CommitClean, disk, FileStep
    <2> QED
        BY <2>1, <2>2, <2>3
<1>2. CASE TurnStep
    <2>1. CASE AppendSnapshot \/ Send \/ OpenReply
        BY <2>1, BoundsAssumption DEF AppendSnapshot, Send, OpenReply, FileStep
    <2>2. CASE DropPlaceholder
        <3>1. reply \in Reply /\ Placed(rows, reply)
            BY <2>2 DEF DropPlaceholder, SInv, Typed, Replying, Belongs, Own
        <3> QED
            BY <2>2, <3>1 DEF DropPlaceholder, FileStep
    <2>3. CASE EndUpdateHistory
        <3>1. PICK row : row = [FinalRow EXCEPT !.boundary = FALSE]
            OBVIOUS
        <3>2. row = FinalRow
            BY <3>1 DEF FinalRow
        <3>3. /\ row \in Row /\ At(rows, reply.seq) # 0
              /\ UpdateHistory(row) => \E i \in DOMAIN rows : Rewrites(rows, i, row, rows')
            BY <2>3, <3>1, FinalWrites DEF EndUpdateHistory, Replying
        <3> QED
            BY <2>3, <3>2, <3>3 DEF EndUpdateHistory, FileStep
    <2>4. CASE CompactMarkBoundary
        <3>1. PICK row : row = [FinalRow EXCEPT !.boundary = TRUE]
            OBVIOUS
        <3>2. /\ row \in Row /\ At(rows, reply.seq) # 0
              /\ UpdateHistory(row) => \E i \in DOMAIN rows : Rewrites(rows, i, row, rows')
            BY <2>4, <3>1, FinalWrites DEF CompactMarkBoundary, Replying
        <3> QED
            BY <2>4, <3>1, <3>2 DEF CompactMarkBoundary, FileStep
    <2>5. CASE ~ (\/ AppendSnapshot \/ Send \/ OpenReply \/ DropPlaceholder
                  \/ EndUpdateHistory \/ CompactMarkBoundary)
        BY <1>2, <2>5, TurnKeepsRows DEF FileStep
    <2> QED
        BY <2>1, <2>2, <2>3, <2>4, <2>5
<1>3. CASE UserStep
    BY <1>3 DEF UserStep, ForkCommitRead, ForkCommitted, disk, FileStep
<1>4. CASE Crash
    BY <1>4 DEF Crash, disk, FileStep
<1>5. CASE UNCHANGED vars
    BY <1>5 DEF vars, FileStep
<1> QED
    BY <1>1, <1>2, <1>3, <1>4, <1>5 DEF Next

-----------------------------------------------------------------------------
(* A row that is appended is new in every respect.                         *)
LEMMA NewRow ==
    ASSUME Typed, FileInv, HasRoom, NEW role \in {"user", "snapshot", "assistant"},
           NEW parts \in 0..MaxParts, AppendNew(role, parts)
    PROVE  /\ Increasing(rows') /\ Distinct(rows') /\ Below(rows', fresh')
           /\ CounterAhead' /\ fresh' = fresh + 1 /\ fresh \in MsgId
           /\ \A x : x.id < fresh /\ Placed(rows, x) => Placed(rows', x)
           /\ \A x : There(rows, x) => There(rows', x)
           /\ \E row \in Row : /\ row.id = fresh /\ row.seq = NextSequence /\ row.role = role
                               /\ ~ row.partial /\ ~ row.boundary
                               /\ rows' = Append(rows, row) /\ There(rows', row)
                               /\ role = "assistant" => Placed(rows', row)
<1>1. PICK row : row = [id |-> fresh, seq |-> NextSequence, role |-> role, parts |-> parts,
                        partial |-> FALSE, boundary |-> FALSE]
    OBVIOUS
<1>2. fresh \in MsgId
    BY DEF Typed, TypeOK, HasRoom, MsgId
<1>3. /\ row \in Row /\ row.id = fresh /\ row.seq = NextSequence /\ row.role = role
      /\ ~ row.partial /\ ~ row.boundary
    BY <1>1, <1>2, NextTyped DEF Row
<1>4. rows \in Seq(Row) /\ rows' = Append(rows, row) /\ fresh' = fresh + 1
    BY <1>1 DEF Typed, TypeOK, AppendNew
<1>5. \A i \in DOMAIN rows : rows[i].seq < row.seq
    BY <1>3, NextAhead DEF FileInv, Ahead, Increasing, SequencesIncrease
<1>6. Increasing(rows) /\ Distinct(rows) /\ Below(rows, row.id)
    BY <1>3 DEF FileInv
<1>7. /\ Increasing(rows') /\ Distinct(rows') /\ Below(rows', row.id + 1)
      /\ \A x : x.id < row.id /\ Placed(rows, x) => Placed(rows', x)
      /\ \A x : There(rows, x) => There(rows', x)
      /\ There(rows', row) /\ (row.role = "assistant" => Placed(rows', row))
    BY <1>3, <1>4, <1>5, <1>6, AppendKeeps
<1>8. CounterAhead'
    BY AppendNewAhead DEF FileInv, Increasing, SequencesIncrease
<1> QED
    BY <1>2, <1>3, <1>4, <1>7, <1>8

\* a message is deleted
LEMMA Deletion ==
    ASSUME Typed, NEW id, DeleteMessage(id)
    PROVE  /\ rows' \in Seq(Row) /\ Within(rows', rows) /\ CounterAhead'
           /\ \A i \in DOMAIN rows : rows[i].id # id =>
                 \E k \in DOMAIN rows' : rows'[k] = rows[i]
<1>1. rows \in Seq(Row) /\ rows' = Without(rows, id)
    BY DEF Typed, TypeOK, DeleteMessage
<1> QED
    BY <1>1, WithoutWithin, DeleteAhead

\* each of which keeps it in order
LEMMA FileInvStep ==
    ASSUME Typed, FileInv, FileStep
    PROVE  FileInv'
<1>1. rows \in Seq(Row)
    BY DEF Typed, TypeOK
<1>2. CASE UNCHANGED <<rows, fresh>> /\ counter' \in {counter, Unset}
    BY <1>2 DEF FileInv, CounterAhead
<1>3. CASE \E role \in {"user", "snapshot", "assistant"}, parts \in 0..MaxParts :
              HasRoom /\ AppendNew(role, parts)
    BY <1>3, NewRow DEF FileInv
<1>4. CASE /\ \E i \in DOMAIN rows, row \in Row : Rewrites(rows, i, row, rows')
           /\ UNCHANGED <<counter, fresh>>
    <2>1. PICK i \in DOMAIN rows, row \in Row : Rewrites(rows, i, row, rows')
        BY <1>4
    <2>2. Increasing(rows') /\ Distinct(rows') /\ Below(rows', fresh)
        BY <1>1, <2>1, RewriteKeeps DEF FileInv
    <2>3. DOMAIN rows' = DOMAIN rows /\ \A k \in DOMAIN rows : rows'[k].seq = rows[k].seq
        BY <1>1, <2>1 DEF Rewrites
    <2> QED
        BY <1>4, <2>2, <2>3 DEF FileInv, CounterAhead
<1>5. CASE /\ \E x \in Partial \cup Reply : Placed(rows, x) /\ DeleteMessage(x.id)
           /\ UNCHANGED fresh
    BY <1>1, <1>5, Deletion, WithinKeeps DEF FileInv
<1>6. CASE Clear \/ Truncate \/ Edit
    <2>1. rows' \in Seq(Row) /\ Within(rows', rows) /\ CounterAhead' /\ fresh' = fresh
        BY <1>6, RemovalAhead DEF Clear, Truncate, Edit
    <2> QED
        BY <1>1, <2>1, WithinKeeps DEF FileInv
<1> QED
    BY <1>2, <1>3, <1>4, <1>5, <1>6 DEF FileStep

-----------------------------------------------------------------------------
(* The order of the awaits.                                                *)
\* Covered(s, m, n): s holds message m with n parts at least
Covered(s, m, n) == \E i \in DOMAIN s : s[i].id = m /\ s[i].parts >= n

\* what commitPartial decides for the turn's own partial
LEMMA CommitPlans ==
    ASSUME SInv, NEW c \in Committer, CommitPlan(c)
    PROVE  /\ c = "turn" /\ partial \in Partial /\ snap["turn"] = partial
           /\ \E v : /\ plan' = [plan EXCEPT ![c] = v] /\ v # "append"
                     /\ v = "update" => partial.worthy
                     /\ v = "delete" => ~ partial.worthy
                     /\ v = "none" /\ partial.worthy => Covered(rows, partial.id, partial.parts)
<1> USE DEF SInv, CommitPhases
<1>1. c = "turn" /\ partial \in Partial /\ snap["turn"] = partial /\ partial # NoMsg
    BY DEF CommitPlan, Committer, Committing, Typed, TypeOK
<1> DEFINE I == {j \in Epoch(rows) : rows[j].seq = partial.seq}
<1>2. I \subseteq Nat /\ 0 \notin I
    BY DEF Epoch, Typed, TypeOK
<1>3. ASSUME partial.worthy
      PROVE  I # {} /\ \A k \in I : rows[k].id = partial.id
    <2>1. PICK i \in DOMAIN rows : /\ rows[i].id = partial.id
                                  /\ \A j \in DOMAIN rows : rows[j].boundary => j <= i
        BY <1>1, <1>3 DEF Belongs, There
    <2>2. rows[i].seq = partial.seq
        BY <1>1, <2>1 DEF Belongs, Own, Placed
    <2>3. ASSUME NEW k \in I PROVE k = i
        <3>1. /\ k \in DOMAIN rows /\ rows[k].seq = rows[i].seq /\ rows[i].seq \in Nat
              /\ rows \in Seq(Row)
            BY <2>2, RowTyped DEF Epoch, Typed, TypeOK
        <3> QED
            BY <3>1 DEF FileInv, Increasing
    <2> QED
        BY <2>1, <2>2, <2>3 DEF Epoch
<1>4. PICK p, n : p = snap[c] /\ n = First({j \in Epoch(rows) : rows[j].seq = p.seq})
    OBVIOUS
<1>5. PICK v : /\ plan' = [plan EXCEPT ![c] = v]
               /\ v = CASE p.worthy /\ (n # 0 => p.parts > rows[n].parts) /\ n # 0 -> "update"
                        [] p.worthy /\ (n # 0 => p.parts > rows[n].parts) /\ n = 0 -> "append"
                        [] /\ p.error /\ ~ p.worthy
                           /\ n # 0 /\ rows[n].id = p.id /\ rows[n].parts = 0 -> "delete"
                        [] OTHER -> "none"
    BY <1>4 DEF CommitPlan
<1>6. p = partial /\ n = First(I)
    BY <1>1, <1>4
<1>7. I \subseteq DOMAIN rows
    BY DEF Epoch
<1> HIDE DEF I
<1>8. I # {} => First(I) \in I /\ First(I) # 0
    BY <1>2, FirstOf
<1>9. /\ v # "append"
      /\ v = "update" => partial.worthy
      /\ v = "delete" => ~ partial.worthy
    BY <1>3, <1>5, <1>6, <1>8
<1>10. ASSUME v = "none", partial.worthy PROVE Covered(rows, partial.id, partial.parts)
    <2>1. /\ First(I) \in DOMAIN rows /\ rows[First(I)].id = partial.id
          /\ rows[First(I)].parts \in Nat /\ partial.parts \in Nat
        BY <1>1, <1>3, <1>7, <1>8, <1>10, RowTyped, BoundsAssumption
           DEF Typed, TypeOK, Partial
    <2>2. ~ (partial.parts > rows[First(I)].parts)
        BY <1>5, <1>6, <1>8, <1>3, <1>10
    <2> QED
        BY <2>1, <2>2 DEF Covered
<1> QED
    BY <1>1, <1>5, <1>9, <1>10

\* every step keeps to the phases of the commit
LEMMA CommitPhasesStep ==
    ASSUME Steady, SInv, [Next]_vars
    PROVE  CommitPhases'
<1> USE DEF SInv, CommitPhases
<1>1. ASSUME NEW c \in Committer, CommitPlan(c) PROVE CommitPhases'
    <2>1. PICK v : /\ plan' = [plan EXCEPT ![c] = v] /\ v # "append"
                   /\ v = "update" => partial.worthy
                   /\ v = "delete" => ~ partial.worthy
        BY <1>1, CommitPlans
    <2> QED
        BY <1>1, <2>1, CommitPlans
           DEF CommitPlan, disk, Committer, Committing, Typed, TypeOK
<1>2. ASSUME NEW c \in Committer, CommitWrite(c) PROVE CommitPhases'
    BY <1>2, CommitWrites DEF CommitWrite, Committer, Committing, Typed, TypeOK
<1>3. ASSUME NEW c \in Committer, CommitClean(c) PROVE CommitPhases'
    BY <1>3 DEF CommitClean, Committer, Committing, Typed, TypeOK
<1>4. ASSUME TurnCommitRead \/ AbortCommitRead PROVE CommitPhases'
    BY <1>4
       DEF TurnCommitRead, AbortCommitRead, CommitRead, disk, Committer, Committing, Typed, TypeOK
<1>5. ASSUME TurnCommitted \/ AbortDeletePartial PROVE CommitPhases'
    BY <1>5
       DEF TurnCommitted, AbortDeletePartial, CommitOver, EndCommit, disk, Committer, Committing,
           Typed, TypeOK
<1>6. CASE Crash
    BY <1>6 DEF Crash, disk, Committer, Committing
<1>7. CASE UserStep
    BY <1>7
       DEF UserStep, ForkCommitRead, ForkCommitted, CommitOver, Clear, Truncate, Edit, NotBusy,
           Steady, commit, Committing, Typed, Places, Replying
<1>8. CASE /\ TurnStep
           /\ ~ (TurnCommitRead \/ AbortCommitRead \/ TurnCommitted \/ AbortDeletePartial)
    <2>1. UNCHANGED commit /\ pc \notin {"commit", "aborting"}
        BY <1>8
           DEF TurnStep, AppendSnapshot, Send, Prepare, Resume, OpenReply, StartStream,
               DropPlaceholder, ReceivePart, FlushPartial, StreamEnds, EndDeletePartial,
               EndUpdateHistory, TurnEnds, CompactDeletePartial, CompactMarkBoundary,
               StreamFails, StreamAborts, Abandon, AbandonFlush, AbandonDeletePartial
    <2> QED
        BY <2>1 DEF commit, Committing
<1>9. CASE UNCHANGED vars
    BY <1>9 DEF vars, commit
<1> QED
    BY <1>1, <1>2, <1>3, <1>4, <1>5, <1>6, <1>7, <1>8, <1>9 DEF Next, CommitStep

\* and to those of the partial
LEMMA PartialPhasesStep ==
    ASSUME Steady, SInv, [Next]_vars
    PROVE  PartialPhases'
<1> USE DEF SInv, PartialPhases
<1>1. CASE CommitStep
    BY <1>1, CommitWrites
       DEF CommitStep, CommitPlan, CommitWrite, CommitClean, disk, CommitPhases, Committer
<1>2. CASE TurnStep
    BY <1>2
       DEF TurnStep, AppendSnapshot, Send, Prepare, Resume, TurnCommitRead, TurnCommitted,
           OpenReply, StartStream, DropPlaceholder, ReceivePart, FlushPartial, StreamEnds,
           EndDeletePartial, EndUpdateHistory, TurnEnds, CompactDeletePartial,
           CompactMarkBoundary, StreamFails, StreamAborts, AbortCommitRead, AbortDeletePartial,
           Abandon, AbandonFlush, AbandonDeletePartial, disk, CommitPhases, CommitOver
<1>3. CASE UserStep
    BY <1>3
       DEF UserStep, ForkCommitRead, ForkCommitted, Clear, Truncate, Edit, NotBusy, disk
<1>4. CASE Crash
    BY <1>4 DEF Crash, disk
<1>5. CASE UNCHANGED vars
    BY <1>5 DEF vars
<1> QED
    BY <1>1, <1>2, <1>3, <1>4, <1>5 DEF Next

-----------------------------------------------------------------------------
(* The reply and the partial keep the row they belong to.                  *)
Carried ==
    /\ \A x : x.id < fresh /\ Placed(rows, x) => Placed(rows', x)
    /\ \A x : There(rows, x) => There(rows', x)
    /\ fresh' \in {fresh, fresh + 1}

\* steps that carry what is known of a message over to the next state
LEMMA CarriedBySteps ==
    ASSUME SInv,
           \/ UNCHANGED <<rows, fresh>>
           \/ \E role \in {"user", "snapshot", "assistant"}, parts \in 0..MaxParts :
                 HasRoom /\ AppendNew(role, parts)
           \/ /\ \E i \in DOMAIN rows, row \in Row :
                    Rewrites(rows, i, row, rows') /\ ~ row.boundary
              /\ UNCHANGED fresh
    PROVE  Carried
<1>1. fresh \in Nat /\ rows \in Seq(Row)
    BY DEF SInv, Typed, TypeOK
<1>2. CASE UNCHANGED <<rows, fresh>>
    BY <1>1, <1>2 DEF Carried
<1>3. CASE \E role \in {"user", "snapshot", "assistant"}, parts \in 0..MaxParts :
              HasRoom /\ AppendNew(role, parts)
    BY <1>1, <1>3, NewRow DEF Carried, SInv
<1>4. CASE /\ \E i \in DOMAIN rows, row \in Row :
                 Rewrites(rows, i, row, rows') /\ ~ row.boundary
           /\ UNCHANGED fresh
    <2>1. PICK i \in DOMAIN rows, row \in Row : Rewrites(rows, i, row, rows') /\ ~ row.boundary
        BY <1>4
    <2>2. /\ \A x : Placed(rows, x) => Placed(rows', x)
          /\ \A x : There(rows, x) => There(rows', x)
        BY <1>1, <2>1, RewriteKeeps
    <2> QED
        BY <1>1, <1>4, <2>2 DEF Carried
<1> QED
    BY <1>2, <1>3, <1>4

\* steps that leave the reply and the partial, or drop them
LEMMA BelongsKept ==
    ASSUME SInv, Carried,
           \/ partial' = NoMsg \/ partial' = partial
           \/ /\ partial'.id = reply.id /\ partial'.seq = reply.seq
              /\ pc \in Replying \ {"aborting"},
           \/ pc' \notin Replying
           \/ /\ pc \in Replying /\ (pc = "aborting" => pc' = "aborting")
              /\ reply'.id = reply.id /\ reply'.seq = reply.seq
    PROVE  Belongs'
<1>1. /\ fresh \in Nat /\ fresh' \in {fresh, fresh + 1}
      /\ partial # NoMsg => partial.id \in Nat
      /\ pc \in Replying => reply.id \in Nat
    BY DEF Carried, SInv, Typed, TypeOK, Partial, Reply, MsgId
<1>2. ASSUME pc' \in Replying
      PROVE  /\ reply'.id < fresh' /\ Placed(rows', reply')
             /\ pc' # "aborting" => There(rows', reply')
    <2>1. /\ pc \in Replying /\ (pc = "aborting" => pc' = "aborting")
          /\ reply'.id = reply.id /\ reply'.seq = reply.seq
        BY <1>2
    <2>2. /\ reply.id < fresh /\ Placed(rows', reply)
          /\ pc' # "aborting" => There(rows', reply)
        BY <2>1 DEF SInv, Belongs, Own, Carried
    <2>3. reply.id < fresh'
        BY <1>1, <2>1, <2>2
    <2> QED
        BY <2>1, <2>2, <2>3, SameMessage
<1>3. ASSUME partial' # NoMsg
      PROVE  /\ partial'.id < fresh' /\ Placed(rows', partial')
             /\ partial'.worthy => There(rows', partial')
    <2>1. CASE partial' = partial
        <3>1. /\ partial.id < fresh /\ Placed(rows', partial)
              /\ partial.worthy => There(rows', partial)
            BY <1>3, <2>1 DEF SInv, Belongs, Own, Carried
        <3> QED
            BY <1>1, <1>3, <2>1, <3>1
    <2>2. CASE /\ partial'.id = reply.id /\ partial'.seq = reply.seq
               /\ pc \in Replying \ {"aborting"}
        <3>1. reply.id < fresh /\ Placed(rows', reply) /\ There(rows', reply)
            BY <2>2 DEF SInv, Belongs, Own, Carried
        <3>2. reply.id < fresh'
            BY <1>1, <2>2, <3>1
        <3> QED
            BY <2>2, <3>1, <3>2, SameMessage
    <2> QED
        BY <1>3, <2>1, <2>2
<1> QED
    BY <1>2, <1>3 DEF Belongs, Own

\* every step keeps the reply and the partial to their row
LEMMA BelongsStep ==
    ASSUME Steady, SInv, [Next]_vars
    PROVE  Belongs'
<1>1. CASE CommitStep
    <2>1. PICK c \in Committer : CommitPlan(c) \/ CommitWrite(c) \/ CommitClean(c)
        BY <1>1 DEF CommitStep
    <2>2. CASE CommitPlan(c) \/ CommitClean(c)
        <3>1. /\ UNCHANGED <<rows, fresh, pc, reply>>
              /\ partial' \in {partial, NoMsg}
            BY <2>2 DEF CommitPlan, CommitClean, disk
        <3> QED
            BY <3>1, CarriedBySteps, BelongsKept
    <2>3. CASE CommitWrite(c)
        <3>1. UNCHANGED <<partial, pc, reply, fresh>> /\ partial \in Partial
            BY <2>3, CommitWrites DEF CommitWrite
        <3>2. CASE UNCHANGED <<rows, counter>>
            BY <3>1, <3>2, CarriedBySteps, BelongsKept
        <3>3. CASE \E i \in DOMAIN rows : Rewrites(rows, i, RowOf(partial), rows')
            <4>1. RowOf(partial) \in Row /\ ~ RowOf(partial).boundary
                BY <3>1 DEF RowOf, Row, Partial
            <4> QED
                BY <3>1, <3>3, <4>1, CarriedBySteps, BelongsKept
        <3>4. CASE ~ partial.worthy /\ DeleteMessage(partial.id)
            <4>1. rows \in Seq(Row) /\ rows' \in Seq(Row) /\ Within(rows', rows)
                BY <3>4, Deletion DEF SInv, Typed, TypeOK
            <4>2. \A x : Placed(rows, x) => Placed(rows', x)
                BY <4>1, WithinKeeps
            <4>3. pc \notin Replying \ {"aborting"}
                BY <2>3, CommitWrites DEF Replying
            <4> QED
                BY <3>1, <3>4, <4>2, <4>3 DEF Belongs, Own, SInv
        <3> QED
            BY <2>3, <3>2, <3>3, <3>4, CommitWrites
    <2> QED
        BY <2>1, <2>2, <2>3
<1>2. CASE TurnStep
    <2>1. CASE OpenReply
        <3>1. HasRoom /\ AppendNew("assistant", 0) /\ 0 \in 0..MaxParts
              /\ reply' = [id |-> fresh, seq |-> NextSequence, parts |-> 0, worthy |-> FALSE]
              /\ pc' = "opened" /\ partial' = partial /\ partial = NoMsg
            BY <2>1, BoundsAssumption DEF OpenReply, SInv, PartialPhases
        <3>2. PICK row \in Row : /\ row.id = fresh /\ row.seq = NextSequence
                                 /\ There(rows', row) /\ Placed(rows', row)
            BY <3>1, NewRow DEF SInv
        <3>3. There(rows', reply') /\ Placed(rows', reply')
            BY <3>1, <3>2, SameMessage
        <3>4. reply'.id < fresh'
            BY <3>1, NewRow DEF SInv, MsgId
        <3> QED
            BY <3>1, <3>3, <3>4 DEF Belongs, Own
    <2>2. CASE AppendSnapshot \/ Send
        <3>1. /\ \E role \in {"user", "snapshot", "assistant"}, parts \in 0..MaxParts :
                    HasRoom /\ AppendNew(role, parts)
              /\ partial' = partial /\ pc' \notin Replying
            BY <2>2, BoundsAssumption DEF AppendSnapshot, Send, Replying
        <3> QED
            BY <3>1, CarriedBySteps, BelongsKept
    <2>3. CASE DropPlaceholder
        BY <2>3 DEF DropPlaceholder, SInv, PartialPhases, Belongs, Replying
    <2>4. CASE CompactMarkBoundary
        BY <2>4 DEF CompactMarkBoundary, SInv, PartialPhases, Belongs, Replying
    <2>5. CASE EndUpdateHistory
        <3>1. PICK row : row = [FinalRow EXCEPT !.boundary = FALSE]
            OBVIOUS
        <3>2. row = FinalRow /\ ~ row.boundary
            BY <3>1 DEF FinalRow
        <3>3. /\ row \in Row /\ At(rows, reply.seq) # 0
              /\ UpdateHistory(row) => \E i \in DOMAIN rows : Rewrites(rows, i, row, rows')
            BY <2>5, <3>1, FinalWrites DEF EndUpdateHistory, Replying
        <3>4. /\ \E i \in DOMAIN rows : Rewrites(rows, i, row, rows')
              /\ UNCHANGED <<fresh, partial, reply>> /\ pc = "finalizing" /\ pc' = "completed"
            BY <2>5, <3>2, <3>3 DEF EndUpdateHistory
        <3> QED
            BY <3>2, <3>3, <3>4, CarriedBySteps, BelongsKept DEF Replying
    <2>6. CASE FlushPartial \/ StreamEnds \/ StreamFails \/ StreamAborts \/ AbandonFlush
        <3>1. /\ UNCHANGED <<rows, fresh>> /\ partial'.id = reply.id /\ partial'.seq = reply.seq
              /\ pc \in {"streaming", "abandoning"} /\ (pc' \in Replying => reply' = reply)
            BY <2>6
               DEF FlushPartial, StreamEnds, StreamFails, StreamAborts, AbandonFlush,
                   WritePartial, Replying
        <3> QED
            BY <3>1, CarriedBySteps, BelongsKept DEF Replying
    <2>7. CASE ReceivePart
        <3>1. reply'.id = reply.id /\ reply'.seq = reply.seq
            BY <2>7 DEF ReceivePart, SInv, Typed, Replying, Reply
        <3>2. UNCHANGED <<rows, fresh, partial, pc>> /\ pc = "streaming"
            BY <2>7 DEF ReceivePart, disk
        <3> QED
            BY <3>1, <3>2, CarriedBySteps, BelongsKept DEF Replying
    <2>8. CASE ~ (\/ OpenReply \/ AppendSnapshot \/ Send \/ DropPlaceholder
                  \/ CompactMarkBoundary \/ EndUpdateHistory \/ FlushPartial \/ StreamEnds
                  \/ StreamFails \/ StreamAborts \/ AbandonFlush \/ ReceivePart)
        <3>1. /\ UNCHANGED <<rows, fresh>> /\ partial' \in {partial, NoMsg}
              /\ \/ pc' \notin Replying
                 \/ pc \in Replying /\ (pc = "aborting" => pc' = "aborting") /\ reply' = reply
            BY <1>2, <2>8
               DEF TurnStep, Prepare, Resume, TurnCommitRead, TurnCommitted, StartStream,
                   EndDeletePartial, TurnEnds, CompactDeletePartial, AbortCommitRead,
                   AbortDeletePartial, Abandon, AbandonDeletePartial, disk, Replying
        <3> QED
            BY <3>1, CarriedBySteps, BelongsKept
    <2> QED
        BY <2>1, <2>2, <2>3, <2>4, <2>5, <2>6, <2>7, <2>8
<1>3. CASE Clear \/ Truncate \/ Edit
    BY <1>3
       DEF Clear, Truncate, Edit, NotBusy, Steady, SInv, PartialPhases, Belongs, Replying
<1>4. CASE ForkCommitRead \/ ForkCommitted
    <2>1. UNCHANGED <<rows, fresh, partial, pc, reply>>
        BY <1>4 DEF ForkCommitRead, ForkCommitted, disk
    <2> QED
        BY <2>1, CarriedBySteps, BelongsKept
<1>5. CASE Crash
    <2>1. UNCHANGED <<rows, fresh, partial>> /\ pc' \notin Replying
        BY <1>5 DEF Crash, disk, Replying
    <2> QED
        BY <2>1, CarriedBySteps, BelongsKept
<1>6. CASE UNCHANGED vars
    BY <1>6, CarriedBySteps, BelongsKept DEF vars
<1> QED
    BY <1>1, <1>2, <1>3, <1>4, <1>5, <1>6 DEF Next, UserStep

-----------------------------------------------------------------------------
(* What the user removes, and what stays.                                  *)
\* a is the first n elements of s, b the others
Halves(s, n, a, b) ==
    /\ DOMAIN a = 1..n /\ \A k \in 1..n : a[k] = s[k]
    /\ DOMAIN b = 1..(Len(s) - n) /\ \A k \in 1..(Len(s) - n) : b[k] = s[n + k]

\* SubSeq cuts in two
LEMMA HalvesOf ==
    ASSUME NEW s \in Seq(Row), NEW n \in 0..Len(s),
           NEW a, a = SubSeq(s, 1, n), NEW b, b = SubSeq(s, n + 1, Len(s))
    PROVE  Halves(s, n, a, b)
<1>1. /\ a \in Seq(Row) /\ Len(a) = n /\ \A k \in 1..n : a[k] = s[k]
      /\ b \in Seq(Row) /\ Len(b) = Len(s) - n
    BY SubSeqProperties
<1>2. \A k \in 1..(Len(s) - n) : b[k] = s[n + k]
    BY SubSeqProperties
<1> QED
    BY <1>1, <1>2 DEF Halves

\* what is in one half is not in the other, and nothing is lost
LEMMA CutInTwo ==
    ASSUME NEW s \in Seq(Row), Distinct(s), NEW n \in 0..Len(s), NEW a, NEW b,
           Halves(s, n, a, b)
    PROVE  /\ Ids(a) \cap Ids(b) = {} /\ Ids(a) \subseteq Ids(s) /\ Ids(b) \subseteq Ids(s)
           /\ \A i \in DOMAIN s : s[i].id \in Ids(a) \/ \E k \in DOMAIN b : b[k] = s[i]
           /\ \A i \in DOMAIN s : s[i].id \in Ids(b) \/ \E k \in DOMAIN a : a[k] = s[i]
<1>1. DOMAIN s = 1..Len(s) /\ Len(s) \in Nat /\ n \in Nat /\ n <= Len(s)
    OBVIOUS
<1>2. ASSUME NEW k \in DOMAIN a PROVE k \in DOMAIN s /\ k <= n /\ a[k] = s[k]
    BY <1>1 DEF Halves
<1>3. ASSUME NEW k \in DOMAIN b PROVE n + k \in DOMAIN s /\ n < n + k /\ b[k] = s[n + k]
    BY <1>1 DEF Halves
<1>4. ASSUME NEW k \in DOMAIN a, NEW l \in DOMAIN b PROVE a[k].id # b[l].id
    <2>1. k \in DOMAIN s /\ n + l \in DOMAIN s /\ k # n + l
        BY <1>1, <1>2, <1>3
    <2>2. a[k] = s[k] /\ b[l] = s[n + l]
        BY <1>2, <1>3
    <2> QED
        BY <2>1, <2>2 DEF Distinct
<1>5. Ids(a) \cap Ids(b) = {}
    BY <1>4 DEF Ids
<1>6. ASSUME NEW i \in DOMAIN s
      PROVE  (\E k \in DOMAIN a : a[k] = s[i]) \/ (\E k \in DOMAIN b : b[k] = s[i])
    <2>1. CASE i <= n
        <3>1. i \in 1..n
            BY <1>1, <2>1
        <3> QED
            BY <3>1 DEF Halves
    <2>2. CASE ~ (i <= n)
        <3>1. i - n \in 1..(Len(s) - n) /\ n + (i - n) = i
            BY <1>1, <2>2
        <3>2. b[i - n] = s[i]
            BY <3>1 DEF Halves
        <3> QED
            BY <3>1, <3>2 DEF Halves
    <2> QED
        BY <2>1, <2>2
<1>7. Ids(a) \subseteq Ids(s)
    BY <1>2 DEF Ids
<1>8. Ids(b) \subseteq Ids(s)
    BY <1>3 DEF Ids
<1>9. /\ \A i \in DOMAIN s : s[i].id \in Ids(a) \/ \E k \in DOMAIN b : b[k] = s[i]
      /\ \A i \in DOMAIN s : s[i].id \in Ids(b) \/ \E k \in DOMAIN a : a[k] = s[i]
    BY <1>6 DEF Ids
<1> QED
    BY <1>5, <1>7, <1>8, <1>9

\* the user's removals take some rows away, and leave the others as they are
LEMMA Removal ==
    ASSUME Typed, FileInv, partial = NoMsg, Clear \/ Truncate \/ Edit
    PROVE  \E ids : /\ TakeAway(ids) /\ ids \subseteq Ids(rows)
                    /\ Ids(rows') \cap ids = {} /\ Ids(rows') \subseteq Ids(rows)
                    /\ \A i \in DOMAIN rows :
                          rows[i].id \in ids \/ \E k \in DOMAIN rows' : rows'[k] = rows[i]
<1>1. rows \in Seq(Row) /\ Distinct(rows) /\ Len(rows) \in 0..Len(rows)
    BY DEF Typed, TypeOK, FileInv
<1>2. ASSUME NEW n \in 0..Len(rows), NEW ids,
             rows' = SubSeq(rows, n + 1, Len(rows)), ids = Ids(SubSeq(rows, 1, n))
      PROVE  /\ ids \subseteq Ids(rows)
             /\ Ids(rows') \cap ids = {} /\ Ids(rows') \subseteq Ids(rows)
             /\ \A i \in DOMAIN rows :
                   rows[i].id \in ids \/ \E k \in DOMAIN rows' : rows'[k] = rows[i]
    <2>1. PICK a : a = SubSeq(rows, 1, n)
        OBVIOUS
    <2>2. PICK b : b = SubSeq(rows, n + 1, Len(rows))
        OBVIOUS
    <2>3. Halves(rows, n, a, b)
        BY <1>1, <2>1, <2>2, HalvesOf
    <2>4. /\ Ids(a) \cap Ids(b) = {} /\ Ids(a) \subseteq Ids(rows) /\ Ids(b) \subseteq Ids(rows)
          /\ \A i \in DOMAIN rows : rows[i].id \in Ids(a) \/ \E k \in DOMAIN b : b[k] = rows[i]
        BY <1>1, <2>3, CutInTwo
    <2>5. rows' = b /\ ids = Ids(a)
        BY <1>2, <2>1, <2>2
    <2>6. Ids(rows') = Ids(b)
        BY <2>5 DEF Ids
    <2> QED
        BY <2>4, <2>5, <2>6
<1>3. CASE Clear
    <2>1. SubSeq(rows, 1, Len(rows)) = rows
        BY <1>1, SubSeqFull
    <2>2. /\ rows' = SubSeq(rows, Len(rows) + 1, Len(rows))
          /\ TakeAway(Ids(rows) \cup {})
        BY <1>3 DEF Clear, TruncateHead
    <2>3. PICK n \in 0..Len(rows) : n = Len(rows)
        BY <1>1
    <2>4. PICK ids : ids = Ids(rows) \cup {}
        OBVIOUS
    <2>5. ids = Ids(SubSeq(rows, 1, n)) /\ TakeAway(ids) /\ rows' = SubSeq(rows, n + 1, Len(rows))
        BY <2>1, <2>2, <2>3, <2>4
    <2> QED
        BY <1>2, <2>3, <2>5
<1>4. CASE Truncate
    <2>1. PICK n \in 1..(Len(rows) - 1) : TruncateHead(n) /\ TakeAway(Ids(SubSeq(rows, 1, n)))
        BY <1>4 DEF Truncate
    <2>2. n \in 0..Len(rows)
        BY <1>1
    <2> QED
        BY <1>2, <2>1, <2>2 DEF TruncateHead
<1>5. CASE Edit
    <2>1. PICK i \in Epoch(rows) : /\ TruncateAfter(rows[EditTarget(i)].id)
                                  /\ TakeAway(Ids(SubSeq(rows, EditTarget(i), Len(rows))))
        BY <1>5 DEF Edit
    <2>2. PICK e : e = EditTarget(i)
        OBVIOUS
    <2>3. e \in DOMAIN rows
        BY <1>1, <2>2, EditTargetOf
    <2> DEFINE J == {j \in DOMAIN rows : rows[j].id = rows[e].id}
    <2>4. J = {e}
        BY <1>1, <2>3 DEF Distinct
    <2>5. J \subseteq Nat /\ 0 \notin J
        BY <1>1
    <2>6. rows' = SubSeq(rows, 1, First(J) - 1)
        BY <2>1, <2>2 DEF TruncateAfter
    <2> HIDE DEF J
    <2>7. First(J) = e
        BY <2>4, <2>5, FirstOf
    <2>8. PICK n \in 0..Len(rows) : n = e - 1 /\ n + 1 = e
        BY <1>1, <2>3
    <2>9. rows' = SubSeq(rows, 1, n)
        BY <2>6, <2>7, <2>8
    <2>10. TakeAway(Ids(SubSeq(rows, n + 1, Len(rows))))
        BY <2>1, <2>2, <2>8
    <2>11. PICK a : a = SubSeq(rows, 1, n)
        OBVIOUS
    <2>12. PICK b : b = SubSeq(rows, n + 1, Len(rows))
        OBVIOUS
    <2>13. Halves(rows, n, a, b)
        BY <1>1, <2>11, <2>12, HalvesOf
    <2>14. /\ Ids(a) \cap Ids(b) = {} /\ Ids(a) \subseteq Ids(rows) /\ Ids(b) \subseteq Ids(rows)
           /\ \A k \in DOMAIN rows : rows[k].id \in Ids(b) \/ \E l \in DOMAIN a : a[l] = rows[k]
        BY <1>1, <2>13, CutInTwo
    <2>15. rows' = a /\ Ids(rows') = Ids(a) /\ TakeAway(Ids(b))
        BY <2>9, <2>10, <2>11, <2>12 DEF Ids
    <2> QED
        BY <2>14, <2>15
<1> QED
    BY <1>3, <1>4, <1>5

\* removals find no partial
LEMMA RemovalsAreQuiet ==
    ASSUME Steady, SInv, Clear \/ Truncate \/ Edit
    PROVE  partial = NoMsg
BY DEF Steady, SInv, PartialPhases, Clear, Truncate, Edit, NotBusy

\* fewer rows, with the same records of what was removed and finished
LEMMA HistoryWithin ==
    ASSUME SInv, Within(rows', rows), UNCHANGED <<partial, fresh, removed, finished>>,
           \/ pc' \notin Replying \ {"completed", "compacting"}
           \/ pc \in Replying \ {"completed", "compacting"} /\ reply' = reply
    PROVE  History'
<1>1. PICK g \in [DOMAIN rows' -> DOMAIN rows] : \A k \in DOMAIN rows' : rows'[k] = rows[g[k]]
    BY DEF Within
<1>2. FinalizedOnce'
    BY <1>1 DEF SInv, History, FinalizedOnce
<1>3. RemovedStaysRemoved'
    BY <1>1 DEF SInv, History, RemovedStaysRemoved, Ids
<1> QED
    BY <1>2, <1>3 DEF SInv, History

\* no step brings back what was removed, or unfinishes a reply
LEMMA HistoryStep ==
    ASSUME Steady, SInv, [Next]_vars
    PROVE  History'
<1>1. /\ rows \in Seq(Row) /\ fresh \in Nat /\ Below(rows, fresh)
      /\ \A m \in removed \cup finished : m < fresh /\ m # fresh /\ m \in Nat
      /\ \A i \in DOMAIN rows : rows[i].id \in finished => ~ rows[i].partial
      /\ \A i \in DOMAIN rows : rows[i].id \notin removed
    BY
       DEF SInv, Typed, TypeOK, FileInv, History, MsgId, FinalizedOnce,
           RemovedStaysRemoved, Ids
<1>2. ASSUME UNCHANGED <<rows, fresh, removed, finished>>,
             \/ partial' = NoMsg
             \/ partial' = partial
             \/ partial'.id = reply.id /\ pc \in Replying \ {"completed", "compacting"},
             \/ pc' \notin Replying \ {"completed", "compacting"}
             \/ pc \in Replying \ {"completed", "compacting"} /\ reply'.id = reply.id
      PROVE  History'
    BY <1>2 DEF SInv, History, FinalizedOnce, RemovedStaysRemoved, Ids
<1>3. ASSUME NEW i \in DOMAIN rows, NEW row \in Row, Rewrites(rows, i, row, rows'),
             UNCHANGED <<fresh, removed>>,
             \/ ~ row.partial /\ finished' \in {finished, finished \cup {row.id}}
             \/ row.id \notin finished /\ finished' = finished,
             \/ partial' = NoMsg
             \/ partial' = partial /\ finished' = finished,
             \/ pc' \notin Replying \ {"completed", "compacting"}
             \/ pc \in Replying \ {"completed", "compacting"} /\ reply' = reply
                /\ finished' = finished
      PROVE  History'
    <2>1. /\ DOMAIN rows' = DOMAIN rows /\ rows'[i] = row /\ rows[i].id = row.id
          /\ \A k \in DOMAIN rows : k # i => rows'[k] = rows[k]
          /\ \A k \in DOMAIN rows : rows'[k].id = rows[k].id
        BY <1>1, <1>3 DEF Rewrites
    <2>2. \A k \in DOMAIN rows : k # i => rows[k].id # row.id
        BY <1>3, <2>1 DEF SInv, FileInv, Distinct
    <2>3. FinalizedOnce'
        BY <1>1, <1>3, <2>1, <2>2 DEF FinalizedOnce
    <2>4. RemovedStaysRemoved'
        BY <1>1, <1>3, <2>1 DEF RemovedStaysRemoved, Ids
    <2>5. \A m \in removed' \cup finished' : m < fresh'
        BY <1>1, <1>3, <2>1 DEF Below
    <2> QED
        BY <1>3, <2>3, <2>4, <2>5 DEF SInv, History
<1>4. CASE CommitStep
    <2>1. PICK c \in Committer : CommitPlan(c) \/ CommitWrite(c) \/ CommitClean(c)
        BY <1>4 DEF CommitStep
    <2>2. CASE CommitPlan(c) \/ CommitClean(c)
        BY <1>2, <2>2 DEF CommitPlan, CommitClean, disk, ghost
    <2>3. CASE CommitWrite(c)
        <3>1. /\ UNCHANGED <<partial, pc, reply, fresh, removed, finished>> /\ partial \in Partial
              /\ partial # NoMsg /\ pc \in {"commit", "aborting"}
            BY <2>3, CommitWrites DEF CommitWrite, ghost, Partial, NoMsg, MsgId
        <3>2. CASE UNCHANGED <<rows, counter>>
            BY <1>2, <3>1, <3>2 DEF Replying
        <3>3. CASE \E i \in DOMAIN rows : Rewrites(rows, i, RowOf(partial), rows')
            <4>1. PICK row : row = RowOf(partial)
                OBVIOUS
            <4>2. PICK i \in DOMAIN rows : Rewrites(rows, i, row, rows')
                BY <3>3, <4>1
            <4>3. row \in Row /\ row.id = partial.id
                BY <3>1, <4>1 DEF RowOf, Row, Partial
            <4>4. row.id \notin finished
                BY <3>1, <4>3 DEF SInv, History
            <4> QED
                BY <1>3, <3>1, <4>1, <4>2, <4>3, <4>4 DEF Replying
        <3>4. CASE DeleteMessage(partial.id)
            <4>1. Within(rows', rows)
                BY <3>4, Deletion DEF SInv
            <4> QED
                BY <3>1, <4>1, HistoryWithin DEF Replying
        <3> QED
            BY <2>3, <3>2, <3>3, <3>4, CommitWrites
    <2> QED
        BY <2>1, <2>2, <2>3
<1>5. CASE AppendSnapshot \/ Send \/ OpenReply
    <2>1. PICK role \in {"user", "snapshot", "assistant"}, parts \in 0..MaxParts :
             HasRoom /\ AppendNew(role, parts)
        BY <1>5, BoundsAssumption DEF AppendSnapshot, Send, OpenReply
    <2>2. UNCHANGED <<partial, removed, finished>>
        BY <1>5 DEF AppendSnapshot, Send, OpenReply, ghost
    <2>3. PICK row \in Row : /\ row.id = fresh /\ ~ row.partial /\ rows' = Append(rows, row)
                             /\ fresh' = fresh + 1
        BY <2>1, NewRow DEF SInv
    <2>4. /\ DOMAIN rows' = 1..(Len(rows) + 1) /\ DOMAIN rows = 1..Len(rows)
          /\ Len(rows) \in Nat /\ rows'[Len(rows) + 1] = row
          /\ \A i \in DOMAIN rows : rows'[i] = rows[i]
        BY <1>1, <2>3
    <2>5. \A i \in DOMAIN rows' : i \in DOMAIN rows \/ i = Len(rows) + 1
        BY <2>4
    <2>6. FinalizedOnce'
        BY <1>1, <2>2, <2>3, <2>4, <2>5 DEF FinalizedOnce
    <2>7. RemovedStaysRemoved'
        BY <1>1, <2>2, <2>3, <2>4, <2>5 DEF RemovedStaysRemoved, Ids
    <2>8. \A m \in removed' \cup finished' : m < fresh'
        BY <1>1, <2>2, <2>3
    <2>9. pc' \in Replying => reply'.id \notin finished'
        BY <1>1, <1>5, <2>2 DEF AppendSnapshot, Send, OpenReply, Replying
    <2> QED
        BY <2>2, <2>6, <2>7, <2>8, <2>9 DEF SInv, History
<1>6. CASE DropPlaceholder
    <2>1. Within(rows', rows)
        BY <1>6, Deletion DEF DropPlaceholder, SInv
    <2>2. UNCHANGED <<partial, fresh, removed, finished>> /\ pc' = "idle"
        BY <1>6 DEF DropPlaceholder, ghost
    <2> QED
        BY <2>1, <2>2, HistoryWithin DEF Replying
<1>7. CASE EndUpdateHistory
    <2>1. PICK row : row = [FinalRow EXCEPT !.boundary = FALSE]
        OBVIOUS
    <2>2. row = FinalRow
        BY <2>1 DEF FinalRow
    <2>3. /\ row \in Row /\ row.id = reply.id /\ ~ row.partial /\ At(rows, reply.seq) # 0
          /\ UpdateHistory(row) => \E i \in DOMAIN rows : Rewrites(rows, i, row, rows')
        BY <1>7, <2>1, FinalWrites DEF EndUpdateHistory, Replying
    <2>4. PICK i \in DOMAIN rows : Rewrites(rows, i, row, rows')
        BY <1>7, <2>2, <2>3 DEF EndUpdateHistory
    <2>5. /\ finished' = finished \cup {row.id} /\ UNCHANGED <<fresh, removed>>
          /\ partial' = NoMsg /\ pc' = "completed"
        BY <1>7, <2>3 DEF EndUpdateHistory, SInv, PartialPhases
    <2> QED
        BY <1>3, <2>3, <2>4, <2>5
<1>8. CASE CompactMarkBoundary
    <2>1. PICK row : row = [FinalRow EXCEPT !.boundary = TRUE]
        OBVIOUS
    <2>3. /\ row \in Row /\ ~ row.partial /\ At(rows, reply.seq) # 0
          /\ UpdateHistory(row) => \E i \in DOMAIN rows : Rewrites(rows, i, row, rows')
        BY <1>8, <2>1, FinalWrites DEF CompactMarkBoundary, Replying
    <2>4. PICK i \in DOMAIN rows : Rewrites(rows, i, row, rows')
        BY <1>8, <2>1, <2>3 DEF CompactMarkBoundary
    <2>5. /\ UNCHANGED <<fresh, removed, finished>> /\ partial' = NoMsg /\ pc' = "idle"
        BY <1>8, <2>3 DEF CompactMarkBoundary, SInv, PartialPhases, ghost
    <2> QED
        BY <1>3, <2>3, <2>4, <2>5 DEF Replying
<1>9. CASE /\ TurnStep
           /\ ~ (\/ AppendSnapshot \/ Send \/ OpenReply \/ DropPlaceholder
                 \/ EndUpdateHistory \/ CompactMarkBoundary)
    <2>1. UNCHANGED <<rows, fresh>>
        BY <1>9, TurnKeepsRows
    <2>2. UNCHANGED <<removed, finished>>
        BY <1>9
           DEF TurnStep, Prepare, Resume, TurnCommitRead, TurnCommitted, StartStream,
               ReceivePart, FlushPartial, StreamEnds, EndDeletePartial, TurnEnds,
               CompactDeletePartial, StreamFails, StreamAborts, AbortCommitRead,
               AbortDeletePartial, Abandon, AbandonFlush, AbandonDeletePartial, WritePartial, ghost
    <2>3. \/ partial' = NoMsg \/ partial' = partial
          \/ partial'.id = reply.id /\ pc \in Replying \ {"completed", "compacting"}
        BY <1>9
           DEF TurnStep, Prepare, Resume, TurnCommitRead, TurnCommitted, StartStream,
               ReceivePart, FlushPartial, StreamEnds, EndDeletePartial, TurnEnds,
               CompactDeletePartial, StreamFails, StreamAborts, AbortCommitRead,
               AbortDeletePartial, Abandon, AbandonFlush, AbandonDeletePartial, WritePartial,
               disk, Replying
    <2>4. pc = "streaming" => reply \in Reply
        BY DEF SInv, Typed, Replying
    <2>5. \/ pc' \notin Replying \ {"completed", "compacting"}
          \/ pc \in Replying \ {"completed", "compacting"} /\ reply'.id = reply.id
        BY <1>9, <2>4
           DEF TurnStep, Prepare, Resume, TurnCommitRead, TurnCommitted, StartStream,
               ReceivePart, FlushPartial, StreamEnds, EndDeletePartial, TurnEnds,
               CompactDeletePartial, StreamFails, StreamAborts, AbortCommitRead,
               AbortDeletePartial, Abandon, AbandonFlush, AbandonDeletePartial, Replying, Reply
    <2> QED
        BY <1>2, <2>1, <2>2, <2>3, <2>5
<1>10. CASE Clear \/ Truncate \/ Edit
    <2>1. partial = NoMsg
        BY <1>10, RemovalsAreQuiet
    <2>2. PICK ids : /\ TakeAway(ids) /\ ids \subseteq Ids(rows)
                     /\ Ids(rows') \cap ids = {} /\ Ids(rows') \subseteq Ids(rows)
        BY <1>10, <2>1, Removal DEF SInv
    <2>3. Within(rows', rows)
        BY <1>10, RemovalAhead DEF SInv
    <2>4. /\ UNCHANGED <<fresh, finished, partial>> /\ pc' \notin Replying
        BY <1>10 DEF Clear, Truncate, Edit, TakeAway, NotBusy, Replying
    <2>5. FinalizedOnce'
        BY <1>1, <2>3, <2>4 DEF Within, FinalizedOnce
    <2>6. RemovedStaysRemoved'
        BY <2>2 DEF TakeAway, RemovedStaysRemoved, SInv, History
    <2>7. \A m \in removed' \cup finished' : m < fresh'
        BY <1>1, <2>2, <2>4 DEF TakeAway, Below, Ids
    <2> QED
        BY <2>1, <2>4, <2>5, <2>6, <2>7 DEF History
<1>11. CASE ForkCommitRead \/ ForkCommitted
    BY <1>2, <1>11 DEF ForkCommitRead, ForkCommitted, disk, ghost
<1>12. CASE Crash
    BY <1>2, <1>12 DEF Crash, disk, ghost, Replying
<1>13. CASE UNCHANGED vars
    BY <1>2, <1>13 DEF vars, ghost
<1> QED
    BY <1>4, <1>5, <1>6, <1>7, <1>8, <1>9, <1>10, <1>11, <1>12, <1>13
       DEF Next, TurnStep, UserStep

-----------------------------------------------------------------------------
(* The invariant, and what follows from it.                                *)
LEMMA InitSInv == Init => SInv
<1> SUFFICES ASSUME Init PROVE SInv
    OBVIOUS
<1>1. Typed
    BY InitTyped
<1>2. DOMAIN rows = {}
    BY DEF Init
<1>3. FileInv
    BY <1>2 DEF Init, FileInv, Increasing, CounterAhead, Distinct, Below
<1>4. History
    BY <1>2 DEF Init, History, FinalizedOnce, RemovedStaysRemoved, Ids, Replying
<1> QED
    BY <1>1, <1>3, <1>4
       DEF Init, SInv, CommitPhases, PartialPhases, Belongs, Committer, Committing, Replying

\* every step keeps the invariant
LEMMA SInvStep == Steady /\ SInv /\ [Next]_vars => SInv'
<1> SUFFICES ASSUME Steady, SInv, [Next]_vars PROVE SInv'
    OBVIOUS
<1>1. Typed'
    BY TypeStep DEF SInv
<1>2. FileInv'
    BY FileSteps, FileInvStep DEF SInv
<1> QED
    BY <1>1, <1>2, CommitPhasesStep, PartialPhasesStep, BelongsStep, HistoryStep DEF SInv

\* each row stays, unless the user takes it away or it is a reply that is dropped
Stays(i) == \E k \in DOMAIN rows' : /\ rows'[k].id = rows[i].id /\ rows'[k].seq = rows[i].seq
                                    /\ rows[i].boundary => rows'[k].boundary
Dropped(i) == rows[i].role = "assistant" /\ ~ rows[i].boundary

\* a step that takes a row away
LEMMA RowsKept ==
    ASSUME Steady, SInv, [Next]_vars, NEW i \in DOMAIN rows
    PROVE  Stays(i) \/ rows[i].id \in removed' \/ Dropped(i)
<1>1. Typed /\ FileInv /\ rows \in Seq(Row)
    BY DEF SInv, Typed, TypeOK
<1>2. CASE UNCHANGED <<rows, fresh>>
    BY <1>2 DEF Stays
<1>3. CASE \E role \in {"user", "snapshot", "assistant"}, parts \in 0..MaxParts :
              HasRoom /\ AppendNew(role, parts)
    <2>1. PICK row \in Row : rows' = Append(rows, row)
        BY <1>1, <1>3, NewRow
    <2>2. i \in DOMAIN rows' /\ rows'[i] = rows[i]
        BY <1>1, <2>1
    <2> QED
        BY <2>2 DEF Stays
<1>4. CASE \E j \in DOMAIN rows, row \in Row : Rewrites(rows, j, row, rows')
    BY <1>4 DEF Rewrites, Stays
<1>5. CASE \E x \in Partial \cup Reply : Placed(rows, x) /\ DeleteMessage(x.id)
    <2>1. PICK x : Placed(rows, x) /\ DeleteMessage(x.id)
        BY <1>5
    <2>2. rows[i].id = x.id => Dropped(i)
        BY <2>1 DEF Placed, Dropped
    <2>3. rows[i].id # x.id => Stays(i)
        BY <1>1, <2>1, Deletion DEF Stays
    <2> QED
        BY <2>2, <2>3
<1>6. CASE Clear \/ Truncate \/ Edit
    <2>1. PICK ids : /\ TakeAway(ids)
                     /\ \A j \in DOMAIN rows :
                          rows[j].id \in ids \/ \E k \in DOMAIN rows' : rows'[k] = rows[j]
        BY <1>1, <1>6, Removal, RemovalsAreQuiet
    <2> QED
        BY <2>1 DEF Stays, TakeAway
<1> QED
    BY <1>2, <1>3, <1>4, <1>5, <1>6, FileSteps DEF FileStep

(* The invariant of the history for a session that is alone with its       *)
(* files: no fork commits behind its back, and removals do not meet a      *)
(* partial that an error or a crash has left (Steady).                     *)
THEOREM InvariantHolds == Steady => (Spec => []SInv)
<1> SUFFICES ASSUME Steady PROVE Spec => []SInv
    OBVIOUS
<1>1. SInv /\ [Next]_vars => SInv'
    BY SInvStep
<1> QED
    BY InitSInv, <1>1, PTL DEF Spec

(* The rows of the file have increasing sequences, which is what lets a    *)
(* restart take the last one for the highest (historyService.ts:1023).     *)
THEOREM RowsIncrease == Steady => (Spec => []SequencesIncrease)
<1> SUFFICES ASSUME Steady PROVE Spec => []SequencesIncrease
    OBVIOUS
<1>1. Spec => []SInv
    BY InvariantHolds
<1>2. SInv => SequencesIncrease
    BY DEF SInv, FileInv, Increasing, SequencesIncrease
<1> QED
    BY <1>1, <1>2, PTL

(* The counter is ahead of the file, also when it is rebuilt after a       *)
(* crash.                                                                  *)
THEOREM CounterSurvivesCrashes == Steady => (Spec => []CounterAhead)
<1> SUFFICES ASSUME Steady PROVE Spec => []CounterAhead
    OBVIOUS
<1>1. Spec => []SInv
    BY InvariantHolds
<1>2. SInv => CounterAhead
    BY DEF SInv, FileInv
<1> QED
    BY <1>1, <1>2, PTL

(* No commit, update or deletion takes away a row of the user's: only      *)
(* /clear, /truncate and an edit do.                                       *)
THEOREM UserRowsAreKept == Steady => (Spec => UserRowsStay)
<1> SUFFICES ASSUME Steady PROVE Spec => UserRowsStay
    OBVIOUS
<1>1. Spec => []SInv
    BY InvariantHolds
<1>2. ASSUME SInv, [Next]_vars
      PROVE  \A i \in DOMAIN rows : rows[i].role = "user"
                => rows[i].id \in Ids(rows') \cup removed'
    BY <1>2, RowsKept DEF Stays, Dropped, Ids
<1>3. SInv /\ [Next]_vars => [\A i \in DOMAIN rows : rows[i].role = "user"
                => rows[i].id \in Ids(rows') \cup removed']_vars
    BY <1>2
<1> QED
    BY <1>1, <1>3, PTL DEF Spec, UserRowsStay

(* No rewrite of a row unmakes a compaction boundary (updateHistory).      *)
THEOREM BoundariesAreKept == Steady => (Spec => BoundariesStay)
<1> SUFFICES ASSUME Steady PROVE Spec => BoundariesStay
    OBVIOUS
<1>1. Spec => []SInv
    BY InvariantHolds
<1>2. ASSUME SInv, [Next]_vars
      PROVE  \A i \in DOMAIN rows : rows[i].boundary
                => \/ rows[i].id \in removed'
                   \/ \E j \in DOMAIN rows' : rows'[j].seq = rows[i].seq /\ rows'[j].boundary
    BY <1>2, RowsKept DEF Stays, Dropped
<1>3. SInv /\ [Next]_vars => [\A i \in DOMAIN rows : rows[i].boundary
                => \/ rows[i].id \in removed'
                   \/ \E j \in DOMAIN rows' : rows'[j].seq = rows[i].seq /\ rows'[j].boundary]_vars
    BY <1>2
<1> QED
    BY <1>1, <1>3, PTL DEF Spec, BoundariesStay

(* A finished reply is never overwritten by its own partial                *)
(* (commitPartial, historyService.ts:921).                                 *)
THEOREM FinalizedReplies == Steady => (Spec => []FinalizedOnce)
<1> SUFFICES ASSUME Steady PROVE Spec => []FinalizedOnce
    OBVIOUS
<1>1. Spec => []SInv
    BY InvariantHolds
<1>2. SInv => FinalizedOnce
    BY DEF SInv, History
<1> QED
    BY <1>1, <1>2, PTL

(* What the user removed stays removed: no commit brings a row back.       *)
THEOREM RemovedForGood == Steady => (Spec => []RemovedStaysRemoved)
<1> SUFFICES ASSUME Steady PROVE Spec => []RemovedStaysRemoved
    OBVIOUS
<1>1. Spec => []SInv
    BY InvariantHolds
<1>2. SInv => RemovedStaysRemoved
    BY DEF SInv, History
<1> QED
    BY <1>1, <1>2, PTL

-----------------------------------------------------------------------------
(* What reached the disk stays in the history or in the partial, as long   *)
(* as mux does not crash.                                                  *)

\* what kept says of the reply and of the partial
Records ==
    /\ \A m \in MsgId : m >= fresh => kept[m] = 0
    /\ pc \in Replying =>
          /\ kept[reply.id] <= reply.parts
          /\ ~ reply.worthy => kept[reply.id] = 0
          /\ partial # NoMsg => partial.id = reply.id
    /\ pc = "opened" => ~ reply.worthy
    /\ pc \in {"abandoning", "abandoned"} => kept[reply.id] = 0
    /\ partial # NoMsg =>
          /\ kept[partial.id] <= partial.parts
          /\ ~ partial.worthy => kept[partial.id] = 0

\* a worthy partial is deleted by a commit only when the history covers it
Committed ==
    (cpc["turn"] = "planned" /\ plan["turn"] = "none") \/ cpc["turn"] = "written"
        => (partial.worthy => Covered(rows, partial.id, partial.parts))

Somewhere(m) ==
    \/ Covered(rows, m, kept[m])
    \/ partial # NoMsg /\ partial.id = m
    \/ pc = "finalizing" /\ reply.id = m
Content == Records /\ Committed /\ \A m \in MsgId : kept[m] > 0 => Somewhere(m)

\* every step keeps the records true
LEMMA RecordsStep ==
    ASSUME Steady, "crash" \notin Features, SInv, Records, [Next]_vars
    PROVE  Records'
<1>1. kept \in [MsgId -> 0..MaxParts] /\ fresh \in Nat /\ MaxParts \in Nat /\ MsgId \subseteq Nat
    BY BoundsAssumption DEF SInv, Typed, TypeOK, MsgId
<1>2. pc \in Replying => /\ reply \in Reply /\ reply.id \in MsgId /\ reply.parts \in Nat
                         /\ reply.id < fresh
    BY <1>1 DEF SInv, Typed, Reply, Belongs, Own
<1>3. partial # NoMsg => partial \in Partial
    BY DEF SInv, Typed, TypeOK
<1>4. CASE CommitStep
    <2>1. UNCHANGED <<kept, fresh, pc, reply>> /\ partial' \in {partial, NoMsg}
        BY <1>4 DEF CommitStep, CommitPlan, CommitWrite, CommitClean, disk, ghost
    <2> QED
        BY <2>1 DEF Records
<1>5. CASE AppendSnapshot \/ Send \/ OpenReply
    <2>1. UNCHANGED <<kept, partial>> /\ fresh' = fresh + 1
        BY <1>5 DEF AppendSnapshot, Send, OpenReply, AppendNew, ghost
    <2>2. fresh \in MsgId
        BY <1>1, <1>5, BoundsAssumption
           DEF AppendSnapshot, Send, OpenReply, HasRoom, MsgId, SInv, Typed, TypeOK
    <2>3. \/ pc' \notin Replying
          \/ /\ pc' = "opened" /\ partial = NoMsg
             /\ reply' = [id |-> fresh, seq |-> NextSequence, parts |-> 0, worthy |-> FALSE]
        BY <1>5 DEF AppendSnapshot, Send, OpenReply, Replying, SInv, PartialPhases
    <2> QED
        BY <1>1, <2>1, <2>2, <2>3 DEF Records, Replying
<1>6. CASE FlushPartial \/ StreamEnds \/ StreamFails \/ StreamAborts
    <2>1. PICK e \in BOOLEAN : WritePartial(e)
        BY <1>6 DEF FlushPartial, StreamEnds, StreamFails, StreamAborts
    <2>2. /\ pc = "streaming" /\ reply \in Reply /\ reply.id \in MsgId /\ reply.parts \in Nat
          /\ reply.id < fresh
        BY <1>2, <1>6 DEF FlushPartial, StreamEnds, StreamFails, StreamAborts, Replying
    <2>5. /\ fresh' = fresh
          /\ \/ reply' = reply /\ pc' \in {"streaming", "ended", "aborting"}
             \/ pc' = "idle"
        BY <1>6 DEF FlushPartial, StreamEnds, StreamFails, StreamAborts
    <2>3. /\ partial'.id = reply.id /\ partial'.parts = reply.parts /\ partial'.worthy = reply.worthy
          /\ kept' = [kept EXCEPT ![reply.id] = IF reply.worthy THEN reply.parts ELSE @]
        BY <2>1 DEF WritePartial
    <2>4. /\ kept'[reply.id] <= reply.parts
          /\ ~ reply.worthy => kept'[reply.id] = 0
          /\ \A m \in MsgId : m # reply.id => kept'[m] = kept[m]
        BY <1>1, <2>2, <2>3 DEF Records, Replying
    <2> QED
        BY <1>1, <2>2, <2>3, <2>4, <2>5 DEF Records, Replying
<1>7. CASE Abandon
    <2>1. /\ pc = "streaming" /\ reply \in Reply /\ reply.id \in MsgId /\ reply.parts \in Nat
          /\ partial' = NoMsg /\ kept' = [kept EXCEPT ![reply.id] = 0]
          /\ UNCHANGED <<reply, fresh>> /\ pc' = "abandoning"
        BY <1>2, <1>7 DEF Abandon, Replying
    <2>2. kept'[reply.id] = 0 /\ \A m \in MsgId : m # reply.id => kept'[m] = kept[m]
        BY <1>1, <2>1
    <2> QED
        BY <1>1, <2>1, <2>2 DEF Records
<1>8. CASE Clear \/ Truncate \/ Edit
    <2>1. partial' = NoMsg /\ fresh' = fresh /\ pc' \notin Replying
        BY <1>8, RemovalsAreQuiet DEF Clear, Truncate, Edit, NotBusy, Replying
    <2>2. PICK ids : TakeAway(ids)
        BY <1>8 DEF Clear, Truncate, Edit
    <2>3. \A m \in MsgId : kept'[m] \in {0, kept[m]}
        BY <2>2 DEF TakeAway
    <2> QED
        BY <2>1, <2>3 DEF Records, Replying
<1>9. CASE ReceivePart
    <2>1. PICK w \in {reply.worthy, TRUE} :
             reply' = [reply EXCEPT !.parts = @ + 1, !.worthy = w]
        BY <1>9 DEF ReceivePart
    <2>2. /\ pc = "streaming" /\ pc' = pc /\ UNCHANGED <<partial, kept, fresh>>
          /\ reply \in Reply /\ reply.id \in MsgId /\ reply.parts \in Nat
        BY <1>2, <1>9 DEF ReceivePart, disk, ghost, Replying
    <2>3. reply'.id = reply.id /\ reply'.parts = reply.parts + 1 /\ reply'.worthy = w
        BY <2>1, <2>2 DEF Reply
    <2>4. kept[reply.id] \in Nat
        <3>1. kept[reply.id] \in 0..MaxParts
            BY <1>1, <2>2
        <3> QED
            BY <1>1, <3>1
    <2>5. kept[reply.id] <= reply.parts + 1
        BY <2>2, <2>4 DEF Records, Replying
    <2>6. ~ reply'.worthy => ~ reply.worthy
        <3>1. reply.worthy \in BOOLEAN
            BY <2>2 DEF Reply
        <3> QED
            BY <2>3, <3>1
    <2>7. \A m \in MsgId : kept'[m] = kept[m] /\ (m >= fresh' => kept'[m] = 0)
        BY <2>2 DEF Records
    <2> QED
        BY <2>2, <2>3, <2>5, <2>6, <2>7 DEF Records, Replying
<1>10. CASE AbandonFlush
    <2>1. /\ pc = "abandoning" /\ pc' = "abandoned" /\ UNCHANGED <<reply, kept, fresh>>
          /\ partial'.id = reply.id /\ partial'.parts = reply.parts /\ partial'.worthy = reply.worthy
        BY <1>10 DEF AbandonFlush, ghost
    <2> QED
        BY <2>1 DEF Records, Replying
<1>11. CASE /\ TurnStep
            /\ ~ (\/ AppendSnapshot \/ Send \/ OpenReply
                  \/ FlushPartial \/ StreamEnds \/ StreamFails \/ StreamAborts
                  \/ Abandon \/ ReceivePart \/ AbandonFlush)
    <2>1. /\ UNCHANGED kept /\ fresh' \in {fresh, fresh + 1} /\ partial' \in {partial, NoMsg}
          /\ pc' \in Replying => pc \in Replying /\ reply' = reply
          /\ pc' = "opened" => pc = "opened"
          /\ pc' \in {"abandoning", "abandoned"} => pc' = pc
        BY <1>11
           DEF TurnStep, Prepare, Resume, TurnCommitRead, TurnCommitted, StartStream,
               DropPlaceholder, EndDeletePartial, EndUpdateHistory, TurnEnds,
               CompactDeletePartial, CompactMarkBoundary, AbortCommitRead, AbortDeletePartial,
               AbandonDeletePartial, disk, ghost, Replying
    <2>2. fresh \in Nat
        BY BoundsAssumption DEF SInv, Typed, TypeOK
    <2>3. \A m \in MsgId : m >= fresh' => m >= fresh
        BY <2>1, <2>2, BoundsAssumption DEF MsgId
    <2> QED
        BY <2>1, <2>3 DEF Records, Replying
<1>12. CASE ForkCommitRead \/ ForkCommitted
    BY <1>12 DEF ForkCommitRead, ForkCommitted, Steady, SInv, CommitPhases, CommitOver
<1>13. CASE UNCHANGED vars
    BY <1>13 DEF vars, ghost, Records
<1> QED
    BY <1>4, <1>5, <1>6, <1>7, <1>8, <1>9, <1>10, <1>11, <1>12, <1>13
       DEF Next, TurnStep, UserStep, Crash

\* no commit skips a partial the history does not cover
LEMMA CommittedStep ==
    ASSUME Steady, "crash" \notin Features, SInv, Committed, [Next]_vars
    PROVE  Committed'
<1>1. ASSUME NEW c \in Committer, CommitPlan(c) PROVE Committed'
    <2>1. c = "turn" /\ UNCHANGED <<rows, partial>> /\ cpc' = [cpc EXCEPT ![c] = "planned"]
        BY <1>1, CommitPlans DEF CommitPlan, disk
    <2>2. PICK v : /\ plan' = [plan EXCEPT ![c] = v]
                   /\ v = "none" /\ partial.worthy => Covered(rows, partial.id, partial.parts)
        BY <1>1, CommitPlans
    <2>3. plan'["turn"] = v /\ cpc'["turn"] = "planned"
        BY <2>1, <2>2 DEF SInv, Typed, TypeOK, Committer
    <2> QED
        BY <2>1, <2>2, <2>3 DEF Committed
<1>2. ASSUME NEW c \in Committer, CommitWrite(c) PROVE Committed'
    <2>1. /\ UNCHANGED partial /\ partial \in Partial /\ cpc["turn"] = "planned"
          /\ \/ UNCHANGED rows /\ (plan["turn"] = "none" \/ ~ partial.worthy)
             \/ \E i \in DOMAIN rows : Rewrites(rows, i, RowOf(partial), rows')
             \/ ~ partial.worthy
        BY <1>2, CommitWrites DEF CommitWrite
    <2>2. ASSUME NEW i \in DOMAIN rows, Rewrites(rows, i, RowOf(partial), rows')
          PROVE  Covered(rows', partial.id, partial.parts)
        BY <2>1, <2>2 DEF Rewrites, RowOf, Covered, Partial
    <2>3. UNCHANGED rows =>
            (Covered(rows, partial.id, partial.parts) => Covered(rows', partial.id, partial.parts))
        OBVIOUS
    <2> QED
        BY <2>1, <2>2, <2>3 DEF Committed
<1>3. ASSUME NEW c \in Committer, CommitClean(c) PROVE Committed'
    BY <1>3
       DEF CommitClean, Committed, SInv, CommitPhases, Typed, TypeOK, Committer,
           Committing
<1>4. CASE TurnStep
    <2>1. cpc'["turn"] \notin {"planned", "written"}
        BY <1>4
           DEF TurnStep, AppendSnapshot, Send, Prepare, Resume, TurnCommitRead, TurnCommitted,
               OpenReply, StartStream, DropPlaceholder, ReceivePart, FlushPartial, StreamEnds,
               EndDeletePartial, EndUpdateHistory, TurnEnds, CompactDeletePartial,
               CompactMarkBoundary, StreamFails, StreamAborts, AbortCommitRead,
               AbortDeletePartial, Abandon, AbandonFlush, AbandonDeletePartial, CommitRead,
               CommitOver, EndCommit, commit, SInv, CommitPhases, Typed, TypeOK, Committer
    <2> QED
        BY <2>1 DEF Committed
<1>5. CASE Clear \/ Truncate \/ Edit
    <2>1. cpc'["turn"] \notin {"planned", "written"}
        BY <1>5 DEF Clear, Truncate, Edit, NotBusy, commit, SInv, CommitPhases
    <2> QED
        BY <2>1 DEF Committed
<1>6. CASE ForkCommitRead \/ ForkCommitted
    BY <1>6 DEF ForkCommitRead, ForkCommitted, Steady, SInv, CommitPhases, CommitOver
<1>7. CASE UNCHANGED vars
    BY <1>7 DEF vars, Committed
<1> QED
    BY <1>1, <1>2, <1>3, <1>4, <1>5, <1>6, <1>7 DEF Next, CommitStep, UserStep, Crash

\* rows that only gain parts still cover what they covered
LEMMA CoveredKept ==
    ASSUME Typed,
           \/ UNCHANGED rows
           \/ \E row \in Row : rows' = Append(rows, row)
    PROVE  \A m, n : Covered(rows, m, n) => Covered(rows', m, n)
<1>1. CASE UNCHANGED rows
    BY <1>1
<1>2. CASE \E row \in Row : rows' = Append(rows, row)
    <2>1. \A i \in DOMAIN rows : i \in DOMAIN rows' /\ rows'[i] = rows[i]
        BY <1>2 DEF Typed, TypeOK
    <2> QED
        BY <2>1 DEF Covered
<1> QED
    BY <1>1, <1>2

\* a row that is rewritten covers the parts it is written with
LEMMA CoveredByRewrite ==
    ASSUME NEW i \in DOMAIN rows, NEW row \in Row, Rewrites(rows, i, row, rows'), rows \in Seq(Row)
    PROVE  /\ \A m, n : m # row.id /\ Covered(rows, m, n) => Covered(rows', m, n)
           /\ Covered(rows', row.id, row.parts)
<1>1. row.parts \in Nat
    BY BoundsAssumption DEF Row
<1> QED
    BY <1>1 DEF Rewrites, Covered

\* every step keeps what reached the disk somewhere
LEMMA ContentStep ==
    ASSUME Steady, "crash" \notin Features, SInv, Content, [Next]_vars
    PROVE  Content'
<1>1. kept \in [MsgId -> 0..MaxParts] /\ rows \in Seq(Row) /\ MaxParts \in Nat
    BY BoundsAssumption DEF SInv, Typed, TypeOK
<1>2. /\ \A m \in MsgId : kept[m] \in Nat
      /\ \A i \in DOMAIN rows : rows[i].parts \in Nat
    BY <1>1, RowTyped
<1>3. Records' /\ Committed'
    BY RecordsStep, CommittedStep DEF Content
<1>4. pc \in Replying => reply.id \in MsgId /\ reply.parts \in Nat
    BY <1>1 DEF SInv, Typed, Reply
<1>5. \A m \in MsgId : /\ kept[m] > 0 => Somewhere(m)
                       /\ kept[m] > 0 /\ partial = NoMsg /\ pc # "finalizing"
                             => Covered(rows, m, kept[m])
    BY DEF Content, Somewhere
<1> SUFFICES ASSUME NEW m \in MsgId, (kept[m] > 0)' PROVE Somewhere(m)'
    BY <1>3 DEF Content
\* the rows keep what they cover, and the partial and the phase stay
<1>6. ASSUME UNCHANGED <<kept, partial>>, pc # "finalizing",
             \A n : Covered(rows, m, n) => Covered(rows', m, n)
      PROVE  Somewhere(m)'
    BY <1>5, <1>6 DEF Somewhere
<1>7. ASSUME NEW c \in Committer, CommitPlan(c) PROVE Somewhere(m)'
    BY <1>5, <1>7 DEF CommitPlan, disk, ghost, Somewhere
<1>8. ASSUME NEW c \in Committer, CommitWrite(c) PROVE Somewhere(m)'
    <2>1. /\ UNCHANGED <<kept, partial, pc>> /\ partial \in Partial /\ partial # NoMsg
          /\ pc # "finalizing"
        BY <1>8, CommitWrites DEF CommitWrite, ghost, Partial, NoMsg, MsgId
    <2>2. CASE partial.id = m
        BY <2>1, <2>2 DEF Somewhere
    <2>3. CASE partial.id # m
        <3>1. CASE UNCHANGED rows
            BY <1>6, <2>1, <3>1
        <3>2. ASSUME NEW i \in DOMAIN rows, Rewrites(rows, i, RowOf(partial), rows')
              PROVE  Somewhere(m)'
            <4>1. PICK row : row = RowOf(partial)
                OBVIOUS
            <4>2. row \in Row /\ row.id = partial.id
                BY <2>1, <4>1 DEF RowOf, Row, Partial
            <4> QED
                BY <1>1, <1>6, <2>1, <2>3, <3>2, <4>1, <4>2, CoveredByRewrite
        <3>3. CASE DeleteMessage(partial.id)
            <4>1. \A n : Covered(rows, m, n) => Covered(rows', m, n)
                BY <2>3, <3>3, Deletion DEF Covered, SInv
            <4> QED
                BY <1>6, <2>1, <4>1
        <3> QED
            BY <1>8, <3>1, <3>2, <3>3, CommitWrites
    <2> QED
        BY <2>2, <2>3
<1>9. ASSUME NEW c \in Committer, CommitClean(c) PROVE Somewhere(m)'
    <2>1. /\ UNCHANGED <<rows, kept, pc>> /\ partial' = NoMsg /\ pc # "finalizing"
          /\ cpc["turn"] = "written" /\ snap["turn"] = partial /\ partial # NoMsg
        BY <1>9 DEF CommitClean, ghost, SInv, CommitPhases, Typed, Committer, Committing
    <2>2. ASSUME partial.id = m PROVE Covered(rows, m, kept[m])
        <3>1. partial \in Partial /\ partial.parts \in Nat /\ kept[m] <= partial.parts
            BY <1>1, <2>1, <2>2 DEF SInv, Typed, TypeOK, Partial, Content, Records
        <3>2. partial.worthy
            BY <1>2, <2>1, <2>2 DEF Content, Records
        <3>3. Covered(rows, m, partial.parts)
            BY <2>1, <2>2, <3>2 DEF Content, Committed
        <3> QED
            BY <1>2, <3>1, <3>3 DEF Covered
    <2> QED
        BY <1>5, <2>1, <2>2 DEF Somewhere
<1>10. CASE AppendSnapshot \/ Send \/ OpenReply
    <2>1. PICK role \in {"user", "snapshot", "assistant"}, parts \in 0..MaxParts :
             HasRoom /\ AppendNew(role, parts)
        BY <1>10, BoundsAssumption DEF AppendSnapshot, Send, OpenReply
    <2>2. PICK row \in Row : rows' = Append(rows, row)
        BY <2>1, NewRow DEF SInv
    <2>3. UNCHANGED <<kept, partial>> /\ pc # "finalizing"
        BY <1>10 DEF AppendSnapshot, Send, OpenReply, ghost
    <2> QED
        BY <1>6, <2>2, <2>3, CoveredKept DEF SInv
<1>11. CASE DropPlaceholder
    <2>1. /\ UNCHANGED <<kept, partial>> /\ pc = "opened" /\ DeleteMessage(reply.id)
        BY <1>11 DEF DropPlaceholder, ghost
    <2>2. m # reply.id
        BY <2>1 DEF Content, Records, Replying
    <2>3. \A n : Covered(rows, m, n) => Covered(rows', m, n)
        BY <2>1, <2>2, Deletion DEF Covered, SInv
    <2> QED
        BY <1>6, <2>1, <2>3
<1>12. ASSUME NEW i \in DOMAIN rows, NEW row \in Row, Rewrites(rows, i, row, rows'),
              row.id = reply.id, row.parts = reply.parts, pc \in Replying,
              partial = NoMsg, UNCHANGED kept
       PROVE  Somewhere(m)'
    <2>1. CASE m = reply.id
        <3>1. Covered(rows', m, reply.parts) /\ kept[m] <= reply.parts
            BY <1>1, <1>12, <2>1, CoveredByRewrite DEF Content, Records
        <3>2. \A k \in DOMAIN rows' : rows'[k].parts \in Nat
            BY <1>1, <1>2, <1>4, <1>12 DEF Rewrites
        <3> QED
            BY <1>2, <1>4, <1>12, <2>1, <3>1, <3>2 DEF Covered, Somewhere
    <2>2. CASE m # reply.id
        <3>1. Covered(rows, m, kept[m])
            BY <1>5, <1>12, <2>2 DEF Somewhere
        <3> QED
            BY <1>1, <1>12, <2>2, <3>1, CoveredByRewrite DEF Somewhere
    <2> QED
        BY <2>1, <2>2
<1>13. CASE EndUpdateHistory
    <2>1. PICK row : row = [FinalRow EXCEPT !.boundary = FALSE]
        OBVIOUS
    <2>2. row = FinalRow /\ row.parts = reply.parts
        BY <2>1 DEF FinalRow
    <2>3. /\ row \in Row /\ row.id = reply.id /\ At(rows, reply.seq) # 0 /\ pc \in Replying
          /\ UpdateHistory(row) => \E i \in DOMAIN rows : Rewrites(rows, i, row, rows')
        BY <1>13, <2>1, FinalWrites DEF EndUpdateHistory, Replying
    <2>4. UpdateHistory(row) /\ UNCHANGED kept /\ partial = NoMsg
        BY <1>13, <2>2, <2>3 DEF EndUpdateHistory, SInv, PartialPhases
    <2> QED
        BY <1>12, <2>2, <2>3, <2>4
<1>14. CASE CompactMarkBoundary
    <2>1. PICK row : row = [FinalRow EXCEPT !.boundary = TRUE]
        OBVIOUS
    <2>2. row.parts = reply.parts
        BY <2>1 DEF FinalRow
    <2>3. /\ row \in Row /\ row.id = reply.id /\ At(rows, reply.seq) # 0 /\ pc \in Replying
          /\ UpdateHistory(row) => \E i \in DOMAIN rows : Rewrites(rows, i, row, rows')
        BY <1>14, <2>1, FinalWrites DEF CompactMarkBoundary, Replying
    <2>4. UpdateHistory(row) /\ UNCHANGED kept /\ partial = NoMsg
        BY <1>14, <2>1, <2>3 DEF CompactMarkBoundary, SInv, PartialPhases, ghost
    <2> QED
        BY <1>12, <2>2, <2>3, <2>4
<1>15. CASE FlushPartial \/ StreamEnds \/ StreamFails \/ StreamAborts
    <2>1. PICK e \in BOOLEAN : WritePartial(e)
        BY <1>15 DEF FlushPartial, StreamEnds, StreamFails, StreamAborts
    <2>2. UNCHANGED rows /\ pc \in Replying /\ pc # "finalizing"
        BY <1>15 DEF FlushPartial, StreamEnds, StreamFails, StreamAborts, Replying
    <2>3. 0 \notin MsgId
        BY BoundsAssumption DEF MsgId
    <2>4. partial' # NoMsg /\ partial'.id = reply.id
        BY <1>4, <2>1, <2>2, <2>3 DEF WritePartial, NoMsg
    <2>5. m # reply.id => kept'[m] = kept[m]
        BY <1>1, <2>1 DEF WritePartial
    <2>6. m # reply.id /\ kept[m] > 0 => Covered(rows, m, kept[m])
        BY <1>5, <2>2 DEF Somewhere, Content, Records
    <2> QED
        BY <2>2, <2>4, <2>5, <2>6 DEF Somewhere
<1>16. CASE Abandon \/ AbandonFlush \/ AbandonDeletePartial
    <2>1. /\ UNCHANGED rows /\ pc \in {"streaming", "abandoning", "abandoned"}
          /\ kept' \in {kept, [kept EXCEPT ![reply.id] = 0]}
          /\ pc = "streaming" => kept' = [kept EXCEPT ![reply.id] = 0]
        BY <1>16 DEF Abandon, AbandonFlush, AbandonDeletePartial, ghost
    <2>2. m # reply.id /\ kept'[m] = kept[m]
        BY <1>1, <1>4, <2>1 DEF Content, Records, Replying
    <2>3. Covered(rows, m, kept[m])
        BY <1>5, <2>1, <2>2 DEF Somewhere, Content, Records, Replying
    <2> QED
        BY <2>1, <2>2, <2>3 DEF Somewhere
<1>17. CASE EndDeletePartial
    <2>1. UNCHANGED <<rows, kept, reply>> /\ pc = "ended" /\ pc' = "finalizing"
        BY <1>17 DEF EndDeletePartial, ghost
    <2> QED
        BY <1>5, <2>1 DEF Somewhere, Content, Records, Replying
<1>18. CASE CompactDeletePartial \/ AbortDeletePartial
    <2>1. UNCHANGED <<rows, kept>> /\ pc # "finalizing" /\ partial = NoMsg
        BY <1>18
           DEF CompactDeletePartial, AbortDeletePartial, ghost, CommitOver, SInv, CommitPhases,
               PartialPhases
    <2> QED
        BY <1>5, <2>1 DEF Somewhere
<1>19. CASE /\ TurnStep
            /\ ~ (\/ AppendSnapshot \/ Send \/ OpenReply \/ DropPlaceholder
                  \/ EndUpdateHistory \/ CompactMarkBoundary
                  \/ FlushPartial \/ StreamEnds \/ StreamFails \/ StreamAborts
                  \/ Abandon \/ AbandonFlush \/ AbandonDeletePartial \/ EndDeletePartial
                  \/ CompactDeletePartial \/ AbortDeletePartial)
    <2>1. UNCHANGED <<rows, kept, partial>> /\ pc # "finalizing"
        BY <1>19
           DEF TurnStep, Prepare, Resume, TurnCommitRead, TurnCommitted, StartStream,
               ReceivePart, TurnEnds, AbortCommitRead, disk, ghost
    <2> QED
        BY <1>6, <2>1
<1>20. CASE Clear \/ Truncate \/ Edit
    <2>1. partial = NoMsg /\ pc # "finalizing"
        BY <1>20, RemovalsAreQuiet DEF Clear, Truncate, Edit, NotBusy
    <2>2. PICK ids : /\ TakeAway(ids)
                     /\ \A i \in DOMAIN rows :
                          rows[i].id \in ids \/ \E k \in DOMAIN rows' : rows'[k] = rows[i]
        BY <1>20, <2>1, Removal DEF SInv
    <2>3. m \notin ids /\ kept'[m] = kept[m]
        BY <2>2 DEF TakeAway
    <2>4. Covered(rows, m, kept[m])
        BY <1>5, <2>1, <2>3
    <2> QED
        BY <2>2, <2>3, <2>4 DEF Somewhere, Covered
<1>21. CASE ForkCommitRead \/ ForkCommitted
    BY <1>21 DEF ForkCommitRead, ForkCommitted, Steady, SInv, CommitPhases, CommitOver
<1>22. CASE UNCHANGED vars
    BY <1>5, <1>22 DEF vars, ghost, Somewhere
<1> QED
    BY <1>7, <1>8, <1>9, <1>10, <1>11, <1>13, <1>14, <1>15, <1>16, <1>17, <1>18, <1>19,
       <1>20,
       <1>21, <1>22
       DEF Next, CommitStep, TurnStep, UserStep, Crash

(* Without a crash, content of a reply that reached the disk is never      *)
(* lost: it is in the history or in the partial whenever nobody is at work *)
(* (streamManager.ts:2148-2151). With one, it can be:                      *)
(* ChatHistory_crashloss.                                                  *)
THEOREM ContentIsKept == Steady /\ "crash" \notin Features => (Spec => []NoContentLost)
<1> SUFFICES ASSUME Steady, "crash" \notin Features PROVE Spec => []NoContentLost
    OBVIOUS
<1>1. Spec => []SInv
    BY InvariantHolds
<1>2. Init => Content
    BY DEF Init, Content, Records, Committed, Replying, Committer
<1>3. SInv /\ Content /\ [Next]_vars => Content'
    BY ContentStep
<1>4. Content => NoContentLost
    <2> SUFFICES ASSUME Content, AtRest, NEW m \in MsgId, kept[m] > 0 PROVE KeptIn(m, kept[m])
        BY DEF NoContentLost
    <2>1. Covered(rows, m, kept[m]) \/ (partial # NoMsg /\ partial.id = m)
        BY DEF Content, Somewhere, AtRest
    <2> QED
        BY <2>1 DEF Covered, KeptIn, Content, Records
<1> QED
    BY <1>1, <1>2, <1>3, <1>4, PTL DEF Spec

-----------------------------------------------------------------------------
(* Forks.  A fork commits the partial of a session that streams, at any of *)
(* its awaits, and what it writes may be late: a finished reply becomes an *)
(* interrupted one again (ChatHistory_forkfinal).  But it writes in the    *)
(* row of the reply and nowhere else.  The reply, the partial and what the *)
(* two committers have read are versions of messages whose id and sequence *)
(* name the same row, if there is one (Named), and a version that may be   *)
(* deleted is not a boundary (Unfinished).  Undisturbed: no removal has    *)
(* given a sequence number back and no crash has reset the counter.        *)
Undisturbed == Features \cap {"clear", "truncate", "edit", "crash"} = {}

\* the names (id and sequence) of the versions that are about
Of(x, m) == x # NoMsg /\ x.id = m[1] /\ x.seq = m[2]
Names ==
    {m \in MsgId \X Nat : Of(reply, m) \/ Of(partial, m) \/ \E c \in Committer : Of(snap[c], m)}

\* in rows s, counter n and next id f, an id and a sequence go together
Named(s, n, f, N) ==
    /\ \A m \in N : m[1] < f /\ n # Unset /\ m[2] < n
    /\ \A m, k \in N : m[1] = k[1] <=> m[2] = k[2]
    /\ \A i \in DOMAIN s : s[i].id < f
    /\ \A i, j \in DOMAIN s : s[i].id = s[j].id <=> s[i].seq = s[j].seq
    /\ \A i \in DOMAIN s, m \in N :
          /\ s[i].id = m[1] <=> s[i].seq = m[2]
          /\ s[i].id = m[1] => s[i].role = "assistant"

Plain(s, id) == \A i \in DOMAIN s : s[i].id = id => ~ s[i].boundary
Failed(x) == Plain(rows, x.id) /\ (reply # NoMsg => x.id # reply.id)

Unfinished ==
    /\ reply # NoMsg => Plain(rows, reply.id)
    /\ partial # NoMsg /\ partial.error => Failed(partial)
    /\ \A c \in Committer : snap[c] # NoMsg /\ snap[c].error => Failed(snap[c])
    /\ \A c \in Committer : cpc[c] = "planned" /\ plan[c] = "delete" => snap[c].error

ForkInv == Typed /\ Counted /\ Named(rows, counter, fresh, Names) /\ Unfinished

\* what a write leaves: the rows, under their names, or a reply less
PlainExcept(m, b) == \A id : Plain(rows, id) /\ (b => id # m) => Plain(rows', id)

\* a row with an id and a sequence of its own is appended
LEMMA NamedFresh ==
    ASSUME Typed, Counted, HasRoom, NEW row \in Row, row.id = fresh, row.seq = NextSequence,
           rows' = Append(rows, row), counter' = NextSequence + 1, fresh' = fresh + 1,
           NEW N, N \subseteq MsgId \X Nat, Named(rows, counter, fresh, N)
    PROVE  /\ Named(rows', counter', fresh', N)
           /\ row.role = "assistant" =>
                 Named(rows', counter', fresh', N \cup {<<fresh, NextSequence>>})
           /\ PlainExcept(fresh, row.boundary) /\ (~ row.boundary => Plain(rows', fresh))
           /\ \A i \in DOMAIN rows : i \in DOMAIN rows' /\ rows'[i] = rows[i]
<1>2. /\ rows \in Seq(Row) /\ rows' = Append(rows, row) /\ fresh' = fresh + 1
      /\ counter' = NextSequence + 1 /\ NextSequence \in Nat /\ fresh \in Nat
      /\ counter \in Nat \cup {Unset}
    BY NextTyped, BoundsAssumption DEF Typed, TypeOK
<1>3. /\ DOMAIN rows' = 1..(Len(rows) + 1) /\ DOMAIN rows = 1..Len(rows) /\ Len(rows) \in Nat
      /\ \A i \in DOMAIN rows : rows'[i] = rows[i]
      /\ rows'[Len(rows) + 1] = row
    BY <1>2
<1>4. /\ \A i \in DOMAIN rows : rows[i].id \in Nat /\ rows[i].seq \in Nat
      /\ \A m \in N : m[1] \in Nat /\ m[2] \in Nat
    BY <1>2, RowTyped DEF MsgId
<1>5. \A i \in DOMAIN rows : rows[i].id < fresh /\ rows[i].seq < NextSequence
    BY <1>2, NextAhead DEF Named, Counted, Ahead
<1>6. \A m \in N : m[1] < fresh /\ m[2] < NextSequence
    BY DEF Named, NextSequence
<1>7. row.id = fresh /\ row.seq = NextSequence
    OBVIOUS
<1>8. \A i \in DOMAIN rows' : i \in DOMAIN rows \/ i = Len(rows) + 1
    BY <1>3
<1> DEFINE M == N \cup {<<fresh, NextSequence>>}
<1>9. ASSUME NEW m \in M
      PROVE  /\ m[1] \in Nat /\ m[2] \in Nat /\ m[1] < fresh' /\ m[2] < counter'
             /\ m \in N \/ (m[1] = fresh /\ m[2] = NextSequence)
    <2>1. CASE m \in N
        <3>1. m[1] \in Nat /\ m[2] \in Nat /\ m[1] < fresh /\ m[2] < NextSequence
            BY <1>4, <1>6, <2>1
        <3>2. \A a, b \in Nat : a < b => a < b + 1
            OBVIOUS
        <3> QED
            BY <1>2, <2>1, <3>1, <3>2
    <2>2. CASE m = <<fresh, NextSequence>>
        BY <1>2, <2>2
    <2> QED
        BY <2>1, <2>2
<1>10. counter' # Unset
    BY <1>2 DEF Unset
<1> HIDE DEF M
<1>11. ASSUME NEW m \in M, NEW k \in M PROVE m[1] = k[1] <=> m[2] = k[2]
    BY <1>2, <1>6, <1>9, <1>4 DEF Named
<1>12. ASSUME NEW i \in DOMAIN rows' PROVE rows'[i].id < fresh'
    <2>1. CASE i \in DOMAIN rows
        <3>1. rows[i].id \in Nat /\ rows[i].id < fresh
            BY <1>4, <1>5, <2>1
        <3> QED
            BY <1>2, <1>3, <2>1, <3>1
    <2>2. CASE i = Len(rows) + 1
        BY <1>2, <1>3, <1>7, <2>2
    <2> QED
        BY <1>8, <2>1, <2>2
<1>13. ASSUME NEW i \in DOMAIN rows', NEW j \in DOMAIN rows'
       PROVE  rows'[i].id = rows'[j].id <=> rows'[i].seq = rows'[j].seq
    BY <1>2, <1>3, <1>4, <1>5, <1>7, <1>8 DEF Named
<1>14. ASSUME NEW i \in DOMAIN rows', NEW m \in M, row.role = "assistant" \/ m \in N
       PROVE  /\ rows'[i].id = m[1] <=> rows'[i].seq = m[2]
              /\ rows'[i].id = m[1] => rows'[i].role = "assistant"
    <2>1. CASE i \in DOMAIN rows /\ m \in N
        BY <1>3, <2>1 DEF Named
    <2>2. CASE i \in DOMAIN rows /\ m[1] = fresh /\ m[2] = NextSequence
        BY <1>2, <1>3, <1>4, <1>5, <2>2
    <2>3. CASE i = Len(rows) + 1 /\ m \in N
        BY <1>2, <1>3, <1>4, <1>6, <1>7, <2>3
    <2>4. CASE i = Len(rows) + 1 /\ m[1] = fresh /\ m[2] = NextSequence /\ row.role = "assistant"
        BY <1>3, <1>7, <2>4
    <2> QED
        BY <1>8, <1>9, <1>14, <2>1, <2>2, <2>3, <2>4
<1>15. N \subseteq M
    BY DEF M
<1>16. Named(rows', counter', fresh', N)
    BY <1>9, <1>10, <1>11, <1>12, <1>13, <1>14, <1>15 DEF Named
<1>17. row.role = "assistant" => Named(rows', counter', fresh', M)
    BY <1>9, <1>10, <1>11, <1>12, <1>13, <1>14 DEF Named
<1>18. PlainExcept(fresh, row.boundary)
    BY <1>3, <1>7, <1>8 DEF PlainExcept, Plain
<1>19. ~ row.boundary => Plain(rows', fresh)
    BY <1>2, <1>3, <1>4, <1>5, <1>7, <1>8 DEF Plain
<1>20. \A i \in DOMAIN rows : i \in DOMAIN rows' /\ rows'[i] = rows[i]
    BY <1>3
<1> QED
    BY <1>16, <1>17, <1>18, <1>19, <1>20 DEF M

\* appendToHistory of a message without a historySequence
LEMMA NamedAppend ==
    ASSUME Typed, Counted, HasRoom, NEW role \in {"user", "snapshot", "assistant"},
           NEW parts \in 0..MaxParts, AppendNew(role, parts),
           NEW N, N \subseteq MsgId \X Nat, Named(rows, counter, fresh, N)
    PROVE  /\ Named(rows', counter', fresh', N)
           /\ role = "assistant" =>
                 Named(rows', counter', fresh', N \cup {<<fresh, NextSequence>>})
           /\ PlainExcept(fresh, FALSE) /\ Plain(rows', fresh)
           /\ \A i \in DOMAIN rows : i \in DOMAIN rows' /\ rows'[i] = rows[i]
<1>1. PICK row : row = [id |-> fresh, seq |-> NextSequence, role |-> role, parts |-> parts,
                        partial |-> FALSE, boundary |-> FALSE]
    OBVIOUS
<1>2. fresh \in MsgId /\ NextSequence \in Nat
    BY AppendNewTyped, NextTyped
<1>3. /\ row \in Row /\ row.id = fresh /\ row.seq = NextSequence /\ row.role = role
      /\ row.boundary = FALSE
    BY <1>1, <1>2 DEF Row
<1>4. rows' = Append(rows, row) /\ counter' = NextSequence + 1 /\ fresh' = fresh + 1
    BY <1>1 DEF AppendNew
<1> QED
    BY <1>3, <1>4, NamedFresh

\* updateHistory of a version finds the row of its message
LEMMA NamedUpdate ==
    ASSUME Typed, NEW row \in Row, row.role = "assistant", UpdateHistory(row),
           NEW N, <<row.id, row.seq>> \in N, Named(rows, counter, fresh, N)
    PROVE  /\ Named(rows', counter, fresh, N)
           /\ PlainExcept(row.id, row.boundary)
           /\ \A i \in DOMAIN rows : Stays(i)
<1>1. PICK i, new : i = At(rows, row.seq) /\ new = [row EXCEPT !.boundary = @ \/ rows[i].boundary]
    OBVIOUS
<1>2. rows \in Seq(Row) /\ i \in DOMAIN rows /\ rows[i].seq = row.seq
    BY <1>1, AtOf DEF UpdateHistory, Typed, TypeOK
<1>3. /\ new.id = row.id /\ new.seq = row.seq /\ new.role = "assistant"
      /\ new.boundary = (row.boundary \/ rows[i].boundary)
    BY <1>1 DEF Row
<1>4. rows' = [rows EXCEPT ![i] = new]
    BY <1>1 DEF UpdateHistory
<1>5. rows[i].id = row.id
    <2>1. PICK m \in N : m[1] = row.id /\ m[2] = row.seq
        OBVIOUS
    <2> QED
        BY <1>2, <2>1 DEF Named
<1>6. /\ DOMAIN rows' = DOMAIN rows
      /\ \A k \in DOMAIN rows : /\ rows'[k].id = rows[k].id /\ rows'[k].seq = rows[k].seq
                                /\ rows'[k].role \in {rows[k].role, "assistant"}
                                /\ k # i => rows'[k] = rows[k]
      /\ rows'[i] = new
    BY <1>2, <1>3, <1>4, <1>5
<1>7. Named(rows', counter, fresh, N)
    BY <1>6 DEF Named
<1>8. PlainExcept(row.id, row.boundary)
    BY <1>2, <1>3, <1>5, <1>6 DEF PlainExcept, Plain
<1>9. \A k \in DOMAIN rows : Stays(k)
    BY <1>2, <1>3, <1>6 DEF Stays
<1> QED
    BY <1>7, <1>8, <1>9

\* a version that is appended is the only row of its message, or one more
LEMMA NamedAppendAgain ==
    ASSUME Typed, NEW row \in Row, row.role = "assistant", AppendWithSequence(row),
           NEW N, <<row.id, row.seq>> \in N, Named(rows, counter, fresh, N)
    PROVE  /\ Named(rows', counter', fresh, N)
           /\ PlainExcept(row.id, row.boundary)
           /\ \A i \in DOMAIN rows : i \in DOMAIN rows' /\ rows'[i] = rows[i]
<1>1. PICK m \in N : m[1] = row.id /\ m[2] = row.seq
    OBVIOUS
<1>2. /\ rows \in Seq(Row) /\ counter \in Nat \cup {Unset} /\ row.seq \in Nat
      /\ rows' = Append(rows, row)
    BY DEF Typed, TypeOK, Row, AppendWithSequence
<1>3. counter # Unset /\ row.seq < counter /\ row.id < fresh
    BY <1>1 DEF Named
<1>4. counter' = counter
    BY <1>2, <1>3 DEF AppendWithSequence
<1>5. /\ \A i \in DOMAIN rows' : i \in DOMAIN rows \/ i = Len(rows) + 1
      /\ \A i \in DOMAIN rows : i \in DOMAIN rows' /\ rows'[i] = rows[i]
      /\ rows'[Len(rows) + 1] = row
    BY <1>2
<1>6. ASSUME NEW i \in DOMAIN rows, NEW k \in N
      PROVE  /\ rows[i].id = row.id <=> rows[i].seq = row.seq
             /\ k[1] = row.id <=> k[2] = row.seq
             /\ row.id = k[1] <=> row.seq = k[2]
    BY <1>1 DEF Named
<1>7. \A i, j \in DOMAIN rows' : rows'[i].id = rows'[j].id <=> rows'[i].seq = rows'[j].seq
    <2> TAKE i, j \in DOMAIN rows'
    <2>1. \A k \in DOMAIN rows : rows[k].id = row.id <=> rows[k].seq = row.seq
        BY <1>1, <1>6
    <2>2. \A k, l \in DOMAIN rows : rows[k].id = rows[l].id <=> rows[k].seq = rows[l].seq
        BY DEF Named
    <2> QED
        BY <1>5, <2>1, <2>2
<1>8. \A i \in DOMAIN rows', k \in N :
         /\ rows'[i].id = k[1] <=> rows'[i].seq = k[2]
         /\ rows'[i].id = k[1] => rows'[i].role = "assistant"
    <2> TAKE i \in DOMAIN rows', k \in N
    <2>1. CASE i \in DOMAIN rows
        BY <1>5, <2>1 DEF Named
    <2>2. CASE i = Len(rows) + 1
        <3>1. row.id = k[1] <=> row.seq = k[2]
            BY <1>1 DEF Named
        <3> QED
            BY <1>5, <2>2, <3>1
    <2> QED
        BY <1>5, <2>1, <2>2
<1>9. \A i \in DOMAIN rows' : rows'[i].id < fresh
    BY <1>3, <1>5 DEF Named
<1>10. Named(rows', counter', fresh, N)
    BY <1>4, <1>7, <1>8, <1>9 DEF Named
<1>11. PlainExcept(row.id, row.boundary)
    BY <1>5 DEF PlainExcept, Plain, Row
<1> QED
    BY <1>5, <1>10, <1>11

\* deleteMessage
LEMMA NamedDelete ==
    ASSUME Typed, NEW id, DeleteMessage(id), NEW N, N \subseteq MsgId \X Nat,
           Named(rows, counter, fresh, N)
    PROVE  /\ Named(rows', counter', fresh, N)
           /\ PlainExcept(id, FALSE)
           /\ \A i \in DOMAIN rows : rows[i].id # id => Stays(i)
<1>1. /\ rows' \in Seq(Row) /\ Within(rows', rows)
      /\ \A i \in DOMAIN rows : rows[i].id # id => \E k \in DOMAIN rows' : rows'[k] = rows[i]
    BY Deletion
<1>2. PICK g \in [DOMAIN rows' -> DOMAIN rows] : \A k \in DOMAIN rows' : rows'[k] = rows[g[k]]
    BY <1>1 DEF Within
<1>3. \A k \in DOMAIN rows' : g[k] \in DOMAIN rows /\ rows'[k] = rows[g[k]]
    BY <1>2
<1>4. /\ counter \in Nat \cup {Unset} /\ SeqAfter(rows') \in Nat
      /\ counter' = IF counter < SeqAfter(rows') THEN SeqAfter(rows') ELSE counter
    BY <1>1, WithinTyped DEF Typed, TypeOK, DeleteMessage
<1>5. \A m \in N : m[1] < fresh /\ counter' # Unset /\ m[2] < counter'
    <2> TAKE m \in N
    <2>1. m[2] \in Nat /\ m[1] < fresh /\ counter # Unset /\ m[2] < counter
        BY DEF Named
    <2> QED
        BY <1>4, <2>1 DEF Unset
<1>6. Named(rows', counter', fresh, N)
    BY <1>3, <1>5 DEF Named
<1>7. PlainExcept(id, FALSE)
    BY <1>3 DEF PlainExcept, Plain
<1> QED
    BY <1>1, <1>6, <1>7 DEF Stays

\* fewer names
LEMMA NamedFewer ==
    ASSUME NEW s, NEW n, NEW f, NEW N, NEW M, M \subseteq N, Named(s, n, f, N)
    PROVE  Named(s, n, f, M)
BY Zenon DEF Named

\* no step but the opening of a reply brings a name that was not there
LEMMA NamesKept ==
    ASSUME Typed, [Next]_vars, ~ OpenReply
    PROVE  Names' \subseteq Names
<1> SUFFICES ASSUME NEW m \in MsgId \X Nat,
                    \/ Of(reply', m) \/ Of(partial', m)
                    \/ \E c \in Committer : Of(snap'[c], m)
             PROVE  Of(reply, m) \/ Of(partial, m) \/ \E c \in Committer : Of(snap[c], m)
    BY DEF Names, Of
<1>1. snap \in [Committer -> Partial \cup {NoMsg}] /\ 0 \notin MsgId
    BY BoundsAssumption DEF Typed, TypeOK, MsgId
<1>2. pc \in Replying => reply \in Reply /\ reply # NoMsg
    BY <1>1 DEF Typed, Reply, NoMsg
<1>3. CASE UNCHANGED <<reply, partial, snap>>
    BY <1>3
<1>4. ASSUME NEW c \in Committer, CommitRead(c), UNCHANGED <<reply, partial>>
      PROVE  Of(reply, m) \/ Of(partial, m) \/ \E d \in Committer : Of(snap[d], m)
    BY <1>1, <1>4 DEF CommitRead
<1>5. ASSUME NEW c \in Committer, EndCommit(c), reply' \in {reply, NoMsg}, partial' \in {partial, NoMsg}
      PROVE  Of(reply, m) \/ Of(partial, m) \/ \E d \in Committer : Of(snap[d], m)
    BY <1>1, <1>5 DEF EndCommit, Of
<1>6. ASSUME UNCHANGED snap, reply' \in {reply, NoMsg}, partial' \in {partial, NoMsg}
      PROVE  Of(reply, m) \/ Of(partial, m) \/ \E d \in Committer : Of(snap[d], m)
    BY <1>6 DEF Of
<1>7. ASSUME UNCHANGED snap, reply' \in {reply, NoMsg}, pc \in Replying,
             partial'.id = reply.id, partial'.seq = reply.seq
      PROVE  Of(reply, m) \/ Of(partial, m) \/ \E d \in Committer : Of(snap[d], m)
    BY <1>2, <1>7 DEF Of
<1>8. CASE CommitStep
    <2>1. UNCHANGED <<reply, snap>> /\ partial' \in {partial, NoMsg}
        BY <1>8 DEF CommitStep, CommitPlan, CommitWrite, CommitClean, disk
    <2> QED
        BY <1>6, <2>1
<1>9. CASE TurnCommitRead \/ AbortCommitRead \/ ForkCommitRead
    BY <1>4, <1>9 DEF TurnCommitRead, AbortCommitRead, ForkCommitRead, disk, Committer
<1>10. CASE TurnCommitted \/ AbortDeletePartial \/ ForkCommitted
    BY <1>5, <1>10 DEF TurnCommitted, AbortDeletePartial, ForkCommitted, disk, Committer
<1>11. CASE FlushPartial \/ StreamEnds \/ StreamFails \/ StreamAborts \/ AbandonFlush
    BY <1>7, <1>11
       DEF FlushPartial, StreamEnds, StreamFails, StreamAborts, AbandonFlush, WritePartial,
           commit, Replying
<1>12. CASE ReceivePart
    <2>1. /\ UNCHANGED <<partial, snap>> /\ pc \in Replying
          /\ reply'.id = reply.id /\ reply'.seq = reply.seq
        BY <1>2, <1>12 DEF ReceivePart, disk, commit, Replying, Reply
    <2> QED
        BY <1>2, <2>1 DEF Of
<1>13. CASE TurnStep /\ ~ (\/ TurnCommitRead \/ AbortCommitRead
                           \/ TurnCommitted \/ AbortDeletePartial
                           \/ FlushPartial \/ StreamEnds \/ StreamFails \/ StreamAborts
                           \/ AbandonFlush \/ ReceivePart)
    BY <1>6, <1>13
       DEF TurnStep, AppendSnapshot, Send, Prepare, Resume, StartStream, DropPlaceholder,
           EndDeletePartial, EndUpdateHistory, TurnEnds, CompactDeletePartial,
           CompactMarkBoundary, Abandon, AbandonDeletePartial, disk, commit
<1>14. CASE Clear \/ Truncate \/ Edit
    BY <1>3, <1>14 DEF Clear, Truncate, Edit, commit
<1>15. CASE Crash
    BY <1>15 DEF Crash, disk, Of
<1>16. CASE UNCHANGED vars
    BY <1>3, <1>16 DEF vars, commit
<1> QED
    BY <1>8, <1>9, <1>10, <1>11, <1>12, <1>13, <1>14, <1>15, <1>16
       DEF Next, UserStep

\* the reply and what a committer has read are among the names
LEMMA NamesOf ==
    ASSUME Typed
    PROVE  /\ Names \subseteq MsgId \X Nat
           /\ pc \in Replying => reply # NoMsg /\ <<reply.id, reply.seq>> \in Names
           /\ \A c \in Committer : cpc[c] \in Committing =>
                 /\ snap[c] \in Partial /\ snap[c] # NoMsg
                 /\ <<snap[c].id, snap[c].seq>> \in Names
<1>1. Names \subseteq MsgId \X Nat
    BY DEF Names
<1>2. ASSUME pc \in Replying PROVE reply # NoMsg /\ <<reply.id, reply.seq>> \in Names
    <2>1. reply \in Reply /\ reply # NoMsg
        BY <1>2, BoundsAssumption DEF Typed, Reply, NoMsg, MsgId
    <2>2. reply.id \in MsgId /\ reply.seq \in Nat
        BY <2>1 DEF Reply
    <2> QED
        BY <2>1, <2>2 DEF Names, Of
<1>3. ASSUME NEW c \in Committer, cpc[c] \in Committing
      PROVE  snap[c] \in Partial /\ snap[c] # NoMsg /\ <<snap[c].id, snap[c].seq>> \in Names
    <2>1. snap[c] \in Partial /\ snap[c] # NoMsg
        BY <1>3 DEF Typed, TypeOK
    <2>2. snap[c].id \in MsgId /\ snap[c].seq \in Nat
        BY <2>1 DEF Partial
    <2> QED
        BY <2>1, <2>2 DEF Names, Of
<1> QED
    BY <1>1, <1>2, <1>3

\* what a step may do to the file
Harmless(N) ==
    /\ Named(rows', counter', fresh', N)
    /\ \A id : Plain(rows, id) /\ (CompactMarkBoundary => id \notin {reply.id, fresh})
          => Plain(rows', id)
    /\ \A i \in DOMAIN rows : Stays(i) \/ Dropped(i)

\* a commit writes in the row of the message it has read
LEMMA CommitIsHarmless ==
    ASSUME ForkInv, NEW c \in Committer, CommitWrite(c)
    PROVE  Harmless(Names)
<1>1. Typed /\ Counted /\ Named(rows, counter, fresh, Names)
    BY DEF ForkInv
<1>2. /\ cpc[c] = "planned" /\ UNCHANGED fresh
    BY DEF CommitWrite
<1>3. /\ snap[c] \in Partial /\ snap[c] # NoMsg /\ Names \subseteq MsgId \X Nat
      /\ <<snap[c].id, snap[c].seq>> \in Names
    BY <1>1, <1>2, NamesOf DEF Committing
<1>4. PICK row : row = RowOf(snap[c])
    OBVIOUS
<1>5. /\ row \in Row /\ row.id = snap[c].id /\ row.seq = snap[c].seq
      /\ row.role = "assistant" /\ row.boundary = FALSE
    BY <1>3, <1>4 DEF RowOf, Row, Partial
<1>6. CASE UpdateHistory(row) /\ UNCHANGED counter
    BY <1>1, <1>2, <1>3, <1>5, <1>6, NamedUpdate DEF Harmless, PlainExcept
<1>7. CASE AppendWithSequence(row)
    BY <1>1, <1>2, <1>3, <1>5, <1>7, NamedAppendAgain DEF Harmless, PlainExcept, Stays
<1>8. CASE DeleteMessage(snap[c].id) /\ plan[c] = "delete"
    <2>1. Plain(rows, snap[c].id)
        BY <1>2, <1>3, <1>8 DEF ForkInv, Unfinished, Failed
    <2>2. \A i \in DOMAIN rows : rows[i].id = snap[c].id => Dropped(i)
        <3>1. PICK m \in Names : m[1] = snap[c].id
            BY <1>3
        <3> QED
            BY <1>1, <2>1, <3>1 DEF Named, Plain, Dropped
    <2> QED
        BY <1>1, <1>2, <1>3, <1>8, <2>2, NamedDelete DEF Harmless, PlainExcept
<1>9. CASE UNCHANGED <<rows, counter>>
    BY <1>1, <1>2, <1>9 DEF Harmless, Stays
<1> QED
    BY <1>4, <1>6, <1>7, <1>8, <1>9 DEF CommitWrite

\* the turn writes new rows, or in the row of its reply
LEMMA AppendIsHarmless ==
    ASSUME ForkInv, HasRoom, NEW role \in {"user", "snapshot", "assistant"},
           NEW parts \in 0..MaxParts, AppendNew(role, parts)
    PROVE  /\ Harmless(Names) /\ Plain(rows', fresh)
           /\ role = "assistant" => Harmless(Names \cup {<<fresh, NextSequence>>})
<1>1. Typed /\ Counted /\ Named(rows, counter, fresh, Names) /\ Names \subseteq MsgId \X Nat
    BY NamesOf DEF ForkInv
<1> QED
    BY <1>1, NamedAppend DEF Harmless, PlainExcept, Stays

\* and every step of the turn is harmless
LEMMA TurnIsHarmless ==
    ASSUME ForkInv, TurnStep
    PROVE  Harmless(Names)
<1>1. Typed /\ Counted /\ Named(rows, counter, fresh, Names)
    BY DEF ForkInv
<1>2. /\ Names \subseteq MsgId \X Nat
      /\ pc \in Replying => reply # NoMsg /\ <<reply.id, reply.seq>> \in Names
    BY <1>1, NamesOf
<1>3. CASE UNCHANGED <<rows, counter, fresh>>
    BY <1>1, <1>3 DEF Harmless, Stays
<1>4. CASE AppendSnapshot \/ Send \/ OpenReply
    BY <1>4, AppendIsHarmless, BoundsAssumption DEF AppendSnapshot, Send, OpenReply
<1>5. CASE DropPlaceholder
    <2>1. /\ pc \in Replying /\ DeleteMessage(reply.id) /\ fresh' = fresh
        BY <1>5 DEF DropPlaceholder, Replying
    <2>2. \A i \in DOMAIN rows : rows[i].id = reply.id => Dropped(i)
        <3>1. PICK m \in Names : m[1] = reply.id
            BY <1>2, <2>1
        <3>2. Plain(rows, reply.id)
            BY <1>2, <2>1 DEF ForkInv, Unfinished
        <3> QED
            BY <1>1, <3>1, <3>2 DEF Named, Plain, Dropped
    <2> QED
        BY <1>1, <1>2, <2>1, <2>2, NamedDelete DEF Harmless, PlainExcept
<1>6. ASSUME NEW b \in BOOLEAN, NEW row, row = [FinalRow EXCEPT !.boundary = b], pc \in Replying
      PROVE  /\ row \in Row /\ row.role = "assistant" /\ row.id = reply.id
             /\ row.seq = reply.seq /\ row.boundary = b /\ <<row.id, row.seq>> \in Names
    <2>1. reply \in Reply
        BY <1>1, <1>6 DEF Typed
    <2> QED
        BY <1>2, <1>6, <2>1 DEF FinalRow, Row, Reply
<1>7. CASE EndUpdateHistory
    <2>1. PICK row : row = [FinalRow EXCEPT !.boundary = FALSE]
        OBVIOUS
    <2>2. row = FinalRow
        BY <2>1 DEF FinalRow
    <2>3. pc \in Replying /\ UNCHANGED <<counter, fresh>>
        BY <1>7 DEF EndUpdateHistory, Replying
    <2>4. CASE UpdateHistory(row)
        BY <1>1, <1>6, <2>1, <2>3, <2>4, NamedUpdate DEF Harmless, PlainExcept
    <2> QED
        BY <1>3, <1>7, <2>2, <2>3, <2>4 DEF EndUpdateHistory
<1>8. CASE CompactMarkBoundary
    <2>1. PICK row : row = [FinalRow EXCEPT !.boundary = TRUE]
        OBVIOUS
    <2>2. pc \in Replying
        BY <1>8 DEF CompactMarkBoundary, Replying
    <2>3. /\ row \in Row /\ row.role = "assistant" /\ row.id = reply.id
          /\ row.boundary = TRUE /\ <<row.id, row.seq>> \in Names
        BY <1>6, <2>1, <2>2
    <2>4. CASE UpdateHistory(row) /\ UNCHANGED <<counter, fresh>>
        BY <1>1, <1>8, <2>2, <2>3, <2>4, NamedUpdate DEF Harmless, PlainExcept
    <2>5. CASE HasRoom /\ AppendWithSequence(SummaryRow) /\ fresh' = fresh + 1
        <3>1. PICK summary \in Row : /\ summary = SummaryRow
                                    /\ summary.id = fresh /\ summary.seq = NextSequence
            BY <1>1, <2>2, <2>5, SummaryTyped
        <3>2. rows' = Append(rows, summary) /\ counter' = NextSequence + 1
            BY <1>1, <2>5, <3>1, NextTyped
               DEF AppendWithSequence, NextSequence, Typed, TypeOK, Unset
        <3>3. /\ Named(rows', counter', fresh', Names) /\ PlainExcept(fresh, summary.boundary)
              /\ \A i \in DOMAIN rows : i \in DOMAIN rows' /\ rows'[i] = rows[i]
            BY <1>1, <1>2, <2>5, <3>1, <3>2, NamedFresh DEF ForkInv
        <3> QED
            BY <1>8, <3>3 DEF Harmless, PlainExcept, Stays
    <2> QED
        BY <1>8, <2>1, <2>4, <2>5 DEF CompactMarkBoundary
<1> QED
    BY <1>3, <1>4, <1>5, <1>7, <1>8, TurnKeepsRows

\* every step is, if nothing is removed and mux does not crash
LEMMA StepsAreHarmless ==
    ASSUME Undisturbed, ForkInv, [Next]_vars
    PROVE  Harmless(Names)
<1>1. CASE CommitStep
    <2>1. PICK c \in Committer : CommitPlan(c) \/ CommitWrite(c) \/ CommitClean(c)
        BY <1>1 DEF CommitStep
    <2>2. CASE CommitWrite(c)
        BY <2>2, CommitIsHarmless
    <2>3. CASE CommitPlan(c) \/ CommitClean(c)
        BY <2>3 DEF CommitPlan, CommitClean, disk, ForkInv, Harmless, Stays
    <2> QED
        BY <2>1, <2>2, <2>3
<1>2. CASE TurnStep
    BY <1>2, TurnIsHarmless
<1>3. CASE ForkCommitRead \/ ForkCommitted
    BY <1>3 DEF ForkCommitRead, ForkCommitted, disk, ForkInv, Harmless, Stays
<1>4. CASE UNCHANGED vars
    BY <1>4 DEF vars, ForkInv, Harmless, Stays
<1>5. ~ (Clear \/ Truncate \/ Edit \/ Crash)
    BY DEF Undisturbed, Clear, Truncate, Edit, Crash
<1> QED
    BY <1>1, <1>2, <1>3, <1>4, <1>5 DEF Next, UserStep

\* the names that are left are still names of rows
LEMMA NamedStep ==
    ASSUME Undisturbed, ForkInv, [Next]_vars
    PROVE  Named(rows', counter', fresh', Names')
<1>1. CASE OpenReply
    <2>1. Harmless(Names \cup {<<fresh, NextSequence>>})
        BY <1>1, AppendIsHarmless, BoundsAssumption DEF OpenReply
    <2>2. Names' \subseteq Names \cup {<<fresh, NextSequence>>}
        <3>1. UNCHANGED <<partial, snap>> /\ reply'.id = fresh /\ reply'.seq = NextSequence
            BY <1>1 DEF OpenReply, commit
        <3> QED
            BY <3>1 DEF Names, Of
    <2> QED
        BY <2>1, <2>2, NamedFewer DEF Harmless
<1>2. CASE ~ OpenReply
    BY <1>2, StepsAreHarmless, NamesKept, NamedFewer DEF ForkInv, Harmless
<1> QED
    BY <1>1, <1>2

\* a reply that is not being opened is the one that was there
LEMMA ReplyKept ==
    ASSUME Typed, [Next]_vars, ~ OpenReply, reply' # NoMsg
    PROVE  reply # NoMsg /\ reply'.id = reply.id
<1>1. CASE ReceivePart
    <2>1. reply \in Reply /\ reply # NoMsg
        BY <1>1, NamesOf DEF Typed, ReceivePart, Replying
    <2> QED
        BY <1>1, <2>1 DEF ReceivePart, Reply
<1>2. CASE TurnStep /\ ~ ReceivePart
    <2>1. reply' \in {reply, NoMsg}
        BY <1>2
           DEF TurnStep, AppendSnapshot, Send, Prepare, Resume, TurnCommitRead, TurnCommitted,
               StartStream, DropPlaceholder, FlushPartial, StreamEnds, EndDeletePartial,
               EndUpdateHistory, TurnEnds, CompactDeletePartial, CompactMarkBoundary,
               StreamFails, StreamAborts, AbortCommitRead, AbortDeletePartial, Abandon,
               AbandonFlush, AbandonDeletePartial
    <2> QED
        BY <2>1
<1>3. CASE CommitStep \/ UserStep \/ UNCHANGED vars
    <2>1. reply' = reply
        BY <1>3
           DEF CommitStep, CommitPlan, CommitWrite, CommitClean, UserStep, ForkCommitRead,
               ForkCommitted, Clear, Truncate, Edit, vars
    <2> QED
        BY <2>1
<1> QED
    BY <1>1, <1>2, <1>3 DEF Next, Crash

\* what has failed is a version of a message that is over
LEMMA FailedStaysOver ==
    ASSUME Undisturbed, ForkInv, [Next]_vars, NEW x,
           Failed(x), x # NoMsg, x = partial \/ \E c \in Committer : x = snap[c]
    PROVE  Plain(rows', x.id) /\ (reply' # NoMsg => x.id # reply'.id)
<1>1. Plain(rows', x.id)
    <2>1. CompactMarkBoundary => reply # NoMsg
        BY NamesOf DEF ForkInv, CompactMarkBoundary, Replying
    <2>2. x \in Partial /\ <<x.id, x.seq>> \in Names
        <3>1. x \in Partial /\ x.id \in MsgId /\ x.seq \in Nat
            BY DEF ForkInv, Typed, TypeOK, Partial
        <3> QED
            BY <3>1 DEF Names, Of
    <2>3. x.id < fresh /\ x.id \in Nat /\ fresh \in Nat
        BY <2>2, BoundsAssumption DEF ForkInv, Named, Typed, TypeOK, MsgId, Partial
    <2> QED
        BY <2>1, <2>3, StepsAreHarmless DEF Harmless, Failed
<1>2. CASE OpenReply
    <2>1. x \in Partial /\ x.id \in MsgId /\ x.seq \in Nat
        BY DEF ForkInv, Typed, TypeOK, Partial
    <2>2. <<x.id, x.seq>> \in Names
        BY <2>1 DEF Names, Of
    <2>3. x.id < fresh /\ x.id \in Nat /\ fresh \in Nat
        BY <2>1, <2>2, BoundsAssumption DEF ForkInv, Named, Typed, TypeOK, MsgId
    <2>4. reply'.id = fresh
        BY <1>2 DEF OpenReply
    <2> QED
        BY <1>1, <2>3, <2>4
<1>3. CASE ~ OpenReply
    <2>1. reply' # NoMsg => reply # NoMsg /\ reply'.id = reply.id
        BY <1>3, ReplyKept DEF ForkInv
    <2> QED
        BY <1>1, <2>1 DEF Failed
<1> QED
    BY <1>2, <1>3

\* a reply is not a boundary while it is being written
LEMMA ReplyStaysPlain ==
    ASSUME Undisturbed, ForkInv, [Next]_vars, reply' # NoMsg
    PROVE  Plain(rows', reply'.id)
<1>1. CASE OpenReply
    BY <1>1, AppendIsHarmless, BoundsAssumption DEF OpenReply
<1>2. CASE ~ OpenReply
    <2>1. /\ ~ CompactMarkBoundary /\ reply # NoMsg /\ reply'.id = reply.id
        BY <1>2, ReplyKept DEF ForkInv, CompactMarkBoundary
    <2> QED
        BY <2>1, StepsAreHarmless DEF Harmless, ForkInv, Unfinished
<1> QED
    BY <1>1, <1>2

\* and every step leaves it so
LEMMA UnfinishedStep ==
    ASSUME Undisturbed, ForkInv, [Next]_vars
    PROVE  Unfinished'
<1>1. Typed /\ snap \in [Committer -> Partial \cup {NoMsg}]
      /\ plan \in [Committer -> {"none", "update", "append", "delete"}]
      /\ cpc \in [Committer -> Committing \cup {"idle", "done", "failed"}]
    BY DEF ForkInv, Typed, TypeOK
<1>2. ASSUME partial' # NoMsg, partial'.error
      PROVE  /\ Plain(rows', partial'.id)
             /\ reply' # NoMsg => partial'.id # reply'.id
    <2>1. CASE partial' \in {partial, NoMsg}
        BY <1>2, <2>1, FailedStaysOver DEF ForkInv, Unfinished
    <2>2. CASE StreamFails
        <3>1. /\ pc \in Replying /\ ~ CompactMarkBoundary /\ partial'.id = reply.id
              /\ reply' = NoMsg
            BY <2>2 DEF StreamFails, WritePartial, CompactMarkBoundary, Replying
        <3>2. Plain(rows, reply.id)
            BY <1>1, <3>1, NamesOf DEF ForkInv, Unfinished
        <3> QED
            BY <3>1, <3>2, StepsAreHarmless DEF Harmless
    <2>3. CASE FlushPartial \/ StreamEnds \/ StreamAborts \/ AbandonFlush
        BY <1>2, <2>3 DEF FlushPartial, StreamEnds, StreamAborts, AbandonFlush, WritePartial
    <2>4. CASE TurnStep /\ ~ (\/ FlushPartial \/ StreamEnds \/ StreamAborts \/ AbandonFlush
                              \/ StreamFails)
        <3>1. partial' \in {partial, NoMsg}
            BY <2>4
               DEF TurnStep, AppendSnapshot, Send, Prepare, Resume, TurnCommitRead, TurnCommitted,
                   OpenReply, StartStream, DropPlaceholder, ReceivePart, EndDeletePartial,
                   EndUpdateHistory, TurnEnds, CompactDeletePartial, CompactMarkBoundary,
                   AbortCommitRead, AbortDeletePartial, Abandon, AbandonDeletePartial, disk
        <3> QED
            BY <2>1, <3>1
    <2>5. CASE CommitStep \/ UserStep \/ Crash \/ UNCHANGED vars
        <3>1. CASE CommitStep
            BY <1>2, <2>1, <3>1 DEF CommitStep, CommitPlan, CommitWrite, CommitClean, disk
        <3>2. CASE UserStep
            BY <1>2, <2>1, <3>2
               DEF UserStep, ForkCommitRead, ForkCommitted, Clear, Truncate, Edit, disk
        <3>3. CASE Crash \/ UNCHANGED vars
            BY <1>2, <2>1, <3>3 DEF Crash, vars, disk
        <3> QED
            BY <2>5, <3>1, <3>2, <3>3
    <2> QED
        BY <2>2, <2>3, <2>4, <2>5 DEF Next
<1>3. ASSUME NEW c \in Committer, snap'[c] # NoMsg, snap'[c].error
      PROVE  /\ Plain(rows', snap'[c].id)
             /\ reply' # NoMsg => snap'[c].id # reply'.id
    <2>1. CASE snap'[c] \in {snap[c], partial, NoMsg}
        BY <1>3, <2>1, FailedStaysOver DEF ForkInv, Unfinished
    <2>2. \/ UNCHANGED snap
          \/ \E d \in Committer : CommitRead(d) \/ EndCommit(d)
          \/ snap' = [d \in Committer |-> NoMsg]
        <3>1. CASE CommitStep
            BY <3>1 DEF CommitStep, CommitPlan, CommitWrite, CommitClean
        <3>2. CASE TurnStep
            BY <3>2
               DEF TurnStep, AppendSnapshot, Send, Prepare, Resume, TurnCommitRead, TurnCommitted,
                   OpenReply, StartStream, DropPlaceholder, ReceivePart, FlushPartial,
                   StreamEnds, EndDeletePartial, EndUpdateHistory, TurnEnds,
                   CompactDeletePartial, CompactMarkBoundary, StreamFails, StreamAborts,
                   AbortCommitRead, AbortDeletePartial, Abandon, AbandonFlush,
                   AbandonDeletePartial, commit, Committer
        <3>3. CASE UserStep
            BY <3>3
               DEF UserStep, ForkCommitRead, ForkCommitted, Clear, Truncate, Edit, commit, Committer
        <3>4. CASE Crash \/ UNCHANGED vars
            BY <3>4 DEF Crash, vars, commit
        <3> QED
            BY <3>1, <3>2, <3>3, <3>4 DEF Next
    <2>3. snap'[c] \in {snap[c], partial, NoMsg}
        BY <1>1, <2>2 DEF CommitRead, EndCommit
    <2> QED
        BY <2>1, <2>3
<1>4. ASSUME NEW c \in Committer, cpc'[c] = "planned", plan'[c] = "delete"
      PROVE  snap'[c].error
    <2>1. CASE cpc[c] = "planned" /\ plan[c] = "delete" /\ snap'[c] = snap[c]
        BY <2>1 DEF ForkInv, Unfinished
    <2>2. ASSUME NEW d \in Committer, CommitPlan(d) PROVE snap'[c].error
        <3>1. CASE d = c
            BY <1>1, <1>4, <2>2, <3>1 DEF CommitPlan
        <3>2. CASE d # c
            BY <1>1, <1>4, <2>1, <2>2, <3>2 DEF CommitPlan
        <3> QED
            BY <3>1, <3>2
    <2>3. ASSUME NEW d \in Committer, CommitWrite(d) \/ CommitClean(d) PROVE snap'[c].error
        <3>1. UNCHANGED <<snap, plan>> /\ \E v \in {"written", "failed", "done"} :
                  cpc' = [cpc EXCEPT ![d] = v]
            BY <2>3 DEF CommitWrite, CommitClean
        <3> QED
            BY <1>1, <1>4, <2>1, <3>1
    <2>4. ASSUME NEW d \in Committer, CommitRead(d) \/ EndCommit(d) PROVE snap'[c].error
        BY <1>1, <1>4, <2>1, <2>4 DEF CommitRead, EndCommit
    <2>5. CASE UNCHANGED <<cpc, snap, plan>>
        BY <1>4, <2>1, <2>5
    <2>6. CASE TurnStep
        BY <2>4, <2>5, <2>6
           DEF TurnStep, AppendSnapshot, Send, Prepare, Resume, TurnCommitRead, TurnCommitted,
               OpenReply, StartStream, DropPlaceholder, ReceivePart, FlushPartial, StreamEnds,
               EndDeletePartial, EndUpdateHistory, TurnEnds, CompactDeletePartial,
               CompactMarkBoundary, StreamFails, StreamAborts, AbortCommitRead,
               AbortDeletePartial, Abandon, AbandonFlush, AbandonDeletePartial, commit, Committer
    <2>7. CASE UserStep \/ UNCHANGED vars
        BY <2>4, <2>5, <2>7
           DEF UserStep, ForkCommitRead, ForkCommitted, Clear, Truncate, Edit, vars, commit,
               Committer
    <2>8. ~ Crash
        BY DEF Undisturbed, Crash
    <2> QED
        BY <2>2, <2>3, <2>6, <2>7, <2>8 DEF Next, CommitStep
<1> QED
    BY <1>2, <1>3, <1>4, ReplyStaysPlain DEF Unfinished, Failed

\* the invariant of a session that may be forked
LEMMA ForkStep == Undisturbed /\ ForkInv /\ [Next]_vars => ForkInv'
BY TypeStep, CountedStep, NamedStep, UnfinishedStep DEF Undisturbed, ForkInv

\* which holds at the start
LEMMA InitFork == Init => ForkInv
<1> SUFFICES ASSUME Init PROVE ForkInv
    OBVIOUS
<1>1. Names = {}
    BY DEF Init, Names, Of
<1>2. Named(rows, counter, fresh, Names)
    BY <1>1 DEF Init, Named
<1> QED
    BY <1>2, InitTyped DEF Init, ForkInv, Counted, CounterAhead, Unfinished

(* With forks at any of the awaits of a stream, no row of the user's goes: *)
(* what a late commit rewrites or deletes is the row of its own reply      *)
(* (workspaceService.ts, fork; commitPartial).                             *)
THEOREM UserRowsKeptByForks == Undisturbed => (Spec => UserRowsStay)
<1> SUFFICES ASSUME Undisturbed PROVE Spec => UserRowsStay
    OBVIOUS
<1>1. ForkInv /\ [Next]_vars => ForkInv'
    BY ForkStep
<1>2. ASSUME ForkInv, [Next]_vars
      PROVE  \A i \in DOMAIN rows : rows[i].role = "user"
                => rows[i].id \in Ids(rows') \cup removed'
    BY <1>2, StepsAreHarmless DEF Harmless, Stays, Dropped, Ids
<1>3. ForkInv /\ [Next]_vars => [\A i \in DOMAIN rows : rows[i].role = "user"
                => rows[i].id \in Ids(rows') \cup removed']_vars
    BY <1>2
<1> QED
    BY InitFork, <1>1, <1>3, PTL DEF Spec, UserRowsStay

(* Nor does a late commit unmake a compaction boundary: it keeps the mark  *)
(* of the row it rewrites, and what it deletes has none (updateHistory).   *)
THEOREM BoundariesKeptByForks == Undisturbed => (Spec => BoundariesStay)
<1> SUFFICES ASSUME Undisturbed PROVE Spec => BoundariesStay
    OBVIOUS
<1>1. ForkInv /\ [Next]_vars => ForkInv'
    BY ForkStep
<1>2. ASSUME ForkInv, [Next]_vars
      PROVE  \A i \in DOMAIN rows : rows[i].boundary
                => \/ rows[i].id \in removed'
                   \/ \E j \in DOMAIN rows' : rows'[j].seq = rows[i].seq /\ rows'[j].boundary
    BY <1>2, StepsAreHarmless DEF Harmless, Stays, Dropped
<1>3. ForkInv /\ [Next]_vars => [\A i \in DOMAIN rows : rows[i].boundary
                => \/ rows[i].id \in removed'
                   \/ \E j \in DOMAIN rows' : rows'[j].seq = rows[i].seq /\ rows'[j].boundary]_vars
    BY <1>2
<1> QED
    BY InitFork, <1>1, <1>3, PTL DEF Spec, BoundariesStay
=============================================================================
