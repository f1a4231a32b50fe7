--------------------------- MODULE MutexMapProofs ---------------------------
(***************************************************************************)
(* For any keys, any number of calls and any nesting of operations, the    *)
(* keyed mutex excludes, leaks no entry and serves in call order.          *)
(***************************************************************************)
EXTENDS MutexMap, SequenceTheorems, TLAPS

IInv == MutexTypeOK /\ Chain /\ RunsUnblocked

(* Removing the first of distinct calls leaves the tail.                   *)
LEMMA WithoutHead ==
    ASSUME NEW S, NEW s \in Seq(S), s # <<>>,
           \A i \in 1..Len(s) : s[i] = s[1] => i = 1
    PROVE  WithoutCall(s, s[1]) = Tail(s)
<1> DEFINE n == Len(s) - 1
           t == [j \in 1..n |-> s[j + 1]]
<1>1. 1 \in 1..Len(s) /\ n \in Nat
    OBVIOUS
<1>2. (CHOOSE j \in 1..Len(s) : s[j] = s[1]) = 1
    BY <1>1
<1>3. WithoutCall(s, s[1]) = [j \in 1..n |-> IF j < 1 THEN s[j] ELSE s[j + 1]]
    BY <1>2 DEF WithoutCall
<1>4. \A j \in 1..n : ~ (j < 1) /\ j + 1 \in 1..Len(s)
    BY <1>1
<1>5. WithoutCall(s, s[1]) = t
    BY <1>3, <1>4
<1>6. t \in Seq(S) /\ Len(t) = n /\ \A j \in 1..n : t[j] = s[j + 1]
    BY <1>1, <1>4
<1>7. /\ Tail(s) \in Seq(S)
      /\ Len(Tail(s)) = n
      /\ \A j \in 1..n : Tail(s)[j] = s[j + 1]
    BY HeadTailProperties
<1> HIDE DEF t, n
<1>8. Tail(s) = t
    BY <1>6, <1>7, SeqEqual
<1> QED
    BY <1>5, <1>8

(* A chain does not depend on what calls outside of it await.              *)
LEMMA LinkedFrame ==
    ASSUME NEW q, NEW last, NEW awaited, NEW users, NEW other,
           Linked(q, last, awaited, users), \A d \in users : other[d] = awaited[d]
    PROVE  Linked(q, last, other, users)
BY DEF Linked

(* A call joins the end of a chain.                                        *)
LEMMA LinkedAppend ==
    ASSUME NEW q \in Seq(Op), NEW last, NEW c \in Op,
           NEW awaited \in [Op -> Op \cup {NoOp}], NEW users,
           Linked(q, last, awaited, users), c \notin users
    PROVE  Linked(Append(q, c), c, [awaited EXCEPT ![c] = last], users \cup {c})
<1> DEFINE r == Append(q, c)
           aw == [awaited EXCEPT ![c] = last]
<1>1. /\ r # <<>>
      /\ Len(r) = Len(q) + 1
      /\ r[Len(q) + 1] = c
      /\ \A i \in 1..Len(q) : r[i] = q[i]
      /\ Len(q) \in Nat
    OBVIOUS
<1>2. \A i \in 1..Len(q) : q[i] # c /\ q[i] \in Op
    BY DEF Linked
<1>3. aw[c] = last /\ \A d \in Op : d # c => aw[d] = awaited[d]
    OBVIOUS
<1> HIDE DEF r, aw
<1>4. ASSUME NEW i \in 1..Len(r)
      PROVE  aw[r[i]] = IF i = 1 THEN NoOp ELSE r[i - 1]
    <2>1. CASE i \in 1..Len(q)
        <3>1. aw[r[i]] = awaited[q[i]]
            BY <1>1, <1>2, <1>3, <2>1
        <3>2. i # 1 => r[i - 1] = q[i - 1]
            BY <1>1, <2>1
        <3> QED
            BY <2>1, <3>1, <3>2 DEF Linked
    <2>2. CASE i = Len(q) + 1
        <3>1. aw[r[i]] = last
            BY <1>1, <1>3, <2>2
        <3>2. i # 1 => last = r[i - 1]
            <4>1. ASSUME i # 1 PROVE q # <<>> /\ i - 1 = Len(q) /\ Len(q) \in 1..Len(q)
                BY <1>1, <2>2, <4>1
            <4> QED
                BY <1>1, <4>1 DEF Linked
        <3>3. i = 1 => last = NoOp
            BY <1>1, <2>2 DEF Linked
        <3> QED
            BY <3>1, <3>2, <3>3
    <2> QED
        BY <1>1, <2>1, <2>2
<1>5. \A i \in 1..Len(r) : r[i] \in users \cup {c}
    BY <1>1 DEF Linked
<1>6. \A i, j \in 1..Len(r) : r[i] = r[j] => i = j
    BY <1>1, <1>2 DEF Linked
<1>7. \A d \in users \cup {c} : \E i \in 1..Len(r) : r[i] = d
    <2>1. TAKE d \in users \cup {c}
    <2>2. CASE d = c
        BY <1>1, <2>2
    <2>3. CASE d \in users
        <3>1. PICK i \in 1..Len(q) : q[i] = d
            BY <2>3 DEF Linked
        <3>2. i \in 1..Len(r) /\ r[i] = d
            BY <1>1, <3>1
        <3> QED
            BY <3>2
    <2> QED
        BY <2>2, <2>3
<1>8. Linked(r, c, aw, users \cup {c})
    BY <1>1, <1>4, <1>5, <1>6, <1>7 DEF Linked
<1> QED
    BY <1>8 DEF r, aw

(* The first call leaves its chain and its promise is resolved.            *)
LEMMA LinkedTail ==
    ASSUME NEW q \in Seq(Op), NEW last, q # <<>>,
           NEW awaited \in [Op -> Op \cup {NoOp}], NEW users,
           Linked(q, last, awaited, users)
    PROVE  Linked(Tail(q), IF last = q[1] THEN NoOp ELSE last,
                  [d \in Op |-> IF awaited[d] = q[1] THEN NoOp ELSE awaited[d]],
                  users \ {q[1]})
<1> DEFINE c == q[1]
           t == Tail(q)
           nl == IF last = c THEN NoOp ELSE last
           aw == [d \in Op |-> IF awaited[d] = c THEN NoOp ELSE awaited[d]]
<1>1. /\ Len(q) \in Nat \ {0}
      /\ c \in Op
      /\ t \in Seq(Op)
      /\ Len(t) = Len(q) - 1
      /\ \A i \in 1..Len(t) : t[i] = q[i + 1] /\ i + 1 \in 1..Len(q) /\ t[i] \in Op
    BY HeadTailProperties
<1>2. \A d \in Op : aw[d] = IF awaited[d] = c THEN NoOp ELSE awaited[d]
    OBVIOUS
<1>3. \A i, j \in 1..Len(q) : q[i] = q[j] => i = j
    BY DEF Linked
<1> HIDE DEF t, aw
<1>4. nl = IF t = <<>> THEN NoOp ELSE t[Len(t)]
    <2>1. last = q[Len(q)]
        BY DEF Linked
    <2>2. CASE t = <<>>
        <3>1. Len(q) = 1
            BY <1>1, <2>2, EmptySeq
        <3> QED
            BY <2>1, <2>2, <3>1
    <2>3. CASE t # <<>>
        <3>1. Len(t) \in 1..Len(t) /\ Len(q) # 1
            BY <1>1, <2>3
        <3>2. t[Len(t)] = q[Len(q)] /\ q[Len(q)] # c
            BY <1>1, <1>3, <3>1
        <3> QED
            BY <2>1, <2>3, <3>2
    <2> QED
        BY <2>2, <2>3
<1>5. ASSUME NEW i \in 1..Len(t)
      PROVE  aw[t[i]] = IF i = 1 THEN NoOp ELSE t[i - 1]
    <2>1. awaited[q[i + 1]] = q[i]
        <3>1. i + 1 \in 1..Len(q) /\ i + 1 # 1 /\ (i + 1) - 1 = i
            BY <1>1
        <3> QED
            BY <3>1 DEF Linked
    <2>2. aw[t[i]] = IF q[i] = c THEN NoOp ELSE q[i]
        BY <1>1, <1>2, <2>1
    <2>3. i \in 1..Len(q) /\ 1 \in 1..Len(q)
        BY <1>1
    <2>4. q[i] = c <=> i = 1
        BY <1>3, <2>3
    <2>5. i # 1 => t[i - 1] = q[i]
        BY <1>1
    <2> QED
        BY <2>2, <2>4, <2>5
<1>6. \A i \in 1..Len(t) : t[i] \in users \ {c}
    <2>1. TAKE i \in 1..Len(t)
    <2>2. t[i] = q[i + 1] /\ i + 1 \in 1..Len(q) /\ 1 \in 1..Len(q) /\ i + 1 # 1
        BY <1>1
    <2> QED
        BY <1>3, <2>2 DEF Linked
<1>7. \A i, j \in 1..Len(t) : t[i] = t[j] => i = j
    BY <1>1, <1>3
<1>8. \A d \in users \ {c} : \E i \in 1..Len(t) : t[i] = d
    <2>1. TAKE d \in users \ {c}
    <2>2. PICK i \in 1..Len(q) : q[i] = d
        BY DEF Linked
    <2>3. i # 1 /\ i - 1 \in 1..Len(t) /\ t[i - 1] = d
        BY <1>1, <2>2
    <2> QED
        BY <2>3
<1>9. Linked(t, nl, aw, users \ {c})
    BY <1>4, <1>5, <1>6, <1>7, <1>8 DEF Linked
<1> QED
    BY <1>9 DEF t, aw

-----------------------------------------------------------------------------
(* A call that has not started, or waits on a resolved promise, is the     *)
(* first of its key's chain once it awaits nothing.                        *)
LEMMA UnblockedIsFirst ==
    ASSUME IInv, NEW c \in Op, stage[c] # "idle", prev[c] = NoOp
    PROVE  /\ arrivals[keyOf[c]] # <<>>
           /\ arrivals[keyOf[c]][1] = c
<1> DEFINE k == keyOf[c]
           q == arrivals[k]
<1>1. k \in Key /\ q \in Seq(Op)
    BY DEF IInv, MutexTypeOK
<1>2. c \in Active(k) /\ Linked(q, locks[k], prev, Active(k))
    BY <1>1 DEF Active, IInv, Chain
<1> HIDE DEF q
<1>3. PICK i \in 1..Len(q) : q[i] = c
    BY <1>2 DEF Linked
<1>4. NoOp = IF i = 1 THEN NoOp ELSE q[i - 1]
    BY <1>2, <1>3 DEF Linked
<1>5. i # 1 => q[i - 1] \in Op
    <2>1. i # 1 => i - 1 \in 1..Len(q)
        BY <1>1
    <2> QED
        BY <1>1, <2>1, ElementOfSeq
<1>6. i = 1
    BY <1>4, <1>5, NoOpAssumption
<1>7. q # <<>>
    BY <1>3, EmptySeq
<1> QED
    BY <1>3, <1>6, <1>7 DEF q

LEMMA InitInv == MutexInit => IInv
<1> SUFFICES ASSUME MutexInit PROVE IInv
    OBVIOUS
<1>1. MutexTypeOK
    BY DEF MutexInit, MutexTypeOK
<1>2. RunsUnblocked
    BY DEF MutexInit, RunsUnblocked
<1>3. ASSUME NEW k \in Key PROVE Linked(arrivals[k], locks[k], prev, Active(k))
    <2>1. arrivals[k] = <<>> /\ locks[k] = NoOp /\ Active(k) = {}
        BY DEF MutexInit, Active
    <2>2. 1..Len(<<>>) = {}
        BY EmptySeq
    <2> QED
        BY <2>1, <2>2 DEF Linked
<1> QED
    BY <1>1, <1>2, <1>3 DEF IInv, Chain

LEMMA EnqueueStep ==
    ASSUME IInv, NEW c \in Op, NEW k \in Key, NEW p \in Op \cup {NoOp},
           JoinChain(c, k, p)
    PROVE  IInv'
<1>1. MutexTypeOK'
    BY DEF IInv, MutexTypeOK, JoinChain
<1>2. RunsUnblocked'
    BY DEF IInv, MutexTypeOK, RunsUnblocked, JoinChain
<1>3. ASSUME NEW h \in Key PROVE Linked(arrivals'[h], locks'[h], prev', Active(h)')
    <2>1. /\ arrivals[h] \in Seq(Op)
          /\ prev \in [Op -> Op \cup {NoOp}]
          /\ Linked(arrivals[h], locks[h], prev, Active(h))
          /\ c \notin Active(h)
        BY DEF IInv, MutexTypeOK, Chain, Active, JoinChain
    <2>2. CASE h = k
        <3>1. /\ arrivals'[h] = Append(arrivals[h], c)
              /\ locks'[h] = c
              /\ prev' = [prev EXCEPT ![c] = locks[h]]
            BY <2>2 DEF IInv, MutexTypeOK, JoinChain
        <3>2. Active(h)' = Active(h) \cup {c}
            BY <2>2 DEF IInv, MutexTypeOK, Active, JoinChain
        <3>3. Linked(Append(arrivals[h], c), c, [prev EXCEPT ![c] = locks[h]],
                     Active(h) \cup {c})
            BY <2>1, LinkedAppend
        <3> QED
            BY <3>1, <3>2, <3>3
    <2>3. CASE h # k
        <3>1. arrivals'[h] = arrivals[h] /\ locks'[h] = locks[h]
            BY <2>3 DEF IInv, MutexTypeOK, JoinChain
        <3>2. Active(h)' = Active(h)
            BY <2>3 DEF IInv, MutexTypeOK, Active, JoinChain
        <3>3. \A d \in Active(h) : prev'[d] = prev[d]
            BY <2>1 DEF Active, JoinChain
        <3> QED
            BY <2>1, <3>1, <3>2, <3>3, LinkedFrame
    <2> QED
        BY <2>2, <2>3
<1> QED
    BY <1>1, <1>2, <1>3 DEF IInv, Chain

LEMMA BeginStep ==
    ASSUME IInv, NEW c \in Op, Begin(c)
    PROVE  IInv'
<1> USE DEF Begin
<1>1. MutexTypeOK'
    BY DEF IInv, MutexTypeOK
<1>2. RunsUnblocked'
    BY DEF IInv, MutexTypeOK, RunsUnblocked
<1>3. ASSUME NEW k \in Key PROVE Active(k)' = Active(k)
    BY DEF IInv, MutexTypeOK, Active
<1>4. Chain'
    BY <1>3 DEF IInv, Chain
<1> QED
    BY <1>1, <1>2, <1>4 DEF IInv

(* A running call is the first of its chain, so finishing removes the head.*)
LEMMA FinishIsTail ==
    ASSUME IInv, NEW c \in Op, Finish(c)
    PROVE  /\ arrivals[keyOf[c]] # <<>>
           /\ arrivals[keyOf[c]][1] = c
           /\ arrivals' = [arrivals EXCEPT ![keyOf[c]] = Tail(@)]
<1>1. arrivals[keyOf[c]] # <<>> /\ arrivals[keyOf[c]][1] = c
    BY UnblockedIsFirst DEF Finish, IInv, RunsUnblocked
<1>2. keyOf[c] \in Key /\ arrivals[keyOf[c]] \in Seq(Op)
    BY DEF IInv, MutexTypeOK
<1>3. \A i \in 1..Len(arrivals[keyOf[c]]) :
          arrivals[keyOf[c]][i] = arrivals[keyOf[c]][1] => i = 1
    <2>1. 1 \in 1..Len(arrivals[keyOf[c]])
        BY <1>1, <1>2, EmptySeq
    <2> QED
        BY <1>2, <2>1 DEF IInv, Chain, Linked
<1>4. WithoutCall(arrivals[keyOf[c]], c) = Tail(arrivals[keyOf[c]])
    BY <1>1, <1>2, <1>3, WithoutHead
<1> QED
    BY <1>1, <1>4 DEF Finish

LEMMA FinishStep ==
    ASSUME IInv, NEW c \in Op, Finish(c)
    PROVE  IInv'
<1> DEFINE k == keyOf[c]
<1>1. /\ k \in Key
      /\ arrivals[k] \in Seq(Op)
      /\ arrivals[k] # <<>>
      /\ arrivals[k][1] = c
      /\ arrivals' = [arrivals EXCEPT ![k] = Tail(@)]
    BY FinishIsTail DEF IInv, MutexTypeOK
<1>2. MutexTypeOK'
    <2>1. Tail(arrivals[k]) \in Seq(Op)
        BY <1>1, HeadTailProperties
    <2>2. arrivals' \in [Key -> Seq(Op)]
        BY <1>1, <2>1 DEF IInv, MutexTypeOK
    <2>3. locks' \in [Key -> Op \cup {NoOp}] /\ prev' \in [Op -> Op \cup {NoOp}]
        BY DEF IInv, MutexTypeOK, Finish
    <2>4. /\ stage' \in [Op -> {"idle", "waiting", "running"}]
          /\ keyOf' \in [Op -> Key]
          /\ parent' \in [Op -> Op \cup {NoOp}]
        BY DEF IInv, MutexTypeOK, Finish
    <2> QED
        BY <2>2, <2>3, <2>4 DEF MutexTypeOK
<1>3. RunsUnblocked'
    BY DEF IInv, MutexTypeOK, RunsUnblocked, Finish
<1>4. ASSUME NEW h \in Key PROVE Linked(arrivals'[h], locks'[h], prev', Active(h)')
    <2>1. /\ arrivals[h] \in Seq(Op)
          /\ prev \in [Op -> Op \cup {NoOp}]
          /\ Linked(arrivals[h], locks[h], prev, Active(h))
        BY DEF IInv, MutexTypeOK, Chain
    <2>2. prev' = [d \in Op |-> IF prev[d] = c THEN NoOp ELSE prev[d]]
        BY DEF Finish
    <2>3. CASE h = k
        <3>1. /\ arrivals'[h] = Tail(arrivals[h])
              /\ locks'[h] = IF locks[h] = c THEN NoOp ELSE locks[h]
            BY <1>1, <2>3 DEF IInv, MutexTypeOK, Finish
        <3>2. Active(h)' = Active(h) \ {c}
            BY <2>3 DEF IInv, MutexTypeOK, Active, Finish
        <3>3. Linked(Tail(arrivals[h]), IF locks[h] = c THEN NoOp ELSE locks[h],
                     [d \in Op |-> IF prev[d] = c THEN NoOp ELSE prev[d]],
                     Active(h) \ {c})
            <4>1. arrivals[h] # <<>> /\ arrivals[h][1] = c
                BY <1>1, <2>3
            <4>2. Linked(Tail(arrivals[h]),
                         IF locks[h] = arrivals[h][1] THEN NoOp ELSE locks[h],
                         [d \in Op |-> IF prev[d] = arrivals[h][1] THEN NoOp ELSE prev[d]],
                         Active(h) \ {arrivals[h][1]})
                BY <2>1, <4>1, LinkedTail
            <4> QED
                BY <4>1, <4>2
        <3> QED
            BY <2>2, <3>1, <3>2, <3>3
    <2>4. CASE h # k
        <3>1. arrivals'[h] = arrivals[h] /\ locks'[h] = locks[h]
            BY <1>1, <2>4 DEF IInv, MutexTypeOK, Finish
        <3>2. Active(h)' = Active(h)
            BY <2>4 DEF IInv, MutexTypeOK, Active, Finish
        <3>3. \A i \in 1..Len(arrivals[h]) :
                  arrivals[h][i] \in Op /\ prev[arrivals[h][i]] # c
            <4>1. TAKE i \in 1..Len(arrivals[h])
            <4>2. arrivals[h][i] \in Op
                BY <2>1, ElementOfSeq
            <4>3. i # 1 => i - 1 \in 1..Len(arrivals[h]) /\ arrivals[h][i - 1] # c
                <5>1. c \notin Active(h)
                    BY <2>4 DEF Active
                <5>2. i # 1 => i - 1 \in 1..Len(arrivals[h])
                    BY <2>1
                <5> QED
                    BY <2>1, <5>1, <5>2 DEF Linked
            <4> QED
                BY <2>1, <4>2, <4>3, NoOpAssumption DEF Linked
        <3>4. ASSUME NEW d \in Active(h) PROVE prev'[d] = prev[d]
            <4>1. PICK i \in 1..Len(arrivals[h]) : arrivals[h][i] = d
                BY <2>1 DEF Linked
            <4> QED
                BY <2>2, <3>3, <4>1
        <3>5. Linked(arrivals[h], locks[h], prev', Active(h))
            BY <2>1, <3>4, LinkedFrame
        <3> QED
            BY <3>1, <3>2, <3>5
    <2> QED
        BY <2>3, <2>4
<1> QED
    BY <1>2, <1>3, <1>4 DEF IInv, Chain

(* The chain of promises is an inductive invariant.                        *)
THEOREM Invariance == MutexSpec => []IInv
<1>1. MutexInit => IInv
    BY InitInv
<1>2. IInv /\ [MutexNext]_mutexVars => IInv'
    <2>1. SUFFICES ASSUME IInv, [MutexNext]_mutexVars PROVE IInv'
        OBVIOUS
    <2>2. CASE UNCHANGED mutexVars
        <3>1. \A k : Active(k)' = Active(k)
            BY <2>2 DEF mutexVars, Active
        <3> QED
            BY <2>1, <2>2, <3>1 DEF mutexVars, IInv, MutexTypeOK, Chain, RunsUnblocked
    <2>3. ASSUME NEW c \in Op, NEW k \in Key, WithLock(c, k) PROVE IInv'
        BY <2>1, <2>3, EnqueueStep DEF WithLock
    <2>4. ASSUME NEW c \in Op, NEW k \in Key, NEW p \in Op, NestedCall(c, k, p)
          PROVE  IInv'
        BY <2>1, <2>4, EnqueueStep DEF NestedCall
    <2>5. ASSUME NEW c \in Op, Begin(c) PROVE IInv'
        BY <2>1, <2>5, BeginStep
    <2>6. ASSUME NEW c \in Op, Finish(c) PROVE IInv'
        BY <2>1, <2>6, FinishStep
    <2> QED
        BY <2>1, <2>2, <2>3, <2>4, <2>5, <2>6 DEF MutexNext
<1> QED
    BY <1>1, <1>2, PTL DEF MutexSpec

(* Every variable keeps its type.                                          *)
THEOREM TypeCorrect == MutexSpec => []MutexTypeOK
<1>1. IInv => MutexTypeOK
    BY DEF IInv
<1> QED
    BY <1>1, Invariance, PTL

(* The map holds the promise of the last call, and each call awaits the    *)
(* promise of the one just before it (mutexMap.ts:withLock).               *)
THEOREM Chained == MutexSpec => []Chain
<1>1. IInv => Chain
    BY DEF IInv
<1> QED
    BY <1>1, Invariance, PTL

(* Two operations of one key never run at the same time.                   *)
THEOREM Excludes == MutexSpec => []MutualExclusion
<1>1. IInv => MutualExclusion
    <2>1. SUFFICES ASSUME IInv, NEW c \in Op, NEW d \in Op,
                          stage[c] = "running", stage[d] = "running", keyOf[c] = keyOf[d]
                   PROVE  c = d
        BY DEF MutualExclusion
    <2>2. arrivals[keyOf[c]][1] = c
        BY <2>1, UnblockedIsFirst DEF IInv, RunsUnblocked
    <2>3. arrivals[keyOf[d]][1] = d
        BY <2>1, UnblockedIsFirst DEF IInv, RunsUnblocked
    <2> QED
        BY <2>1, <2>2, <2>3
<1> QED
    BY <1>1, Invariance, PTL

(* The map has an entry for exactly the keys in use.                       *)
THEOREM LeaksNothing == MutexSpec => []NoLeak
<1>1. IInv => NoLeak
    <2>1. SUFFICES ASSUME IInv, NEW k \in Key
                   PROVE  locks[k] # NoOp <=> Active(k) # {}
        BY DEF NoLeak
    <2> DEFINE q == arrivals[k]
    <2>2. q \in Seq(Op) /\ Linked(q, locks[k], prev, Active(k))
        BY <2>1 DEF IInv, MutexTypeOK, Chain
    <2> HIDE DEF q
    <2>3. CASE q = <<>>
        <3>1. 1..Len(q) = {}
            BY <2>3, EmptySeq
        <3> QED
            BY <2>2, <2>3, <3>1 DEF Linked
    <2>4. CASE q # <<>>
        <3>1. Len(q) \in 1..Len(q)
            BY <2>2, <2>4, EmptySeq
        <3>2. q[Len(q)] \in Op
            BY <2>2, <3>1, ElementOfSeq
        <3> QED
            BY <2>2, <2>4, <3>1, <3>2, NoOpAssumption DEF Linked
    <2> QED
        BY <2>3, <2>4
<1> QED
    BY <1>1, Invariance, PTL

-----------------------------------------------------------------------------
(* The keyed mutex implements the first come, first served lock.           *)
THEOREM Refinement == MutexSpec => ImplementsFifoLock
<1>1. MutexInit => Lock!Init
    BY DEF MutexInit, Lock!Init
<1>2. IInv /\ [MutexNext]_mutexVars => [Lock!Next]_Lock!vars
    <2> SUFFICES ASSUME IInv, [MutexNext]_mutexVars PROVE [Lock!Next]_Lock!vars
        OBVIOUS
    <2> DEFINE running == {d \in Op : stage[d] = "running"}
    <2>1. CASE UNCHANGED mutexVars
        BY <2>1 DEF mutexVars, Lock!vars
    <2>2. ASSUME NEW c \in Op, NEW k \in Key, NEW p, JoinChain(c, k, p)
          PROVE  Lock!Arrive(c, k)
        <3>1. \A h \in Key : \A i \in 1..Len(arrivals[h]) : arrivals[h][i] # c
            BY <2>2 DEF IInv, Chain, Linked, Active, JoinChain
        <3>2. running' = running
            BY <2>2 DEF IInv, MutexTypeOK, JoinChain
        <3> QED
            BY <2>2, <3>1, <3>2 DEF Lock!Arrive, Lock!Waits, JoinChain
    <2>3. ASSUME NEW c \in Op, NEW k \in Key, k = keyOf[c], Begin(c) PROVE Lock!Grant(c, k)
        <3>1. arrivals[keyOf[c]] # <<>> /\ arrivals[keyOf[c]][1] = c
            BY <2>3, UnblockedIsFirst DEF Begin
        <3>2. c \notin running /\ running' = running \cup {c}
            BY <2>3 DEF IInv, MutexTypeOK, Begin
        <3>3. arrivals' = arrivals
            BY <2>3 DEF Begin
        <3> QED
            BY <2>3, <3>1, <3>2, <3>3 DEF Lock!Grant
    <2>4. ASSUME NEW c \in Op, NEW k \in Key, k = keyOf[c], Finish(c) PROVE Lock!Leave(c, k)
        <3>1. /\ arrivals[keyOf[c]] # <<>>
              /\ arrivals[keyOf[c]][1] = c
              /\ arrivals' = [arrivals EXCEPT ![keyOf[c]] = Tail(@)]
            BY <2>4, FinishIsTail
        <3>2. c \in running /\ running' = running \ {c}
            BY <2>4 DEF IInv, MutexTypeOK, Finish
        <3> QED
            BY <2>4, <3>1, <3>2 DEF Lock!Leave
    <2>5. ASSUME NEW c \in Op PROVE keyOf[c] \in Key
        BY DEF IInv, MutexTypeOK
    <2>6. CASE \E c \in Op, k \in Key : \E p : JoinChain(c, k, p)
        BY <2>2, <2>6 DEF Lock!Next
    <2>7. CASE \E c \in Op : Begin(c)
        <3>1. PICK c \in Op : Begin(c)
            BY <2>7
        <3>2. PICK k \in Key : k = keyOf[c]
            BY <2>5
        <3>3. Lock!Grant(c, k)
            BY <2>3, <3>1, <3>2
        <3> QED
            BY <3>3 DEF Lock!Next
    <2>8. CASE \E c \in Op : Finish(c)
        <3>1. PICK c \in Op : Finish(c)
            BY <2>8
        <3>2. PICK k \in Key : k = keyOf[c]
            BY <2>5
        <3>3. Lock!Leave(c, k)
            BY <2>4, <3>1, <3>2
        <3> QED
            BY <3>3 DEF Lock!Next
    <2> QED
        BY <2>1, <2>6, <2>7, <2>8 DEF MutexNext, WithLock, NestedCall
<1> QED
    BY <1>1, <1>2, Invariance, PTL DEF MutexSpec, ImplementsFifoLock, Lock!Spec
=============================================================================
