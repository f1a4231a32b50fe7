------------------------------ MODULE FifoLock ------------------------------
(***************************************************************************)
(* What the keyed mutex promises its callers, with no promises, map or     *)
(* chain: per key a queue of the calls not finished, whose head, and only  *)
(* whose head, may run.                                                    *)
(***************************************************************************)
EXTENDS Naturals, Sequences

CONSTANTS Key, Op

VARIABLES
    queue,      \* queue[k]: the unfinished calls of k, in the order they came
    running     \* the calls whose operation has started

vars == <<queue, running>>

Waits(c) == \E k \in Key : \E i \in 1..Len(queue[k]) : queue[k][i] = c

Init ==
    /\ queue = [k \in Key |-> <<>>]
    /\ running = {}

Arrive(c, k) ==
    /\ ~ Waits(c)
    /\ queue' = [queue EXCEPT ![k] = Append(@, c)]
    /\ UNCHANGED running

Grant(c, k) ==
    /\ queue[k] # <<>>
    /\ Head(queue[k]) = c
    /\ c \notin running
    /\ running' = running \cup {c}
    /\ UNCHANGED queue

Leave(c, k) ==
    /\ queue[k] # <<>>
    /\ Head(queue[k]) = c
    /\ c \in running
    /\ running' = running \ {c}
    /\ queue' = [queue EXCEPT ![k] = Tail(@)]

Next == \E c \in Op, k \in Key : Arrive(c, k) \/ Grant(c, k) \/ Leave(c, k)

Spec == Init /\ [][Next]_vars
=============================================================================
