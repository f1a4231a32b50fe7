------------------------------ MODULE MutexMap ------------------------------
(***************************************************************************)
(* The keyed mutex of src/src/node/utils/concurrency/mutexMap.ts, used for *)
(* every write of a workspace's files (workspaceFileLocks) and for the     *)
(* task events of a workspace.                                             *)
(*                                                                         *)
(* Each call of withLock creates one promise, its lock.  The map holds, per*)
(* key, the promise of the LAST caller; a caller awaits the promise that it *)
(* found there, so that callers of a key form a chain.  A promise is named *)
(* here by the call that created it.                                       *)
(***************************************************************************)
EXTENDS Naturals, Sequences

CONSTANTS
    Key,        \* the keys: workspace ids, file paths
    Op,         \* the calls of withLock that can be in flight together
    NoOp,       \* no call
    MayNest     \* <<outer, inner>>: an operation holding outer may call withLock(inner)

ASSUME NoOpAssumption == NoOp \notin Op

ASSUME MayNestAssumption == MayNest \subseteq Key \X Key

VARIABLES
    stage,      \* stage[c]: where call c is in withLock
    keyOf,      \* keyOf[c]: the key c was called with
    prev,       \* prev[c]: the unresolved promise c awaits, NoOp when resolved
    locks,      \* locks[k]: the promise the map holds for k, NoOp when absent
    parent,     \* parent[c]: the operation that called c and awaits it, or NoOp
    arrivals    \* history variable: the calls of k not finished, in call order

mutexVars == <<stage, keyOf, prev, locks, parent, arrivals>>

Active(k) == {c \in Op : stage[c] # "idle" /\ keyOf[c] = k}

AwaitsNested(c) == \E d \in Op : stage[d] # "idle" /\ parent[d] = c

\* s without its (only) occurrence of c
WithoutCall(s, c) ==
    LET i == CHOOSE j \in 1..Len(s) : s[j] = c
    IN  [j \in 1..(Len(s) - 1) |-> IF j < i THEN s[j] ELSE s[j + 1]]

MutexInit ==
    /\ stage = [c \in Op |-> "idle"]
    /\ keyOf \in [Op -> Key]
    /\ prev = [c \in Op |-> NoOp]
    /\ locks = [k \in Key |-> NoOp]
    /\ parent = [c \in Op |-> NoOp]
    /\ arrivals = [k \in Key |-> <<>>]

-----------------------------------------------------------------------------
(* Operators named ...Bug are mistakes the mutation runs put in the place  *)
(* of the action that follows; no action uses them.                        *)

\* the map is written only after the await: both of two callers see no lock
JoinChainLateSetBug(c, k, p) ==
    /\ stage[c] = "idle"
    /\ stage' = [stage EXCEPT ![c] = "waiting"]
    /\ keyOf' = [keyOf EXCEPT ![c] = k]
    /\ prev' = [prev EXCEPT ![c] = locks[k]]
    /\ parent' = [parent EXCEPT ![c] = p]
    /\ arrivals' = [arrivals EXCEPT ![k] = Append(@, c)]
    /\ UNCHANGED locks

(* The synchronous part of withLock, up to its first await.                *)
JoinChain(c, k, p) ==
    /\ stage[c] = "idle"
    /\ stage' = [stage EXCEPT ![c] = "waiting"]
    /\ keyOf' = [keyOf EXCEPT ![c] = k]
    /\ prev' = [prev EXCEPT ![c] = locks[k]]
    /\ locks' = [locks EXCEPT ![k] = c]
    /\ parent' = [parent EXCEPT ![c] = p]
    /\ arrivals' = [arrivals EXCEPT ![k] = Append(@, c)]

\* withLock called by code that holds no lock of this map
WithLock(c, k) == JoinChain(c, k, NoOp)

\* withLock called by the operation of p, which awaits the result
NestedCall(c, k, p) ==
    /\ stage[p] = "running"
    /\ ~ AwaitsNested(p)
    /\ <<keyOf[p], k>> \in MayNest
    /\ JoinChain(c, k, p)

\* the promise found in the map is not awaited
BeginUnawaitedBug(c) ==
    /\ stage[c] = "waiting"
    /\ stage' = [stage EXCEPT ![c] = "running"]
    /\ UNCHANGED <<keyOf, prev, locks, parent, arrivals>>

\* the call that starts is recorded under a state nobody tests for
BeginUnknownBug(c) ==
    /\ stage[c] = "waiting"
    /\ prev[c] = NoOp
    /\ stage' = [stage EXCEPT ![c] = "started"]
    /\ UNCHANGED <<keyOf, prev, locks, parent, arrivals>>

\* the await of previousLock returns: the operation starts
Begin(c) ==
    /\ stage[c] = "waiting"
    /\ prev[c] = NoOp
    /\ stage' = [stage EXCEPT ![c] = "running"]
    /\ UNCHANGED <<keyOf, prev, locks, parent, arrivals>>

\* releaseLock runs on success only, and this operation threw
FinishUnreleasedBug(c) ==
    /\ stage[c] = "running"
    /\ ~ AwaitsNested(c)
    /\ stage' = [stage EXCEPT ![c] = "idle"]
    /\ locks' = [locks EXCEPT ![keyOf[c]] = IF @ = c THEN NoOp ELSE @]
    /\ arrivals' = [arrivals EXCEPT ![keyOf[c]] = WithoutCall(@, c)]
    /\ UNCHANGED <<keyOf, prev, parent>>

\* the map's entry is dropped without comparing it with the call's promise
FinishDropsOthersBug(c) ==
    /\ stage[c] = "running"
    /\ ~ AwaitsNested(c)
    /\ stage' = [stage EXCEPT ![c] = "idle"]
    /\ prev' = [d \in Op |-> IF prev[d] = c THEN NoOp ELSE prev[d]]
    /\ locks' = [locks EXCEPT ![keyOf[c]] = NoOp]
    /\ arrivals' = [arrivals EXCEPT ![keyOf[c]] = WithoutCall(@, c)]
    /\ UNCHANGED <<keyOf, parent>>

\* the operation returned or threw: releaseLock, and drop the map's entry
\* if nobody called after c
Finish(c) ==
    /\ stage[c] = "running"
    /\ ~ AwaitsNested(c)
    /\ stage' = [stage EXCEPT ![c] = "idle"]
    /\ prev' = [d \in Op |-> IF prev[d] = c THEN NoOp ELSE prev[d]]
    /\ locks' = [locks EXCEPT ![keyOf[c]] = IF @ = c THEN NoOp ELSE @]
    /\ arrivals' = [arrivals EXCEPT ![keyOf[c]] = WithoutCall(@, c)]
    /\ UNCHANGED <<keyOf, parent>>

MutexNext ==
    \E c \in Op :
        \/ \E k \in Key : WithLock(c, k)
        \/ \E k \in Key, p \in Op : NestedCall(c, k, p)
        \/ Begin(c)
        \/ Finish(c)

\* Promise continuations run; an operation makes finitely many nested calls and
\* then returns or throws (strong fairness: a nested call disables Finish).
MutexFairness == \A c \in Op : WF_mutexVars(Begin(c)) /\ SF_mutexVars(Finish(c))

MutexSpec == MutexInit /\ [][MutexNext]_mutexVars
FairMutexSpec == MutexSpec /\ MutexFairness

-----------------------------------------------------------------------------
MutexTypeOK ==
    /\ stage \in [Op -> {"idle", "waiting", "running"}]
    /\ keyOf \in [Op -> Key]
    /\ prev \in [Op -> Op \cup {NoOp}]
    /\ locks \in [Key -> Op \cup {NoOp}]
    /\ parent \in [Op -> Op \cup {NoOp}]
    /\ arrivals \in [Key -> Seq(Op)]

(* Operations of one key run one at a time (mutexMap.ts, class comment).   *)
MutualExclusion ==
    \A c, d \in Op :
        stage[c] = "running" /\ stage[d] = "running" /\ keyOf[c] = keyOf[d] => c = d

(* The chain of promises: the map holds the promise of the latest caller,  *)
(* and each caller awaits the one that called just before it.  This is what *)
(* makes the two lines "get" and "set" of withLock sufficient.             *)
Linked(q, last, awaited, users) ==
    /\ last = IF q = <<>> THEN NoOp ELSE q[Len(q)]
    /\ \A i \in 1..Len(q) :
          /\ q[i] \in users
          /\ awaited[q[i]] = IF i = 1 THEN NoOp ELSE q[i - 1]
          /\ \A j \in 1..Len(q) : q[i] = q[j] => i = j
    /\ \A c \in users : \E i \in 1..Len(q) : q[i] = c
Chain == \A k \in Key : Linked(arrivals[k], locks[k], prev, Active(k))

(* The map does not leak: a key nobody uses has no entry.                  *)
NoLeak == \A k \in Key : locks[k] # NoOp <=> Active(k) # {}

(* An operation that runs, or has run, awaits no promise.                  *)
RunsUnblocked == \A c \in Op : stage[c] # "waiting" => prev[c] = NoOp

(* The keyed mutex is a first come, first served lock per key.             *)
Lock == INSTANCE FifoLock WITH
            queue <- arrivals,
            running <- {c \in Op : stage[c] = "running"}
ImplementsFifoLock == Lock!Spec

(* Every call gets its turn.                                               *)
EveryCallRuns == \A c \in Op : stage[c] = "waiting" ~> stage[c] = "running"
=============================================================================
