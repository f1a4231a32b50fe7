------------------------ MODULE McpServerManagerProofs ------------------------
(***************************************************************************)
(* What holds of the servers of a workspace for any number of turns, of    *)
(* servers, of starts, deaths and edits of the configuration: as long as   *)
(* no two restarts cross, every server that runs is in the cache or held   *)
(* by a call, and the tools a turn was given stay open while it uses them. *)
(*                                                                         *)
(* Neither is kept by a step alone.  A retry that joins the cache drops    *)
(* the instances whose names it starts: nothing is lost only because no    *)
(* name it asked for is in the cache, nor asked for by another retry (One, *)
(* Two).  A relaunch stops by name: it must be the only instance with that *)
(* name (CacheInv).  The clean-up empties the cache when it is idle and    *)
(* not leased: no call has been given its tools or starts servers for it   *)
(* then (Timing).  A restart has the only claim on what it took out.       *)
(*                                                                         *)
(* The proofs first say what each step does to the call, to the entries    *)
(* and to the servers, so that the steps of the invariant need not expand  *)
(* the actions.  Servers are numbers: they are taken in the order of their *)
(* names, by Min.                                                          *)
(***************************************************************************)
EXTENDS McpServerManager, TLAPS, NaturalsInduction, WellFoundedInduction

Ends == {"idle", "config", "ready", "streaming", "done"}
Stages == Ends \cup {"stopping", "starting", "discarding"}
Resets == {"restart", "relaunch"}
Modes == Resets \cup {"none", "retry"}

EntryT == [signature : SUBSET Server, instances : SUBSET Nat, timedOut : SUBSET Server,
           retrying : SUBSET Server]
CallT == [at : Stages, mode : Modes, signature : SUBSET Server, entry : Nat, asked : SUBSET Server,
          todo : SUBSET Server, close : SUBSET Nat, got : SUBSET Nat, late : SUBSET Server,
          tools : SUBSET Nat, aborted : BOOLEAN]

Instances == 1..Len(name)

\* the instances that calls and entries hold have been started
Known ==
    /\ \A e \in DOMAIN entries : entries[e].instances \subseteq Instances
    /\ \A t \in Turn : call[t].got \cup call[t].close \cup call[t].tools \subseteq Instances
    /\ dead \subseteq Instances /\ stopped \subseteq dead /\ closing \subseteq Instances
    /\ \A t \in Turn : call[t].mode \in {"retry", "relaunch"} => call[t].entry \in DOMAIN entries

\* the types
Typed ==
    /\ enabled \subseteq Server /\ entries \in Seq(EntryT) /\ current \in 0..Len(entries)
    /\ name \in Seq(Server) /\ dead \subseteq Nat /\ stopped \subseteq Nat /\ closing \subseteq Nat
    /\ leases \in Nat /\ idle \in BOOLEAN /\ crossed \in BOOLEAN /\ call \in [Turn -> CallT]

-----------------------------------------------------------------------------
(* What holds of the calls, whatever restarts do.                          *)

\* where a call is, and what it holds there
Phase(c) ==
    /\ c.mode # "none" <=> c.at \in {"stopping", "starting"}
    /\ c.at \in Ends => c.close = {}
    /\ c.at \in Ends \cup {"discarding"} => c.got = {} /\ c.todo = {} /\ c.late = {}
    /\ c.at = "starting" => c.close = {}
    /\ c.at = "stopping" => c.got = {} /\ c.late = {} /\ c.mode \in Resets
    /\ c.at \notin {"ready", "streaming"} => c.tools = {}

\* what it starts: no name twice, and a retry only the names it asked for
Sorted(c) ==
    /\ Names(c.got) \cap (c.todo \cup c.late) = {} /\ c.todo \cap c.late = {}
    /\ \A i, j \in c.got : name[i] = name[j] => i = j
    /\ c.mode = "retry" => Names(c.got) \cup c.todo \cup c.late \subseteq c.asked

Staged == \A t \in Turn : Phase(call[t]) /\ Sorted(call[t])

\* no ten minutes pass in a call, and only a stream that runs has a lease
Timing ==
    /\ \A t \in Turn : call[t].at = "ready" \/ call[t].mode \in {"retry", "relaunch"} => idle = FALSE
    /\ \A t, u \in Turn : call[t].at = "streaming" /\ call[u].at = "streaming" => t = u
    /\ leases = IF \E t \in Turn : call[t].at = "streaming" THEN 1 ELSE 0

-----------------------------------------------------------------------------
(* What is known while no restarts have crossed.                           *)
Cache == IF current = 0 THEN {} ELSE entries[current].instances
Retries(c) == current # 0 /\ c.mode = "retry" /\ c.entry = current
Named(c) == Names(c.got) \cup c.todo \cup c.late
Uses(c) == c.at \in {"ready", "streaming"}

\* a name is in the cache once, and a server there is not one that timed out
CacheInv ==
    /\ \A i, j \in Cache : name[i] = name[j] => i = j
    /\ current # 0 => entries[current].timedOut \cap Names(Cache) = {}
    /\ Cache \cap (stopped \cup closing) = {}

\* a call and the cache: a restart has emptied it, a relaunch and a retry start
\* names that are not in it, and what a call has started is not in it yet
One(c) ==
    /\ c.mode = "restart" => current = 0
    /\ c.mode = "relaunch" =>
         /\ current # 0 /\ c.entry = current /\ c.close \subseteq Cache \cap dead
         /\ Named(c) \cap entries[current].timedOut = {}
         /\ (Names(c.got) \cup c.late) \cap Names(Cache) = {}
         /\ c.todo \cap Names(Cache) \subseteq Names(c.close)
    /\ Retries(c) => /\ c.asked \subseteq entries[current].retrying
                     /\ c.asked \cap Names(Cache) = {}
    /\ Cache \cap c.got = {}
    /\ c.mode # "relaunch" => Cache \cap c.close = {}
    /\ c.got \cap (stopped \cup closing) = {}
    /\ Uses(c) => c.tools \cap (stopped \cup closing) = {}

\* two calls: one of them restarts, their names differ, and neither closes what
\* the other has started or uses
Two(c, d) ==
    /\ ~ (c.mode \in Resets /\ d.mode \in Resets)
    /\ Retries(c) /\ Retries(d) => c.asked \cap d.asked = {}
    /\ c.mode = "relaunch" /\ Retries(d) => Named(c) \cap d.asked = {}
    /\ c.got \cap (d.close \cup d.got) = {}
    /\ Uses(c) => /\ c.tools \cap d.got = {}
                  /\ d.mode # "relaunch" => c.tools \cap d.close = {}

NoneLost ==
    \A i \in Instances \ dead :
        i \in Cache \cup closing \/ \E u \in Turn : i \in call[u].got \cup call[u].close

Core ==
    /\ CacheInv /\ NoneLost
    /\ \A u \in Turn : One(call[u])
    /\ \A u, v \in Turn : u # v => Two(call[u], call[v])

IInv == Typed /\ Known /\ Staged /\ Timing /\ (crossed = FALSE => Core)

-----------------------------------------------------------------------------
\* the least of a set of numbers is one of them
LEMMA LeastOf ==
    ASSUME NEW I, I \subseteq Nat, I # {}
    PROVE  Min(I) \in I
<1>1. PICK i \in I : \A j \in I : ~ (<<j, i>> \in OpToRel(<, Nat))
    BY NatLessThanWellFounded, WFMin
<1>2. \A j \in I : ~ (j < i)
    BY <1>1 DEF OpToRel
<1>3. \A j \in I : i =< j
    BY <1>2
<1> QED
    BY <1>3 DEF Min

-----------------------------------------------------------------------------
(* What each step of a turn does to its call.                              *)
Plain(c) ==
    c.mode = "none" /\ c.close = {} /\ c.got = {} /\ c.todo = {} /\ c.late = {}

\* only the call of t changes, to c
Moves(t, c) ==
    call' \in [Turn -> CallT] /\ call'[t] = c /\ \A u \in Turn : u # t => call'[u] = call[u]

\* the call of one turn is replaced
LEMMA Moved ==
    ASSUME Typed, NEW t \in Turn, NEW c \in CallT, call' = [call EXCEPT ![t] = c]
    PROVE  Moves(t, c)
BY DEF Typed, Moves

\* a turn that has not called
LEMMA NoCallIs == NoCall \in CallT /\ Plain(NoCall) /\ NoCall.tools = {} /\ NoCall.at = "idle"
BY DEF NoCall, CallT, Stages, Ends, Modes, Plain

\* Return gives the tools
LEMMA ReturnMoves ==
    ASSUME Typed, NEW t \in Turn, NEW S \in SUBSET Nat, call' = [call EXCEPT ![t] = Return(t, S)]
    PROVE  \E c \in CallT : Moves(t, c) /\ Plain(c) /\ c.at = "ready" /\ c.tools = S
<1>1. PICK n \in CallT : n = NoCall
    BY NoCallIs
<1>2. PICK d : d = [n EXCEPT !.at = "ready", !.tools = S, !.aborted = call[t].aborted]
    OBVIOUS
<1>3. call[t].aborted \in BOOLEAN
    BY DEF Typed, CallT
<1>4. d \in CallT /\ Plain(d) /\ d.at = "ready" /\ d.tools = S
    BY <1>1, <1>2, <1>3, NoCallIs DEF CallT, Plain, Stages, Ends
<1> QED
    BY <1>1, <1>2, <1>4, Moved DEF Return

\* a turn calls for its tools
LEMMA CallMoves ==
    ASSUME Typed, NEW t \in Turn, Call(t)
    PROVE  \E c \in CallT : Moves(t, c) /\ Plain(c) /\ c.at = "config" /\ c.tools = {}
<1>1. PICK n \in CallT : n = NoCall
    BY NoCallIs
<1>2. PICK d : d = [n EXCEPT !.at = "config", !.signature = enabled]
    OBVIOUS
<1>3. d \in CallT /\ Plain(d) /\ d.at = "config" /\ d.tools = {}
    BY <1>1, <1>2, NoCallIs DEF CallT, Plain, Stages, Ends, Typed
<1> QED
    BY <1>1, <1>2, <1>3, Moved DEF Call

\* a call that is over
LEMMA OverMoves ==
    ASSUME Typed, NEW t \in Turn, call' = [call EXCEPT ![t] = [NoCall EXCEPT !.at = "done"]]
    PROVE  \E c \in CallT : Moves(t, c) /\ Plain(c) /\ c.at = "done" /\ c.tools = {}
<1>1. PICK n \in CallT : n = NoCall
    BY NoCallIs
<1>2. PICK d : d = [n EXCEPT !.at = "done"]
    OBVIOUS
<1>3. d \in CallT /\ Plain(d) /\ d.at = "done" /\ d.tools = {}
    BY <1>1, <1>2, NoCallIs DEF CallT, Plain, Stages, Ends
<1> QED
    BY <1>1, <1>2, <1>3, Moved

\* a call that keeps what it does, and only moves on
Keeps(c, d) ==
    /\ d.mode = c.mode /\ d.close = c.close /\ d.got = c.got /\ d.todo = c.todo /\ d.late = c.late
    /\ d.entry = c.entry /\ d.asked = c.asked /\ d.tools = c.tools

\* a turn is aborted, and its call goes on
LEMMA AbortMoves ==
    ASSUME Typed, NEW t \in Turn, Abort(t)
    PROVE  \E c \in CallT : Moves(t, c) /\ Keeps(call[t], c) /\ c.at = call[t].at
<1>1. call[t] \in CallT
    BY DEF Typed
<1>2. PICK d : d = [call[t] EXCEPT !.aborted = TRUE]
    OBVIOUS
<1>3. d \in CallT /\ Keeps(call[t], d) /\ d.at = call[t].at
    BY <1>1, <1>2 DEF CallT, Keeps
<1> QED
    BY <1>2, <1>3, Moved DEF Abort

\* a turn that has its tools starts its stream
LEMMA StartStreamMoves ==
    ASSUME Typed, NEW t \in Turn, call[t].at = "ready",
           call' = [call EXCEPT ![t].at = "streaming"]
    PROVE  \E c \in CallT : Moves(t, c) /\ Keeps(call[t], c) /\ c.at = "streaming"
<1>1. call[t] \in CallT
    BY DEF Typed
<1>2. PICK d : d = [call[t] EXCEPT !.at = "streaming"]
    OBVIOUS
<1>3. d \in CallT /\ Keeps(call[t], d) /\ d.at = "streaming"
    BY <1>1, <1>2 DEF CallT, Keeps, Stages, Ends
<1> QED
    BY <1>2, <1>3, Moved

\* all that a call had to close is closed
LEMMA ClosedMoves ==
    ASSUME Typed, NEW t \in Turn, Closed(t)
    PROVE  \E c \in CallT : /\ Moves(t, c) /\ Keeps(call[t], c)
                            /\ c.at = IF call[t].at = "stopping" THEN "starting" ELSE "config"
<1>1. call[t] \in CallT
    BY DEF Typed
<1>2. PICK x : x = IF call[t].at = "stopping" THEN "starting" ELSE "config"
    OBVIOUS
<1>3. PICK s : s = IF call[t].at = "stopping" THEN call[t].signature ELSE enabled
    OBVIOUS
<1>4. PICK d : d = [call[t] EXCEPT !.at = x, !.signature = s]
    OBVIOUS
<1>5. x \in Stages /\ s \in SUBSET Server
    BY <1>1, <1>2, <1>3 DEF Typed, Stages, Ends, CallT
<1>6. d \in CallT /\ Keeps(call[t], d) /\ d.at = x
    BY <1>1, <1>4, <1>5 DEF CallT, Keeps
<1>7. call' = [call EXCEPT ![t] = d]
    BY <1>2, <1>3, <1>4 DEF Closed
<1> QED
    BY <1>2, <1>6, <1>7, Moved

\* what a call sets that goes on to start servers
Begins(c, d) ==
    d.got = c.got /\ d.late = c.late /\ d.tools = c.tools

\* a call that starts a server, or fails to
Tries(c, d, s) ==
    /\ d.at = c.at /\ d.mode = c.mode /\ d.close = c.close /\ d.todo = c.todo \ {s}
    /\ d.tools = c.tools /\ d.entry = c.entry /\ d.asked = c.asked

LEMMA StartMoves ==
    ASSUME Server \subseteq Nat, Typed, NEW t \in Turn, StartServer(t)
    PROVE  \E c \in CallT, s \in call[t].todo :
              /\ Moves(t, c) /\ Tries(call[t], c, s)
              /\ \/ /\ name' = Append(name, s) /\ c.got = call[t].got \cup {Len(name) + 1}
                    /\ c.late = call[t].late
                 \/ /\ name' = name /\ c.got = call[t].got
                    /\ c.late = call[t].late \/ c.late = call[t].late \cup {s}
<1>1. call[t] \in CallT
    BY DEF Typed
<1>2. PICK s : s = Min(call[t].todo)
    OBVIOUS
<1>3. s \in call[t].todo /\ s \in Server
    <2>1. call[t].todo \subseteq Server /\ call[t].todo # {}
        BY <1>1 DEF CallT, StartServer
    <2> QED
        BY <1>2, <2>1, LeastOf
<1>4. \/ /\ name' = Append(name, s)
         /\ call' = [call EXCEPT ![t].todo = @ \ {s}, ![t].got = @ \cup {Len(name) + 1}]
      \/ /\ name' = name
         /\ \E timeout \in BOOLEAN :
              call' = [call EXCEPT ![t].todo = @ \ {s}, ![t].late = IF timeout THEN @ \cup {s} ELSE @]
    BY <1>2 DEF StartServer
<1>5. CASE /\ name' = Append(name, s)
           /\ call' = [call EXCEPT ![t].todo = @ \ {s}, ![t].got = @ \cup {Len(name) + 1}]
    <2>1. PICK d : d = [call[t] EXCEPT !.todo = @ \ {s}, !.got = @ \cup {Len(name) + 1}]
        OBVIOUS
    <2>2. Len(name) + 1 \in Nat
        BY DEF Typed
    <2>3. /\ d \in CallT /\ Tries(call[t], d, s) /\ d.late = call[t].late
          /\ d.got = call[t].got \cup {Len(name) + 1}
        BY <1>1, <2>1, <2>2 DEF CallT, Tries
    <2> QED
        BY <1>3, <1>5, <2>1, <2>3, Moved
<1>6. CASE /\ name' = name
           /\ \E timeout \in BOOLEAN :
                call' = [call EXCEPT ![t].todo = @ \ {s}, ![t].late = IF timeout THEN @ \cup {s} ELSE @]
    <2>1. PICK timeout \in BOOLEAN :
             call' = [call EXCEPT ![t].todo = @ \ {s}, ![t].late = IF timeout THEN @ \cup {s} ELSE @]
        BY <1>6
    <2>2. PICK late : late = IF timeout THEN call[t].late \cup {s} ELSE call[t].late
        OBVIOUS
    <2>3. PICK d : d = [call[t] EXCEPT !.todo = @ \ {s}, !.late = late]
        OBVIOUS
    <2>4. late \in SUBSET Server /\ (late = call[t].late \/ late = call[t].late \cup {s})
        BY <1>1, <1>3, <2>2 DEF CallT
    <2>5. d \in CallT /\ Tries(call[t], d, s) /\ d.got = call[t].got /\ d.late = late
        BY <1>1, <2>3, <2>4 DEF CallT, Tries
    <2>6. call' = [call EXCEPT ![t] = d]
        BY <2>1, <2>2, <2>3
    <2> QED
        BY <1>3, <1>6, <2>4, <2>5, <2>6, Moved
<1> QED
    BY <1>4, <1>5, <1>6

-----------------------------------------------------------------------------
(* What each step does to the entries.                                     *)
Enters(e, d) ==
    /\ entries' \in Seq(EntryT) /\ Len(entries') = Len(entries) /\ entries'[e] = d
    /\ \A f \in 1..Len(entries) : f # e => entries'[f] = entries[f]

\* one entry is replaced
LEMMA Entered ==
    ASSUME Typed, NEW e \in 1..Len(entries), NEW d \in EntryT, entries' = [entries EXCEPT ![e] = d]
    PROVE  Enters(e, d)
BY DEF Typed, Enters

\* the entry in the cache is one of the entries
LEMMA Cached == ASSUME Typed, current # 0 PROVE current \in 1..Len(entries) /\ entries[current] \in EntryT
BY DEF Typed

\* the cache is used: its tools are given, or servers that were late are tried again
LEMMA HitDoes ==
    ASSUME Typed, NEW t \in Turn, CacheHit(t)
    PROVE  /\ current \in 1..Len(entries)
           /\ \/ /\ entries' = entries
                 /\ \E c \in CallT : /\ Moves(t, c) /\ Plain(c) /\ c.at = "ready"
                                     /\ c.tools = entries[current].instances
              \/ \E c \in CallT, d \in EntryT :
                    /\ Moves(t, c) /\ Begins(call[t], c) /\ c.at = "starting" /\ c.mode = "retry"
                    /\ c.entry = current /\ c.todo = c.asked /\ c.close = call[t].close
                    /\ c.asked \subseteq entries[current].timedOut
                    /\ c.asked \cap (Names(entries[current].instances) \cup entries[current].retrying) = {}
                    /\ Enters(current, d) /\ d.instances = entries[current].instances
                    /\ d.timedOut = entries[current].timedOut
                    /\ d.retrying = entries[current].retrying \cup c.asked
<1>1. /\ current \in 1..Len(entries) /\ current \in Nat /\ entries[current] \in EntryT
      /\ call[t] \in CallT
    BY Cached DEF CacheHit, Typed
<1>2. CASE ToRetry(t, current) = {}
    <2>1. call' = [call EXCEPT ![t] = Return(t, entries[current].instances)] /\ entries' = entries
        BY <1>2 DEF CacheHit
    <2>2. entries[current].instances \in SUBSET Nat
        BY <1>1 DEF EntryT
    <2> QED
        BY <1>1, <2>1, <2>2, ReturnMoves
<1>3. CASE ToRetry(t, current) # {}
    <2>1. PICK R : R = ToRetry(t, current)
        OBVIOUS
    <2>2. /\ R \in SUBSET Server /\ R \subseteq entries[current].timedOut
          /\ R \cap (Names(entries[current].instances) \cup entries[current].retrying) = {}
        BY <1>1, <2>1 DEF ToRetry, EntryT
    <2>3. /\ call' = [call EXCEPT ![t].at = "starting", ![t].mode = "retry", ![t].entry = current,
                                  ![t].asked = R, ![t].todo = R]
          /\ entries' = [entries EXCEPT ![current].retrying = @ \cup R]
        BY <1>3, <2>1 DEF CacheHit
    <2>4. PICK c \in CallT : /\ Moves(t, c) /\ Begins(call[t], c) /\ c.at = "starting"
                             /\ c.mode = "retry" /\ c.entry = current /\ c.asked = R /\ c.todo = R
                             /\ c.close = call[t].close
        <3>1. PICK c : c = [call[t] EXCEPT !.at = "starting", !.mode = "retry", !.entry = current,
                                           !.asked = R, !.todo = R]
            OBVIOUS
        <3>2. /\ c \in CallT /\ Begins(call[t], c) /\ c.at = "starting" /\ c.mode = "retry"
              /\ c.entry = current /\ c.asked = R /\ c.todo = R /\ c.close = call[t].close
            BY <1>1, <2>2, <3>1 DEF CallT, Begins, Stages, Modes
        <3> QED
            BY <2>3, <3>1, <3>2, Moved
    <2>5. PICK d : d = [entries[current] EXCEPT !.retrying = @ \cup R]
        OBVIOUS
    <2>6. /\ d \in EntryT /\ d.instances = entries[current].instances
          /\ d.timedOut = entries[current].timedOut /\ d.retrying = entries[current].retrying \cup R
        BY <1>1, <2>2, <2>5 DEF EntryT
    <2>7. Enters(current, d)
        BY <1>1, <2>3, <2>5, <2>6, Entered
    <2> QED
        BY <1>1, <2>2, <2>4, <2>6, <2>7
<1> QED
    BY <1>2, <1>3

\* another stream uses the servers: the tools of the enabled ones are given
LEMMA DeferDoes ==
    ASSUME Typed, NEW t \in Turn, Defer(t)
    PROVE  /\ current \in 1..Len(entries)
           /\ \E c \in CallT, d \in EntryT :
                 /\ Moves(t, c) /\ Plain(c) /\ c.at = "ready"
                 /\ c.tools \subseteq entries[current].instances
                 /\ Enters(current, d) /\ d.instances = entries[current].instances
                 /\ d.timedOut \subseteq entries[current].timedOut
                 /\ d.retrying = entries[current].retrying
<1>1. current \in 1..Len(entries) /\ entries[current] \in EntryT
    BY Cached DEF Defer
<1>2. PICK L : L = StillLate(t, current, entries[current].instances)
    OBVIOUS
<1>3. PICK S : S = Of(entries[current].instances, call[t].signature)
    OBVIOUS
<1>4. L \in SUBSET Server /\ L \subseteq entries[current].timedOut
    BY <1>1, <1>2 DEF StillLate, EntryT
<1>5. S \in SUBSET Nat /\ S \subseteq entries[current].instances
    BY <1>1, <1>3 DEF Of, EntryT
<1>6. PICK c \in CallT : Moves(t, c) /\ Plain(c) /\ c.at = "ready" /\ c.tools = S
    BY <1>3, <1>5, ReturnMoves DEF Defer
<1>7. PICK d : d = [entries[current] EXCEPT !.timedOut = L]
    OBVIOUS
<1>8. /\ d \in EntryT /\ d.instances = entries[current].instances /\ d.timedOut = L
      /\ d.retrying = entries[current].retrying
    BY <1>1, <1>4, <1>7 DEF EntryT
<1>9. Enters(current, d)
    BY <1>1, <1>2, <1>7, <1>8, Entered DEF Defer
<1> QED
    BY <1>1, <1>4, <1>5, <1>6, <1>8, <1>9

\* the dead servers of the entry are to be closed and started again
LEMMA RelaunchDoes ==
    ASSUME Typed, NEW t \in Turn, Relaunch(t)
    PROVE  /\ current \in 1..Len(entries)
           /\ \E c \in CallT : /\ Moves(t, c) /\ Begins(call[t], c) /\ c.at = "stopping"
                               /\ c.mode = "relaunch" /\ c.entry = current
                               /\ c.close = entries[current].instances \cap dead
                               /\ c.todo \subseteq Names(c.close)
<1>1. /\ current \in 1..Len(entries) /\ current \in Nat /\ entries[current] \in EntryT
      /\ call[t] \in CallT
    BY Cached DEF Relaunch, Typed
<1>2. PICK S : S = entries[current].instances \cap dead
    OBVIOUS
<1>3. PICK R : R = Names(S) \cap call[t].signature
    OBVIOUS
<1>4. S \in SUBSET Nat /\ R \in SUBSET Server /\ R \subseteq Names(S)
    BY <1>1, <1>2, <1>3 DEF EntryT, CallT
<1>5. call' = [call EXCEPT ![t].at = "stopping", ![t].mode = "relaunch", ![t].entry = current,
                           ![t].close = S, ![t].todo = R]
    BY <1>2, <1>3 DEF Relaunch
<1>6. PICK c : c = [call[t] EXCEPT !.at = "stopping", !.mode = "relaunch", !.entry = current,
                                   !.close = S, !.todo = R]
    OBVIOUS
<1>7. /\ c \in CallT /\ Begins(call[t], c) /\ c.at = "stopping" /\ c.mode = "relaunch"
      /\ c.entry = current /\ c.close = S /\ c.todo = R
    BY <1>1, <1>4, <1>6 DEF CallT, Begins, Stages, Modes, Resets
<1>8. Moves(t, c)
    BY <1>5, <1>6, <1>7, Moved
<1> QED
    BY <1>1, <1>2, <1>4, <1>7, <1>8

\* the entry leaves the cache, and the call is to close its servers
LEMMA RestartDoes ==
    ASSUME Typed, NEW t \in Turn, Restart(t)
    PROVE  \E c \in CallT : /\ Moves(t, c) /\ Begins(call[t], c) /\ c.at = "stopping"
                            /\ c.mode = "restart"
                            /\ c.close = IF current = 0 THEN {} ELSE entries[current].instances
<1>1. call[t] \in CallT /\ (current # 0 => entries[current] \in EntryT)
    BY Cached DEF Typed
<1>2. PICK S : S = IF current = 0 THEN {} ELSE entries[current].instances
    OBVIOUS
<1>3. S \in SUBSET Nat /\ call[t].signature \in SUBSET Server
    BY <1>1, <1>2 DEF EntryT, CallT
<1>4. call' = [call EXCEPT ![t].at = "stopping", ![t].mode = "restart", ![t].todo = call[t].signature,
                           ![t].close = S]
    BY <1>2 DEF Restart
<1>5. PICK c : c = [call[t] EXCEPT !.at = "stopping", !.mode = "restart",
                                   !.todo = call[t].signature, !.close = S]
    OBVIOUS
<1>6. c \in CallT /\ Begins(call[t], c) /\ c.at = "stopping" /\ c.mode = "restart" /\ c.close = S
    BY <1>1, <1>3, <1>5 DEF CallT, Begins, Stages, Modes, Resets
<1>7. Moves(t, c)
    BY <1>4, <1>5, <1>6, Moved
<1> QED
    BY <1>2, <1>6, <1>7

\* a call closes a server; a relaunch closes it by name, in the entry
LEMMA CloseDoes ==
    ASSUME Server \subseteq Nat, Typed, Known, NEW t \in Turn, Close(t)
    PROVE  \E c \in CallT, i \in call[t].close :
              /\ Moves(t, c) /\ c.at = call[t].at /\ c.mode = call[t].mode
              /\ c.close = call[t].close \ {i} /\ c.todo = call[t].todo
              /\ c.got = call[t].got /\ c.late = call[t].late /\ c.tools = call[t].tools
              /\ c.entry = call[t].entry /\ c.asked = call[t].asked
              /\ IF c.mode = "relaunch"
                 THEN /\ call[t].entry \in 1..Len(entries)
                      /\ \E d \in EntryT, gone \in SUBSET entries[call[t].entry].instances :
                            /\ Enters(call[t].entry, d)
                            /\ gone = Of(entries[call[t].entry].instances, {name[i]})
                            /\ d.instances = entries[call[t].entry].instances \ gone
                            /\ d.timedOut = entries[call[t].entry].timedOut
                            /\ d.retrying = entries[call[t].entry].retrying
                            /\ dead' = dead \cup gone /\ stopped' = stopped \cup (gone \ dead)
                 ELSE /\ entries' = entries
                      /\ dead' = dead \cup {i} /\ stopped' = stopped \cup ({i} \ dead)
<1>1. call[t] \in CallT
    BY DEF Typed
<1>2. PICK i : i = Min(call[t].close)
    OBVIOUS
<1>3. i \in call[t].close
    BY <1>1, <1>2, LeastOf DEF CallT, Close
<1>4. PICK e : e = call[t].entry
    OBVIOUS
<1>5. call' = [call EXCEPT ![t].close = @ \ {i}]
    BY <1>2 DEF Close
<1>6. PICK c \in CallT :
             /\ Moves(t, c) /\ c.at = call[t].at /\ c.mode = call[t].mode
             /\ c.close = call[t].close \ {i} /\ c.todo = call[t].todo
             /\ c.got = call[t].got /\ c.late = call[t].late /\ c.tools = call[t].tools
             /\ c.entry = call[t].entry /\ c.asked = call[t].asked
    <2>1. PICK c : c = [call[t] EXCEPT !.close = @ \ {i}]
        OBVIOUS
    <2>2. /\ c \in CallT /\ c.at = call[t].at /\ c.mode = call[t].mode
          /\ c.close = call[t].close \ {i} /\ c.todo = call[t].todo
          /\ c.got = call[t].got /\ c.late = call[t].late /\ c.tools = call[t].tools
          /\ c.entry = call[t].entry /\ c.asked = call[t].asked
        BY <1>1, <2>1 DEF CallT
    <2> QED
        BY <1>5, <2>1, <2>2, Moved
<1>7. CASE call[t].mode = "relaunch"
    <2>1. PICK gone : gone = Of(entries[e].instances, {name[i]})
        OBVIOUS
    <2>2. /\ entries' = [entries EXCEPT ![e].instances = @ \ gone]
          /\ dead' = dead \cup gone /\ stopped' = stopped \cup (gone \ dead)
        BY <1>2, <1>4, <1>7, <2>1 DEF Close
    <2>3. e \in 1..Len(entries) /\ entries[e] \in EntryT /\ gone \in SUBSET entries[e].instances
        BY <1>4, <1>7, <2>1 DEF Known, Typed, Of
    <2>4. PICK d : d = [entries[e] EXCEPT !.instances = @ \ gone]
        OBVIOUS
    <2>5. /\ d \in EntryT /\ d.instances = entries[e].instances \ gone
          /\ d.timedOut = entries[e].timedOut /\ d.retrying = entries[e].retrying
        BY <2>3, <2>4 DEF EntryT
    <2>6. Enters(e, d)
        BY <2>2, <2>3, <2>4, <2>5, Entered
    <2> QED
        BY <1>3, <1>4, <1>6, <1>7, <2>1, <2>2, <2>3, <2>5, <2>6
<1>8. CASE call[t].mode # "relaunch"
    <2>1. /\ entries' = entries
          /\ dead' = dead \cup {i} /\ stopped' = stopped \cup ({i} \ dead)
        BY <1>2, <1>8 DEF Close
    <2> QED
        BY <1>3, <1>6, <1>8, <2>1
<1> QED
    BY <1>7, <1>8

\* a retry merges what it started, unless its entry was replaced
LEMMA EndRetryDoes ==
    ASSUME Typed, Known, NEW t \in Turn, EndRetry(t)
    PROVE  /\ call[t].at = "starting" /\ call[t].mode = "retry" /\ call[t].todo = {}
           /\ call[t].entry \in 1..Len(entries)
           /\ \E c \in CallT, d \in EntryT :
                 /\ Moves(t, c) /\ Enters(call[t].entry, d)
                 /\ d.retrying = entries[call[t].entry].retrying \ call[t].asked
                 /\ IF current = call[t].entry
                    THEN /\ d.instances = Merged(entries[current].instances, call[t].got)
                         /\ d.timedOut \cap Names(d.instances) \subseteq call[t].late
                         /\ d.timedOut \subseteq (entries[current].timedOut \ call[t].asked) \cup call[t].late
                         /\ Plain(c) /\ c.at = "ready" /\ c.tools = d.instances
                    ELSE /\ d.instances = entries[call[t].entry].instances
                         /\ c.at = "discarding" /\ c.mode = "none" /\ c.close = call[t].got
                         /\ c.got = {} /\ c.todo = {} /\ c.late = {} /\ c.tools = {}
<1>1. call[t].at = "starting" /\ call[t].mode = "retry" /\ call[t].todo = {} /\ call[t] \in CallT
    BY DEF EndRetry, Started, Typed
<1>2. PICK e : e = call[t].entry
    OBVIOUS
<1>3. e \in 1..Len(entries) /\ entries[e] \in EntryT
    BY <1>1, <1>2 DEF Known, Typed
<1>4. PICK merged : merged = Merged(entries[e].instances, call[t].got)
    OBVIOUS
<1>5. merged \in SUBSET Nat
    <2>1. entries[e].instances \subseteq Nat /\ call[t].got \subseteq Nat
        BY <1>1, <1>3 DEF EntryT, CallT
    <2> QED
        BY <1>4, <2>1 DEF Merged
<1>6. CASE current = e
    <2>1. PICK late : late = (StillLate(t, e, merged) \ call[t].asked) \cup call[t].late
        OBVIOUS
    <2>2. /\ late \in SUBSET Server /\ late \cap Names(merged) \subseteq call[t].late
          /\ late \subseteq (entries[e].timedOut \ call[t].asked) \cup call[t].late
        BY <1>1, <1>3, <2>1 DEF StillLate, EntryT, CallT
    <2>3. /\ entries' = [entries EXCEPT ![e].instances = merged, ![e].timedOut = late,
                                        ![e].retrying = @ \ call[t].asked]
          /\ call' = [call EXCEPT ![t] = Return(t, merged)]
        BY <1>2, <1>4, <1>6, <2>1 DEF EndRetry
    <2>4. PICK c \in CallT : Moves(t, c) /\ Plain(c) /\ c.at = "ready" /\ c.tools = merged
        BY <1>5, <2>3, ReturnMoves
    <2>5. PICK d : d = [entries[e] EXCEPT !.instances = merged, !.timedOut = late,
                                          !.retrying = @ \ call[t].asked]
        OBVIOUS
    <2>6. /\ d \in EntryT /\ d.instances = merged /\ d.timedOut = late
          /\ d.retrying = entries[e].retrying \ call[t].asked
        BY <1>3, <1>5, <2>2, <2>5 DEF EntryT
    <2>7. Enters(e, d)
        BY <1>3, <2>3, <2>5, <2>6, Entered
    <2> QED
        BY <1>1, <1>2, <1>3, <1>4, <1>6, <2>2, <2>4, <2>6, <2>7
<1>7. CASE current # e
    <2>1. /\ entries' = [entries EXCEPT ![e].retrying = @ \ call[t].asked]
          /\ call' = [call EXCEPT ![t] = [NoCall EXCEPT !.at = "discarding", !.close = call[t].got,
                                                        !.aborted = call[t].aborted]]
        BY <1>2, <1>7 DEF EndRetry
    <2>2. call[t].got \in SUBSET Nat
        BY <1>1 DEF CallT
    <2>3. PICK c \in CallT : /\ Moves(t, c) /\ c.at = "discarding" /\ c.mode = "none"
                             /\ c.close = call[t].got
                             /\ c.got = {} /\ c.todo = {} /\ c.late = {} /\ c.tools = {}
        <3>1. PICK n \in CallT : n = NoCall
            BY NoCallIs
        <3>2. PICK c : c = [n EXCEPT !.at = "discarding", !.close = call[t].got,
                                     !.aborted = call[t].aborted]
            OBVIOUS
        <3>3. call[t].aborted \in BOOLEAN
            BY <1>1 DEF CallT
        <3>4. /\ c \in CallT /\ c.at = "discarding" /\ c.mode = "none" /\ c.close = call[t].got
              /\ c.got = {} /\ c.todo = {} /\ c.late = {} /\ c.tools = {}
            BY <2>2, <3>1, <3>2, <3>3, NoCallIs DEF CallT, Plain, Stages
        <3> QED
            BY <2>1, <3>1, <3>2, <3>4, Moved
    <2>4. PICK d : d = [entries[e] EXCEPT !.retrying = @ \ call[t].asked]
        OBVIOUS
    <2>5. /\ d \in EntryT /\ d.instances = entries[e].instances
          /\ d.retrying = entries[e].retrying \ call[t].asked
        BY <1>3, <2>4 DEF EntryT
    <2>6. Enters(e, d)
        BY <1>3, <2>1, <2>4, <2>5, Entered
    <2> QED
        BY <1>1, <1>2, <1>3, <1>7, <2>3, <2>5, <2>6
<1> QED
    BY <1>6, <1>7

\* a relaunch merges what it started into the entry
LEMMA EndRelaunchDoes ==
    ASSUME Typed, Known, NEW t \in Turn, EndRelaunch(t)
    PROVE  /\ call[t].at = "starting" /\ call[t].mode = "relaunch" /\ call[t].todo = {}
           /\ call[t].entry \in 1..Len(entries)
           /\ \E c \in CallT, d \in EntryT :
                 /\ Moves(t, c) /\ Enters(call[t].entry, d)
                 /\ d.retrying = entries[call[t].entry].retrying
                 /\ d.instances = Merged(entries[call[t].entry].instances, call[t].got)
                 /\ d.timedOut \cap Names(d.instances) \subseteq call[t].late
                 /\ d.timedOut \subseteq entries[call[t].entry].timedOut \cup call[t].late
                 /\ Plain(c) /\ c.at = "ready" /\ c.tools \subseteq d.instances
<1>1. call[t].at = "starting" /\ call[t].mode = "relaunch" /\ call[t].todo = {} /\ call[t] \in CallT
    BY DEF EndRelaunch, Started, Typed
<1>2. PICK e : e = call[t].entry
    OBVIOUS
<1>3. e \in 1..Len(entries) /\ entries[e] \in EntryT
    BY <1>1, <1>2 DEF Known, Typed
<1>4. PICK merged : merged = Merged(entries[e].instances, call[t].got)
    OBVIOUS
<1>5. merged \in SUBSET Nat
    <2>1. entries[e].instances \subseteq Nat /\ call[t].got \subseteq Nat
        BY <1>1, <1>3 DEF EntryT, CallT
    <2> QED
        BY <1>4, <2>1 DEF Merged
<1>6. PICK late : late = StillLate(t, e, merged) \cup call[t].late
    OBVIOUS
<1>7. /\ late \in SUBSET Server /\ late \cap Names(merged) \subseteq call[t].late
      /\ late \subseteq entries[e].timedOut \cup call[t].late
    BY <1>1, <1>3, <1>6 DEF StillLate, EntryT, CallT
<1>8. PICK S : S = Of(merged, call[t].signature)
    OBVIOUS
<1>9. S \in SUBSET Nat /\ S \subseteq merged
    BY <1>5, <1>8 DEF Of
<1>10. /\ entries' = [entries EXCEPT ![e].instances = merged, ![e].timedOut = late]
       /\ call' = [call EXCEPT ![t] = Return(t, S)]
    BY <1>2, <1>4, <1>6, <1>8 DEF EndRelaunch
<1>11. PICK c \in CallT : Moves(t, c) /\ Plain(c) /\ c.at = "ready" /\ c.tools = S
    BY <1>9, <1>10, ReturnMoves
<1>12. PICK d : d = [entries[e] EXCEPT !.instances = merged, !.timedOut = late]
    OBVIOUS
<1>13. /\ d \in EntryT /\ d.instances = merged /\ d.timedOut = late
       /\ d.retrying = entries[e].retrying
    BY <1>3, <1>5, <1>7, <1>12 DEF EntryT
<1>14. Enters(e, d)
    BY <1>3, <1>10, <1>12, <1>13, Entered
<1> QED
    BY <1>1, <1>2, <1>3, <1>4, <1>7, <1>9, <1>11, <1>13, <1>14

\* a restart puts a new entry in the cache
LEMMA EndRestartDoes ==
    ASSUME Typed, NEW t \in Turn, EndRestart(t)
    PROVE  /\ call[t].at = "starting" /\ call[t].mode = "restart" /\ call[t].todo = {}
           /\ current' = Len(entries) + 1
           /\ \E c \in CallT, d \in EntryT :
                 /\ Moves(t, c) /\ Plain(c) /\ c.at = "ready" /\ c.tools = call[t].got
                 /\ entries' \in Seq(EntryT) /\ Len(entries') = Len(entries) + 1
                 /\ entries'[Len(entries) + 1] = d
                 /\ \A f \in 1..Len(entries) : entries'[f] = entries[f]
                 /\ d.instances = call[t].got /\ d.timedOut = call[t].late /\ d.retrying = {}
<1>1. call[t].at = "starting" /\ call[t].mode = "restart" /\ call[t].todo = {} /\ call[t] \in CallT
    BY DEF EndRestart, Started, Typed
<1>2. PICK d : d = Entry(call[t].signature, call[t].got, call[t].late)
    OBVIOUS
<1>3. /\ d \in EntryT /\ d.instances = call[t].got /\ d.timedOut = call[t].late /\ d.retrying = {}
    BY <1>1, <1>2 DEF Entry, EntryT, CallT
<1>4. entries' = Append(entries, d) /\ current' = Len(entries) + 1
    BY <1>2 DEF EndRestart
<1>5. /\ entries' \in Seq(EntryT) /\ Len(entries') = Len(entries) + 1
      /\ entries'[Len(entries) + 1] = d
      /\ \A f \in 1..Len(entries) : entries'[f] = entries[f]
    BY <1>3, <1>4 DEF Typed
<1>6. PICK S : S = call[t].got
    OBVIOUS
<1>7. S \in SUBSET Nat /\ call' = [call EXCEPT ![t] = Return(t, S)]
    BY <1>1, <1>6 DEF EndRestart, CallT
<1>8. PICK c \in CallT : Moves(t, c) /\ Plain(c) /\ c.at = "ready" /\ c.tools = S
    BY <1>7, ReturnMoves
<1> QED
    BY <1>1, <1>3, <1>4, <1>5, <1>6, <1>8

-----------------------------------------------------------------------------
\* a manager without servers
LEMMA InitTyped == Init => Typed /\ Known
<1> SUFFICES ASSUME Init PROVE Typed /\ Known
    OBVIOUS
<1>1. Typed
    <2>1. <<>> \in Seq(EntryT) /\ <<>> \in Seq(Server) /\ Len(<<>>) = 0
        OBVIOUS
    <2>2. call \in [Turn -> CallT]
        BY NoCallIs DEF Init
    <2> QED
        <3>1. entries \in Seq(EntryT) /\ name \in Seq(Server) /\ current \in 0..Len(entries)
            BY <2>1 DEF Init
        <3>2. /\ enabled \subseteq Server /\ dead \subseteq Nat /\ stopped \subseteq Nat
              /\ closing \subseteq Nat /\ leases \in Nat
            BY DEF Init
        <3>3. idle \in BOOLEAN /\ crossed \in BOOLEAN
            BY DEF Init
        <3> QED
            BY <2>2, <3>1, <3>2, <3>3 DEF Typed
<1>2. Known
    BY DEF Init, Known, NoCall
<1> QED
    BY <1>1, <1>2

\* every step keeps the types
LEMMA TypedStep == Server \subseteq Nat /\ Typed /\ Known /\ [Next]_mcpVars => Typed'
<1> SUFFICES ASSUME Server \subseteq Nat, Typed, Known, [Next]_mcpVars PROVE Typed'
    OBVIOUS
<1> USE DEF Typed, Moves
<1>1. ASSUME NEW t \in Turn, Call(t) PROVE Typed'
    BY <1>1, CallMoves DEF Call
<1>2. ASSUME NEW t \in Turn, Abort(t) PROVE Typed'
    BY <1>2, AbortMoves DEF Abort
<1>3. ASSUME NEW t \in Turn, StartStream(t) PROVE Typed'
    <2>1. call' \in [Turn -> CallT]
        <3>1. CASE call' = [call EXCEPT ![t].at = "streaming"]
            BY <1>3, <3>1, StartStreamMoves DEF StartStream
        <3>2. CASE call' = [call EXCEPT ![t] = [NoCall EXCEPT !.at = "done"]]
            BY <3>2, OverMoves
        <3> QED
            BY <1>3, <3>1, <3>2 DEF StartStream
    <2>2. /\ leases' = leases + 1 \/ leases' = leases
          /\ idle' = FALSE \/ idle' = idle
        BY <1>3, Zenon DEF StartStream
    <2>3. leases' \in Nat
        BY <2>2
    <2>4. idle' \in BOOLEAN
        BY <2>2, Zenon
    <2>5. UNCHANGED <<enabled, entries, current, name, dead, stopped, closing, crossed>>
        BY <1>3 DEF StartStream
    <2> QED
        BY <2>1, <2>3, <2>4, <2>5
<1>4. ASSUME NEW t \in Turn, EndStream(t) PROVE Typed'
    <2>1. call' \in [Turn -> CallT]
        BY <1>4, OverMoves DEF EndStream
    <2>2. leases' \in Nat
        BY <1>4 DEF EndStream
    <2> QED
        BY <1>4, <2>1, <2>2 DEF EndStream
<1>5. ASSUME NEW t \in Turn, CacheHit(t) PROVE Typed'
    <2>1. call' \in [Turn -> CallT] /\ entries' \in Seq(EntryT) /\ Len(entries') = Len(entries)
        BY <1>5, HitDoes DEF Enters
    <2> QED
        BY <1>5, <2>1 DEF CacheHit
<1>6. ASSUME NEW t \in Turn, Defer(t) PROVE Typed'
    <2>1. call' \in [Turn -> CallT] /\ entries' \in Seq(EntryT) /\ Len(entries') = Len(entries)
        BY <1>6, DeferDoes DEF Enters
    <2> QED
        BY <1>6, <2>1 DEF Defer
<1>7. ASSUME NEW t \in Turn, Relaunch(t) PROVE Typed'
    <2>1. call' \in [Turn -> CallT]
        BY <1>7, RelaunchDoes
    <2> QED
        BY <1>7, <2>1 DEF Relaunch, Crosses
<1>8. ASSUME NEW t \in Turn, Restart(t) PROVE Typed'
    <2>1. call' \in [Turn -> CallT]
        BY <1>8, RestartDoes
    <2> QED
        BY <1>8, <2>1 DEF Restart, Crosses
<1>9. ASSUME NEW t \in Turn, Close(t) PROVE Typed'
    <2>1. PICK c \in CallT, i \in call[t].close :
              /\ Moves(t, c) /\ c.at = call[t].at /\ c.mode = call[t].mode
              /\ c.close = call[t].close \ {i} /\ c.todo = call[t].todo
              /\ c.got = call[t].got /\ c.late = call[t].late /\ c.tools = call[t].tools
              /\ c.entry = call[t].entry /\ c.asked = call[t].asked
              /\ IF c.mode = "relaunch"
                 THEN /\ call[t].entry \in 1..Len(entries)
                      /\ \E d \in EntryT, gone \in SUBSET entries[call[t].entry].instances :
                            /\ Enters(call[t].entry, d)
                            /\ gone = Of(entries[call[t].entry].instances, {name[i]})
                            /\ d.instances = entries[call[t].entry].instances \ gone
                            /\ d.timedOut = entries[call[t].entry].timedOut
                            /\ d.retrying = entries[call[t].entry].retrying
                            /\ dead' = dead \cup gone /\ stopped' = stopped \cup (gone \ dead)
                 ELSE /\ entries' = entries
                      /\ dead' = dead \cup {i} /\ stopped' = stopped \cup ({i} \ dead)
        BY <1>9, CloseDoes, Zenon
    <2>2. i \in Nat
        BY <2>1 DEF CallT
    <2>3. /\ dead' \subseteq Nat /\ stopped' \subseteq Nat
          /\ entries' \in Seq(EntryT) /\ Len(entries') = Len(entries)
        <3>1. CASE c.mode = "relaunch"
            <4>1. PICK gone \in SUBSET entries[call[t].entry].instances :
                     /\ dead' = dead \cup gone /\ stopped' = stopped \cup (gone \ dead)
                BY <2>1, <3>1
            <4>2. entries[call[t].entry] \in EntryT /\ call[t].entry \in 1..Len(entries)
                BY <2>1, <3>1
            <4>3. gone \subseteq Nat
                BY <4>2 DEF EntryT
            <4> QED
                BY <2>1, <3>1, <4>1, <4>3 DEF Enters
        <3>2. CASE c.mode # "relaunch"
            BY <2>1, <2>2, <3>2
        <3> QED
            BY <3>1, <3>2
    <2> QED
        BY <1>9, <2>1, <2>3 DEF Close
<1>10. ASSUME NEW t \in Turn, Closed(t) PROVE Typed'
    BY <1>10, ClosedMoves DEF Closed
<1>11. ASSUME NEW t \in Turn, StartServer(t) PROVE Typed'
    <2>1. PICK s \in call[t].todo :
             call' \in [Turn -> CallT] /\ (name' = name \/ name' = Append(name, s))
        BY <1>11, StartMoves
    <2>2. s \in Server
        BY <2>1 DEF CallT
    <2>3. name' \in Seq(Server)
        BY <2>1, <2>2
    <2> QED
        BY <1>11, <2>1, <2>3 DEF StartServer
<1>12. ASSUME NEW t \in Turn, EndRetry(t) PROVE Typed'
    <2>1. call' \in [Turn -> CallT] /\ entries' \in Seq(EntryT) /\ Len(entries') = Len(entries)
        BY <1>12, EndRetryDoes DEF Enters
    <2> QED
        BY <1>12, <2>1 DEF EndRetry
<1>13. ASSUME NEW t \in Turn, EndRelaunch(t) PROVE Typed'
    <2>1. call' \in [Turn -> CallT] /\ entries' \in Seq(EntryT) /\ Len(entries') = Len(entries)
        BY <1>13, EndRelaunchDoes DEF Enters
    <2> QED
        BY <1>13, <2>1 DEF EndRelaunch
<1>14. ASSUME NEW t \in Turn, EndRestart(t) PROVE Typed'
    <2>1. /\ call' \in [Turn -> CallT] /\ entries' \in Seq(EntryT)
          /\ Len(entries') = Len(entries) + 1 /\ current' = Len(entries) + 1
        BY <1>14, EndRestartDoes
    <2>2. current' \in 0..Len(entries')
        BY <2>1
    <2> QED
        BY <1>14, <2>1, <2>2 DEF EndRestart
<1>15. CASE CleanupIdleServers
    <2>1. entries[current] \in EntryT
        BY <1>15, Cached DEF CleanupIdleServers
    <2>2. entries[current].instances \subseteq Nat
        BY <2>1 DEF EntryT
    <2>3. /\ closing' = closing \cup entries[current].instances /\ current' = 0
          /\ UNCHANGED <<enabled, entries, name, dead, stopped, leases, idle, call, crossed>>
        BY <1>15, Zenon DEF CleanupIdleServers
    <2>4. Len(entries) \in Nat
        OBVIOUS
    <2>5. closing' \subseteq Nat /\ current' \in 0..Len(entries)
        <3>1. 0 \in 0..Len(entries)
            BY <2>4
        <3>2. closing \subseteq Nat
            OBVIOUS
        <3> HIDE DEF Typed
        <3> QED
            BY <2>2, <2>3, <3>1, <3>2
    <2> QED
        BY <2>3, <2>5
<1>16. CASE CloseIdle
    <2>1. Min(closing) \in Nat
        BY <1>16, LeastOf DEF CloseIdle
    <2> QED
        BY <1>16, <2>1 DEF CloseIdle
<1>17. CASE TimePasses
    BY <1>17 DEF TimePasses
<1>18. CASE Configure
    BY <1>18 DEF Configure
<1>19. CASE Die
    <2>1. DOMAIN name \subseteq Nat
        OBVIOUS
    <2> QED
        BY <1>19, <2>1 DEF Die
<1>20. CASE UNCHANGED mcpVars
    BY <1>20 DEF mcpVars
<1> QED
    BY <1>1, <1>2, <1>3, <1>4, <1>5, <1>6, <1>7, <1>8, <1>9, <1>10, <1>11, <1>12, <1>13, <1>14,
       <1>15, <1>16, <1>17, <1>18, <1>19, <1>20 DEF Next, TurnStep

\* a call that is not starting servers
LEMMA PlainPhase ==
    ASSUME NEW c \in CallT, Plain(c), c.at \in Ends, c.at \notin {"ready", "streaming"} => c.tools = {}
    PROVE  Phase(c)
BY DEF Plain, Phase, Ends

\* every step of a turn keeps what its stage allows
LEMMA PhaseStep ==
    ASSUME Server \subseteq Nat, Typed, Known, Staged, NEW t \in Turn, TurnStep(t)
    PROVE  \E c \in CallT : Moves(t, c) /\ Phase(c)
<1>1. Phase(call[t]) /\ call[t] \in CallT
    BY DEF Staged, Typed
<1>2. ASSUME Call(t) PROVE \E c \in CallT : Moves(t, c) /\ Phase(c)
    BY <1>2, CallMoves, PlainPhase DEF Ends
<1>3. ASSUME Abort(t) PROVE \E c \in CallT : Moves(t, c) /\ Phase(c)
    BY <1>1, <1>3, AbortMoves DEF Phase, Keeps
<1>4. ASSUME StartStream(t) PROVE \E c \in CallT : Moves(t, c) /\ Phase(c)
    <2>1. CASE call' = [call EXCEPT ![t].at = "streaming"]
        <3>1. call[t].at = "ready"
            BY <1>4 DEF StartStream
        <3>2. PICK c \in CallT : Moves(t, c) /\ Keeps(call[t], c) /\ c.at = "streaming"
            BY <2>1, <3>1, StartStreamMoves
        <3> QED
            BY <1>1, <3>1, <3>2 DEF Phase, Keeps, Ends
    <2>2. CASE call' = [call EXCEPT ![t] = [NoCall EXCEPT !.at = "done"]]
        BY <2>2, OverMoves, PlainPhase DEF Ends
    <2> QED
        BY <1>4, <2>1, <2>2 DEF StartStream
<1>5. ASSUME EndStream(t) PROVE \E c \in CallT : Moves(t, c) /\ Phase(c)
    BY <1>5, OverMoves, PlainPhase DEF Ends, EndStream
<1>6. ASSUME CacheHit(t) PROVE \E c \in CallT : Moves(t, c) /\ Phase(c)
    <2>1. call[t].at = "config"
        BY <1>6 DEF CacheHit
    <2>2. CASE \E c \in CallT : Moves(t, c) /\ Plain(c) /\ c.at = "ready"
        BY <2>2, PlainPhase DEF Ends
    <2>3. CASE \E c \in CallT : /\ Moves(t, c) /\ Begins(call[t], c) /\ c.at = "starting"
                                /\ c.mode = "retry" /\ c.close = call[t].close
        BY <1>1, <2>1, <2>3 DEF Phase, Begins, Ends, Resets
    <2> QED
        BY <1>6, <2>2, <2>3, HitDoes
<1>7. ASSUME Defer(t) PROVE \E c \in CallT : Moves(t, c) /\ Phase(c)
    BY <1>7, DeferDoes, PlainPhase DEF Ends
<1>8. ASSUME Relaunch(t) PROVE \E c \in CallT : Moves(t, c) /\ Phase(c)
    <2>1. call[t].at = "config"
        BY <1>8 DEF Relaunch
    <2>2. PICK c \in CallT : /\ Moves(t, c) /\ Begins(call[t], c) /\ c.at = "stopping"
                             /\ c.mode = "relaunch"
        BY <1>8, RelaunchDoes
    <2> QED
        BY <1>1, <2>1, <2>2 DEF Phase, Begins, Ends, Resets
<1>9. ASSUME Restart(t) PROVE \E c \in CallT : Moves(t, c) /\ Phase(c)
    <2>1. call[t].at = "config"
        BY <1>9 DEF Restart
    <2>2. PICK c \in CallT : /\ Moves(t, c) /\ Begins(call[t], c) /\ c.at = "stopping"
                             /\ c.mode = "restart"
        BY <1>9, RestartDoes
    <2> QED
        BY <1>1, <2>1, <2>2 DEF Phase, Begins, Ends, Resets
<1>10. ASSUME Close(t) PROVE \E c \in CallT : Moves(t, c) /\ Phase(c)
    <2>1. PICK c \in CallT, i \in call[t].close :
             /\ Moves(t, c) /\ c.at = call[t].at /\ c.mode = call[t].mode
             /\ c.close = call[t].close \ {i} /\ c.todo = call[t].todo
             /\ c.got = call[t].got /\ c.late = call[t].late /\ c.tools = call[t].tools
        BY <1>10, CloseDoes
    <2> QED
        BY <1>1, <2>1 DEF Phase
<1>11. ASSUME Closed(t) PROVE \E c \in CallT : Moves(t, c) /\ Phase(c)
    <2>1. call[t].at \in {"stopping", "discarding"} /\ call[t].close = {}
        BY <1>11 DEF Closed
    <2> QED
        BY <1>1, <1>11, <2>1, ClosedMoves DEF Phase, Keeps, Ends
<1>12. ASSUME StartServer(t) PROVE \E c \in CallT : Moves(t, c) /\ Phase(c)
    <2>1. call[t].at = "starting"
        BY <1>12 DEF StartServer
    <2>2. PICK c \in CallT, s \in call[t].todo : Moves(t, c) /\ Tries(call[t], c, s)
        BY <1>12, StartMoves
    <2> QED
        BY <1>1, <2>1, <2>2 DEF Phase, Tries, Ends
<1>13. ASSUME EndRetry(t) PROVE \E c \in CallT : Moves(t, c) /\ Phase(c)
    <2>1. CASE \E c \in CallT : Moves(t, c) /\ Plain(c) /\ c.at = "ready"
        BY <2>1, PlainPhase DEF Ends
    <2>2. CASE \E c \in CallT : /\ Moves(t, c) /\ c.at = "discarding" /\ c.mode = "none"
                                /\ c.got = {} /\ c.todo = {} /\ c.late = {} /\ c.tools = {}
        BY <2>2 DEF Phase, Ends
    <2> QED
        BY <1>13, <2>1, <2>2, EndRetryDoes
<1>14. ASSUME EndRelaunch(t) PROVE \E c \in CallT : Moves(t, c) /\ Phase(c)
    BY <1>14, EndRelaunchDoes, PlainPhase DEF Ends
<1>15. ASSUME EndRestart(t) PROVE \E c \in CallT : Moves(t, c) /\ Phase(c)
    BY <1>15, EndRestartDoes, PlainPhase DEF Ends
<1> QED
    BY <1>2, <1>3, <1>4, <1>5, <1>6, <1>7, <1>8, <1>9, <1>10, <1>11, <1>12, <1>13, <1>14, <1>15
       DEF TurnStep

\* only the start of a server changes the names, and it adds one
LEMMA NamesGrow ==
    ASSUME Server \subseteq Nat, Typed, [Next]_mcpVars
    PROVE  /\ Len(name') >= Len(name) /\ Instances \subseteq Instances'
           /\ \A i \in Instances : name'[i] = name[i]
<1>1. name' = name \/ \E s \in Server : name' = Append(name, s)
    <2>1. ASSUME NEW t \in Turn, StartServer(t)
          PROVE  name' = name \/ \E s \in Server : name' = Append(name, s)
        <3>1. PICK s \in call[t].todo : name' = name \/ name' = Append(name, s)
            BY <2>1, StartMoves
        <3>2. s \in Server
            BY <3>1 DEF Typed, CallT
        <3> QED
            BY <3>1, <3>2
    <2>2. ASSUME NEW t \in Turn, TurnStep(t), ~ StartServer(t) PROVE name' = name
        BY <2>2 DEF TurnStep, Call, Abort, StartStream, EndStream, CacheHit, Defer, Relaunch, Restart,
                    Close, Closed, EndRetry, EndRelaunch, EndRestart
    <2>3. CASE CleanupIdleServers \/ CloseIdle \/ TimePasses \/ Configure \/ Die \/ UNCHANGED mcpVars
        BY <2>3 DEF CleanupIdleServers, CloseIdle, TimePasses, Configure, Die, mcpVars
    <2> QED
        BY <2>1, <2>2, <2>3 DEF Next
<1>2. name \in Seq(Server)
    BY DEF Typed
<1>3. ASSUME NEW s \in Server, name' = Append(name, s)
      PROVE  Len(name') = Len(name) + 1 /\ \A i \in 1..Len(name) : name'[i] = name[i]
    BY <1>2, <1>3
<1> QED
    BY <1>1, <1>2, <1>3 DEF Instances

\* a call that starts nothing, or nothing twice
LEMMA SortedKept ==
    ASSUME Typed, NEW c \in CallT, Sorted(c), c.got \subseteq Instances,
           \A i \in Instances : name'[i] = name[i]
    PROVE  Sorted(c)'
<1>1. Names(c.got)' = Names(c.got)
    BY DEF Names
<1>2. \A i, j \in c.got : name'[i] = name'[j] => i = j
    BY DEF Sorted
<1> QED
    BY <1>1, <1>2 DEF Sorted

\* every step of a turn keeps the names it starts apart
LEMMA SortedStep ==
    ASSUME Server \subseteq Nat, Typed, Known, Staged, NEW t \in Turn, TurnStep(t)
    PROVE  \E c \in CallT : Moves(t, c) /\ Sorted(c)'
<1> DEFINE Done == \E c \in CallT : Moves(t, c) /\ Sorted(c)'
<1>1. PICK b \in CallT : b = call[t]
    BY DEF Typed
<1>2. Phase(b) /\ Sorted(b) /\ b.got \subseteq Instances
    BY <1>1 DEF Staged, Known
<1>3. \A i \in Instances : name'[i] = name[i]
    BY NamesGrow DEF Next
<1>4. Sorted(b)'
    BY <1>2, <1>3, SortedKept
<1>5. \A c \in CallT : Plain(c) => Sorted(c)'
    BY DEF Plain, Sorted, Names
<1>6. \A c \in CallT : Keeps(b, c) => Sorted(c)'
    BY <1>4 DEF Keeps, Sorted
<1>7. ASSUME Call(t) PROVE Done
    BY <1>5, <1>7, CallMoves
<1>8. ASSUME Abort(t) PROVE Done
    BY <1>1, <1>6, <1>8, AbortMoves
<1>9. ASSUME StartStream(t) PROVE Done
    <2>1. CASE call' = [call EXCEPT ![t].at = "streaming"]
        <3>1. call[t].at = "ready"
            BY <1>9 DEF StartStream
        <3>2. PICK c \in CallT : Moves(t, c) /\ Keeps(call[t], c)
            BY <2>1, <3>1, StartStreamMoves
        <3> QED
            BY <1>1, <1>6, <3>2
    <2>2. CASE call' = [call EXCEPT ![t] = [NoCall EXCEPT !.at = "done"]]
        BY <1>5, <2>2, OverMoves
    <2> QED
        BY <1>9, <2>1, <2>2 DEF StartStream
<1>10. ASSUME EndStream(t) PROVE Done
    BY <1>5, <1>10, OverMoves DEF EndStream
<1>11. ASSUME CacheHit(t) PROVE Done
    <2>1. call[t].at = "config"
        BY <1>11 DEF CacheHit
    <2>2. CASE \E c \in CallT : Moves(t, c) /\ Plain(c)
        BY <1>5, <2>2
    <2>3. CASE \E c \in CallT : Moves(t, c) /\ Begins(call[t], c) /\ c.todo = c.asked
        <3>1. PICK c \in CallT : Moves(t, c) /\ Begins(b, c) /\ c.todo = c.asked
            BY <1>1, <2>3
        <3>2. c.got = {} /\ c.late = {}
            BY <1>1, <1>2, <2>1, <3>1 DEF Begins, Phase, Ends
        <3>3. Sorted(c)'
            BY <3>1, <3>2 DEF Sorted, Names
        <3> QED
            BY <3>1, <3>3
    <2> QED
        BY <1>11, <2>2, <2>3, HitDoes
<1>12. ASSUME Defer(t) PROVE Done
    BY <1>5, <1>12, DeferDoes
<1>13. ASSUME Relaunch(t) \/ Restart(t) PROVE Done
    <2>1. call[t].at = "config"
        BY <1>13 DEF Relaunch, Restart
    <2>2. PICK c \in CallT : /\ Moves(t, c) /\ Begins(b, c) /\ c.at = "stopping"
                             /\ c.mode \in Resets
        BY <1>1, <1>13, RelaunchDoes, RestartDoes DEF Resets
    <2>3. c.got = {} /\ c.late = {}
        BY <1>1, <1>2, <2>1, <2>2 DEF Begins, Phase, Ends
    <2>4. Sorted(c)'
        BY <2>2, <2>3 DEF Sorted, Names, Resets
    <2> QED
        BY <2>2, <2>4
<1>14. ASSUME Close(t) PROVE Done
    <2>1. PICK c \in CallT, i \in call[t].close :
             /\ Moves(t, c) /\ c.at = call[t].at /\ c.mode = call[t].mode
             /\ c.close = call[t].close \ {i} /\ c.todo = call[t].todo
             /\ c.got = call[t].got /\ c.late = call[t].late /\ c.tools = call[t].tools
             /\ c.entry = call[t].entry /\ c.asked = call[t].asked
        BY <1>14, CloseDoes
    <2> QED
        BY <1>1, <1>4, <2>1 DEF Sorted
<1>15. ASSUME Closed(t) PROVE Done
    BY <1>1, <1>6, <1>15, ClosedMoves
<1>16. ASSUME StartServer(t) PROVE Done
    <2>1. PICK c \in CallT, s \in b.todo :
              /\ Moves(t, c) /\ Tries(b, c, s)
              /\ \/ /\ name' = Append(name, s) /\ c.got = b.got \cup {Len(name) + 1}
                    /\ c.late = b.late
                 \/ /\ name' = name /\ c.got = b.got
                    /\ c.late = b.late \/ c.late = b.late \cup {s}
        BY <1>1, <1>16, StartMoves
    <2>2. s \in Server
        BY <2>1 DEF CallT
    <2>3. CASE name' = name /\ c.got = b.got /\ (c.late = b.late \/ c.late = b.late \cup {s})
        BY <1>4, <2>1, <2>3 DEF Sorted, Tries
    <2>4. CASE name' = Append(name, s) /\ c.got = b.got \cup {Len(name) + 1} /\ c.late = b.late
        <3>1. name'[Len(name) + 1] = s /\ Len(name) + 1 \notin Instances
            BY <2>2, <2>4 DEF Typed, Instances
        <3>2. Names(c.got)' = Names(b.got)' \cup {s}
            BY <2>4, <3>1 DEF Names
        <3>3. s \notin Names(b.got)'
            BY <1>4, <2>1 DEF Sorted
        <3>4. \A i, j \in c.got : name'[i] = name'[j] => i = j
            BY <1>4, <2>4, <3>1, <3>3 DEF Sorted, Names
        <3>5. /\ Names(b.got)' \cap (b.todo \cup b.late) = {} /\ b.todo \cap b.late = {}
              /\ b.mode = "retry" => Names(b.got)' \cup b.todo \cup b.late \subseteq b.asked
            BY <1>4 DEF Sorted
        <3>6. c.todo = b.todo \ {s} /\ c.mode = b.mode /\ c.asked = b.asked
            BY <2>1 DEF Tries
        <3>7. Names(c.got)' \cap (c.todo \cup c.late) = {} /\ c.todo \cap c.late = {}
            BY <2>1, <2>4, <3>2, <3>5, <3>6
        <3>8. c.mode = "retry" => Names(c.got)' \cup c.todo \cup c.late \subseteq c.asked
            BY <2>1, <2>4, <3>2, <3>5, <3>6
        <3> QED
            BY <2>1, <3>4, <3>7, <3>8 DEF Sorted
    <2> QED
        BY <2>1, <2>3, <2>4
<1>17. ASSUME EndRetry(t) PROVE Done
    <2>1. PICK c \in CallT : Moves(t, c) /\ c.mode = "none" /\ c.got = {} /\ c.todo = {} /\ c.late = {}
        BY <1>17, EndRetryDoes DEF Plain
    <2> QED
        BY <2>1 DEF Sorted, Names
<1>18. ASSUME EndRelaunch(t) PROVE Done
    BY <1>5, <1>18, EndRelaunchDoes
<1>19. ASSUME EndRestart(t) PROVE Done
    BY <1>5, <1>19, EndRestartDoes
<1> QED
    BY <1>7, <1>8, <1>9, <1>10, <1>11, <1>12, <1>13, <1>14, <1>15, <1>16, <1>17, <1>18, <1>19
       DEF TurnStep

(* Every step leaves the calls staged.                                     *)
LEMMA StagedStep == Server \subseteq Nat /\ Typed /\ Known /\ Staged /\ [Next]_mcpVars => Staged'
<1> SUFFICES ASSUME Server \subseteq Nat, Typed, Known, Staged, [Next]_mcpVars PROVE Staged'
    OBVIOUS
<1>1. \A i \in Instances : name'[i] = name[i]
    BY NamesGrow
<1>2. ASSUME NEW u \in Turn, call'[u] = call[u] PROVE Phase(call[u])' /\ Sorted(call[u])'
    <2>1. PICK b \in CallT : b = call[u]
        BY DEF Typed
    <2>2. Phase(b) /\ Sorted(b) /\ b.got \subseteq Instances
        BY <2>1 DEF Staged, Known
    <2>3. Sorted(b)'
        BY <1>1, <2>2, SortedKept
    <2> QED
        BY <1>2, <2>1, <2>2, <2>3
<1>3. ASSUME NEW t \in Turn, TurnStep(t) PROVE Staged'
    <2>1. PICK c \in CallT : Moves(t, c) /\ Phase(c)
        BY <1>3, PhaseStep
    <2>2. PICK d \in CallT : Moves(t, d) /\ Sorted(d)'
        BY <1>3, SortedStep
    <2>3. Phase(call[t])' /\ Sorted(call[t])'
        BY <2>1, <2>2 DEF Moves
    <2>4. \A u \in Turn \ {t} : call'[u] = call[u]
        BY <2>1 DEF Moves
    <2> QED
        BY <1>2, <2>3, <2>4 DEF Staged
<1>4. CASE CleanupIdleServers \/ CloseIdle \/ TimePasses \/ Configure \/ Die \/ UNCHANGED mcpVars
    <2>1. call' = call
        BY <1>4 DEF CleanupIdleServers, CloseIdle, TimePasses, Configure, Die, mcpVars
    <2> QED
        BY <1>2, <2>1 DEF Staged
<1> QED
    BY <1>3, <1>4 DEF Next

(* The instances that calls and entries hold have been started.            *)
LEMMA KnownStep ==
    Server \subseteq Nat /\ Typed /\ Known /\ Staged /\ [Next]_mcpVars => Known'
<1> SUFFICES ASSUME Server \subseteq Nat, Typed, Known, Staged, [Next]_mcpVars PROVE Known'
    OBVIOUS
<1> DEFINE Holds(c) == /\ c.got \cup c.close \cup c.tools \subseteq Instances'
                       /\ c.mode \in {"retry", "relaunch"} => c.entry \in DOMAIN entries'
           Calls == \A u \in Turn : Holds(call'[u])
           Rest == dead' \subseteq Instances' /\ stopped' \subseteq dead' /\ closing' \subseteq Instances'
           Held == \A e \in DOMAIN entries' : entries'[e].instances \subseteq Instances'
<1>1. Instances \subseteq Instances'
    BY NamesGrow
<1>2. Calls /\ Rest /\ Held => Known'
    BY DEF Known
<1>3. entries \in Seq(EntryT) /\ DOMAIN entries = 1..Len(entries) /\ DOMAIN name = Instances
    BY DEF Typed, Instances
<1>4. ASSUME entries' = entries PROVE Held
    BY <1>1, <1>4 DEF Known
<1>5. ASSUME UNCHANGED <<dead, stopped, closing>> PROVE Rest
    BY <1>1, <1>5 DEF Known
<1>6. ASSUME NEW t \in Turn, NEW c \in CallT, Moves(t, c), Holds(c), DOMAIN entries \subseteq DOMAIN entries'
      PROVE  Calls
    <2>1. ASSUME NEW u \in Turn, u # t PROVE Holds(call'[u])
        BY <1>1, <1>6, <2>1 DEF Known, Moves
    <2>2. Holds(call'[t])
        BY <1>6 DEF Moves
    <2> QED
        BY <2>1, <2>2
<1>7. ASSUME NEW e \in 1..Len(entries), NEW d \in EntryT, Enters(e, d), d.instances \subseteq Instances'
      PROVE  Held /\ DOMAIN entries' = DOMAIN entries
    BY <1>1, <1>3, <1>7 DEF Known, Enters
<1>8. \A t \in Turn, c \in CallT : Keeps(call[t], c) /\ entries' = entries => Holds(c)
    BY <1>1 DEF Keeps, Known
<1>9. \A c \in CallT : Plain(c) /\ c.tools \subseteq Instances => Holds(c)
    BY <1>1 DEF Plain
<1> HIDE DEF Holds, Calls, Rest, Held
<1>10. ASSUME NEW t \in Turn, Call(t) PROVE Known'
    <2>1. UNCHANGED <<entries, dead, stopped, closing>>
        BY <1>10 DEF Call
    <2> QED
        BY <1>2, <1>4, <1>5, <1>6, <1>9, <1>10, <2>1, CallMoves
<1>11. ASSUME NEW t \in Turn, Abort(t) PROVE Known'
    <2>1. UNCHANGED <<entries, dead, stopped, closing>>
        BY <1>11 DEF Abort
    <2> QED
        BY <1>2, <1>4, <1>5, <1>6, <1>8, <1>11, <2>1, AbortMoves
<1>12. ASSUME NEW t \in Turn, StartStream(t) PROVE Known'
    <2>1. UNCHANGED <<entries, dead, stopped, closing>> /\ call[t].at = "ready"
        BY <1>12 DEF StartStream
    <2>2. CASE call' = [call EXCEPT ![t].at = "streaming"]
        BY <1>2, <1>4, <1>5, <1>6, <1>8, <2>1, <2>2, StartStreamMoves
    <2>3. CASE call' = [call EXCEPT ![t] = [NoCall EXCEPT !.at = "done"]]
        BY <1>2, <1>4, <1>5, <1>6, <1>9, <2>1, <2>3, OverMoves
    <2> QED
        BY <1>12, <2>2, <2>3 DEF StartStream
<1>13. ASSUME NEW t \in Turn, EndStream(t) PROVE Known'
    <2>1. UNCHANGED <<entries, dead, stopped, closing>>
          /\ call' = [call EXCEPT ![t] = [NoCall EXCEPT !.at = "done"]]
        BY <1>13 DEF EndStream
    <2> QED
        BY <1>2, <1>4, <1>5, <1>6, <1>9, <2>1, OverMoves
<1>14. ASSUME NEW t \in Turn, CacheHit(t) PROVE Known'
    <2>1. UNCHANGED <<dead, stopped, closing>>
        BY <1>14 DEF CacheHit
    <2>2. current \in 1..Len(entries) /\ entries[current].instances \subseteq Instances
        BY <1>3, <1>14, HitDoes DEF Known
    <2>3. CASE entries' = entries
               /\ \E c \in CallT : Moves(t, c) /\ Plain(c) /\ c.tools = entries[current].instances
        BY <1>2, <1>4, <1>5, <1>6, <1>9, <2>1, <2>2, <2>3
    <2>4. CASE \E c \in CallT, d \in EntryT :
                  /\ Moves(t, c) /\ Begins(call[t], c) /\ c.entry = current /\ c.close = call[t].close
                  /\ Enters(current, d) /\ d.instances = entries[current].instances
        <3>1. PICK c \in CallT, d \in EntryT :
                  /\ Moves(t, c) /\ Begins(call[t], c) /\ c.entry = current /\ c.close = call[t].close
                  /\ Enters(current, d) /\ d.instances = entries[current].instances
            BY <2>4
        <3>2. Held /\ DOMAIN entries' = DOMAIN entries
            BY <1>1, <1>7, <2>2, <3>1
        <3>3. Holds(c)
            BY <1>1, <1>3, <2>2, <3>1, <3>2 DEF Known, Begins, Holds
        <3> QED
            BY <1>2, <1>5, <1>6, <2>1, <3>1, <3>2, <3>3
    <2> QED
        BY <1>14, <2>3, <2>4, HitDoes
<1>15. ASSUME NEW t \in Turn, Defer(t) PROVE Known'
    <2>1. UNCHANGED <<dead, stopped, closing>>
        BY <1>15 DEF Defer
    <2>2. PICK c \in CallT, d \in EntryT :
             /\ current \in 1..Len(entries) /\ Moves(t, c) /\ Plain(c)
             /\ c.tools \subseteq entries[current].instances
             /\ Enters(current, d) /\ d.instances = entries[current].instances
        BY <1>15, DeferDoes
    <2>3. entries[current].instances \subseteq Instances
        BY <1>3, <2>2 DEF Known
    <2> QED
        BY <1>1, <1>2, <1>5, <1>6, <1>7, <1>9, <2>1, <2>2, <2>3
<1>16. ASSUME NEW t \in Turn, Relaunch(t) PROVE Known'
    <2>1. UNCHANGED <<entries, dead, stopped, closing>>
        BY <1>16 DEF Relaunch
    <2>2. PICK c \in CallT : /\ current \in 1..Len(entries) /\ Moves(t, c) /\ Begins(call[t], c)
                             /\ c.entry = current /\ c.close = entries[current].instances \cap dead
        BY <1>16, RelaunchDoes
    <2>3. Holds(c)
        BY <1>1, <1>3, <2>1, <2>2 DEF Holds, Begins, Known
    <2> QED
        BY <1>2, <1>4, <1>5, <1>6, <2>1, <2>2, <2>3
<1>17. ASSUME NEW t \in Turn, Restart(t) PROVE Known'
    <2>1. UNCHANGED <<entries, dead, stopped, closing>>
        BY <1>17 DEF Restart
    <2>2. PICK c \in CallT : /\ Moves(t, c) /\ Begins(call[t], c) /\ c.mode = "restart"
                             /\ c.close = IF current = 0 THEN {} ELSE entries[current].instances
        BY <1>17, RestartDoes
    <2>3. current # 0 => current \in 1..Len(entries)
        BY Cached
    <2>4. Holds(c)
        BY <1>1, <1>3, <2>2, <2>3 DEF Holds, Begins, Known
    <2> QED
        BY <1>2, <1>4, <1>5, <1>6, <2>1, <2>2, <2>4
<1>18. ASSUME NEW t \in Turn, Close(t) PROVE Known'
    <2>1. UNCHANGED closing
        BY <1>18 DEF Close
    <2>2. PICK c \in CallT, i \in call[t].close :
              /\ Moves(t, c) /\ c.at = call[t].at /\ c.mode = call[t].mode
              /\ c.close = call[t].close \ {i} /\ c.todo = call[t].todo
              /\ c.got = call[t].got /\ c.late = call[t].late /\ c.tools = call[t].tools
              /\ c.entry = call[t].entry /\ c.asked = call[t].asked
              /\ IF c.mode = "relaunch"
                 THEN /\ call[t].entry \in 1..Len(entries)
                      /\ \E d \in EntryT, gone \in SUBSET entries[call[t].entry].instances :
                            /\ Enters(call[t].entry, d)
                            /\ gone = Of(entries[call[t].entry].instances, {name[i]})
                            /\ d.instances = entries[call[t].entry].instances \ gone
                            /\ d.timedOut = entries[call[t].entry].timedOut
                            /\ d.retrying = entries[call[t].entry].retrying
                            /\ dead' = dead \cup gone /\ stopped' = stopped \cup (gone \ dead)
                 ELSE /\ entries' = entries
                      /\ dead' = dead \cup {i} /\ stopped' = stopped \cup ({i} \ dead)
        BY <1>18, CloseDoes, Zenon
    <2>3. i \in Instances
        BY <2>2 DEF Known
    <2>4. Rest /\ Held /\ DOMAIN entries' = DOMAIN entries
        <3>1. CASE c.mode = "relaunch"
            <4>1. PICK d \in EntryT, gone \in SUBSET entries[call[t].entry].instances :
                     /\ Enters(call[t].entry, d)
                     /\ d.instances = entries[call[t].entry].instances \ gone
                     /\ dead' = dead \cup gone /\ stopped' = stopped \cup (gone \ dead)
                BY <2>2, <3>1
            <4>2. /\ call[t].entry \in 1..Len(entries)
                  /\ entries[call[t].entry].instances \subseteq Instances
                BY <1>3, <2>2, <3>1 DEF Known
            <4>3. Held /\ DOMAIN entries' = DOMAIN entries
                BY <1>1, <1>7, <4>1, <4>2
            <4>4. Rest
                BY <1>1, <2>1, <4>1, <4>2 DEF Rest, Known
            <4> QED
                BY <4>3, <4>4
        <3>2. CASE c.mode # "relaunch"
            <4>1. /\ entries' = entries
                  /\ dead' = dead \cup {i} /\ stopped' = stopped \cup ({i} \ dead)
                BY <2>2, <3>2
            <4>2. Rest
                BY <1>1, <2>1, <2>3, <4>1 DEF Rest, Known
            <4> QED
                BY <1>4, <4>1, <4>2
        <3> QED
            BY <3>1, <3>2
    <2>5. Holds(c)
        BY <1>1, <2>2, <2>4 DEF Holds, Known
    <2> QED
        BY <1>2, <1>6, <2>2, <2>4, <2>5
<1>19. ASSUME NEW t \in Turn, Closed(t) PROVE Known'
    <2>1. UNCHANGED <<entries, dead, stopped, closing>>
        BY <1>19 DEF Closed
    <2> QED
        BY <1>2, <1>4, <1>5, <1>6, <1>8, <1>19, <2>1, ClosedMoves
<1>20. ASSUME NEW t \in Turn, StartServer(t) PROVE Known'
    <2>1. UNCHANGED <<entries, dead, stopped, closing>>
        BY <1>20 DEF StartServer
    <2>2. PICK c \in CallT, s \in call[t].todo :
              /\ Moves(t, c) /\ Tries(call[t], c, s)
              /\ \/ name' = Append(name, s) /\ c.got = call[t].got \cup {Len(name) + 1}
                 \/ name' = name /\ c.got = call[t].got
        BY <1>20, StartMoves
    <2>3. name' = Append(name, s) => Len(name) + 1 \in Instances'
        BY <2>2 DEF Typed, Instances, CallT
    <2>4. Holds(c)
        BY <1>1, <2>1, <2>2, <2>3 DEF Holds, Tries, Known
    <2> QED
        BY <1>2, <1>4, <1>5, <1>6, <2>1, <2>2, <2>4
<1>21. ASSUME NEW t \in Turn, EndRetry(t) PROVE Known'
    <2>1. UNCHANGED <<dead, stopped, closing>>
        BY <1>21 DEF EndRetry
    <2>2. PICK c \in CallT, d \in EntryT :
              /\ call[t].entry \in 1..Len(entries) /\ Moves(t, c) /\ Enters(call[t].entry, d)
              /\ IF current = call[t].entry
                 THEN /\ d.instances = Merged(entries[current].instances, call[t].got)
                      /\ Plain(c) /\ c.tools = d.instances
                 ELSE /\ d.instances = entries[call[t].entry].instances
                      /\ c.mode = "none" /\ c.close = call[t].got /\ c.got = {} /\ c.tools = {}
        BY <1>21, EndRetryDoes
    <2>3. call[t].got \cup entries[call[t].entry].instances \subseteq Instances
        BY <1>3, <2>2 DEF Known
    <2>4. d.instances \subseteq Instances
        BY <2>2, <2>3 DEF Merged
    <2>5. Held /\ DOMAIN entries' = DOMAIN entries
        BY <1>1, <1>7, <2>2, <2>4
    <2>6. Holds(c)
        BY <1>1, <1>9, <2>2, <2>3, <2>4 DEF Holds
    <2> QED
        BY <1>2, <1>5, <1>6, <2>1, <2>2, <2>5, <2>6
<1>22. ASSUME NEW t \in Turn, EndRelaunch(t) PROVE Known'
    <2>1. UNCHANGED <<dead, stopped, closing>>
        BY <1>22 DEF EndRelaunch
    <2>2. PICK c \in CallT, d \in EntryT :
              /\ call[t].entry \in 1..Len(entries) /\ Moves(t, c) /\ Enters(call[t].entry, d)
              /\ d.instances = Merged(entries[call[t].entry].instances, call[t].got)
              /\ Plain(c) /\ c.tools \subseteq d.instances
        BY <1>22, EndRelaunchDoes
    <2>3. call[t].got \cup entries[call[t].entry].instances \subseteq Instances
        BY <1>3, <2>2 DEF Known
    <2>4. d.instances \subseteq Instances
        BY <2>2, <2>3 DEF Merged
    <2>5. Held /\ DOMAIN entries' = DOMAIN entries
        BY <1>1, <1>7, <2>2, <2>4
    <2> QED
        BY <1>2, <1>5, <1>6, <1>9, <2>1, <2>2, <2>4, <2>5
<1>23. ASSUME NEW t \in Turn, EndRestart(t) PROVE Known'
    <2>1. UNCHANGED <<dead, stopped, closing>>
        BY <1>23 DEF EndRestart
    <2>2. PICK c \in CallT, d \in EntryT :
              /\ Moves(t, c) /\ Plain(c) /\ c.tools = call[t].got
              /\ entries' \in Seq(EntryT) /\ Len(entries') = Len(entries) + 1
              /\ entries'[Len(entries) + 1] = d
              /\ \A f \in 1..Len(entries) : entries'[f] = entries[f]
              /\ d.instances = call[t].got
        BY <1>23, EndRestartDoes
    <2>3. call[t].got \subseteq Instances
        BY DEF Known
    <2>4. DOMAIN entries' = DOMAIN entries \cup {Len(entries) + 1}
        BY <1>3, <2>2
    <2>5. Held
        BY <1>1, <1>3, <2>2, <2>3, <2>4 DEF Held, Known
    <2> QED
        BY <1>2, <1>5, <1>6, <1>9, <2>1, <2>2, <2>3, <2>4, <2>5
<1>24. ASSUME UNCHANGED <<call, entries>> PROVE Calls
    BY <1>1, <1>24 DEF Calls, Holds, Known
<1>25. CASE CleanupIdleServers
    <2>1. current \in 1..Len(entries)
        BY <1>25, Cached DEF CleanupIdleServers
    <2>2. entries[current].instances \subseteq Instances
        BY <1>3, <2>1 DEF Known
    <2>3. Rest
        BY <1>1, <1>25, <2>2 DEF Rest, Known, CleanupIdleServers
    <2> QED
        BY <1>2, <1>4, <1>24, <1>25, <2>3 DEF CleanupIdleServers
<1>26. CASE CloseIdle
    <2>1. Min(closing) \in closing
        BY <1>26, LeastOf DEF CloseIdle, Typed
    <2>2. Rest
        BY <1>1, <1>26, <2>1 DEF Rest, Known, CloseIdle
    <2> QED
        BY <1>2, <1>4, <1>24, <1>26, <2>2 DEF CloseIdle
<1>27. CASE TimePasses \/ Configure \/ UNCHANGED mcpVars
    <2>1. UNCHANGED <<call, entries, dead, stopped, closing>>
        BY <1>27 DEF TimePasses, Configure, mcpVars
    <2> QED
        BY <1>2, <1>4, <1>5, <1>24, <2>1
<1>28. CASE Die
    <2>1. Rest
        BY <1>1, <1>3, <1>28 DEF Die, Rest, Known
    <2> QED
        BY <1>2, <1>4, <1>24, <1>28, <2>1 DEF Die
<1> QED
    BY <1>10, <1>11, <1>12, <1>13, <1>14, <1>15, <1>16, <1>17, <1>18, <1>19, <1>20, <1>21, <1>22,
       <1>23, <1>25, <1>26, <1>27, <1>28 DEF Next, TurnStep

-----------------------------------------------------------------------------
\* a step that starts and ends no stream
LEMMA TimingKept ==
    ASSUME Typed, Timing, NEW t \in Turn, NEW c \in CallT, Moves(t, c), leases' = leases,
           idle' = idle \/ idle' = FALSE,
           c.at = "streaming" <=> call[t].at = "streaming",
           c.at = "ready" \/ c.mode \in {"retry", "relaunch"} => idle' = FALSE
    PROVE  Timing'
<1>1. \A u \in Turn : u # t => call'[u] = call[u]
    BY DEF Moves
<1>2. call'[t] = c
    BY DEF Moves
<1>3. \A u \in Turn : call'[u].at = "streaming" <=> call[u].at = "streaming"
    BY <1>1, <1>2
<1>4. \A u \in Turn : call'[u].at = "ready" \/ call'[u].mode \in {"retry", "relaunch"} => idle' = FALSE
    BY <1>1, <1>2 DEF Timing
<1> QED
    BY <1>3, <1>4 DEF Timing

\* every step keeps the timing
LEMMA TimingStep ==
    Server \subseteq Nat /\ Typed /\ Known /\ Staged /\ Timing /\ [Next]_mcpVars => Timing'
<1> SUFFICES ASSUME Server \subseteq Nat, Typed, Known, Staged, Timing, [Next]_mcpVars
             PROVE  Timing'
    OBVIOUS
<1>1. ASSUME NEW t \in Turn, Call(t) PROVE Timing'
    <2>1. call[t].at = "idle" /\ UNCHANGED <<leases, idle>>
        BY <1>1 DEF Call
    <2>2. PICK c \in CallT : Moves(t, c) /\ c.mode = "none" /\ c.at = "config"
        BY <1>1, CallMoves DEF Plain
    <2> QED
        BY <2>1, <2>2, TimingKept
<1>2. ASSUME NEW t \in Turn, Abort(t) PROVE Timing'
    <2>1. UNCHANGED <<leases, idle>>
        BY <1>2 DEF Abort
    <2>2. PICK c \in CallT : Moves(t, c) /\ c.mode = call[t].mode /\ c.at = call[t].at
        BY <1>2, AbortMoves DEF Keeps
    <2>3. c.at = "ready" \/ c.mode \in {"retry", "relaunch"} => idle' = FALSE
        BY <2>1, <2>2 DEF Timing
    <2> QED
        BY <2>1, <2>2, <2>3, TimingKept
<1>3. ASSUME NEW t \in Turn, StartStream(t) PROVE Timing'
    <2>1. call[t].at = "ready" /\ call[t].mode = "none"
        BY <1>3 DEF StartStream, Staged, Phase
    <2>2. ASSUME call' = [call EXCEPT ![t].at = "streaming"], leases' = leases + 1, idle' = FALSE,
                 \A u \in Turn : call[u].at # "streaming"
          PROVE  Timing'
        <3>1. PICK c \in CallT : Moves(t, c) /\ c.at = "streaming"
            BY <2>1, <2>2, StartStreamMoves
        <3>2. \A u \in Turn : call'[u].at = "streaming" <=> u = t
            BY <2>2, <3>1 DEF Moves
        <3>3. leases = 0
            BY <2>2 DEF Timing
        <3> QED
            BY <2>2, <3>2, <3>3 DEF Timing
    <2>3. ASSUME call' = [call EXCEPT ![t] = [NoCall EXCEPT !.at = "done"]], UNCHANGED <<leases, idle>>
          PROVE  Timing'
        <3>1. PICK c \in CallT : Moves(t, c) /\ c.mode = "none" /\ c.at = "done"
            BY <2>3, OverMoves DEF Plain
        <3> QED
            BY <2>1, <2>3, <3>1, TimingKept
    <2> QED
        BY <1>3, <2>2, <2>3, Zenon DEF StartStream
<1>4. ASSUME NEW t \in Turn, EndStream(t) PROVE Timing'
    <2>1. /\ call[t].at = "streaming" /\ idle' = idle
          /\ leases' = (IF leases > 0 THEN leases - 1 ELSE 0)
          /\ call' = [call EXCEPT ![t] = [NoCall EXCEPT !.at = "done"]]
        BY <1>4 DEF EndStream
    <2>2. PICK c \in CallT : Moves(t, c) /\ c.mode = "none" /\ c.at = "done"
        BY <2>1, OverMoves DEF Plain
    <2>3. leases = 1 /\ leases' = 0
        BY <2>1 DEF Timing
    <2>4. \A u \in Turn : call'[u].at # "streaming"
        BY <2>1, <2>2 DEF Timing, Moves
    <2>5. \A u \in Turn : call'[u].at = "ready" \/ call'[u].mode \in {"retry", "relaunch"} => idle' = FALSE
        BY <2>1, <2>2 DEF Timing, Moves
    <2> QED
        BY <2>3, <2>4, <2>5 DEF Timing
<1>5. ASSUME NEW t \in Turn, CacheHit(t) \/ Defer(t) \/ Relaunch(t) PROVE Timing'
    <2>1. call[t].at = "config" /\ leases' = leases /\ idle' = FALSE
        BY <1>5 DEF CacheHit, Defer, Relaunch
    <2>2. PICK c \in CallT : Moves(t, c) /\ c.at # "streaming"
        BY <1>5, HitDoes, DeferDoes, RelaunchDoes
    <2> QED
        BY <2>1, <2>2, TimingKept
<1>6. ASSUME NEW t \in Turn, Restart(t) PROVE Timing'
    <2>1. call[t].at = "config" /\ UNCHANGED <<leases, idle>>
        BY <1>6 DEF Restart
    <2>2. PICK c \in CallT : Moves(t, c) /\ c.at = "stopping" /\ c.mode = "restart"
        BY <1>6, RestartDoes
    <2> QED
        BY <2>1, <2>2, TimingKept
<1>7. ASSUME NEW t \in Turn, Close(t) PROVE Timing'
    <2>1. UNCHANGED <<leases, idle>>
        BY <1>7 DEF Close
    <2>2. PICK c \in CallT : Moves(t, c) /\ c.at = call[t].at /\ c.mode = call[t].mode
        BY <1>7, CloseDoes
    <2>3. c.at = "ready" \/ c.mode \in {"retry", "relaunch"} => idle' = FALSE
        BY <2>1, <2>2 DEF Timing
    <2> QED
        BY <2>1, <2>2, <2>3, TimingKept
<1>8. ASSUME NEW t \in Turn, Closed(t) PROVE Timing'
    <2>1. UNCHANGED <<leases, idle>> /\ call[t].at \in {"stopping", "discarding"}
        BY <1>8 DEF Closed
    <2>2. PICK c \in CallT : Moves(t, c) /\ c.at \in {"starting", "config"} /\ c.mode = call[t].mode
        BY <1>8, ClosedMoves DEF Keeps
    <2>3. c.at = "ready" \/ c.mode \in {"retry", "relaunch"} => idle' = FALSE
        BY <2>1, <2>2 DEF Timing
    <2> QED
        BY <2>1, <2>2, <2>3, TimingKept
<1>9. ASSUME NEW t \in Turn, StartServer(t) PROVE Timing'
    <2>1. UNCHANGED <<leases, idle>>
        BY <1>9 DEF StartServer
    <2>2. PICK c \in CallT : Moves(t, c) /\ c.at = call[t].at /\ c.mode = call[t].mode
        BY <1>9, StartMoves DEF Tries
    <2>3. c.at = "ready" \/ c.mode \in {"retry", "relaunch"} => idle' = FALSE
        BY <2>1, <2>2 DEF Timing
    <2> QED
        BY <2>1, <2>2, <2>3, TimingKept
<1>10. ASSUME NEW t \in Turn, EndRetry(t) \/ EndRelaunch(t) PROVE Timing'
    <2>1. UNCHANGED <<leases, idle>> /\ call[t].at = "starting" /\ call[t].mode \in {"retry", "relaunch"}
        BY <1>10 DEF EndRetry, EndRelaunch, Started
    <2>2. idle' = FALSE
        BY <2>1 DEF Timing
    <2>3. PICK c \in CallT : Moves(t, c) /\ c.at # "streaming"
        BY <1>10, EndRetryDoes, EndRelaunchDoes
    <2> QED
        BY <2>1, <2>2, <2>3, TimingKept
<1>11. ASSUME NEW t \in Turn, EndRestart(t) PROVE Timing'
    <2>1. leases' = leases /\ idle' = FALSE /\ call[t].at = "starting"
        BY <1>11 DEF EndRestart, Started
    <2>2. PICK c \in CallT : Moves(t, c) /\ c.at = "ready"
        BY <1>11, EndRestartDoes
    <2> QED
        BY <2>1, <2>2, TimingKept
<1>12. CASE CleanupIdleServers \/ CloseIdle \/ Configure \/ Die \/ UNCHANGED mcpVars
    <2>1. UNCHANGED <<call, leases, idle>>
        BY <1>12, Zenon DEF CleanupIdleServers, CloseIdle, Configure, Die, mcpVars
    <2> QED
        BY <2>1 DEF Timing
<1>13. CASE TimePasses
    <2>1. UNCHANGED <<call, leases>> /\ Preparing = {}
        BY <1>13, Zenon DEF TimePasses
    <2>2. \A u \in Turn : call[u].at # "ready" /\ call[u].mode \notin {"retry", "relaunch"}
        BY <2>1 DEF Preparing, Staged, Phase
    <2> QED
        BY <2>1, <2>2 DEF Timing
<1> QED
    BY <1>1, <1>2, <1>3, <1>4, <1>5, <1>6, <1>7, <1>8, <1>9, <1>10, <1>11, <1>12, <1>13
       DEF Next, TurnStep

\* a step of t keeps it if c, what its call becomes, fits with the others
LEMMA CoreMoves ==
    ASSUME Typed, Core, NEW t \in Turn, NEW c \in CallT, Moves(t, c), CacheInv', One(c)',
           \A i \in Instances' \ dead' :
              \/ i \in Cache' \cup closing' \/ i \in c.got \cup c.close
              \/ \E u \in Turn \ {t} : i \in call[u].got \cup call[u].close,
           \A d \in CallT : (\E u \in Turn \ {t} : call[u] = d) => One(d)' /\ Two(c, d)' /\ Two(d, c)',
           \A d, e \in CallT : (\E u, v \in Turn \ {t} : u # v /\ call[u] = d /\ call[v] = e) => Two(d, e)'
    PROVE  Core'
<1>1. call'[t] = c /\ \A u \in Turn \ {t} : call'[u] = call[u] /\ call[u] \in CallT
    BY DEF Moves, Typed
<1>2. NoneLost'
    BY <1>1 DEF NoneLost
<1>3. ASSUME NEW u \in Turn PROVE One(call[u])'
    <2>1. PICK d : d = call'[u]
        OBVIOUS
    <2>2. One(d)'
        BY <1>1, <2>1
    <2> QED
        BY <2>1, <2>2
<1>4. ASSUME NEW u \in Turn, NEW v \in Turn, u # v PROVE Two(call[u], call[v])'
    <2>1. PICK d : d = call'[u]
        OBVIOUS
    <2>2. PICK e : e = call'[v]
        OBVIOUS
    <2>3. Two(d, e)'
        BY <1>1, <1>4, <2>1, <2>2
    <2> QED
        BY <2>1, <2>2, <2>3
<1> QED
    BY <1>2, <1>3, <1>4 DEF Core

\* what is known of two calls of Core
LEMMA CoreOf ==
    ASSUME Core, Staged, Typed, Known, NEW t \in Turn
    PROVE  /\ One(call[t]) /\ Phase(call[t]) /\ Sorted(call[t])
           /\ \A d \in CallT : (\E u \in Turn \ {t} : call[u] = d) =>
                 /\ One(d) /\ Two(call[t], d) /\ Two(d, call[t]) /\ Phase(d) /\ Sorted(d)
                 /\ d.got \cup d.close \cup d.tools \subseteq Instances
                 /\ d.mode \in {"retry", "relaunch"} => d.entry \in 1..Len(entries)
           /\ \A d, e \in CallT : (\E u, v \in Turn \ {t} : u # v /\ call[u] = d /\ call[v] = e) =>
                 Two(d, e)
<1>1. DOMAIN entries = 1..Len(entries)
    BY DEF Typed
<1> QED
    BY <1>1 DEF Core, Staged, Known

\* what moves nothing between calls and cache
Same(c, d) ==
    /\ d.mode = c.mode /\ d.got = c.got /\ d.close = c.close /\ d.todo = c.todo /\ d.late = c.late
    /\ c.mode # "none" => d.entry = c.entry /\ d.asked = c.asked
    /\ Uses(d) => Uses(c) /\ d.tools = c.tools

LEMMA CoreQuiet ==
    ASSUME Typed, Known, Staged, Core,
           UNCHANGED <<entries, current, name, stopped, closing>>, dead \subseteq dead',
           call' \in [Turn -> CallT], \A u \in Turn : Same(call[u], call'[u])
    PROVE  Core'
<1>1. Cache' = Cache /\ \A S : Names(S)' = Names(S)
    BY DEF Cache, Names
<1>2. CacheInv'
    BY <1>1 DEF Core, CacheInv
<1>3. NoneLost'
    BY <1>1 DEF Core, NoneLost, Instances, Same
<1>4. ASSUME NEW c \in CallT, NEW d \in CallT, Same(c, d), One(c) PROVE One(d)'
    BY <1>1, <1>4 DEF One, Same, Uses, Retries, Named
<1>5. ASSUME NEW c \in CallT, NEW d \in CallT, NEW c2 \in CallT, NEW d2 \in CallT,
             Same(c, d), Same(c2, d2), Two(c, c2)
      PROVE  Two(d, d2)'
    BY <1>1, <1>5 DEF Two, Same, Uses, Retries, Named, Resets
<1>6. ASSUME NEW u \in Turn PROVE One(call[u])'
    <2>1. PICK d \in CallT : d = call'[u]
        OBVIOUS
    <2>2. One(d)'
        BY <1>4, <2>1 DEF Core, Typed
    <2> QED
        BY <2>1, <2>2
<1>7. ASSUME NEW u \in Turn, NEW v \in Turn, u # v PROVE Two(call[u], call[v])'
    <2>1. PICK d \in CallT : d = call'[u]
        OBVIOUS
    <2>2. PICK e \in CallT : e = call'[v]
        OBVIOUS
    <2>3. Two(d, e)'
        BY <1>5, <1>7, <2>1, <2>2 DEF Core, Typed
    <2> QED
        BY <2>1, <2>2, <2>3
<1> QED
    BY <1>2, <1>3, <1>6, <1>7 DEF Core

\* the tools of the cache are given to a call
LEMMA CoreGiven ==
    ASSUME Typed, Known, Staged, Core, NEW t \in Turn, NEW c \in CallT, call[t].at = "config",
           Moves(t, c), Plain(c), c.at = "ready", c.tools \subseteq Cache,
           current # 0, entries'[current].instances = entries[current].instances,
           entries'[current].timedOut \subseteq entries[current].timedOut,
           entries'[current].retrying = entries[current].retrying,
           UNCHANGED <<current, name, dead, stopped, closing>>
    PROVE  Core'
<1>1. Cache' = Cache /\ \A S : Names(S)' = Names(S)
    BY DEF Cache, Names
<1>2. PICK b \in CallT : b = call[t]
    BY DEF Typed
<1>3. CacheInv'
    BY <1>1 DEF Core, CacheInv
<1>4. One(c)'
    BY <1>1 DEF One, Plain, Retries, Core, CacheInv, Uses
<1>5. b.got = {} /\ b.close = {}
    BY <1>2 DEF Staged, Phase, Ends
<1>6. \A i \in Instances' \ dead' :
         \/ i \in Cache' \cup closing' \/ i \in c.got \cup c.close
         \/ \E u \in Turn \ {t} : i \in call[u].got \cup call[u].close
    BY <1>1, <1>2, <1>5 DEF Core, NoneLost, Instances
<1>7. ASSUME NEW d \in CallT, \E u \in Turn \ {t} : call[u] = d
      PROVE  One(d)' /\ Two(c, d)' /\ Two(d, c)'
    <2>1. One(d)
        BY <1>7, CoreOf
    <2>2. One(d)'
        BY <1>1, <2>1 DEF One, Retries, Named, Uses
    <2>3. Two(c, d)'
        BY <2>1 DEF Two, One, Plain, Uses, Retries, Resets
    <2>4. Two(d, c)'
        BY DEF Two, Plain, Retries, Resets
    <2> QED
        BY <2>2, <2>3, <2>4
<1>8. ASSUME NEW d \in CallT, NEW e \in CallT,
             \E u, v \in Turn \ {t} : u # v /\ call[u] = d /\ call[v] = e
      PROVE  Two(d, e)'
    <2>1. Two(d, e)
        BY <1>8, CoreOf
    <2> QED
        BY <1>1, <2>1 DEF Two, Retries, Named
<1> QED
    BY <1>3, <1>4, <1>6, <1>7, <1>8, CoreMoves

\* servers that timed out are tried again
LEMMA CoreRetry ==
    ASSUME Typed, Known, Staged, Core, NEW t \in Turn, NEW c \in CallT, NEW d \in EntryT,
           call[t].at = "config", current # 0,
           Moves(t, c), Begins(call[t], c), c.at = "starting", c.mode = "retry",
           c.entry = current, c.todo = c.asked, c.close = call[t].close,
           c.asked \subseteq entries[current].timedOut,
           c.asked \cap (Names(Cache) \cup entries[current].retrying) = {},
           entries'[current] = d, d.instances = entries[current].instances,
           d.timedOut = entries[current].timedOut, d.retrying = entries[current].retrying \cup c.asked,
           UNCHANGED <<current, name, dead, stopped, closing>>
    PROVE  Core'
<1>1. Cache' = Cache /\ \A S : Names(S)' = Names(S)
    BY DEF Cache, Names
<1>2. c.got = {} /\ c.close = {} /\ c.late = {} /\ c.tools = {} /\ call[t].got = {} /\ call[t].close = {}
    BY DEF Staged, Phase, Ends, Begins
<1>3. CacheInv'
    BY <1>1 DEF Core, CacheInv
<1>4. One(c)'
    BY <1>1, <1>2 DEF One, Retries, Uses
<1>5. \A i \in Instances' \ dead' :
         \/ i \in Cache' \cup closing' \/ i \in c.got \cup c.close
         \/ \E u \in Turn \ {t} : i \in call[u].got \cup call[u].close
    BY <1>1, <1>2 DEF Core, NoneLost, Instances
<1>6. ASSUME NEW x \in CallT, \E u \in Turn \ {t} : call[u] = x
      PROVE  One(x)' /\ Two(c, x)' /\ Two(x, c)'
    <2>1. One(x)
        BY <1>6, CoreOf
    <2>2. One(x)'
        BY <1>1, <2>1 DEF One, Retries, Named, Uses
    <2>3. Retries(x) => c.asked \cap x.asked = {}
        BY <2>1 DEF One
    <2>4. Two(c, x)'
        BY <1>2, <2>3 DEF Two, Uses, Retries, Resets
    <2>5. x.mode = "relaunch" => Named(x) \cap c.asked = {}
        BY <2>1 DEF One
    <2>6. Two(x, c)'
        BY <1>1, <1>2, <2>3, <2>5 DEF Two, Named, Retries, Resets
    <2> QED
        BY <2>2, <2>4, <2>6
<1>7. ASSUME NEW x \in CallT, NEW y \in CallT,
             \E u, v \in Turn \ {t} : u # v /\ call[u] = x /\ call[v] = y
      PROVE  Two(x, y)'
    <2>1. Two(x, y)
        BY <1>7, CoreOf
    <2> QED
        BY <1>1, <2>1 DEF Two, Retries, Named
<1> QED
    BY <1>3, <1>4, <1>5, <1>6, <1>7, CoreMoves

\* servers of the cache that died are to be started again
LEMMA CoreRelaunch ==
    ASSUME Typed, Known, Staged, Core, NEW t \in Turn, NEW c \in CallT,
           call[t].at = "config", current # 0,
           Moves(t, c), Begins(call[t], c), c.at = "stopping", c.mode = "relaunch",
           c.entry = current, c.close = Cache \cap dead, c.todo \subseteq Names(c.close),
           \A u \in Turn \ {t} : call[u].mode \notin Resets,
           UNCHANGED <<entries, current, name, dead, stopped, closing>>
    PROVE  Core'
<1>1. Cache' = Cache /\ \A S : Names(S)' = Names(S)
    BY DEF Cache, Names
<1>2. c.got = {} /\ c.late = {} /\ c.tools = {} /\ call[t].got = {} /\ call[t].close = {}
    BY DEF Staged, Phase, Ends, Begins
<1>3. CacheInv /\ CacheInv'
    BY <1>1 DEF Core, CacheInv
<1>4. Named(c) = c.todo /\ Names(c.close) \subseteq Names(Cache)
    BY <1>2 DEF Named, Names
<1>5. One(c)'
    <2>1. c.todo \cap entries[current].timedOut = {}
        BY <1>3, <1>4 DEF CacheInv
    <2>2. Named(c)' = c.todo /\ Names(c.got)' = {} /\ Names(c.close)' = Names(c.close)
        BY <1>1, <1>2 DEF Named, Names
    <2> QED
        BY <1>1, <1>2, <2>1, <2>2 DEF One, Retries, Uses
<1>6. \A i \in Instances' \ dead' :
         \/ i \in Cache' \cup closing' \/ i \in c.got \cup c.close
         \/ \E u \in Turn \ {t} : i \in call[u].got \cup call[u].close
    BY <1>1, <1>2 DEF Core, NoneLost, Instances
<1>7. ASSUME NEW x \in CallT, \E u \in Turn \ {t} : call[u] = x
      PROVE  One(x)' /\ Two(c, x)' /\ Two(x, c)'
    <2>1. One(x) /\ x.mode \notin Resets
        BY <1>7, CoreOf
    <2>2. One(x)'
        BY <1>1, <2>1 DEF One, Retries, Named, Uses
    <2>3. Retries(x) => Named(c) \cap x.asked = {}
        BY <1>4, <2>1 DEF One
    <2>4. Two(c, x)'
        BY <1>1, <1>2, <2>1, <2>3 DEF Two, Uses, Retries, Named
    <2>5. Two(x, c)'
        BY <1>2, <2>1 DEF Two, Retries, One, Uses, Resets
    <2> QED
        BY <2>2, <2>4, <2>5
<1>8. ASSUME NEW x \in CallT, NEW y \in CallT,
             \E u, v \in Turn \ {t} : u # v /\ call[u] = x /\ call[v] = y
      PROVE  Two(x, y)'
    <2>1. Two(x, y)
        BY <1>8, CoreOf
    <2> QED
        BY <1>1, <2>1 DEF Two, Retries, Named
<1> QED
    BY <1>3, <1>5, <1>6, <1>7, <1>8, CoreMoves

\* the cache is emptied, and a call closes what it held
LEMMA CoreRestart ==
    ASSUME Typed, Known, Staged, Core, NEW t \in Turn, NEW c \in CallT, call[t].at = "config",
           Moves(t, c), Begins(call[t], c), c.at = "stopping", c.mode = "restart", c.close = Cache,
           \A u \in Turn \ {t} : call[u].mode \notin Resets,
           current # 0 => \A u \in Turn \ {t} : ~ Uses(call[u]),
           current' = 0, UNCHANGED <<entries, name, dead, stopped, closing>>
    PROVE  Core'
<1>1. Cache' = {} /\ \A S : Names(S)' = Names(S)
    BY DEF Cache, Names
<1>2. c.got = {} /\ c.late = {} /\ c.tools = {} /\ call[t].got = {} /\ call[t].close = {}
    BY DEF Staged, Phase, Ends, Begins
<1>3. CacheInv'
    BY <1>1 DEF CacheInv
<1>4. One(c)'
    BY <1>1, <1>2 DEF One, Retries, Uses
<1>5. \A i \in Instances' \ dead' :
         \/ i \in Cache' \cup closing' \/ i \in c.got \cup c.close
         \/ \E u \in Turn \ {t} : i \in call[u].got \cup call[u].close
    BY <1>1, <1>2 DEF Core, NoneLost, Instances
<1>6. ASSUME NEW x \in CallT, \E u \in Turn \ {t} : call[u] = x
      PROVE  One(x)' /\ Two(c, x)' /\ Two(x, c)'
    <2>1. One(x) /\ x.mode \notin Resets
        BY <1>6, CoreOf
    <2>2. One(x)'
        BY <1>1, <2>1 DEF One, Retries, Uses, Resets
    <2>3. Two(c, x)'
        BY <1>2, <2>1 DEF Two, Uses, Retries, Resets
    <2>4. Uses(x) => Cache = {}
        BY <1>6 DEF Cache
    <2>5. Two(x, c)'
        BY <1>2, <2>1, <2>4 DEF Two, Retries, One, Uses, Resets
    <2> QED
        BY <2>2, <2>3, <2>5
<1>7. ASSUME NEW x \in CallT, NEW y \in CallT,
             \E u, v \in Turn \ {t} : u # v /\ call[u] = x /\ call[v] = y
      PROVE  Two(x, y)'
    <2>1. Two(x, y) /\ x.mode \notin Resets
        BY <1>7, CoreOf
    <2> QED
        BY <1>1, <2>1 DEF Two, Retries, Resets
<1> QED
    BY <1>3, <1>4, <1>5, <1>6, <1>7, CoreMoves

\* a relaunch closes a server that died in the cache
LEMMA CoreCloseDead ==
    ASSUME Typed, Known, Staged, Core, NEW t \in Turn, NEW c \in CallT, NEW i \in call[t].close,
           NEW d \in EntryT, NEW gone, call[t].mode = "relaunch",
           Moves(t, c), c.mode = call[t].mode, c.at = call[t].at, c.close = call[t].close \ {i},
           c.todo = call[t].todo, c.got = call[t].got, c.late = call[t].late,
           c.tools = call[t].tools, c.entry = call[t].entry, c.asked = call[t].asked,
           entries'[call[t].entry] = d, gone = Of(entries[call[t].entry].instances, {name[i]}),
           d.instances = entries[call[t].entry].instances \ gone,
           d.timedOut = entries[call[t].entry].timedOut,
           d.retrying = entries[call[t].entry].retrying,
           dead' = dead \cup gone, stopped' = stopped \cup (gone \ dead),
           UNCHANGED <<current, name, closing>>
    PROVE  Core'
<1>1. PICK b \in CallT : b = call[t]
    BY DEF Typed
<1>2. /\ One(b) /\ Phase(b) /\ current # 0 /\ b.entry = current /\ b.close \subseteq Cache \cap dead
      /\ i \in b.close /\ CacheInv /\ \A S : Names(S)' = Names(S)
    <2>1. One(b) /\ Phase(b) /\ CacheInv
        BY <1>1, CoreOf DEF Core
    <2>2. \A S : Names(S)' = Names(S)
        BY DEF Names
    <2> QED
        BY <1>1, <2>1, <2>2 DEF One
<1>3. gone = {i}
    BY <1>1, <1>2 DEF CacheInv, Of, Cache
<1>4. Cache' = Cache \ {i} /\ dead' = dead /\ stopped' = stopped
    BY <1>1, <1>2, <1>3 DEF Cache
<1>5. Names(Cache') \subseteq Names(Cache)
    BY <1>4 DEF Names
<1>6. CacheInv'
    BY <1>1, <1>2, <1>4, <1>5 DEF CacheInv
<1>7. One(c)'
    <2>1. c.todo \cap Names(Cache') \subseteq Names(c.close)
        BY <1>1, <1>2, <1>4 DEF One, CacheInv, Names
    <2>2. Named(c)' = Named(b)
        BY <1>1, <1>2 DEF Named
    <2> QED
        BY <1>1, <1>2, <1>4, <1>5, <2>1, <2>2 DEF One, Retries, Uses
<1>8. \A j \in Instances' \ dead' :
         \/ j \in Cache' \cup closing' \/ j \in c.got \cup c.close
         \/ \E u \in Turn \ {t} : j \in call[u].got \cup call[u].close
    BY <1>1, <1>2, <1>4 DEF Core, NoneLost, Instances
<1>9. ASSUME NEW x \in CallT, \E u \in Turn \ {t} : call[u] = x
      PROVE  One(x)' /\ Two(c, x)' /\ Two(x, c)'
    <2>1. One(x) /\ Two(b, x) /\ Two(x, b)
        BY <1>1, <1>9, CoreOf
    <2>2. x.mode # "relaunch"
        BY <1>1, <2>1 DEF Two, Resets
    <2>3. One(x)'
        BY <1>1, <1>2, <1>4, <1>5, <2>1, <2>2 DEF One, Retries, Uses
    <2>4. Named(c)' = Named(b)
        BY <1>1, <1>2 DEF Named
    <2>5. Two(c, x)'
        BY <1>1, <1>2, <1>4, <2>1, <2>4 DEF Two, Retries, Uses
    <2>6. Two(x, c)'
        BY <1>1, <1>2, <1>4, <2>1, <2>2 DEF Two, Retries, Uses
    <2> QED
        BY <2>3, <2>5, <2>6
<1>10. ASSUME NEW x \in CallT, NEW y \in CallT,
              \E u, v \in Turn \ {t} : u # v /\ call[u] = x /\ call[v] = y
       PROVE  Two(x, y)'
    <2>1. Two(x, y)
        BY <1>10, CoreOf
    <2> QED
        BY <1>2, <2>1 DEF Two, Retries, Named
<1> QED
    BY <1>6, <1>7, <1>8, <1>9, <1>10, CoreMoves

\* a call closes a server that it took out or could not use
LEMMA CoreCloseTaken ==
    ASSUME Typed, Known, Staged, Core, NEW t \in Turn, NEW c \in CallT, NEW i \in call[t].close,
           call[t].mode # "relaunch", call[t].at \in {"stopping", "discarding"},
           Moves(t, c), c.mode = call[t].mode, c.at = call[t].at, c.close = call[t].close \ {i},
           c.todo = call[t].todo, c.got = call[t].got, c.late = call[t].late,
           c.tools = call[t].tools, c.entry = call[t].entry, c.asked = call[t].asked,
           dead' = dead \cup {i}, stopped' = stopped \cup ({i} \ dead),
           UNCHANGED <<entries, current, name, closing>>
    PROVE  Core'
<1>1. PICK b \in CallT : b = call[t]
    BY DEF Typed
<1>2. /\ One(b) /\ Phase(b) /\ i \in b.close /\ CacheInv
      /\ Cache' = Cache /\ \A S : Names(S)' = Names(S)
    BY <1>1, CoreOf DEF Core, Names, Cache
<1>3. b.got = {} /\ i \notin Cache /\ ~ Uses(b) /\ b.mode # "retry"
    BY <1>1, <1>2 DEF One, Phase, Ends, Resets, Uses
<1>4. CacheInv'
    BY <1>2, <1>3 DEF CacheInv
<1>5. One(c)'
    BY <1>1, <1>2, <1>3 DEF One, Retries, Uses
<1>6. \A j \in Instances' \ dead' :
         \/ j \in Cache' \cup closing' \/ j \in c.got \cup c.close
         \/ \E u \in Turn \ {t} : j \in call[u].got \cup call[u].close
    BY <1>1, <1>2 DEF Core, NoneLost, Instances
<1>7. ASSUME NEW x \in CallT, \E u \in Turn \ {t} : call[u] = x
      PROVE  One(x)' /\ Two(c, x)' /\ Two(x, c)'
    <2>1. One(x) /\ Two(b, x) /\ Two(x, b)
        BY <1>1, <1>7, CoreOf
    <2>2. i \notin x.got /\ (Uses(x) => i \notin x.tools)
        BY <1>1, <1>2, <2>1 DEF Two
    <2>3. One(x)'
        BY <1>2, <2>1, <2>2 DEF One, Retries, Uses, Named
    <2>4. Two(c, x)'
        BY <1>1, <1>2, <1>3, <2>1 DEF Two, Retries, Uses, Named
    <2>5. Two(x, c)'
        BY <1>1, <1>2, <1>3, <2>1 DEF Two, Retries, Uses, Named
    <2> QED
        BY <2>3, <2>4, <2>5
<1>8. ASSUME NEW x \in CallT, NEW y \in CallT,
              \E u, v \in Turn \ {t} : u # v /\ call[u] = x /\ call[v] = y
       PROVE  Two(x, y)'
    <2>1. Two(x, y)
        BY <1>8, CoreOf
    <2> QED
        BY <1>2, <2>1 DEF Two, Retries, Named
<1> QED
    BY <1>4, <1>5, <1>6, <1>7, <1>8, CoreMoves

\* a server has started, or could not be
LEMMA CoreStart ==
    ASSUME Typed, Known, Staged, Core, NEW t \in Turn, NEW c \in CallT, NEW s \in call[t].todo,
           call[t].at = "starting", Moves(t, c), Tries(call[t], c, s),
           \/ name' = Append(name, s) /\ c.got = call[t].got \cup {Len(name) + 1} /\ c.late = call[t].late
           \/ /\ name' = name /\ c.got = call[t].got
              /\ c.late = call[t].late \/ c.late = call[t].late \cup {s},
           UNCHANGED <<entries, current, dead, stopped, closing>>
    PROVE  Core'
<1>1. PICK b \in CallT : b = call[t]
    BY DEF Typed
<1>2. /\ One(b) /\ Phase(b) /\ CacheInv /\ Cache' = Cache /\ b.close = {} /\ ~ Uses(b) /\ s \in Server
      /\ b.got \subseteq Instances /\ s \in b.todo
    BY <1>1, CoreOf DEF Core, Cache, Phase, Uses, CallT, Known
<1>3. /\ Cache \subseteq Instances /\ stopped \cup closing \subseteq Instances
    BY Cached DEF Known, Cache, Typed
<1>4. \A i \in Instances : name'[i] = name[i]
    BY <1>2 DEF Typed, Instances
<1>5. \A S : S \subseteq Instances => Names(S)' = Names(S)
    BY <1>4 DEF Names
<1>6. Names(Cache)' = Names(Cache) /\ Names(b.got)' = Names(b.got) /\ c.close = {} /\ Names(c.close)' = {}
    BY <1>1, <1>2, <1>3, <1>5 DEF Tries, Names
<1>7. PICK n : n = Len(name) + 1
    OBVIOUS
<1>8. n \notin Instances /\ (c.got # b.got => name'[n] = s /\ Instances' = Instances \cup {n})
    BY <1>1, <1>2, <1>7 DEF Instances, Typed
<1>9. c.got = b.got \/ c.got = b.got \cup {n}
    BY <1>1, <1>7
<1>10. Names(c.got)' \subseteq Names(b.got) \cup {s}
    BY <1>6, <1>8, <1>9 DEF Names
<1>11. c.late \subseteq b.late \cup {s} /\ c.todo = b.todo \ {s} /\ c.mode = b.mode /\ c.asked = b.asked
       /\ c.entry = b.entry /\ c.at = b.at
    BY <1>1 DEF Tries
<1>12. Named(c)' \subseteq Named(b)
    BY <1>2, <1>10, <1>11 DEF Named
<1>13. CacheInv'
    BY <1>2, <1>3, <1>4, <1>6 DEF CacheInv
<1>14. One(c)'
    <2>1. b.mode = "relaunch" => s \notin Names(Cache)
        BY <1>2 DEF One, Names
    <2>2. c.mode = "relaunch" =>
            /\ (Names(c.got)' \cup c.late) \cap Names(Cache) = {}
            /\ c.todo \cap Names(Cache) = {} /\ Named(c)' \cap entries[current].timedOut = {}
        BY <1>2, <1>10, <1>11, <1>12, <2>1 DEF One, Names
    <2>3. c.got \cap (Cache \cup stopped \cup closing) = {}
        BY <1>2, <1>3, <1>8, <1>9 DEF One
    <2> QED
        BY <1>2, <1>6, <1>11, <2>2, <2>3 DEF One, Retries, Uses
<1>15. \A j \in Instances' \ dead' :
          \/ j \in Cache' \cup closing' \/ j \in c.got \cup c.close
          \/ \E u \in Turn \ {t} : j \in call[u].got \cup call[u].close
    <2>1. c.got = b.got => Instances' = Instances
        BY <1>1, <1>2, <1>7, <1>8 DEF Instances, Typed
    <2>2. b.got \subseteq c.got /\ (c.got # b.got => n \in c.got)
        BY <1>9
    <2> QED
        BY <1>1, <1>2, <1>8, <2>1, <2>2 DEF Core, NoneLost
<1>16. ASSUME NEW x \in CallT, \E u \in Turn \ {t} : call[u] = x
       PROVE  One(x)' /\ Two(c, x)' /\ Two(x, c)'
    <2>1. One(x) /\ Two(b, x) /\ Two(x, b) /\ x.got \cup x.close \cup x.tools \subseteq Instances
        BY <1>1, <1>16, CoreOf
    <2>2. Names(x.got)' = Names(x.got) /\ Names(x.close)' = Names(x.close) /\ Named(x)' = Named(x)
        BY <1>5, <2>1 DEF Named
    <2>3. One(x)'
        BY <1>2, <1>6, <2>1, <2>2 DEF One, Retries, Uses
    <2>4. n \notin x.got \cup x.close \cup x.tools
        BY <1>8, <2>1
    <2>5. Two(c, x)'
        BY <1>2, <1>9, <1>11, <1>12, <2>1, <2>4 DEF Two, Retries, Uses
    <2>6. Two(x, c)'
        BY <1>2, <1>6, <1>9, <1>11, <2>1, <2>2, <2>4 DEF Two, Retries, Uses
    <2> QED
        BY <2>3, <2>5, <2>6
<1>17. ASSUME NEW x \in CallT, NEW y \in CallT,
              \E u, v \in Turn \ {t} : u # v /\ call[u] = x /\ call[v] = y
       PROVE  Two(x, y)'
    <2>1. Two(x, y) /\ x.got \subseteq Instances
        BY <1>17, CoreOf
    <2>2. Named(x)' = Named(x)
        BY <1>5, <2>1 DEF Named
    <2> QED
        BY <1>2, <2>1, <2>2 DEF Two, Retries
<1> QED
    BY <1>13, <1>14, <1>15, <1>16, <1>17, CoreMoves

\* what was started for the cached entry joins the cache
LEMMA CoreJoin ==
    ASSUME Typed, Known, Staged, Core, NEW t \in Turn, NEW c \in CallT, NEW d \in EntryT,
           call[t].at = "starting", current # 0, call[t].entry = current,
           Retries(call[t]) \/ call[t].mode = "relaunch",
           Moves(t, c), Plain(c), c.at = "ready", c.tools \subseteq d.instances,
           entries'[current] = d,
           d.instances = Merged(entries[current].instances, call[t].got),
           d.timedOut \cap Names(d.instances) \subseteq call[t].late,
           Retries(call[t]) =>
              /\ d.timedOut \subseteq (entries[current].timedOut \ call[t].asked) \cup call[t].late
              /\ d.retrying = entries[current].retrying \ call[t].asked,
           call[t].mode = "relaunch" =>
              /\ d.timedOut \subseteq entries[current].timedOut \cup call[t].late
              /\ d.retrying = entries[current].retrying,
           UNCHANGED <<current, name, dead, stopped, closing>>
    PROVE  Core'
<1>1. PICK b \in CallT : b = call[t]
    BY DEF Typed
<1>2. One(b) /\ Phase(b) /\ Sorted(b) /\ CacheInv
    BY <1>1, CoreOf DEF Core
<1>3. b.close = {} /\ ~ Uses(b)
    BY <1>1, <1>2 DEF Phase, Uses
<1>4. \A S : Names(S)' = Names(S)
    BY DEF Names
<1>5. Names(b.got) \subseteq Named(b) /\ b.late \subseteq Named(b)
    BY DEF Named
<1>6. Retries(b) => Named(b) \subseteq b.asked
    BY <1>2 DEF Sorted, Named, Retries
<1>7. Names(b.got) \cap Names(Cache) = {} /\ b.late \cap Names(Cache) = {}
    <2>1. CASE Retries(b)
        BY <1>2, <1>5, <1>6, <2>1 DEF One
    <2>2. CASE b.mode = "relaunch"
        BY <1>2, <2>2 DEF One
    <2> QED
        BY <1>1, <2>1, <2>2
<1>8. Cache' = Cache \cup b.got
    <2>1. Cache' = Merged(Cache, b.got)
        BY <1>1 DEF Cache
    <2> QED
        BY <1>7, <2>1 DEF Merged, Names
<1>9. Names(Cache') = Names(Cache) \cup Names(b.got)
    BY <1>8 DEF Names
<1>10. CacheInv'
    <2>1. \A i, j \in Cache' : name[i] = name[j] => i = j
        BY <1>2, <1>7, <1>8 DEF CacheInv, Sorted, Names
    <2>2. d.timedOut \cap Names(Cache') \subseteq b.late
        BY <1>1 DEF Cache
    <2>3. b.late \cap Names(Cache') = {}
        BY <1>2, <1>7, <1>9 DEF Sorted
    <2>4. Cache' \cap (stopped \cup closing) = {}
        BY <1>2, <1>8 DEF CacheInv, One
    <2> QED
        BY <1>4, <2>1, <2>2, <2>3, <2>4 DEF CacheInv
<1>11. c.tools \subseteq Cache' /\ Uses(c) /\ c.mode = "none" /\ c.got = {} /\ c.close = {}
    BY DEF Plain, Cache, Uses
<1>12. One(c)'
    BY <1>2, <1>8, <1>10, <1>11 DEF One, Retries, Uses, CacheInv
<1>13. \A i \in Instances' \ dead' :
         \/ i \in Cache' \cup closing' \/ i \in c.got \cup c.close
         \/ \E u \in Turn \ {t} : i \in call[u].got \cup call[u].close
    BY <1>1, <1>3, <1>8 DEF Core, NoneLost, Instances
<1>14. ASSUME NEW x \in CallT, \E u \in Turn \ {t} : call[u] = x
       PROVE  One(x)' /\ Two(c, x)' /\ Two(x, c)'
    <2>1. One(x) /\ Two(b, x) /\ Two(x, b)
        BY <1>1, <1>14, CoreOf
    <2>2. Named(x)' = Named(x) /\ (Retries(x)' <=> Retries(x))
        BY <1>4 DEF Named, Retries
    <2>3. x.mode = "relaunch" => Retries(b)
        BY <1>1, <2>1 DEF Two, Resets
    <2>4. x.mode = "relaunch" => Named(x) \cap Named(b) = {}
        BY <1>6, <2>1, <2>3 DEF Two
    <2>5. Retries(x) => x.asked \cap Named(b) = {} /\ (Retries(b) => x.asked \cap b.asked = {})
        BY <1>1, <1>6, <2>1 DEF Two
    <2>6. x.mode = "relaunch" =>
            /\ x.close \subseteq Cache' \cap dead
            /\ Named(x) \cap d.timedOut = {}
            /\ (Names(x.got) \cup x.late) \cap Names(Cache') = {}
            /\ x.todo \cap Names(Cache') \subseteq Names(x.close)
        <3> SUFFICES ASSUME x.mode = "relaunch"
                     PROVE  /\ x.close \subseteq Cache' \cap dead
                            /\ Named(x) \cap d.timedOut = {}
                            /\ (Names(x.got) \cup x.late) \cap Names(Cache') = {}
                            /\ x.todo \cap Names(Cache') \subseteq Names(x.close)
            OBVIOUS
        <3>1. d.timedOut \subseteq entries[current].timedOut \cup b.late
            BY <1>1, <2>3
        <3>2. Names(x.got) \cup x.late \cup x.todo \subseteq Named(x)
            BY DEF Named
        <3>3. Named(x) \cap d.timedOut = {}
            BY <1>5, <2>1, <2>4, <3>1 DEF One
        <3> QED
            BY <1>5, <1>8, <1>9, <2>1, <2>4, <3>2, <3>3 DEF One
    <2>7. Retries(x) => x.asked \subseteq d.retrying /\ x.asked \cap Names(Cache') = {}
        BY <1>1, <1>5, <1>9, <2>1, <2>5 DEF One
    <2>8. Cache' \cap x.got = {} /\ (x.mode # "relaunch" => Cache' \cap x.close = {})
        BY <1>8, <2>1 DEF One, Two
    <2>9. One(x)'
        BY <1>4, <2>1, <2>2, <2>6, <2>7, <2>8 DEF One, Uses
    <2>10. Two(c, x)'
        BY <1>11, <2>8 DEF Two, Uses, Retries, Resets
    <2>11. Two(x, c)'
        BY <1>11 DEF Two, Uses, Retries, Resets
    <2> QED
        BY <2>9, <2>10, <2>11
<1>15. ASSUME NEW x \in CallT, NEW y \in CallT,
              \E u, v \in Turn \ {t} : u # v /\ call[u] = x /\ call[v] = y
       PROVE  Two(x, y)'
    <2>1. Two(x, y)
        BY <1>15, CoreOf
    <2> QED
        BY <1>4, <2>1 DEF Two, Retries, Named
<1> QED
    BY <1>10, <1>12, <1>13, <1>14, <1>15, CoreMoves

\* a retry whose entry has been replaced closes what it started
LEMMA CoreDiscard ==
    ASSUME Typed, Known, Staged, Core, NEW t \in Turn, NEW c \in CallT,
           call[t].at = "starting", call[t].mode = "retry", current # call[t].entry,
           Moves(t, c), c.at = "discarding", c.mode = "none", c.close = call[t].got,
           c.got = {}, c.todo = {}, c.late = {}, c.tools = {},
           current # 0 => entries'[current] = entries[current],
           UNCHANGED <<current, name, dead, stopped, closing>>
    PROVE  Core'
<1>1. PICK b \in CallT : b = call[t]
    BY DEF Typed
<1>2. One(b) /\ Phase(b) /\ CacheInv /\ b.close = {}
    BY <1>1, CoreOf DEF Core, Phase
<1>3. Cache' = Cache /\ \A S : Names(S)' = Names(S)
    BY DEF Names, Cache
<1>4. CacheInv'
    BY <1>2, <1>3 DEF CacheInv
<1>5. One(c)'
    BY <1>1, <1>2, <1>3 DEF One, Retries, Uses
<1>6. \A i \in Instances' \ dead' :
         \/ i \in Cache' \cup closing' \/ i \in c.got \cup c.close
         \/ \E u \in Turn \ {t} : i \in call[u].got \cup call[u].close
    BY <1>1, <1>2, <1>3 DEF Core, NoneLost, Instances
<1>7. ASSUME NEW x \in CallT, \E u \in Turn \ {t} : call[u] = x
      PROVE  One(x)' /\ Two(c, x)' /\ Two(x, c)'
    <2>1. One(x) /\ Two(b, x) /\ Two(x, b)
        BY <1>1, <1>7, CoreOf
    <2>2. One(x)'
        BY <1>3, <2>1 DEF One, Retries, Named, Uses
    <2>3. Two(c, x)'
        BY DEF Two, Retries, Uses, Resets
    <2>4. Two(x, c)'
        BY <1>1, <2>1 DEF Two, Retries, Uses, Resets
    <2> QED
        BY <2>2, <2>3, <2>4
<1>8. ASSUME NEW x \in CallT, NEW y \in CallT,
             \E u, v \in Turn \ {t} : u # v /\ call[u] = x /\ call[v] = y
      PROVE  Two(x, y)'
    <2>1. Two(x, y)
        BY <1>8, CoreOf
    <2> QED
        BY <1>3, <2>1 DEF Two, Retries, Named
<1> QED
    BY <1>4, <1>5, <1>6, <1>7, <1>8, CoreMoves

\* a restart puts a new entry in the cache
LEMMA CoreRenew ==
    ASSUME Typed, Known, Staged, Core, NEW t \in Turn, NEW c \in CallT, NEW d \in EntryT,
           call[t].at = "starting", call[t].mode = "restart",
           Moves(t, c), Plain(c), c.at = "ready", c.tools = call[t].got,
           current' = Len(entries) + 1, entries'[Len(entries) + 1] = d,
           d.instances = call[t].got, d.timedOut = call[t].late,
           UNCHANGED <<name, dead, stopped, closing>>
    PROVE  Core'
<1>1. PICK b \in CallT : b = call[t]
    BY DEF Typed
<1>2. One(b) /\ Phase(b) /\ Sorted(b) /\ b.close = {}
    BY <1>1, CoreOf DEF Phase
<1>3. Len(entries) \in Nat
    BY DEF Typed
<1>4. Cache = {} /\ Cache' = b.got /\ current' # 0 /\ \A S : Names(S)' = Names(S)
    BY <1>1, <1>2, <1>3 DEF One, Names, Cache
<1>5. CacheInv'
    BY <1>1, <1>2, <1>4 DEF CacheInv, Sorted, One
<1>6. One(c)'
    BY <1>1, <1>2, <1>4 DEF One, Retries, Uses, Plain
<1>7. \A i \in Instances' \ dead' :
         \/ i \in Cache' \cup closing' \/ i \in c.got \cup c.close
         \/ \E u \in Turn \ {t} : i \in call[u].got \cup call[u].close
    BY <1>1, <1>2, <1>4 DEF Core, NoneLost, Instances
<1>8. ASSUME NEW x \in CallT, \E u \in Turn \ {t} : call[u] = x
      PROVE  One(x)' /\ Two(c, x)' /\ Two(x, c)' /\ x.mode \notin Resets /\ ~ Retries(x)'
    <2>1. /\ One(x) /\ Two(b, x) /\ Two(x, b)
          /\ x.mode \in {"retry", "relaunch"} => x.entry \in 1..Len(entries)
        BY <1>1, <1>8, CoreOf
    <2>2. x.mode \notin Resets
        BY <1>1, <2>1 DEF Two, Resets
    <2>3. ~ Retries(x)'
        BY <1>3, <2>1 DEF Retries
    <2>4. One(x)'
        BY <1>4, <2>1, <2>2, <2>3 DEF One, Uses, Resets, Two
    <2>5. Two(c, x)'
        BY <1>1, <2>1, <2>2, <2>3 DEF Two, Uses, Plain, Resets
    <2>6. Two(x, c)'
        BY <2>2, <2>3 DEF Two, Uses, Plain, Resets
    <2> QED
        BY <2>2, <2>3, <2>4, <2>5, <2>6
<1>9. ASSUME NEW x \in CallT, NEW y \in CallT,
             \E u, v \in Turn \ {t} : u # v /\ call[u] = x /\ call[v] = y
      PROVE  Two(x, y)'
    <2>1. Two(x, y) /\ x.mode \notin Resets /\ ~ Retries(x)' /\ ~ Retries(y)'
        BY <1>8, <1>9, CoreOf
    <2> QED
        BY <2>1 DEF Two, Uses, Resets
<1> QED
    BY <1>5, <1>6, <1>7, <1>8, <1>9, CoreMoves

\* the clean-up takes the servers out, when nobody has been given them
LEMMA CoreCleanup ==
    ASSUME Typed, Known, Staged, Timing, Core, CleanupIdleServers
    PROVE  Core'
<1>1. /\ closing' = closing \cup Cache /\ current' = 0 /\ call' = call
      /\ UNCHANGED <<name, dead, stopped>>
    BY DEF CleanupIdleServers, Cache
<1>2. idle # FALSE
    BY Zenon DEF CleanupIdleServers
<1>3. leases = 0
    <2>1. ~ Leased
        BY Zenon DEF CleanupIdleServers
    <2>2. leases \in Nat
        BY DEF Typed
    <2> QED
        BY <2>1, <2>2 DEF Leased
<1>4. \A u \in Turn : call[u].mode # "relaunch" /\ ~ Uses(call[u])
    <2>1. \A u \in Turn : call[u].at # "streaming"
        BY <1>3 DEF Timing
    <2>2. \A u \in Turn : ~ (call[u].at = "ready" \/ call[u].mode \in {"retry", "relaunch"})
        BY <1>2, Zenon DEF Timing
    <2> QED
        BY <2>1, <2>2 DEF Uses
<1>5. Cache' = {} /\ \A S : Names(S)' = Names(S)
    BY <1>1 DEF Cache, Names
<1>6. CacheInv'
    BY <1>1, <1>5 DEF CacheInv
<1>7. NoneLost'
    BY <1>1, <1>5 DEF Core, NoneLost, Instances
<1>8. ASSUME NEW u \in Turn PROVE One(call[u])'
    <2>1. PICK d : d = call[u]
        OBVIOUS
    <2>2. One(d) /\ d.mode # "relaunch" /\ ~ Uses(d)
        BY <1>4, <2>1 DEF Core
    <2>3. One(d)'
        BY <1>1, <1>5, <2>2 DEF One, Retries, Uses
    <2> QED
        BY <1>1, <2>1, <2>3
<1>9. ASSUME NEW u \in Turn, NEW v \in Turn, u # v PROVE Two(call[u], call[v])'
    <2>1. PICK d : d = call[u]
        OBVIOUS
    <2>2. PICK e : e = call[v]
        OBVIOUS
    <2>3. Two(d, e) /\ d.mode # "relaunch"
        BY <1>4, <1>9, <2>1, <2>2 DEF Core
    <2>4. Two(d, e)'
        BY <1>1, <2>3 DEF Two, Retries, Uses, Resets
    <2> QED
        BY <1>1, <2>1, <2>2, <2>4
<1> QED
    BY <1>6, <1>7, <1>8, <1>9 DEF Core

\* the clean-up closes a server that it took out
LEMMA CoreCloseIdle ==
    ASSUME Typed, Known, Core, CloseIdle
    PROVE  Core'
<1>1. PICK i : i = Min(closing)
    OBVIOUS
<1>2. i \in closing
    BY <1>1, LeastOf DEF CloseIdle, Typed
<1>3. /\ closing' = closing \ {i} /\ dead' = dead \cup {i} /\ stopped' = stopped \cup ({i} \ dead)
      /\ UNCHANGED <<entries, current, name, call>>
    BY <1>1 DEF CloseIdle
<1>4. stopped' \cup closing' \subseteq stopped \cup closing
    BY <1>2, <1>3
<1>5. Cache' = Cache /\ \A S : Names(S)' = Names(S)
    BY <1>3 DEF Cache, Names
<1>6. CacheInv'
    BY <1>3, <1>4, <1>5 DEF Core, CacheInv
<1>7. NoneLost'
    BY <1>3, <1>5 DEF Core, NoneLost, Instances
<1>8. ASSUME NEW u \in Turn PROVE One(call[u])'
    <2>1. PICK d : d = call[u]
        OBVIOUS
    <2>2. One(d)
        BY <2>1 DEF Core
    <2>3. One(d)'
        BY <1>3, <1>4, <1>5, <2>2 DEF One, Retries, Uses, Named
    <2> QED
        BY <1>3, <2>1, <2>3
<1>9. ASSUME NEW u \in Turn, NEW v \in Turn, u # v PROVE Two(call[u], call[v])'
    <2>1. PICK d : d = call[u]
        OBVIOUS
    <2>2. PICK e : e = call[v]
        OBVIOUS
    <2>3. Two(d, e)
        BY <1>9, <2>1, <2>2 DEF Core
    <2>4. Two(d, e)'
        BY <1>3, <1>5, <2>3 DEF Two, Retries, Uses, Named
    <2> QED
        BY <1>3, <2>1, <2>2, <2>4
<1> QED
    BY <1>6, <1>7, <1>8, <1>9 DEF Core

(* Once restarts have crossed, that is remembered.                         *)
LEMMA CrossedStays == Typed /\ [Next]_mcpVars /\ crossed' = FALSE => crossed = FALSE
<1> SUFFICES ASSUME crossed \in BOOLEAN, [Next]_mcpVars, crossed' = FALSE PROVE crossed = FALSE
    BY DEF Typed
<1>1. crossed' = crossed \/ \E t \in Turn : crossed' = Crosses(t)
    BY Zenon DEF Next, TurnStep, Call, Abort, StartStream, EndStream, CacheHit, Defer, Relaunch,
        Restart, Close, Closed, StartServer, EndRetry, EndRelaunch, EndRestart, CleanupIdleServers,
        CloseIdle, TimePasses, Configure, Die, mcpVars
<1>2. ASSUME NEW t \in Turn, crossed' = Crosses(t) PROVE crossed = FALSE
    BY <1>2, Zenon DEF Crosses
<1> QED
    BY <1>1, <1>2

\* a restart that crosses no other
LEMMA NotCrossing ==
    ASSUME Staged, NEW t \in Turn, crossed' = Crosses(t), crossed' = FALSE
    PROVE  \A u \in Turn \ {t} : call[u].mode \notin Resets /\ call[u].at # "ready"
<1>1. ~ Crosses(t)
    BY Zenon
<1>2. \A u \in Preparing \ {t} : call[u].mode \notin Resets /\ call[u].at # "ready"
    BY <1>1 DEF Crosses, Resets
<1> QED
    BY <1>2 DEF Preparing, Staged, Phase, Resets

(* Every step keeps the rest, until restarts cross.                        *)
LEMMA CoreStep ==
    ASSUME Server \subseteq Nat, Typed, Known, Staged, Timing, Core, [Next]_mcpVars, crossed' = FALSE
    PROVE  Core'
<1>1. \A t \in Turn : call[t].at \in {"ready", "done", "idle", "streaming"} =>
         /\ call[t].mode = "none" /\ call[t].close = {}
         /\ call[t].got = {} /\ call[t].todo = {} /\ call[t].late = {}
    BY DEF Staged, Phase, Ends
<1>2. ASSUME NEW t \in Turn, NEW c \in CallT, Moves(t, c), Same(call[t], c),
             UNCHANGED <<entries, current, name, stopped, closing>>, dead \subseteq dead'
      PROVE  Core'
    <2>1. \A u \in Turn : Same(call[u], call'[u])
        BY <1>2 DEF Moves, Same
    <2> QED
        BY <1>2, <2>1, CoreQuiet DEF Moves
<1>3. ASSUME NEW t \in Turn, Call(t) PROVE Core'
    <2>1. call[t].at = "idle" /\ UNCHANGED <<entries, current, name, dead, stopped, closing>>
        BY <1>3 DEF Call
    <2>2. PICK c \in CallT : Moves(t, c) /\ Plain(c) /\ c.at = "config"
        BY <1>3, CallMoves
    <2>3. Same(call[t], c)
        BY <1>1, <2>1, <2>2 DEF Same, Plain, Uses
    <2> QED
        BY <1>2, <2>1, <2>2, <2>3
<1>4. ASSUME NEW t \in Turn, Abort(t) PROVE Core'
    <2>1. UNCHANGED <<entries, current, name, dead, stopped, closing>>
        BY <1>4 DEF Abort
    <2>2. PICK c \in CallT : Moves(t, c) /\ Keeps(call[t], c) /\ c.at = call[t].at
        BY <1>4, AbortMoves
    <2>3. Same(call[t], c)
        BY <2>2 DEF Same, Keeps, Uses
    <2> QED
        BY <1>2, <2>1, <2>2, <2>3
<1>5. ASSUME NEW t \in Turn, call[t].at \in {"ready", "streaming"},
             call' = [call EXCEPT ![t] = [NoCall EXCEPT !.at = "done"]],
             UNCHANGED <<entries, current, name, dead, stopped, closing>>
      PROVE  Core'
    <2>1. PICK c \in CallT : Moves(t, c) /\ Plain(c) /\ c.at = "done"
        BY <1>5, OverMoves
    <2>2. Same(call[t], c)
        BY <1>1, <1>5, <2>1 DEF Same, Plain, Uses
    <2> QED
        BY <1>2, <1>5, <2>1, <2>2
<1>6. ASSUME NEW t \in Turn, StartStream(t) PROVE Core'
    <2>1. call[t].at = "ready" /\ UNCHANGED <<entries, current, name, dead, stopped, closing>>
        BY <1>6 DEF StartStream
    <2>2. CASE call' = [call EXCEPT ![t].at = "streaming"]
        <3>1. PICK c \in CallT : Moves(t, c) /\ Keeps(call[t], c) /\ c.at = "streaming"
            BY <2>1, <2>2, StartStreamMoves
        <3>2. Same(call[t], c)
            BY <2>1, <3>1 DEF Same, Keeps, Uses
        <3> QED
            BY <1>2, <2>1, <3>1, <3>2
    <2> QED
        BY <1>5, <1>6, <2>1, <2>2 DEF StartStream
<1>7. ASSUME NEW t \in Turn, EndStream(t) PROVE Core'
    <2>1. /\ call[t].at = "streaming" /\ UNCHANGED <<entries, current, name, dead, stopped, closing>>
          /\ call' = [call EXCEPT ![t] = [NoCall EXCEPT !.at = "done"]]
        BY <1>7 DEF EndStream
    <2> QED
        BY <1>5, <2>1
<1>8. ASSUME NEW t \in Turn, CacheHit(t) PROVE Core'
    <2>1. call[t].at = "config" /\ current # 0 /\ UNCHANGED <<current, name, dead, stopped, closing>>
        BY <1>8, Zenon DEF CacheHit
    <2>2. Cache = entries[current].instances
        BY <2>1 DEF Cache
    <2>3. CASE /\ entries' = entries
               /\ \E c \in CallT : /\ Moves(t, c) /\ Plain(c) /\ c.at = "ready"
                                   /\ c.tools = entries[current].instances
        BY <2>1, <2>2, <2>3, CoreGiven
    <2>4. ASSUME NEW c \in CallT, NEW d \in EntryT,
                 /\ Moves(t, c) /\ Begins(call[t], c) /\ c.at = "starting" /\ c.mode = "retry"
                 /\ c.entry = current /\ c.todo = c.asked /\ c.close = call[t].close
                 /\ c.asked \subseteq entries[current].timedOut
                 /\ c.asked \cap (Names(entries[current].instances) \cup entries[current].retrying) = {}
                 /\ Enters(current, d) /\ d.instances = entries[current].instances
                 /\ d.timedOut = entries[current].timedOut
                 /\ d.retrying = entries[current].retrying \cup c.asked
          PROVE  Core'
        <3>1. entries'[current] = d
            BY <2>4 DEF Enters
        <3>2. c.asked \cap (Names(Cache) \cup entries[current].retrying) = {}
            BY <2>2, <2>4
        <3> QED
            BY <2>1, <2>4, <3>1, <3>2, CoreRetry
    <2> QED
        BY <1>8, <2>3, <2>4, HitDoes
<1>9. ASSUME NEW t \in Turn, Defer(t) PROVE Core'
    <2>1. call[t].at = "config" /\ current # 0 /\ UNCHANGED <<current, name, dead, stopped, closing>>
        BY <1>9, Zenon DEF Defer
    <2>2. Cache = entries[current].instances
        BY <2>1 DEF Cache
    <2>3. PICK c \in CallT, d \in EntryT :
                 /\ Moves(t, c) /\ Plain(c) /\ c.at = "ready"
                 /\ c.tools \subseteq entries[current].instances
                 /\ Enters(current, d) /\ d.instances = entries[current].instances
                 /\ d.timedOut \subseteq entries[current].timedOut
                 /\ d.retrying = entries[current].retrying
        BY <1>9, DeferDoes
    <2>4. entries'[current] = d
        BY <2>3 DEF Enters
    <2> QED
        BY <2>1, <2>2, <2>3, <2>4, CoreGiven
<1>10. ASSUME NEW t \in Turn, Relaunch(t) PROVE Core'
    <2>1. /\ call[t].at = "config" /\ current # 0 /\ crossed' = Crosses(t)
          /\ UNCHANGED <<entries, current, name, dead, stopped, closing>>
        BY <1>10, Zenon DEF Relaunch
    <2>2. \A u \in Turn \ {t} : call[u].mode \notin Resets
        BY <2>1, NotCrossing
    <2>3. PICK c \in CallT : /\ Moves(t, c) /\ Begins(call[t], c) /\ c.at = "stopping"
                             /\ c.mode = "relaunch" /\ c.entry = current
                             /\ c.close = entries[current].instances \cap dead
                             /\ c.todo \subseteq Names(c.close)
        BY <1>10, RelaunchDoes
    <2>4. c.close = Cache \cap dead
        BY <2>1, <2>3 DEF Cache
    <2> QED
        BY <2>1, <2>2, <2>3, <2>4, CoreRelaunch
<1>11. ASSUME NEW t \in Turn, Restart(t) PROVE Core'
    <2>1. /\ call[t].at = "config" /\ crossed' = Crosses(t) /\ current' = 0
          /\ UNCHANGED <<entries, name, dead, stopped, closing>>
          /\ current # 0 => ~ Leased
        BY <1>11, Zenon DEF Restart
    <2>2. \A u \in Turn \ {t} : call[u].mode \notin Resets /\ call[u].at # "ready"
        BY <2>1, NotCrossing
    <2>3. current # 0 => leases = 0
        BY <2>1 DEF Leased, Typed
    <2>4. current # 0 => \A u \in Turn \ {t} : ~ Uses(call[u])
        BY <2>2, <2>3 DEF Timing, Uses
    <2>5. PICK c \in CallT : /\ Moves(t, c) /\ Begins(call[t], c) /\ c.at = "stopping"
                             /\ c.mode = "restart"
                             /\ c.close = IF current = 0 THEN {} ELSE entries[current].instances
        BY <1>11, RestartDoes
    <2>6. c.close = Cache
        BY <2>5 DEF Cache
    <2> QED
        BY <2>1, <2>2, <2>4, <2>5, <2>6, CoreRestart
<1>12. ASSUME NEW t \in Turn, Close(t) PROVE Core'
    <2>1. UNCHANGED <<current, name, closing>> /\ call[t].at \in {"stopping", "discarding"}
        BY <1>12 DEF Close
    <2>2. PICK c \in CallT, i \in call[t].close :
              /\ Moves(t, c) /\ c.at = call[t].at /\ c.mode = call[t].mode
              /\ c.close = call[t].close \ {i} /\ c.todo = call[t].todo
              /\ c.got = call[t].got /\ c.late = call[t].late /\ c.tools = call[t].tools
              /\ c.entry = call[t].entry /\ c.asked = call[t].asked
              /\ IF c.mode = "relaunch"
                 THEN /\ call[t].entry \in 1..Len(entries)
                      /\ \E d \in EntryT, gone \in SUBSET entries[call[t].entry].instances :
                            /\ Enters(call[t].entry, d)
                            /\ gone = Of(entries[call[t].entry].instances, {name[i]})
                            /\ d.instances = entries[call[t].entry].instances \ gone
                            /\ d.timedOut = entries[call[t].entry].timedOut
                            /\ d.retrying = entries[call[t].entry].retrying
                            /\ dead' = dead \cup gone /\ stopped' = stopped \cup (gone \ dead)
                 ELSE /\ entries' = entries
                      /\ dead' = dead \cup {i} /\ stopped' = stopped \cup ({i} \ dead)
        BY <1>12, CloseDoes, Zenon
    <2>3. CASE c.mode = "relaunch"
        <3>1. PICK d \in EntryT, gone \in SUBSET entries[call[t].entry].instances :
                     /\ Enters(call[t].entry, d)
                     /\ gone = Of(entries[call[t].entry].instances, {name[i]})
                     /\ d.instances = entries[call[t].entry].instances \ gone
                     /\ d.timedOut = entries[call[t].entry].timedOut
                     /\ d.retrying = entries[call[t].entry].retrying
                     /\ dead' = dead \cup gone /\ stopped' = stopped \cup (gone \ dead)
            BY <2>2, <2>3
        <3>2. entries'[call[t].entry] = d
            BY <3>1 DEF Enters
        <3> QED
            BY <2>1, <2>2, <2>3, <3>1, <3>2, CoreCloseDead
    <2>4. CASE c.mode # "relaunch"
        BY <2>1, <2>2, <2>4, CoreCloseTaken
    <2> QED
        BY <2>3, <2>4
<1>13. ASSUME NEW t \in Turn, Closed(t) PROVE Core'
    <2>1. UNCHANGED <<entries, current, name, dead, stopped, closing>>
        BY <1>13 DEF Closed
    <2>2. PICK c \in CallT : Moves(t, c) /\ Keeps(call[t], c) /\ c.at \in {"starting", "config"}
        BY <1>13, ClosedMoves
    <2>3. Same(call[t], c)
        BY <2>2 DEF Same, Keeps, Uses
    <2> QED
        BY <1>2, <2>1, <2>2, <2>3
<1>14. ASSUME NEW t \in Turn, StartServer(t) PROVE Core'
    <2>1. UNCHANGED <<entries, current, dead, stopped, closing>> /\ call[t].at = "starting"
        BY <1>14 DEF StartServer
    <2> QED
        BY <1>14, <2>1, StartMoves, CoreStart
<1>15. ASSUME NEW t \in Turn, EndRetry(t) PROVE Core'
    <2>1. UNCHANGED <<current, name, dead, stopped, closing>>
        BY <1>15 DEF EndRetry
    <2>2. /\ call[t].at = "starting" /\ call[t].mode = "retry" /\ call[t].todo = {}
          /\ call[t].entry \in 1..Len(entries)
        BY <1>15, EndRetryDoes
    <2>3. PICK c \in CallT, d \in EntryT :
                 /\ Moves(t, c) /\ Enters(call[t].entry, d)
                 /\ d.retrying = entries[call[t].entry].retrying \ call[t].asked
                 /\ IF current = call[t].entry
                    THEN /\ d.instances = Merged(entries[current].instances, call[t].got)
                         /\ d.timedOut \cap Names(d.instances) \subseteq call[t].late
                         /\ d.timedOut \subseteq (entries[current].timedOut \ call[t].asked) \cup call[t].late
                         /\ Plain(c) /\ c.at = "ready" /\ c.tools = d.instances
                    ELSE /\ d.instances = entries[call[t].entry].instances
                         /\ c.at = "discarding" /\ c.mode = "none" /\ c.close = call[t].got
                         /\ c.got = {} /\ c.todo = {} /\ c.late = {} /\ c.tools = {}
        BY <1>15, EndRetryDoes
    <2>4. CASE current = call[t].entry
        <3>1. entries'[current] = d /\ current # 0 /\ Retries(call[t])
            BY <2>2, <2>3, <2>4 DEF Enters, Retries
        <3> QED
            BY <2>1, <2>2, <2>3, <2>4, <3>1, CoreJoin
    <2>5. CASE current # call[t].entry
        <3>1. current # 0 => entries'[current] = entries[current]
            BY <2>3, <2>5, Cached DEF Enters
        <3> QED
            BY <2>1, <2>2, <2>3, <2>5, <3>1, CoreDiscard
    <2> QED
        BY <2>4, <2>5
<1>16. ASSUME NEW t \in Turn, EndRelaunch(t) PROVE Core'
    <2>1. UNCHANGED <<current, name, dead, stopped, closing>>
        BY <1>16 DEF EndRelaunch
    <2>2. /\ call[t].at = "starting" /\ call[t].mode = "relaunch" /\ call[t].todo = {}
          /\ call[t].entry \in 1..Len(entries)
        BY <1>16, EndRelaunchDoes
    <2>3. PICK c \in CallT, d \in EntryT :
                 /\ Moves(t, c) /\ Enters(call[t].entry, d)
                 /\ d.retrying = entries[call[t].entry].retrying
                 /\ d.instances = Merged(entries[call[t].entry].instances, call[t].got)
                 /\ d.timedOut \cap Names(d.instances) \subseteq call[t].late
                 /\ d.timedOut \subseteq entries[call[t].entry].timedOut \cup call[t].late
                 /\ Plain(c) /\ c.at = "ready" /\ c.tools \subseteq d.instances
        BY <1>16, EndRelaunchDoes
    <2>4. current # 0 /\ call[t].entry = current
        BY <2>2 DEF Core, One
    <2>5. entries'[current] = d
        BY <2>3, <2>4 DEF Enters
    <2>6. ~ Retries(call[t])
        BY <2>2 DEF Retries
    <2> QED
        BY <2>1, <2>2, <2>3, <2>4, <2>5, <2>6, CoreJoin
<1>17. ASSUME NEW t \in Turn, EndRestart(t) PROVE Core'
    <2>1. UNCHANGED <<name, dead, stopped, closing>>
        BY <1>17 DEF EndRestart
    <2> QED
        BY <1>17, <2>1, EndRestartDoes, CoreRenew
<1>18. CASE CleanupIdleServers
    BY <1>18, CoreCleanup
<1>19. CASE CloseIdle
    BY <1>19, CoreCloseIdle
<1>20. CASE TimePasses \/ Configure \/ Die \/ UNCHANGED mcpVars
    <2>1. UNCHANGED <<entries, current, name, stopped, closing, call>> /\ dead \subseteq dead'
        BY <1>20, Zenon DEF TimePasses, Configure, Die, mcpVars
    <2>2. call' \in [Turn -> CallT] /\ \A u \in Turn : Same(call[u], call'[u])
        BY <2>1 DEF Typed, Same
    <2> QED
        BY <2>1, <2>2, CoreQuiet
<1> QED
    BY <1>3, <1>4, <1>6, <1>7, <1>8, <1>9, <1>10, <1>11, <1>12, <1>13, <1>14, <1>15, <1>16, <1>17,
       <1>18, <1>19, <1>20 DEF Next, TurnStep

-----------------------------------------------------------------------------
\* the invariant holds at first
LEMMA InitHolds == Init => IInv
<1> SUFFICES ASSUME Init PROVE IInv
    OBVIOUS
<1>1. \A t \in Turn : call[t] = NoCall
    BY DEF Init
<1>2. /\ entries = <<>> /\ current = 0 /\ name = <<>> /\ dead = {} /\ stopped = {} /\ closing = {}
      /\ leases = 0 /\ idle = FALSE
    BY DEF Init
<1>3. Staged
    BY <1>1 DEF Staged, Phase, Sorted, Names, NoCall, Ends
<1>4. Timing
    BY <1>1, <1>2 DEF Timing, NoCall
<1>5. Cache = {} /\ Instances = {}
    BY <1>2 DEF Cache, Instances
<1>6. CacheInv /\ NoneLost
    BY <1>2, <1>5 DEF CacheInv, NoneLost
<1>7. \A t \in Turn : One(call[t])
    BY <1>1, <1>2, <1>5 DEF One, NoCall, Retries, Uses
<1>8. \A t, u \in Turn : Two(call[t], call[u])
    BY <1>1, <1>2 DEF Two, NoCall, Retries, Uses, Resets
<1> QED
    BY <1>3, <1>4, <1>6, <1>7, <1>8, InitTyped DEF IInv, Core

\* every step keeps the invariant
LEMMA Inductive == Server \subseteq Nat /\ IInv /\ [Next]_mcpVars => IInv'
<1> SUFFICES ASSUME Server \subseteq Nat, IInv, [Next]_mcpVars PROVE IInv'
    OBVIOUS
<1>1. Typed /\ Known /\ Staged /\ Timing /\ (crossed = FALSE => Core)
    BY DEF IInv
<1>2. Typed' /\ Known' /\ Staged' /\ Timing'
    BY <1>1, TypedStep, KnownStep, StagedStep, TimingStep
<1>3. crossed' = FALSE => Core'
    BY <1>1, CrossedStays, CoreStep
<1> QED
    BY <1>2, <1>3 DEF IInv

(* Entries, calls and servers are what they should be.                     *)
THEOREM TypeCorrect == Server \subseteq Nat => (Spec => []TypeOK)
<1> SUFFICES ASSUME Server \subseteq Nat PROVE Spec => []TypeOK
    OBVIOUS
<1>1. IInv => TypeOK
    <2> SUFFICES ASSUME Typed, Known PROVE TypeOK
        BY DEF IInv
    <2>1. DOMAIN name = Instances /\ DOMAIN entries = 1..Len(entries)
        BY DEF Typed, Instances
    <2>2. \A e \in DOMAIN entries : entries[e].timedOut \cup entries[e].retrying \subseteq Server
        <3> TAKE e \in DOMAIN entries
        <3>1. entries[e] \in EntryT
            BY <2>1 DEF Typed
        <3> QED
            BY <3>1 DEF EntryT
    <2> QED
        BY <2>1, <2>2 DEF TypeOK, Typed, Known
<1>2. IInv /\ [Next]_mcpVars => IInv'
    BY Inductive
<1> QED
    BY <1>1, <1>2, InitHolds, PTL DEF Spec

(* Every server that runs can still be stopped: unless restarts cross, it  *)
(* is in the cache or a call holds it. A retry drops what it started when  *)
(* its entry was replaced (mcpServerManager.ts).                           *)
THEOREM NobodyIsLost == Server \subseteq Nat => (Spec => []NoServerLost)
<1> SUFFICES ASSUME Server \subseteq Nat PROVE Spec => []NoServerLost
    OBVIOUS
<1>1. IInv => NoServerLost
    <2> SUFFICES ASSUME IInv PROVE NoServerLost
        OBVIOUS
    <2>1. CASE crossed = FALSE
        <3>1. DOMAIN name = Instances
            BY DEF IInv, Typed, Instances
        <3>2. NoneLost
            BY <2>1, Zenon DEF IInv, Core
        <3>3. ASSUME NEW i \in DOMAIN name \ dead
              PROVE  i \in (UNION {call[u].got \cup call[u].close : u \in Turn}) \cup closing \cup Cache
            BY <3>1, <3>2, <3>3 DEF NoneLost
        <3> QED
            BY <3>3, Zenon DEF NoServerLost, Cache
    <2>2. CASE crossed # FALSE
        <3>1. crossed
            BY <2>2, Zenon DEF IInv, Typed
        <3> QED
            BY <3>1, Zenon DEF NoServerLost
    <2> QED
        BY <2>1, <2>2
<1>2. IInv /\ [Next]_mcpVars => IInv'
    BY Inductive
<1> QED
    BY <1>1, <1>2, InitHolds, PTL DEF Spec

(* The tools a turn was given stay open until its stream is over: the      *)
(* leases keep restarts and the idle clean-up away.                        *)
THEOREM ToolsAreKept == Server \subseteq Nat => (Spec => []ToolsStayOpen)
<1> SUFFICES ASSUME Server \subseteq Nat PROVE Spec => []ToolsStayOpen
    OBVIOUS
<1>1. IInv => ToolsStayOpen
    <2> SUFFICES ASSUME IInv, NEW t \in Turn, call[t].at \in {"ready", "streaming"}, ~ crossed
                 PROVE  call[t].tools \cap stopped = {}
        BY Zenon DEF ToolsStayOpen
    <2>1. crossed = FALSE
        <3>1. crossed \in BOOLEAN
            BY DEF IInv, Typed
        <3> QED
            BY <3>1, Zenon
    <2>2. Core
        BY <2>1, Zenon DEF IInv
    <2> QED
        BY <2>2 DEF Core, One, Uses
<1>2. IInv /\ [Next]_mcpVars => IInv'
    BY Inductive
<1> QED
    BY <1>1, <1>2, InitHolds, PTL DEF Spec
=============================================================================
