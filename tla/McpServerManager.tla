-------------------------- MODULE McpServerManager --------------------------
(***************************************************************************)
(* The MCP servers of one workspace (services/mcpServerManager.ts).        *)
(*                                                                         *)
(* A turn fetches the tools of the enabled servers (getToolsForWorkspace,  *)
(* called by AIService while the turn is prepared) and uses them while its *)
(* stream runs; StreamManager holds a lease meanwhile.  The manager keeps  *)
(* one cache entry for the workspace; it starts, restarts, retries and     *)
(* stops servers across many awaits.  A turn that is aborted while it is   *)
(* prepared goes on with its call and drops the result.                    *)
(*                                                                         *)
(* An entry of the cache is an object that calls hold on to after it has   *)
(* left the cache, so entries are kept in a sequence and named by index.   *)
(* What one instance offers (tools, allowlists) is not modelled.           *)
(***************************************************************************)
EXTENDS Naturals, Sequences, FiniteSetsExt

CONSTANTS
    Turn,           \* 1..n: the turns of the workspace, each calls once
    Server,         \* 1..n: the configured servers, in the order of their names
    MaxInstances,   \* bound: servers started
    MaxTroubles     \* bound: edits of the configuration, deaths, failed starts

VARIABLES
    enabled,    \* the servers the configuration enables
    entries,    \* every entry there has been; see Entry
    current,    \* the entry workspaceServers holds, 0 when none
    name,       \* name[i]: the server instance i runs
    dead,       \* instances that are closed (isClosed)
    stopped,    \* those that the manager closed while they ran
    leases,     \* workspaceLeases
    idle,       \* IDLE_TIMEOUT_MS have passed since the entry's lastActivity
    call,       \* call[t]: where turn t is, and the locals of its call
    closing,    \* what the idle clean-up took out of the cache and still closes
    crossed,    \* history: two calls restarted servers at once, or one restarted
                \* those another had been given and did not stream with yet
    troubles

mcpVars == <<enabled, entries, current, name, dead, stopped, leases, idle, call, closing,
             crossed, troubles>>

Entry(signature, instances, late) ==
    [signature |-> signature, instances |-> instances, timedOut |-> late, retrying |-> {}]

(* at: "idle", "config" (awaits the configuration), "stopping" (awaits     *)
(* closes), "starting", "discarding", "ready" (has its tools), "streaming" *)
(* (its stream runs, leased), "done".  mode: why it starts servers.        *)
NoCall == [at |-> "idle", mode |-> "none", signature |-> {}, entry |-> 0, asked |-> {}, todo |-> {},
           close |-> {}, got |-> {}, late |-> {}, tools |-> {}, aborted |-> FALSE]

Init ==
    /\ enabled = Server
    /\ entries = <<>> /\ current = 0
    /\ name = <<>> /\ dead = {} /\ stopped = {}
    /\ leases = 0 /\ idle = FALSE
    /\ call = [t \in Turn |-> NoCall]
    /\ closing = {} /\ crossed = FALSE /\ troubles = 0

Preparing == {t \in Turn : call[t].at \notin {"idle", "streaming", "done"}}
Of(instances, servers) == {i \in instances : name[i] \in servers}
Names(instances) == {name[i] : i \in instances}
Troubled == troubles < MaxTroubles /\ troubles' = troubles + 1

-----------------------------------------------------------------------------
(* The turns.  A session prepares one turn at a time; the one before it    *)
(* may still stream, or its preparation was aborted.                       *)
Call(t) ==
    /\ call[t].at = "idle"
    /\ \A u \in Turn : u < t => call[u].at # "idle"
    /\ \A u \in Preparing : call[u].aborted
    /\ call' = [call EXCEPT ![t] = [NoCall EXCEPT !.at = "config", !.signature = enabled]]
    /\ UNCHANGED <<enabled, entries, current, name, dead, stopped, leases, idle, closing, crossed,
                   troubles>>

Abort(t) ==
    /\ t \in Preparing /\ ~call[t].aborted
    /\ call' = [call EXCEPT ![t].aborted = TRUE]
    /\ UNCHANGED <<enabled, entries, current, name, dead, stopped, leases, idle, closing, crossed,
                   troubles>>

\* processStreamWithCleanup; startStream has ended the stream before it
StartStream(t) ==
    /\ call[t].at = "ready"
    /\ \/ /\ ~call[t].aborted
          /\ \A u \in Turn : call[u].at # "streaming"
          /\ call' = [call EXCEPT ![t].at = "streaming"]
          /\ leases' = leases + 1
          /\ idle' = FALSE
       \/ /\ call[t].aborted
          /\ call' = [call EXCEPT ![t] = [NoCall EXCEPT !.at = "done"]]
          /\ UNCHANGED <<leases, idle>>
    /\ UNCHANGED <<enabled, entries, current, name, dead, stopped, closing, crossed, troubles>>

EndStream(t) ==
    /\ call[t].at = "streaming"
    /\ call' = [call EXCEPT ![t] = [NoCall EXCEPT !.at = "done"]]
    /\ leases' = IF leases > 0 THEN leases - 1 ELSE 0
    /\ UNCHANGED <<enabled, entries, current, name, dead, stopped, idle, closing, crossed, troubles>>

-----------------------------------------------------------------------------
(* getToolsForWorkspace.                                                   *)
Return(t, tools) == [NoCall EXCEPT !.at = "ready", !.tools = tools, !.aborted = call[t].aborted]

HasClosed(e) == entries[e].instances \cap dead # {}

ToRetry(t, e) ==
    (entries[e].timedOut \cap call[t].signature) \ (Names(entries[e].instances) \cup entries[e].retrying)

CacheHit(t) ==
    /\ call[t].at = "config"
    /\ current # 0 /\ entries[current].signature = call[t].signature /\ ~HasClosed(current)
    /\ idle' = FALSE
    /\ IF ToRetry(t, current) = {}
       THEN /\ call' = [call EXCEPT ![t] = Return(t, entries[current].instances)]
            /\ UNCHANGED entries
       ELSE /\ call' = [call EXCEPT ![t].at = "starting", ![t].mode = "retry", ![t].entry = current,
                                    ![t].asked = ToRetry(t, current), ![t].todo = ToRetry(t, current)]
            /\ entries' = [entries EXCEPT ![current].retrying = @ \cup ToRetry(t, current)]
    /\ UNCHANGED <<enabled, current, name, dead, stopped, leases, closing, crossed, troubles>>

Leased == leases > 0

Crosses(t) ==
    \/ crossed
    \/ \E u \in Preparing \ {t} : call[u].mode \in {"restart", "relaunch"} \/ call[u].at = "ready"

StillLate(t, e, instances) == (entries[e].timedOut \cap call[t].signature) \ Names(instances)

\* a stream uses the servers: a restart for a new configuration is deferred
Defer(t) ==
    /\ call[t].at = "config"
    /\ current # 0 /\ entries[current].signature # call[t].signature /\ ~HasClosed(current)
    /\ Leased
    /\ idle' = FALSE
    /\ entries' = [entries EXCEPT ![current].timedOut = StillLate(t, current, entries[current].instances)]
    /\ call' = [call EXCEPT ![t] = Return(t, Of(entries[current].instances, call[t].signature))]
    /\ UNCHANGED <<enabled, current, name, dead, stopped, leases, closing, crossed, troubles>>

\* and only those that died are started again
Relaunch(t) ==
    /\ call[t].at = "config"
    /\ current # 0 /\ HasClosed(current) /\ Leased
    /\ idle' = FALSE
    /\ LET gone == entries[current].instances \cap dead
       IN  call' = [call EXCEPT ![t].at = "stopping", ![t].mode = "relaunch", ![t].entry = current,
                                ![t].close = gone, ![t].todo = Names(gone) \cap call[t].signature]
    /\ crossed' = Crosses(t)
    /\ UNCHANGED <<enabled, entries, current, name, dead, stopped, leases, closing, troubles>>

\* stopServers, then startServers: the entry leaves the cache at once
Restart(t) ==
    /\ call[t].at = "config"
    /\ \/ current = 0
       \/ current # 0 /\ ~Leased
          /\ (entries[current].signature # call[t].signature \/ HasClosed(current))
    /\ call' = [call EXCEPT ![t].at = "stopping", ![t].mode = "restart", ![t].todo = call[t].signature,
                            ![t].close = IF current = 0 THEN {} ELSE entries[current].instances]
    /\ current' = 0
    /\ crossed' = Crosses(t)
    /\ UNCHANGED <<enabled, entries, name, dead, stopped, leases, idle, closing, troubles>>

\* one instance.close(); a relaunch closes whatever the entry has by that name,
\* and takes it out first
Close(t) ==
    /\ call[t].at \in {"stopping", "discarding"} /\ call[t].close # {}
    /\  LET e == call[t].entry
            i == Min(call[t].close)
            gone == IF call[t].mode = "relaunch" THEN Of(entries[e].instances, {name[i]}) ELSE {i}
        IN  /\ call' = [call EXCEPT ![t].close = @ \ {i}]
            /\ dead' = dead \cup gone /\ stopped' = stopped \cup (gone \ dead)
            /\ entries' = IF call[t].mode = "relaunch"
                          THEN [entries EXCEPT ![e].instances = @ \ gone]
                          ELSE entries
    /\ UNCHANGED <<enabled, current, name, leases, idle, closing, crossed, troubles>>

Closed(t) ==
    /\ call[t].at \in {"stopping", "discarding"} /\ call[t].close = {}
    /\ call' = [call EXCEPT ![t].at = IF @ = "stopping" THEN "starting" ELSE "config",
                            ![t].signature = IF call[t].at = "stopping" THEN @ ELSE enabled]
    /\ UNCHANGED <<enabled, entries, current, name, dead, stopped, leases, idle, closing, crossed,
                   troubles>>

\* startServers: one server, which starts, fails, or fails by a timeout
StartServer(t) ==
    /\ call[t].at = "starting" /\ call[t].todo # {}
    /\ LET s == Min(call[t].todo) IN
        \/ /\ Len(name) < MaxInstances
           /\ name' = Append(name, s)
           /\ call' = [call EXCEPT ![t].todo = @ \ {s}, ![t].got = @ \cup {Len(name) + 1}]
           /\ UNCHANGED troubles
        \/ /\ Troubled
           /\ \E timeout \in BOOLEAN :
                call' = [call EXCEPT ![t].todo = @ \ {s}, ![t].late = IF timeout THEN @ \cup {s} ELSE @]
           /\ UNCHANGED name
    /\ UNCHANGED <<enabled, entries, current, dead, stopped, leases, idle, closing, crossed>>

\* the instances of a Map by name: a later one takes the place of an earlier one
Merged(old, new) == {i \in old : name[i] \notin Names(new)} \cup new

Started(t, mode) == call[t].at = "starting" /\ call[t].mode = mode /\ call[t].todo = {}

EndRetryBug(t) ==   \* the entry is not compared with the cached one
    /\ Started(t, "retry")
    /\ LET e == call[t].entry
           merged == Merged(entries[e].instances, call[t].got)
       IN  /\ entries' = [entries EXCEPT ![e].instances = merged, ![e].retrying = @ \ call[t].asked]
           /\ call' = [call EXCEPT ![t] = Return(t, merged)]
    /\ UNCHANGED <<enabled, current, name, dead, stopped, leases, idle, closing, crossed, troubles>>

\* the servers retried: dropped when the entry has been replaced meanwhile
EndRetry(t) ==
    /\ Started(t, "retry")
    /\ LET e == call[t].entry
           merged == Merged(entries[e].instances, call[t].got)
           late == (StillLate(t, e, merged) \ call[t].asked) \cup call[t].late
       IN  IF current = e
           THEN /\ entries' = [entries EXCEPT ![e].instances = merged, ![e].timedOut = late,
                                              ![e].retrying = @ \ call[t].asked]
                /\ call' = [call EXCEPT ![t] = Return(t, merged)]
           ELSE /\ entries' = [entries EXCEPT ![e].retrying = @ \ call[t].asked]
                /\ call' = [call EXCEPT ![t] = [NoCall EXCEPT !.at = "discarding", !.close = call[t].got,
                                                             !.aborted = call[t].aborted]]
    /\ UNCHANGED <<enabled, current, name, dead, stopped, leases, idle, closing, crossed, troubles>>

EndRelaunch(t) ==
    /\ Started(t, "relaunch")
    /\ LET e == call[t].entry
           merged == Merged(entries[e].instances, call[t].got)
       IN  /\ entries' = [entries EXCEPT ![e].instances = merged,
                                         ![e].timedOut = StillLate(t, e, merged) \cup call[t].late]
           /\ call' = [call EXCEPT ![t] = Return(t, Of(merged, call[t].signature))]
    /\ UNCHANGED <<enabled, current, name, dead, stopped, leases, idle, closing, crossed, troubles>>

EndRestart(t) ==
    /\ Started(t, "restart")
    /\ entries' = Append(entries, Entry(call[t].signature, call[t].got, call[t].late))
    /\ current' = Len(entries) + 1
    /\ idle' = FALSE
    /\ call' = [call EXCEPT ![t] = Return(t, call[t].got)]
    /\ UNCHANGED <<enabled, name, dead, stopped, leases, closing, crossed, troubles>>

-----------------------------------------------------------------------------
CleanupIdleServersBug ==    \* the leases are not looked at
    /\ current # 0 /\ entries[current].instances # {}
    /\ idle
    /\ closing' = closing \cup entries[current].instances
    /\ current' = 0
    /\ UNCHANGED <<enabled, entries, name, dead, stopped, leases, idle, call, crossed, troubles>>

(* The clean-up of idle servers, which awaits nothing it does.             *)
CleanupIdleServers ==
    /\ current # 0 /\ entries[current].instances # {}
    /\ ~Leased
    /\ idle
    /\ closing' = closing \cup entries[current].instances
    /\ current' = 0
    /\ UNCHANGED <<enabled, entries, name, dead, stopped, leases, idle, call, crossed, troubles>>

CloseIdle ==
    /\ closing # {}
    /\ LET i == Min(closing) IN
        closing' = closing \ {i} /\ dead' = dead \cup {i} /\ stopped' = stopped \cup ({i} \ dead)
    /\ UNCHANGED <<enabled, entries, current, name, leases, idle, call, crossed, troubles>>

\* ten minutes; no call takes that long, a stream may
TimePasses ==
    /\ current # 0 /\ ~idle /\ Preparing = {}
    /\ idle' = TRUE
    /\ UNCHANGED <<enabled, entries, current, name, dead, stopped, leases, call, closing, crossed,
                   troubles>>

\* the user edits the configuration; a server's process ends by itself
Configure ==
    /\ Troubled
    /\ \E s \in Server : enabled' = IF s \in enabled THEN enabled \ {s} ELSE enabled \cup {s}
    /\ UNCHANGED <<entries, current, name, dead, stopped, leases, idle, call, closing, crossed>>

Die ==
    /\ Troubled
    /\ \E i \in DOMAIN name \ dead : dead' = dead \cup {i}
    /\ UNCHANGED <<enabled, entries, current, name, stopped, leases, idle, call, closing, crossed>>

-----------------------------------------------------------------------------
TurnStep(t) ==
    \/ Call(t) \/ Abort(t) \/ StartStream(t) \/ EndStream(t)
    \/ CacheHit(t) \/ Defer(t) \/ Relaunch(t) \/ Restart(t) \/ Close(t) \/ Closed(t)
    \/ StartServer(t) \/ EndRetry(t) \/ EndRelaunch(t) \/ EndRestart(t)

Next ==
    \/ \E t \in Turn : TurnStep(t)
    \/ CleanupIdleServers \/ CloseIdle \/ TimePasses \/ Configure \/ Die

Spec == Init /\ [][Next]_mcpVars

-----------------------------------------------------------------------------
TypeOK ==
    /\ enabled \subseteq Server
    /\ current \in 0..Len(entries)
    /\ \A e \in DOMAIN entries :
        /\ entries[e].instances \subseteq DOMAIN name
        /\ entries[e].timedOut \cup entries[e].retrying \subseteq Server
    /\ dead \subseteq DOMAIN name /\ stopped \subseteq dead
    /\ leases \in Nat
    /\ closing \subseteq DOMAIN name

(* The tools a turn was given stay open until its stream is over, whatever *)
(* other turns, the configuration and the idle clean-up do: a server may   *)
(* have died, but the manager did not close it ("avoid closing MCP clients *)
(* out from under it", the leases).  Restarts that cross are left out.     *)
ToolsStayOpen ==
    \A t \in Turn :
        call[t].at \in {"ready", "streaming"} /\ ~call[t].aborted /\ ~crossed
            => call[t].tools \cap stopped = {}

(* Every server that runs is one the manager can still stop: it is in the  *)
(* cached entry, or a call holds it and will add or close it.  For this a  *)
(* retry drops what it started when the entry has been replaced.  Restarts *)
(* that cross are left out: nothing keeps their entries apart.             *)
NoServerLost ==
    crossed \/ DOMAIN name \ dead \subseteq
        (UNION {call[t].got \cup call[t].close : t \in Turn}) \cup closing
        \cup (IF current = 0 THEN {} ELSE entries[current].instances)
=============================================================================
