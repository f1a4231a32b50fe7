------------------------- MODULE BackgroundProcesses -------------------------
(***************************************************************************)
(* The life of the background processes of one workspace: spawn, terminate *)
(* and cleanup of services/backgroundProcessManager.ts and the files its   *)
(* executor keeps on the runtime.                                          *)
(*                                                                         *)
(* All processes are given the same display name, which is what makes the  *)
(* identifiers interesting: id 1 is the name itself, id k + 1 is           *)
(* "name (k)".  The directory of an id outlives the process.               *)
(***************************************************************************)
EXTENDS Naturals, FiniteSetsExt

CONSTANTS
    Proc,       \* 1..n: the processes, in the order in which they are spawned
    KillsFail   \* whether a kill command may fail

VARIABLES
    processes,  \* processes[i]: the process the map has for id i, 0 for none
    idOf,       \* idOf[p]: the id of process p, 0 before it has one
    spawning,   \* where the spawn of p is
    os,         \* the process itself: "none", "running", "dead"
    status,     \* status[p]: proc.status
    exitFile,   \* the ids whose directory has an exit_code file
    timers,     \* the processes whose auto-termination is scheduled
    refreshing, \* the calls of getProcess and list that await an exit code
    stopping,   \* <<caller, p>>: the calls of terminate that await the kill
    matching,   \* what the cleanup under way found
    overlapped  \* history: two spawns chose the same id

processVars == <<processes, idOf, spawning, os, status, exitFile, timers, refreshing, stopping,
                 matching, overlapped>>

Id == Proc
Caller == {"user", "timer", "cleanup"}

ProcessesInit ==
    /\ processes = [i \in Id |-> 0] /\ idOf = [p \in Proc |-> 0]
    /\ spawning = [p \in Proc |-> "idle"] /\ os = [p \in Proc |-> "none"]
    /\ status = [p \in Proc |-> "none"] /\ exitFile = {}
    /\ timers = {} /\ refreshing = {} /\ stopping = {} /\ matching = {}
    /\ overlapped = FALSE

-----------------------------------------------------------------------------
UniqueIdBug == 1    \* the name as it is

\* generateUniqueProcessId
UniqueId == Min({i \in Id : processes[i] = 0})

InFlight == {p \in Proc : spawning[p] \in {"launching", "launched"}}

Spawn(p) ==
    /\ spawning[p] = "idle" /\ \A q \in Proc : q < p => spawning[q] # "idle"
    /\ \E i \in Id : processes[i] = 0
    /\ idOf' = [idOf EXCEPT ![p] = UniqueId]
    /\ spawning' = [spawning EXCEPT ![p] = "launching"]
    /\ overlapped' = (overlapped \/ \E q \in InFlight : idOf[q] = idOf'[p])
    /\ UNCHANGED <<processes, os, status, exitFile, timers, refreshing, stopping, matching>>

\* spawnProcess: makes the directory, empties output.log, starts the process
Launch(p) ==
    /\ spawning[p] = "launching"
    /\ \/ /\ spawning' = [spawning EXCEPT ![p] = "launched"]
          /\ os' = [os EXCEPT ![p] = "running"]
       \/ spawning' = [spawning EXCEPT ![p] = "done"] /\ UNCHANGED os
    /\ UNCHANGED <<processes, idOf, status, exitFile, timers, refreshing, stopping, matching,
                   overlapped>>

\* meta.json is written
EnterProcess(p) ==
    /\ spawning[p] = "launched"
    /\ spawning' = [spawning EXCEPT ![p] = "done"]
    /\ processes' = [processes EXCEPT ![idOf[p]] = p]
    /\ status' = [status EXCEPT ![p] = "running"]
    /\ \E timeout \in BOOLEAN : timers' = IF timeout THEN timers \cup {p} ELSE timers
    /\ UNCHANGED <<idOf, os, exitFile, refreshing, stopping, matching, overlapped>>

\* the process ends, and its trap writes the exit code
End(p) ==
    /\ os[p] = "running"
    /\ os' = [os EXCEPT ![p] = "dead"]
    /\ exitFile' = exitFile \cup {idOf[p]}
    /\ UNCHANGED <<processes, idOf, spawning, status, timers, refreshing, stopping, matching,
                   overlapped>>

-----------------------------------------------------------------------------
(* getProcess and list look whether a running process has an exit code.    *)
RefreshBegin(i) ==
    /\ processes[i] # 0 /\ status[processes[i]] = "running"
    /\ refreshing' = refreshing \cup {processes[i]}
    /\ UNCHANGED <<processes, idOf, spawning, os, status, exitFile, timers, stopping, matching,
                   overlapped>>

RefreshEnd(p) ==
    /\ p \in refreshing
    /\ refreshing' = refreshing \ {p}
    /\ status' = IF idOf[p] \in exitFile THEN [status EXCEPT ![p] = "exited"] ELSE status
    /\ UNCHANGED <<processes, idOf, spawning, os, exitFile, timers, stopping, matching, overlapped>>

-----------------------------------------------------------------------------
\* terminate does nothing for an id that is unknown or a process that is over
ToStop(ids) == {p \in {processes[i] : i \in ids} \ {0} : status[p] = "running"}

UserTerminates(i) ==
    /\ stopping' = stopping \cup ({"user"} \X ToStop({i}))
    /\ UNCHANGED <<processes, idOf, spawning, os, status, exitFile, timers, refreshing, matching,
                   overlapped>>

\* the timer knows the id, not the process
TimerFires(p) ==
    /\ p \in timers
    /\ timers' = timers \ {p}
    /\ stopping' = stopping \cup ({"timer"} \X ToStop({idOf[p]}))
    /\ UNCHANGED <<processes, idOf, spawning, os, status, exitFile, refreshing, matching, overlapped>>

\* the kill and its exit code; a command that fails is not noticed
Stopped(c, p) ==
    /\ <<c, p>> \in stopping
    /\ stopping' = stopping \ {<<c, p>>}
    /\ status' = [status EXCEPT ![p] = "killed"]
    /\ \/ os' = [os EXCEPT ![p] = "dead"] /\ exitFile' = exitFile \cup {idOf[p]}
       \/ KillsFail /\ UNCHANGED <<os, exitFile>>
    /\ UNCHANGED <<processes, idOf, spawning, timers, refreshing, matching, overlapped>>

Known == {processes[i] : i \in Id} \ {0}

CleanupBug ==   \* the map is emptied at once
    /\ matching = {} /\ Known # {}
    /\ matching' = Known
    /\ processes' = [i \in Id |-> 0]
    /\ stopping' = stopping \cup ({"cleanup"} \X ToStop({}))
    /\ UNCHANGED <<idOf, spawning, os, status, exitFile, timers, refreshing, overlapped>>

\* cleanup: before a compaction and when the session is disposed
Cleanup ==
    /\ matching = {} /\ Known # {}
    /\ matching' = Known
    /\ stopping' = stopping \cup ({"cleanup"} \X ToStop(Id))
    /\ UNCHANGED <<processes, idOf, spawning, os, status, exitFile, timers, refreshing, overlapped>>

CleanedUp ==
    /\ matching # {} /\ ~\E p \in Proc : <<"cleanup", p>> \in stopping
    /\ processes' = [i \in Id |-> IF i \in {idOf[p] : p \in matching} THEN 0 ELSE processes[i]]
    /\ matching' = {}
    /\ UNCHANGED <<idOf, spawning, os, status, exitFile, timers, refreshing, stopping, overlapped>>

-----------------------------------------------------------------------------
ProcessesNext ==
    \/ \E p \in Proc : \/ Spawn(p) \/ Launch(p) \/ EnterProcess(p) \/ End(p) \/ TimerFires(p)
                       \/ RefreshEnd(p) \/ \E c \in Caller : Stopped(c, p)
    \/ \E i \in Id : RefreshBegin(i) \/ UserTerminates(i)
    \/ Cleanup \/ CleanedUp

ProcessesSpec == ProcessesInit /\ [][ProcessesNext]_processVars

-----------------------------------------------------------------------------
ProcessesTypeOK ==
    /\ \A i \in Id : processes[i] \in Proc \cup {0}
    /\ \A p \in Proc : idOf[p] \in Id \cup {0} /\ status[p] \in {"none", "running", "exited", "killed"}
    /\ exitFile \subseteq Id /\ timers \cup refreshing \cup matching \subseteq Proc
    /\ stopping \subseteq Caller \X Proc

(* A process that is taken to run is in the map, where a termination, a    *)
(* time limit and the cleanup find it: none is left behind running.  Two   *)
(* spawns of one name that overlap get the same id, and are left out.      *)
RunningIsKnown ==
    overlapped \/ \A p \in Proc : status[p] = "running" /\ os[p] = "running" => processes[idOf[p]] = p

(* "Returns null if process is still running": a process that is reported  *)
(* as exited has ended.                                                    *)
ExitedHasEnded ==
    overlapped \/ \A p \in Proc : status[p] = "exited" => os[p] = "dead"
=============================================================================
