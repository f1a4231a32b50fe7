---------------------------- MODULE ProcessOutput ----------------------------
(***************************************************************************)
(* The incremental output of one background process: getOutput of          *)
(* services/backgroundProcessManager.ts, called by bash_output and         *)
(* task_await, while the process writes, ends or is terminated.            *)
(*                                                                         *)
(* A byte of output.log is its position there, and so is what a read makes *)
(* of it; a piece of output is a sequence of those.  A read is decoded on  *)
(* its own, as UTF-8: a character of two bytes that lies in it only in     *)
(* part, or a byte that belongs to none, becomes a replacement character,  *)
(* and a byte order mark that comes first (here one byte) is left out; the *)
(* position moves by the bytes the decoded text would have.  A filter only *)
(* decides whether lines are shown; "given" are the lines that went        *)
(* through it.                                                             *)
(***************************************************************************)
EXTENDS Naturals, Sequences, FiniteSets, SequencesExt

CONSTANTS
    Reader,     \* the calls of getOutput that may overlap
    MaxBytes    \* bound: bytes the process writes

VARIABLES
    output,     \* output.log: what each byte is
    exited,     \* the exit code is written
    over,       \* proc.status is not "running"
    bytesRead,  \* proc.outputBytesRead
    fragment,   \* proc.incompleteLineBuffer
    outputLock, \* who holds proc.outputLock, "nobody" if free
    reader,     \* reader[r]: where call r is, and its locals
    given,      \* history: what the calls have returned so far
    dropped,    \* history: an interrupted call had read a fragment
    torn        \* history: a read was decoded to something else

outputVars == <<output, exited, over, bytesRead, fragment, outputLock, reader, given, dropped, torn>>

\* the end of a line, a character of one byte, the two of another, the mark
Byte == {"line", "char", "head", "tail", "mark"}
Replacement == 0    \* U+FFFD, three bytes

\* raw: accumulatedRaw; before: previousBuffer; over: currentStatus; chunk: the
\* last read; drains: the drains still to do; hides: filter_exclude
NoRead == [at |-> "idle", raw |-> <<>>, before |-> <<>>, chunk |-> <<>>, over |-> FALSE,
           drains |-> 0, new |-> FALSE, hides |-> FALSE]

OutputInit ==
    /\ output = <<>> /\ exited = FALSE /\ over = FALSE
    /\ bytesRead = 0 /\ fragment = <<>> /\ outputLock = "nobody"
    /\ reader = [r \in Reader |-> NoRead]
    /\ given = <<>> /\ dropped = FALSE /\ torn = FALSE

-----------------------------------------------------------------------------
(* The process, and whoever else refreshes its status.                     *)

\* what it started may write after its end
Write ==
    /\ Len(output) < MaxBytes
    /\ \E byte \in Byte : output' = Append(output, byte)
    /\ UNCHANGED <<exited, over, bytesRead, fragment, outputLock, reader, given, dropped, torn>>

Exit ==
    /\ ~exited /\ exited' = TRUE
    /\ UNCHANGED <<output, over, bytesRead, fragment, outputLock, reader, given, dropped, torn>>

\* list, peekOutput, or a terminate (which reports success even if the kill failed)
StatusChanges ==
    /\ ~over /\ over' = TRUE
    /\ UNCHANGED <<output, exited, bytesRead, fragment, outputLock, reader, given, dropped, torn>>

-----------------------------------------------------------------------------
(* getOutput.                                                              *)
GetOutput(r) ==
    /\ reader[r].at = "idle"
    /\ over' = (over \/ exited)
    /\ \E hides \in BOOLEAN :
        reader' = [reader EXCEPT ![r] = [NoRead EXCEPT !.at = "locking", !.hides = hides]]
    /\ UNCHANGED <<output, exited, bytesRead, fragment, outputLock, given, dropped, torn>>

LockBug(r) ==   \* the lock is held by the read, not by the call
    /\ reader[r].at = "locking"
    /\ reader' = [reader EXCEPT ![r].at = "read", ![r].before = fragment, ![r].over = over]
    /\ UNCHANGED <<output, exited, over, bytesRead, fragment, outputLock, given, dropped, torn>>

Lock(r) ==
    /\ reader[r].at = "locking" /\ outputLock = "nobody"
    /\ outputLock' = r
    /\ reader' = [reader EXCEPT ![r].at = "read", ![r].before = fragment, ![r].over = over]
    /\ UNCHANGED <<output, exited, over, bytesRead, fragment, given, dropped, torn>>

Unread == [i \in 1..(Len(output) - bytesRead) |-> bytesRead + i]

Is(s, i, byte) == i \in DOMAIN s /\ output[s[i]] = byte
Whole(s, i) ==
    \/ Is(s, i, "line") \/ Is(s, i, "char") \/ Is(s, i, "mark")
    \/ Is(s, i, "head") /\ Is(s, i + 1, "tail")
    \/ Is(s, i, "tail") /\ Is(s, i - 1, "head")
Text(s) == [i \in DOMAIN s |-> IF Whole(s, i) THEN s[i] ELSE Replacement]
Decoded(s) == IF Is(s, 1, "mark") THEN Text(Tail(s)) ELSE Text(s)
Replaced(s) == {i \in DOMAIN s : s[i] = Replacement}
ByteLength(s) == Len(s) + 2 * Cardinality(Replaced(s))

\* to the end of the file; a read that fails says that there is nothing
Read(r) ==
    /\ reader[r].at \in {"read", "drain"}
    /\ \E chunk \in {Decoded(Unread), <<>>} :
        /\ reader' = [reader EXCEPT ![r].at = IF @ = "read" THEN "append" ELSE "drained",
                                    ![r].chunk = chunk]
        /\ torn' = (torn \/ chunk \notin {Unread, <<>>})
    /\ UNCHANGED <<output, exited, over, bytesRead, fragment, outputLock, given, dropped>>

\* the read position moves, and the status is refreshed
Accumulate(r) ==
    /\ reader[r].at = "append"
    /\ bytesRead' = bytesRead + ByteLength(reader[r].chunk)
    /\ over' = (over \/ exited)
    /\ reader' = [reader EXCEPT ![r].at = "decide", ![r].raw = @ \o reader[r].chunk, ![r].over = over',
                                ![r].chunk = <<>>]
    /\ UNCHANGED <<output, exited, fragment, outputLock, given, dropped, torn>>

Raw(r) == reader[r].before \o reader[r].raw

\* how many positions of s are complete lines
CompleteUpTo(s) ==
    LET ends == {i \in DOMAIN s : s[i] # Replacement /\ Is(s, i, "line")} IN IF ends = {} THEN 0 ELSE Max(ends)

Meaningful(r) == CompleteUpTo(Raw(r)) > 0
NothingToShow(r) == ~Meaningful(r) \/ reader[r].hides

\* lines to return; a process that is over is drained first
Enough(r) ==
    /\ reader[r].at = "decide" /\ Meaningful(r)
    /\ reader' = [reader EXCEPT ![r].at = IF reader[r].over THEN "drain" ELSE "return", ![r].drains = 1,
                                ![r].new = FALSE]
    /\ UNCHANGED <<output, exited, over, bytesRead, fragment, outputLock, given, dropped, torn>>

Ended(r) ==
    /\ reader[r].at = "decide" /\ NothingToShow(r)
    /\ reader[r].over
    /\ reader' = [reader EXCEPT ![r].at = "drain", ![r].drains = 2]
    /\ UNCHANGED <<output, exited, over, bytesRead, fragment, outputLock, given, dropped, torn>>

\* the user queued a message, or the stream was aborted
Interrupt(r) ==
    /\ reader[r].at = "decide" /\ NothingToShow(r)
    /\ ~reader[r].over
    /\ reader' = [reader EXCEPT ![r] = NoRead]
    /\ outputLock' = "nobody"
    /\ dropped' = (dropped \/ reader[r].raw # <<>>)
    /\ UNCHANGED <<output, exited, over, bytesRead, fragment, given, torn>>

\* polls again, or its time is up
PollOrTimeout(r) ==
    /\ reader[r].at = "decide" /\ NothingToShow(r)
    /\ ~reader[r].over
    /\ \E next \in {"read", "return"} : reader' = [reader EXCEPT ![r].at = next]
    /\ UNCHANGED <<output, exited, over, bytesRead, fragment, outputLock, given, dropped, torn>>

\* a drain reads until there is no more; the last one, if it found nothing, is
\* repeated after a pause
Drain(r) ==
    /\ reader[r].at = "drained"
    /\ bytesRead' = bytesRead + ByteLength(reader[r].chunk)
    /\ LET me == reader[r]
           more == me.chunk # <<>>
           once == [me EXCEPT !.raw = @ \o me.chunk, !.chunk = <<>>]
       IN  reader' = [reader EXCEPT ![r] =
               IF more THEN [once EXCEPT !.at = "drain", !.new = (me.drains = 1)]
               ELSE IF me.drains = 2 \/ (me.drains = 1 /\ ~me.new)
                    THEN [once EXCEPT !.at = "drain", !.drains = @ - 1]
                    ELSE [once EXCEPT !.at = "return"]]
    /\ UNCHANGED <<output, exited, over, fragment, outputLock, given, dropped, torn>>

GiveLinesBug(r) ==     \* what is left of a line is not kept
    /\ reader[r].at = "return"
    /\ LET lines == IF reader[r].over THEN Len(Raw(r)) ELSE CompleteUpTo(Raw(r))
       IN  given' = given \o SubSeq(Raw(r), 1, lines)
    /\ reader' = [reader EXCEPT ![r] = NoRead]
    /\ outputLock' = "nobody"
    /\ UNCHANGED <<output, exited, over, bytesRead, fragment, dropped, torn>>

\* complete lines are returned, the rest is kept; at the end everything is
GiveLines(r) ==
    /\ reader[r].at = "return"
    /\ LET lines == IF reader[r].over THEN Len(Raw(r)) ELSE CompleteUpTo(Raw(r))
       IN  /\ given' = given \o SubSeq(Raw(r), 1, lines)
           /\ fragment' = SubSeq(Raw(r), lines + 1, Len(Raw(r)))
    /\ reader' = [reader EXCEPT ![r] = NoRead]
    /\ outputLock' = "nobody"
    /\ UNCHANGED <<output, exited, over, bytesRead, dropped, torn>>

-----------------------------------------------------------------------------
ReaderStep(r) ==
    \/ GetOutput(r) \/ Lock(r) \/ Read(r) \/ Accumulate(r)
    \/ Enough(r) \/ Ended(r) \/ Interrupt(r) \/ PollOrTimeout(r) \/ Drain(r) \/ GiveLines(r)

OutputNext == Write \/ Exit \/ StatusChanges \/ \E r \in Reader : ReaderStep(r)

OutputSpec == OutputInit /\ [][OutputNext]_outputVars

-----------------------------------------------------------------------------
OutputTypeOK ==
    /\ output \in Seq(Byte) /\ bytesRead \in Nat
    /\ exited \in BOOLEAN /\ over \in BOOLEAN /\ dropped \in BOOLEAN /\ torn \in BOOLEAN
    /\ ToSet(fragment) \cup ToSet(given) \subseteq DOMAIN output \cup {Replacement}
    /\ outputLock \in Reader \cup {"nobody"}

Pending == IF outputLock = "nobody" THEN fragment ELSE Raw(outputLock)

NothingIsLost == given \o Pending = [i \in 1..bytesRead |-> i]

(* Whoever asks, and whenever the process ends, everything read from the   *)
(* file is returned once and in order, or is kept as the start of the next *)
(* line - until a read is cut inside a character, meets a byte that is     *)
(* none or begins with a mark, which moves the position wrongly, and until *)
(* an interrupted call forgets what it has read, although "incomplete line *)
(* fragments (no trailing newline) are kept in buffer for next read".      *)
OutputOnceInOrder == ~torn /\ ~dropped => NothingIsLost
=============================================================================
