---------------------------- MODULE LogRotation ----------------------------
(***************************************************************************)
(* The rotating log file, platform/logger/rotating_writer.go.              *)
(*                                                                         *)
(* Lines go through a buffer that is flushed every second and by a         *)
(* rotation.  Every operation holds the writer's mutex.  The process never *)
(* closes the writer: a process that ends, or logs a fatal error, takes    *)
(* the buffer with it.  A bufio.Writer (external) whose flush failed once  *)
(* refuses everything after it, until the file is opened again.  A line is *)
(* written to the file as a whole or not at all.                           *)
(***************************************************************************)
EXTENDS Integers, Sequences, SequencesExt

CONSTANTS
    MaxSizeBytes, MaxBackups,
    LineSize,       \* sizes of lines
    MaxLines,       \* bound: lines written
    MaxLogFaults,   \* bound: calls with a failed rename, opening or flush
    MaxExits        \* bound: ends of the process

ASSUME LogRotationAssumption ==
    /\ {MaxSizeBytes, MaxBackups} \subseteq Nat \ {0} /\ LineSize \subseteq Nat \ {0}
    /\ {MaxLines, MaxLogFaults, MaxExits} \subseteq Nat

VARIABLES
    logFile,    \* logFile[i]: lines of <path>.i, of <path> for i = 0; a line is
                \* [id, len], with ids in the order of the calls of Write
    exists,     \* the backups that are there
    buffer,     \* lines in w.writer
    broken,     \* w.writer has failed
    open,       \* w.file is not nil
    size,       \* w.size
    lines,      \* calls of Write so far
    lost,       \* lines a failed flush or the end of the process took
    botched,    \* a rename has failed
    logFaults, exits

LogRotationVars ==
    <<logFile, exists, buffer, broken, open, size, lines, lost, botched, logFaults, exits>>

Backup == 0 .. MaxBackups
Length(s) == FoldSeq(LAMBDA l, n : l.len + n, 0, s)
Ids(s) == {l.id : l \in ToSet(s)}
LogFault == logFaults < MaxLogFaults /\ logFaults' = logFaults + 1

LogRotationInit ==
    /\ logFile = [i \in Backup |-> <<>>] /\ exists = {}
    /\ buffer = <<>> /\ broken = FALSE /\ open = TRUE /\ size = 0
    /\ lines = 0 /\ lost = {} /\ botched = FALSE /\ logFaults = 0 /\ exits = 0

-----------------------------------------------------------------------------
\* The current file once the buffer is flushed.
\* Wrong variant, of a rotation: the buffer is not flushed.
Unflushed == logFile[0]
Flushed == IF broken THEN logFile[0] ELSE logFile[0] \o buffer

\* The ticker; a line that fills the buffer flushes it too.
FlushLog ==
    /\ buffer # <<>> /\ ~broken
    /\ logFile' = [logFile EXCEPT ![0] = Flushed] /\ buffer' = <<>>
    /\ UNCHANGED <<exists, broken, open, size, lines, lost, botched, logFaults, exits>>

\* The disk takes only the first n lines.
LogFlushFails(n) ==
    /\ n < Len(buffer) /\ ~broken /\ LogFault
    /\ logFile' = [logFile EXCEPT ![0] = @ \o SubSeq(buffer, 1, n)]
    /\ buffer' = <<>> /\ broken' = TRUE
    /\ lost' = lost \cup Ids(SubSeq(buffer, n + 1, Len(buffer)))
    /\ UNCHANGED <<exists, open, size, lines, botched, exits>>

-----------------------------------------------------------------------------
\* The files once the current one is flushed and each i of moved is renamed to
\* i + 1, the last one first.
\* Wrong variant: the current file is copied, and not emptied.
Copied(moved) ==
    LET old == [logFile EXCEPT ![0] = Flushed]
    IN  [j \in Backup |-> IF j - 1 \in moved THEN old[j - 1] ELSE old[j]]
Rotated(moved) ==
    LET old == [logFile EXCEPT ![0] = Flushed]
    IN  [j \in Backup |-> IF j - 1 \in moved THEN old[j - 1] ELSE IF j \in moved THEN <<>> ELSE old[j]]

\* openFile: w.size as it is set for the current file f.
\* Wrong variant: what is in the file already is not counted.
OpenedEmpty(f) == 0
Opened(f) == Length(f)

\* Write finds the file as the last call left it, or opens it.
SizeNow == IF open THEN size ELSE Opened(logFile[0])
Fits(len) == SizeNow + len <= MaxSizeBytes
Line(len) == [id |-> lines + 1, len |-> len]
Call == lines < MaxLines /\ lines' = lines + 1

\* A broken writer takes nothing.
WriteLine(len) ==
    /\ Call /\ Fits(len) /\ open' = TRUE
    /\ IF open /\ broken THEN UNCHANGED <<buffer, broken, size>>
       ELSE buffer' = Append(buffer, Line(len)) /\ size' = SizeNow + len /\ broken' = FALSE
    /\ UNCHANGED <<logFile, exists, lost, botched, logFaults, exits>>

\* The renames of failing fail; a backup that is not there has none.
RotateLocked(failing) ==
    LET moved == (exists \cup {0}) \ (failing \cup {MaxBackups})
    IN  /\ logFile' = Rotated(moved)
        /\ exists' = (exists \ moved) \cup {i + 1 : i \in moved}
        /\ broken' = FALSE /\ botched' = (botched \/ failing # {})
        /\ UNCHANGED <<lost, exits>>

WriteLineRotates(len, failing) ==
    /\ Call /\ ~Fits(len) /\ RotateLocked(failing)
    /\ IF failing = {} THEN UNCHANGED logFaults ELSE LogFault
    /\ open' = TRUE /\ buffer' = <<Line(len)>> /\ size' = Opened(logFile'[0]) + len

\* The line is refused, at once or after the rotation that was due.
OpenFails(len) ==
    /\ Call /\ LogFault /\ open' = FALSE /\ buffer' = <<>> /\ size' = 0
    /\ \/ ~open /\ UNCHANGED <<logFile, exists, broken, lost, botched, exits>>
       \/ ~Fits(len) /\ RotateLocked({})

\* The process ends; the next one opens the file.
Exit ==
    /\ exits < MaxExits /\ exits' = exits + 1
    /\ lost' = lost \cup Ids(buffer)
    /\ buffer' = <<>> /\ broken' = FALSE /\ open' = TRUE /\ size' = Opened(logFile[0])
    /\ UNCHANGED <<logFile, exists, lines, botched, logFaults>>

LogRotationNext ==
    \/ FlushLog \/ \E n \in 0 .. MaxLines : LogFlushFails(n)
    \/ \E len \in LineSize :
         \/ WriteLine(len) \/ OpenFails(len)
         \/ \E failing \in SUBSET ({0} \cup (exists \ {MaxBackups})) : WriteLineRotates(len, failing)
    \/ Exit

LogRotationSpec == LogRotationInit /\ [][LogRotationNext]_LogRotationVars

-----------------------------------------------------------------------------
Kept == (UNION {Ids(logFile[i]) : i \in Backup}) \cup Ids(buffer)

\* A line that was written is kept until it is in the last backup, whatever
\* rotations, failed openings and new processes come in between: only a flush
\* that fails, the end of the process and a rename that fails take others.
DropsOnlyOldest == botched' \/ Kept \ Kept' \subseteq Ids(logFile[MaxBackups]) \cup lost'

\* From the last backup to the buffer the lines are in the order they were
\* written in, and none is there twice.
LogFilesOrdered ==
    /\ \A i \in Backup :
         LET s == IF i = 0 THEN logFile[0] \o buffer ELSE logFile[i]
         IN  \A m, n \in DOMAIN s : m < n => s[m].id < s[n].id
    /\ \A i, j \in Backup : j < i =>
         \A old \in Ids(logFile[i]), new \in Ids(logFile[j]) : old < new

\* No file is longer than the limit, but for one line that is longer by itself,
\* although the size is counted in memory and the file lives on after the
\* process.
LogFileBounded ==
    ~botched => \A i \in Backup : Length(logFile[i]) <= MaxSizeBytes \/ Len(logFile[i]) = 1

\* The log keeps its lines, in their order, within its limit.
LogSound == [][LogFilesOrdered' /\ LogFileBounded' /\ DropsOnlyOldest]_LogRotationVars
=============================================================================
