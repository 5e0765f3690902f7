------------------------------ MODULE AuditLog ------------------------------
(***************************************************************************)
(* AuditLogger of the library (packages/ordinalsplus/src/utils/            *)
(* audit-logger.ts): events are hashed onto each other, buffered, and      *)
(* appended to a file per day.  log() hashes at once and then awaits the   *)
(* disk, so the flushes of several calls overlap each other, the           *)
(* initialisation, rotation and the end of the process.                    *)
(*                                                                         *)
(* A hash is the chain of the events it was computed over.  Sizes are      *)
(* counted in events.                                                      *)
(***************************************************************************)
EXTENDS Naturals, Sequences

CONSTANTS
    MaxEvents,      \* bound: events that are logged
    MaxDays,        \* bound: days that pass
    MaxStarts,      \* bound: starts of the process
    RotationSize,   \* rotationSizeInBytes, in events
    Retention       \* retentionDays

ASSUME AuditAssumption ==
    /\ MaxEvents \in Nat /\ MaxDays \in Nat \ {0} /\ MaxStarts \in Nat
    /\ RotationSize \in Nat \ {0} /\ Retention \in Nat \ {0}

VARIABLES
    day,
    files,          \* the lines of each day's file: [event, hash]
    starts,         \* starts of the process so far
    init,           \* what initialize() awaits: "mkdir", "read", "open"; "done", "off"
    buffer,         \* logBuffer
    lastHash,       \* lastLogHash
    logFile,        \* currentLogFile, as its day; 0 is none
    logSize,        \* currentLogSize
    handles,        \* file handles opened by the process: [file, open]
    handle,         \* logFileHandle: a position in handles, or 0
    flush,          \* what the flush of each event's log() awaits
    logged,         \* number of events logged
    noisy           \* history: a circumstance occurred that QuietLogVerifies names

auditVars == <<day, files, starts, init, buffer, lastHash, logFile, logSize,
               handles, handle, flush, logged, noisy>>

Days == 1..MaxDays
Events == 1..MaxEvents
NoFlush == [at |-> "none"]
Flushing == {e \in Events : flush[e] # NoFlush}

AuditInit ==
    /\ day = 1 /\ files = [d \in Days |-> <<>>]
    /\ starts = 0 /\ init = "off"
    /\ buffer = <<>> /\ lastHash = <<>> /\ logFile = 0 /\ logSize = 0
    /\ handles = <<>> /\ handle = 0
    /\ flush = [e \in Events |-> NoFlush]
    /\ logged = 0 /\ noisy = FALSE

(***************************************************************************)
(* The constructor calls initialize() and does not wait for it.            *)
(***************************************************************************)
StartLogger ==
    /\ init = "off" /\ starts < MaxStarts
    /\ starts' = starts + 1
    /\ init' = "mkdir"
    /\ UNCHANGED <<day, files, buffer, lastHash, logFile, logSize, handles, handle, flush,
                   logged, noisy>>

DirectoryMade ==
    /\ init = "mkdir"
    /\ init' = "read" /\ logFile' = day
    /\ UNCHANGED <<day, files, starts, buffer, lastHash, logSize, handles, handle, flush,
                   logged, noisy>>

\* What the last line of an existing file says.
LastLine(lines) == [hash |-> lines[Len(lines)].hash, size |-> Len(lines)]

\* The file is read and its last hash taken over; a file that cannot be read,
\* or is empty, leaves the chain to begin.
FileRead ==
    /\ init = "read"
    /\ init' = "open"
    /\ \/ /\ files[logFile] # <<>>
          /\ lastHash' = LastLine(files[logFile]).hash
          /\ logSize' = LastLine(files[logFile]).size
          /\ UNCHANGED noisy
       \/ /\ lastHash' = <<>> /\ logSize' = 0
          /\ noisy' = (noisy \/ files[logFile] # <<>>)
    /\ UNCHANGED <<day, files, starts, buffer, logFile, handles, handle, flush, logged>>

OpenFile(d) ==
    /\ handles' = Append(handles, [file |-> d, open |-> TRUE])
    /\ handle' = Len(handles')

FileOpened ==
    /\ init = "open"
    /\ init' = "done"
    /\ OpenFile(logFile) \/ UNCHANGED <<handles, handle>>
    /\ UNCHANGED <<day, files, starts, buffer, lastHash, logFile, logSize, flush, logged, noisy>>

(***************************************************************************)
(* log() up to its await: hash, push, and begin a flush of the buffer.     *)
(***************************************************************************)
\* The write is issued on the handle of this moment; on a closed one it throws.
BeginWrite(e, lines, fhs, h) ==
    IF fhs[h].open
    THEN flush' = [flush EXCEPT ![e] = [at |-> "write", lines |-> lines, on |-> h]]
    ELSE flush' = [flush EXCEPT ![e] = NoFlush]

Log ==
    LET e == logged + 1
        hash == Append(lastHash, e)
        lines == Append(buffer, [event |-> e, hash |-> hash])
    IN  /\ init # "off" /\ logged < MaxEvents
        /\ logged' = e
        /\ lastHash' = hash /\ buffer' = lines
        /\ noisy' = (noisy \/ init # "done" \/ Flushing # {})
        /\ IF handle = 0
           THEN UNCHANGED flush
           ELSE IF logSize + Len(lines) > RotationSize
           THEN flush' = [flush EXCEPT ![e] = [at |-> "close", lines |-> lines, on |-> handle]]
           ELSE BeginWrite(e, lines, handles, handle)
        /\ UNCHANGED <<day, files, starts, init, logFile, logSize, handles, handle>>

\* A handle closes when its writes are through.
HandleClosed(e) ==
    LET f == flush[e] IN
    /\ f.at = "close"
    /\ \A d \in Flushing : ~(flush[d].at = "write" /\ flush[d].on = f.on)
    /\ handles' = [handles EXCEPT ![f.on].open = FALSE]
    /\ logFile' = day
    /\ noisy' = (noisy \/ day # logFile)
    /\ flush' = [flush EXCEPT ![e].at = "open"]
    /\ UNCHANGED <<day, files, starts, init, buffer, lastHash, logSize, handle, logged>>

\* The new file has the name of the day, hence may be the old one.
RotatedOpen(e) ==
    /\ flush[e].at = "open"
    /\ \/ /\ OpenFile(logFile)
          /\ logSize' = 0
          /\ BeginWrite(e, flush[e].lines, handles', handle')
       \/ /\ flush' = [flush EXCEPT ![e] = NoFlush]
          /\ UNCHANGED <<logSize, handles, handle>>
    /\ UNCHANGED <<day, files, starts, init, buffer, lastHash, logFile, logged, noisy>>

\* (mutant of Written) the buffer is not cleared
WrittenKept(e) ==
    LET f == flush[e]
        d == handles[f.on].file
    IN  /\ f.at = "write"
        /\ files' = IF d = 0 THEN files ELSE [files EXCEPT ![d] = @ \o f.lines]
        /\ logSize' = logSize + Len(f.lines)
        /\ flush' = [flush EXCEPT ![e] = NoFlush]
        /\ UNCHANGED <<day, starts, init, buffer, lastHash, logFile, handles, handle, logged, noisy>>

\* The write is through: the whole buffer is cleared, whatever was pushed since.
Written(e) ==
    LET f == flush[e]
        d == handles[f.on].file
    IN  /\ f.at = "write"
        /\ files' = IF d = 0 THEN files ELSE [files EXCEPT ![d] = @ \o f.lines]
        /\ logSize' = logSize + Len(f.lines)
        /\ buffer' = <<>>
        /\ flush' = [flush EXCEPT ![e] = NoFlush]
        /\ UNCHANGED <<day, starts, init, lastHash, logFile, handles, handle, logged, noisy>>

WriteFails(e) ==
    /\ flush[e].at = "write"
    /\ flush' = [flush EXCEPT ![e] = NoFlush]
    /\ UNCHANGED <<day, files, starts, init, buffer, lastHash, logFile, logSize, handles,
                   handle, logged, noisy>>

\* The files of days before the retention time are removed, the one that is
\* open included: its handle then writes to no file.
CleanUp ==
    LET Old(d) == d # 0 /\ d + Retention < day IN
    /\ init = "done"
    /\ \E d \in Days : Old(d) /\ files[d] # <<>>
    /\ files' = [d \in Days |-> IF Old(d) THEN <<>> ELSE files[d]]
    /\ handles' = [h \in DOMAIN handles |->
                     IF Old(handles[h].file) THEN [handles[h] EXCEPT !.file = 0] ELSE handles[h]]
    /\ noisy' = (noisy \/ Old(logFile))
    /\ UNCHANGED <<day, starts, init, buffer, lastHash, logFile, logSize, handle, flush, logged>>

\* The process ends at any point; what is not in a file is gone.
Ended ==
    /\ init # "off"
    /\ init' = "off" /\ buffer' = <<>> /\ lastHash' = <<>> /\ logFile' = 0 /\ logSize' = 0
    /\ handles' = <<>> /\ handle' = 0
    /\ flush' = [e \in Events |-> NoFlush]
    /\ UNCHANGED <<day, files, starts, logged, noisy>>

\* close(), when no call is under way: what is buffered is written (as far as
\* it needs no rotation), or not, and the handle is given up either way; events
\* logged later are only buffered.
CloseLogger ==
    LET d == handles[handle].file IN
    /\ init = "done" /\ handle # 0 /\ Flushing = {}
    /\ handles[handle].open
    /\ buffer # <<>> => logSize + Len(buffer) <= RotationSize
    /\ \/ /\ buffer' = <<>> /\ logSize' = logSize + Len(buffer)
          /\ files' = IF d = 0 THEN files ELSE [files EXCEPT ![d] = @ \o buffer]
       \/ UNCHANGED <<buffer, logSize, files>>
    /\ handles' = [handles EXCEPT ![handle].open = FALSE]
    /\ handle' = 0
    /\ UNCHANGED <<day, starts, init, lastHash, logFile, flush, logged, noisy>>

Midnight ==
    /\ day < MaxDays
    /\ day' = day + 1
    /\ UNCHANGED <<files, starts, init, buffer, lastHash, logFile, logSize, handles, handle,
                   flush, logged, noisy>>

AuditNext ==
    \/ StartLogger \/ DirectoryMade \/ FileRead \/ FileOpened
    \/ Log
    \/ \E e \in Events : HandleClosed(e) \/ RotatedOpen(e) \/ Written(e) \/ WriteFails(e)
    \/ CleanUp \/ CloseLogger \/ Ended \/ Midnight

AuditSpec == AuditInit /\ [][AuditNext]_auditVars

-----------------------------------------------------------------------------
\* verifyLogIntegrity of a day's file.
Verifies(lines) ==
    \A i \in DOMAIN lines :
        lines[i].hash = Append(IF i = 1 THEN <<>> ELSE lines[i - 1].hash, lines[i].event)

AuditTypeOK ==
    /\ day \in Days /\ DOMAIN files = Days /\ starts \in 0..MaxStarts
    /\ init \in {"off", "mkdir", "read", "open", "done"}
    /\ logFile \in 0..day /\ logSize \in Nat /\ logged \in 0..MaxEvents
    /\ handle \in 0..Len(handles)
    /\ \A e \in Flushing : flush[e].at \in {"close", "open", "write"} /\ flush[e].on \in DOMAIN handles
    /\ noisy \in BOOLEAN
    /\ init = "off" => Flushing = {} /\ handle = 0

\* Every file with events passes verifyLogIntegrity, over restarts, failed
\* writes and rotations, as long as none of these happened: a log() called
\* while the logger was initialising or another log() had not returned, a
\* rotation into the file of another day, a last line that could not be read,
\* a removal of the file that is in use
\* (audit-logger.ts:117-150, 254-262, 288-316).
QuietLogVerifies == ~noisy => \A d \in Days : Verifies(files[d])
=============================================================================
