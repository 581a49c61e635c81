---- MODULE FileFollower ----
(***************************************************************************)
(* follow_source (ingest/readers.py): one follower tails a sensor file that*)
(* the sensor and a log rotator change at any moment, also between two     *)
(* system calls of the follower.  Its event loop cannot interleave with it,*)
(* the other processes can.                                                *)
(*                                                                         *)
(* A file is a sequence of chunks: a line written whole, or the two parts  *)
(* of a line whose write the follower can see half done.  Offsets count    *)
(* chunks.  The stream's read-ahead buffer is left out: a line counts as   *)
(* read when readline returns it.  An event that awaits room in the queue  *)
(* when the process ends is lost like a line not yet read.                 *)
(***************************************************************************)
EXTENDS Integers, Sequences, SequencesExt

CONSTANTS
    None,
    FromBeginning,  \* from_beginning
    TornWrites,     \* may the follower see a line half written?
    MaxLines,       \* bound: lines the sensor writes
    MaxFiles,       \* bound: files (inodes) that appear at the path
    MaxTruncations, \* bound: copy-and-truncate rotations
    MaxRestarts     \* bound: restarts of the process

ASSUME FollowerAssumption ==
    /\ {FromBeginning, TornWrites} \subseteq BOOLEAN
    /\ MaxLines \in Nat /\ MaxFiles \in Nat \ {0} /\ MaxTruncations \in Nat /\ MaxRestarts \in Nat
    /\ None \notin Int

Inode == 1..MaxFiles

Line == 1..MaxLines

Chunk == [line : Line, part : {"whole", "head", "tail"}]

VARIABLES
    path,           \* the file at source.path, or None
    target,         \* the file the sensor has open
    content,        \* the chunks of every file
    written,        \* lines the sensor has begun to write
    half,           \* is the last of them half written?
    files,          \* files that have appeared at the path
    truncations,
    restarts,
    pc,             \* the next system call of the follower, or "failed"
    stream,         \* the file it has open, or None
    offset,         \* its position in the stream
    inode,          \* the inode it compares with, or None
    first_open,     \* first_open
    emitted,        \* the lines whose events it put on the queue
    parse_errors    \* the records it rejected

fileVars == <<path, target, content, written, half, files, truncations>>
taskVars == <<pc, stream, offset, inode, first_open>>
readerVars == <<restarts, taskVars, emitted, parse_errors>>

followerVars == <<fileVars, readerVars>>

\* The locals of follow_source when it starts.
Started(step, file, position, known, first) ==
    step = "open" /\ file = None /\ position = 0 /\ known = None /\ first = TRUE

FollowerInit ==
    /\ path \in {None, 1}
    /\ target = IF path = None THEN None ELSE 1
    /\ files = IF path = None THEN 0 ELSE 1
    /\ content = [i \in Inode |-> <<>>]
    /\ written = 0
    /\ half = FALSE
    /\ truncations = 0
    /\ restarts = 0
    /\ Started(pc, stream, offset, inode, first_open)
    /\ emitted = <<>>
    /\ parse_errors = 0

-----------------------------------------------------------------------------
\* The sensor and the rotator.

WriteChunk(n, part) ==
    /\ target # None
    /\ content' = [content EXCEPT ![target] = Append(@, [line |-> n, part |-> part])]
    /\ written' = n
    /\ half' = (part = "head")
    /\ UNCHANGED <<path, target, files, truncations, readerVars>>

Write ==
    /\ written < MaxLines /\ ~ half
    /\ WriteChunk(written + 1, "whole") \/ (TornWrites /\ WriteChunk(written + 1, "head"))

WriteRest == half /\ WriteChunk(written, "tail")

\* The rotator renames the file away: the sensor still has it open.
Rename ==
    /\ path # None
    /\ path' = None
    /\ UNCHANGED <<target, content, written, half, files, truncations, readerVars>>

\* A new file takes the path, or replaces the one that is there.
Install ==
    /\ files < MaxFiles
    /\ files' = files + 1
    /\ path' = files + 1
    /\ UNCHANGED <<target, content, written, half, truncations, readerVars>>

\* The sensor closes its file and opens the one at the path.
Reopen ==
    /\ path # None /\ path # target /\ ~ half
    /\ target' = path
    /\ UNCHANGED <<path, content, written, half, files, truncations, readerVars>>

\* The rotator copies the file away and truncates it.
Truncate ==
    /\ truncations < MaxTruncations
    /\ path # None /\ content[path] # <<>>
    /\ content' = [content EXCEPT ![path] = <<>>]
    /\ truncations' = truncations + 1
    /\ UNCHANGED <<path, target, written, half, files, readerVars>>

Sensor == Write \/ WriteRest \/ Rename \/ Install \/ Reopen \/ Truncate

-----------------------------------------------------------------------------
\* The follower.

\* open succeeds; while it raises FileNotFoundError the follower sleeps and retries.
Open ==
    /\ pc = "open"
    /\ path # None
    /\ stream' = path
    /\ offset' = 0
    /\ pc' = "stat"
    /\ UNCHANGED <<fileVars, restarts, inode, first_open, emitted, parse_errors>>

\* stat of the path, which need not be the file just opened; then the seek.
Stat ==
    /\ pc = "stat"
    /\ path # None
    /\ inode' = path
    /\ offset' = IF first_open /\ ~ FromBeginning THEN Len(content[stream]) ELSE 0
    /\ first_open' = FALSE
    /\ pc' = "read"
    /\ UNCHANGED <<fileVars, restarts, stream, emitted, parse_errors>>

\* stat raises FileNotFoundError: the stream stays open, and the next iteration reads
\* it with the inode of the file before it, or none.
StatMissing ==
    /\ pc = "stat"
    /\ path = None
    /\ pc' = "read"
    /\ UNCHANGED <<fileVars, restarts, stream, offset, inode, first_open, emitted, parse_errors>>

\* What readline returns: the chunks from the offset to the end of a line, or to the
\* end of the file.
NextLine ==
    LET file == content[stream]
        size == IF offset + 1 < Len(file) /\ file[offset + 1].part = "head" THEN 2 ELSE 1
    IN  IF offset < Len(file) THEN SubSeq(file, offset + 1, offset + size) ELSE <<>>

\* Half a line does not parse; its two halves read together do.
Parses(chunks) == Len(chunks) = 2 \/ chunks[1].part = "whole"

Read ==
    /\ pc = "read"
    /\ NextLine # <<>>
    /\ offset' = offset + Len(NextLine)
    /\ IF Parses(NextLine)
       THEN emitted' = Append(emitted, NextLine[1].line) /\ UNCHANGED parse_errors
       ELSE parse_errors' = parse_errors + 1 /\ UNCHANGED emitted
    /\ UNCHANGED <<fileVars, restarts, pc, stream, inode, first_open>>

\* The half line at the end of the file ends within a character: readline raises
\* UnicodeDecodeError, which nothing catches, and the task ends.
DecodeFails ==
    /\ pc = "read"
    /\ Len(NextLine) = 1 /\ NextLine[1].part = "head"
    /\ pc' = "failed"
    /\ UNCHANGED <<fileVars, restarts, stream, offset, inode, first_open, emitted, parse_errors>>

ReadEnd ==
    /\ pc = "read"
    /\ NextLine = <<>>
    /\ pc' = "check"
    /\ UNCHANGED <<fileVars, restarts, stream, offset, inode, first_open, emitted, parse_errors>>

\* The path holds a file other than the one whose inode was recorded, or none.
Replaced == path = None \/ (inode # None /\ path # inode)

\* Mutation of Truncated: the comparison with the position is off by one.
TruncatedOrAtEnd == path # None /\ Len(content[path]) <= offset

\* The file at the path is shorter than the position in the stream.
Truncated == path # None /\ Len(content[path]) < offset

\* Mutations of Rotated: the stream is closed and not forgotten;
\* the file opened next counts as a first open again.
RotatedKept ==
    /\ pc = "check"
    /\ Replaced \/ Truncated
    /\ pc' = "open"
    /\ UNCHANGED <<fileVars, restarts, stream, offset, inode, first_open, emitted, parse_errors>>

RotatedAgain ==
    /\ pc = "check"
    /\ Replaced \/ Truncated
    /\ stream' = None
    /\ first_open' = TRUE
    /\ pc' = "open"
    /\ UNCHANGED <<fileVars, restarts, offset, inode, emitted, parse_errors>>

\* At the end of the stream, stat shows a rotation: close it and open the path again.
Rotated ==
    /\ pc = "check"
    /\ Replaced \/ Truncated
    /\ stream' = None
    /\ pc' = "open"
    /\ UNCHANGED <<fileVars, restarts, offset, inode, first_open, emitted, parse_errors>>

\* No rotation: sleep, and read on.
Sleep ==
    /\ pc = "check"
    /\ ~ Replaced /\ ~ Truncated
    /\ pc' = "read"
    /\ UNCHANGED <<fileVars, restarts, stream, offset, inode, first_open, emitted, parse_errors>>

\* The process ends, at any moment, and is started again: no offset was persisted.
Restart ==
    /\ restarts < MaxRestarts
    /\ restarts' = restarts + 1
    /\ Started(pc', stream', offset', inode', first_open')
    /\ UNCHANGED <<fileVars, emitted, parse_errors>>

Follow == Open \/ Stat \/ StatMissing \/ Read \/ DecodeFails \/ ReadEnd \/ Rotated \/ Sleep

FollowerNext == Sensor \/ Follow \/ Restart

\* The follower is a task of the loop and its sleeps are bounded; a line half written
\* is completed.  No rotation, failure or restart is bound to happen.
FollowerFairness == WF_followerVars(Follow) /\ WF_followerVars(WriteRest)

FollowerSpec == FollowerInit /\ [][FollowerNext]_followerVars /\ FollowerFairness

-----------------------------------------------------------------------------
\* Properties.

\* Every variable of the follower has its type.
FollowerTypeOK ==
    /\ path \in Inode \cup {None} /\ target \in Inode \cup {None}
    /\ content \in [Inode -> Seq(Chunk)]
    /\ written \in 0..MaxLines /\ half \in BOOLEAN
    /\ files \in 0..MaxFiles /\ truncations \in 0..MaxTruncations
    /\ restarts \in 0..MaxRestarts
    /\ pc \in {"open", "stat", "read", "check", "failed"}
    /\ stream \in Inode \cup {None} /\ inode \in Inode \cup {None}
    /\ (stream = None) <=> (pc = "open")
    /\ offset \in Nat
    /\ first_open \in BOOLEAN
    /\ emitted \in Seq(Line)
    /\ parse_errors \in Nat

====
