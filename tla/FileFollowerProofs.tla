---- MODULE FileFollowerProofs ----
(***************************************************************************)
(* Proofs about FileFollower, for any number of lines, files, truncations  *)
(* and restarts, with and without torn writes: the type invariant, and     *)
(* that events come once and in the order in which the sensor wrote their  *)
(* lines.                                                                  *)
(***************************************************************************)
EXTENDS MCFileFollower, SequenceLemmas

-----------------------------------------------------------------------------
\* The parts of the inductive invariant.

\* The chunks of all files, file by file, are in the order of their lines; only the
\* second half of a line may have the number of the chunk before it.
Before(c, d) == c.line <= d.line /\ (d.part # "tail" => c.line < d.line)

FilesInOrder ==
    /\ \A f \in Inode : \A i, j \in 1..Len(content[f]) :
            i < j => Before(content[f][i], content[f][j])
    /\ \A f, g \in Inode : f < g =>
            \A i \in 1..Len(content[f]), j \in 1..Len(content[g]) :
                Before(content[f][i], content[g][j])
    /\ \A f \in Inode : \A i \in 1..Len(content[f]) : content[f][i].line <= written
    /\ \A f \in Inode : target = None \/ f > target => content[f] = <<>>

\* The file at the path is the newest; the follower knows the inode of its file as long
\* as that file keeps the path.
Paths ==
    /\ path # None => path = files
    /\ target # None => target <= files
    /\ stream # None => stream <= files
    /\ pc \in {"read", "check"} /\ path = stream => inode = stream
    /\ pc = "stat" => offset = 0

FollowerInv ==
    /\ FollowerTypeOK
    /\ half => written >= 1
    /\ FilesInOrder
    /\ Paths
    /\ \A i \in 1..Len(emitted) : emitted[i] <= written

\* An event made from the chunk would come after all events so far.
Late(c) == c.part # "tail" => \A i \in 1..Len(emitted) : emitted[i] < c.line

\* So would one from any chunk of the file behind the first n.
Fresh(f, n) == \A i \in 1..Len(content[f]) : i > n => Late(content[f][i])

\* Nothing that the follower may still read was read before: in the files after its own;
\* in its own from the offset on, or from the beginning once it has shrunk; and, unless
\* the next thing it does is to seek to the end, in the file that it opens next.
Unread ==
    /\ stream # None => \A f \in Inode : f > stream => Fresh(f, 0)
    /\ pc = "open" /\ (restarts = 0 \/ ~ first_open) => (path # None => Fresh(path, 0))
    /\ pc = "stat" /\ (restarts = 0 \/ ~ first_open) => Fresh(stream, 0)
    /\ pc \in {"read", "check"} =>
        /\ Fresh(stream, offset)
        /\ offset > Len(content[stream]) => Fresh(stream, 0)
        /\ first_open => restarts = 0

InOrder == \A i, j \in 1..Len(emitted) : i < j => emitted[i] < emitted[j]

Undisturbed == restarts = 0 \/ (sought /\ ~ FromBeginning)

OrderInv == FollowerInv /\ (Undisturbed => InOrder /\ Unread)

-----------------------------------------------------------------------------
\* The files.

\* A chunk of a file, and the length of the file.
LEMMA ChunkType ==
    ASSUME FollowerTypeOK, NEW f \in Inode
    PROVE  /\ content[f] \in Seq(Chunk) /\ Len(content[f]) \in Nat
           /\ \A i \in 1..Len(content[f]) : content[f][i] \in Chunk /\ content[f][i].line \in Line
<1>1. content[f] \in Seq(Chunk)
  BY DEF FollowerTypeOK
<1>2. Len(content[f]) \in Nat /\ \A i \in 1..Len(content[f]) : content[f][i] \in Chunk
  BY <1>1, LenProperties, ElementOfSeq
<1> QED BY <1>1, <1>2 DEF Chunk

\* The chunks of a file after one is written to the file that the sensor has open.
LEMMA WrittenChunk ==
    ASSUME FollowerTypeOK, NEW n \in Line, NEW part \in {"whole", "head", "tail"},
           WriteChunk(n, part)
    PROVE  /\ target \in Inode
           /\ content' \in [Inode -> Seq(Chunk)]
           /\ Len(content'[target]) = Len(content[target]) + 1
           /\ content'[target][Len(content[target]) + 1] = [line |-> n, part |-> part]
           /\ \A i \in 1..Len(content[target]) : content'[target][i] = content[target][i]
           /\ \A f \in Inode \ {target} : content'[f] = content[f]
<1> DEFINE c == [line |-> n, part |-> part]
<1>1. target \in Inode /\ c \in Chunk /\ content \in [Inode -> Seq(Chunk)]
  BY DEF FollowerTypeOK, WriteChunk, Chunk
<1>2. content' = [content EXCEPT ![target] = Append(@, c)]
  BY DEF WriteChunk
<1>3. content[target] \in Seq(Chunk)
  BY <1>1
<1> HIDE DEF c
<1>4. /\ Append(content[target], c) \in Seq(Chunk)
      /\ Len(Append(content[target], c)) = Len(content[target]) + 1
      /\ Append(content[target], c)[Len(content[target]) + 1] = c
      /\ \A i \in 1..Len(content[target]) : Append(content[target], c)[i] = content[target][i]
  BY <1>1, <1>3, AppendProperties
<1>5. content'[target] = Append(content[target], c)
  BY <1>1, <1>2
<1>6. \A f \in Inode \ {target} : content'[f] = content[f]
  BY <1>1, <1>2
<1>7. content' \in [Inode -> Seq(Chunk)]
  BY <1>1, <1>2, <1>4
<1> QED BY <1>1, <1>4, <1>5, <1>6, <1>7 DEF c

\* A write keeps the files in order: it goes to the last of those with chunks.
LEMMA WriteOrdered ==
    ASSUME FollowerAssumption, FollowerInv,
           NEW n \in Line, NEW part \in {"whole", "head", "tail"}, WriteChunk(n, part),
           \/ n = written + 1
           \/ n = written /\ part = "tail"
    PROVE  FilesInOrder'
<1> DEFINE w == content[target]
           c == [line |-> n, part |-> part]
<1>1. /\ FollowerTypeOK /\ FilesInOrder
      /\ written \in Nat /\ n \in Nat /\ written' = n /\ target' = target
      /\ None \notin Int
  BY DEF FollowerInv, FollowerTypeOK, WriteChunk, Line, FollowerAssumption
<1>2. /\ target \in Inode
      /\ content' \in [Inode -> Seq(Chunk)]
      /\ Len(content'[target]) = Len(w) + 1
      /\ content'[target][Len(w) + 1] = c
      /\ \A i \in 1..Len(w) : content'[target][i] = w[i]
      /\ \A f \in Inode \ {target} : content'[f] = content[f]
  BY <1>1, WrittenChunk
<1>3. \A f \in Inode : /\ Len(content[f]) \in Nat
                       /\ \A i \in 1..Len(content[f]) :
                            content[f][i].line \in Nat /\ content[f][i].line <= written
  BY <1>1, ChunkType DEF FilesInOrder, Line
<1>4. \A f \in Inode : \A i \in 1..Len(content[f]) : Before(content[f][i], c)
  BY <1>1, <1>3 DEF Before
<1>5. c.line = n
  OBVIOUS
<1>6. Inode \subseteq Int
  BY DEF Inode
<1>7. \A g \in Inode : g > target => content[g] = <<>>
  BY <1>1, <1>2 DEF FilesInOrder
<1>8. Len(w) \in Nat
  BY <1>2, <1>3
<1> HIDE DEF c, w
<1>9. ASSUME NEW f \in Inode, NEW i \in 1..Len(content'[f]), NEW j \in 1..Len(content'[f]), i < j
      PROVE  Before(content'[f][i], content'[f][j])
  <2>1. CASE f = target
    <3>1. i \in 1..Len(w)
      BY <1>2, <1>8, <1>9, <2>1
    <3>2. content'[f][i] = w[i]
      BY <1>2, <2>1, <3>1
    <3>3. CASE j = Len(w) + 1
      BY <1>2, <1>4, <2>1, <3>1, <3>2, <3>3 DEF w
    <3>4. CASE j \in 1..Len(w)
      <4>1. content'[f][j] = w[j]
        BY <1>2, <2>1, <3>4
      <4>2. Before(w[i], w[j])
        BY <1>1, <1>2, <1>9, <3>1, <3>4 DEF w, FilesInOrder
      <4> QED BY <3>2, <4>1, <4>2
    <3> QED BY <1>2, <1>8, <2>1, <3>3, <3>4
  <2>2. CASE f # target
    <3>1. content'[f] = content[f]
      BY <1>2, <2>2
    <3> QED BY <1>1, <1>9, <3>1 DEF FilesInOrder
  <2> QED BY <2>1, <2>2
<1>10. ASSUME NEW f \in Inode, NEW g \in Inode, f < g,
              NEW i \in 1..Len(content'[f]), NEW j \in 1..Len(content'[g])
       PROVE  Before(content'[f][i], content'[g][j])
  <2>1. g <= target
    <3>1. SUFFICES ASSUME g > target PROVE FALSE
      BY <1>2, <1>6
    <3>2. content'[g] = <<>>
      BY <1>2, <1>6, <1>7, <3>1
    <3> QED BY <3>2
  <2>2. f # target
    BY <1>2, <1>6, <1>10, <2>1
  <2>3. content'[f] = content[f] /\ i \in 1..Len(content[f])
    BY <1>2, <2>2
  <2>4. CASE g = target /\ j = Len(w) + 1
    BY <1>2, <1>4, <2>3, <2>4
  <2>5. CASE g = target /\ j \in 1..Len(w)
    <3>1. content'[g][j] = content[g][j]
      BY <1>2, <2>5 DEF w
    <3> QED BY <1>1, <1>10, <2>3, <2>5, <3>1 DEF FilesInOrder, w
  <2>6. CASE g # target
    <3>1. content'[g] = content[g]
      BY <1>2, <2>6
    <3> QED BY <1>1, <1>10, <2>3, <3>1 DEF FilesInOrder
  <2> QED BY <1>2, <1>8, <2>4, <2>5, <2>6
<1>11. ASSUME NEW f \in Inode, NEW i \in 1..Len(content'[f])
       PROVE  content'[f][i].line <= n
  <2>1. CASE f = target /\ i = Len(w) + 1
    BY <1>1, <1>2, <1>5, <2>1
  <2>2. CASE f = target /\ i \in 1..Len(w)
    <3>1. content'[f][i] = content[f][i] /\ i \in 1..Len(content[f])
      BY <1>2, <2>2 DEF w
    <3> QED BY <1>1, <1>3, <3>1
  <2>3. CASE f # target
    <3>1. content'[f] = content[f]
      BY <1>2, <2>3
    <3> QED BY <1>1, <1>3, <3>1
  <2> QED BY <1>2, <1>8, <2>1, <2>2, <2>3
<1>12. \A f \in Inode : target' = None \/ f > target' => content'[f] = <<>>
  <2>1. target # None
    BY <1>1, <1>2, <1>6
  <2> QED BY <1>1, <1>2, <1>6, <1>7, <2>1
<1> QED BY <1>1, <1>9, <1>10, <1>11, <1>12 DEF FilesInOrder

-----------------------------------------------------------------------------
\* FollowerInv, action by action.

\* The states in which the process starts, first or again.
LEMMA FollowerInitInv ==
    ASSUME FollowerAssumption, FollowerInit
    PROVE  FollowerInv
<1>1. /\ content = [i \in Inode |-> <<>>] /\ written = 0 /\ half = FALSE
      /\ truncations = 0 /\ restarts = 0 /\ emitted = <<>> /\ parse_errors = 0
      /\ pc = "open" /\ stream = None /\ offset = 0 /\ inode = None /\ first_open = TRUE
      /\ path \in {None, 1} /\ target = (IF path = None THEN None ELSE 1)
      /\ files = (IF path = None THEN 0 ELSE 1)
  BY DEF FollowerInit, Started
<1>2. /\ MaxLines \in Nat /\ MaxFiles \in Nat \ {0} /\ MaxTruncations \in Nat
      /\ MaxRestarts \in Nat /\ None \notin Int
  BY DEF FollowerAssumption
<1>3. 1 \in Inode /\ None # 1
  BY <1>2 DEF Inode
<1>4. Len(<<>>) = 0 /\ <<>> \in Seq(Chunk) /\ <<>> \in Seq(Line)
  OBVIOUS
<1>5. FollowerTypeOK
  <2>1. path \in Inode \cup {None} /\ target \in Inode \cup {None} /\ files \in 0..MaxFiles
    BY <1>1, <1>2, <1>3
  <2>2. /\ written \in 0..MaxLines /\ truncations \in 0..MaxTruncations
        /\ restarts \in 0..MaxRestarts /\ offset \in Nat /\ parse_errors \in Nat
    BY <1>1, <1>2
  <2>3. content \in [Inode -> Seq(Chunk)] /\ emitted \in Seq(Line)
    BY <1>1, <1>4
  <2>4. /\ half \in BOOLEAN /\ first_open \in BOOLEAN
        /\ stream \in Inode \cup {None} /\ inode \in Inode \cup {None}
        /\ pc \in {"open", "stat", "read", "check", "failed"}
        /\ (stream = None) <=> (pc = "open")
    BY <1>1
  <2> QED BY <2>1, <2>2, <2>3, <2>4 DEF FollowerTypeOK
<1>6. \A f \in Inode : content[f] = <<>> /\ Len(content[f]) = 0
  BY <1>1, <1>4
<1>7. FilesInOrder
  BY <1>6 DEF FilesInOrder
<1>8. Paths
  BY <1>1, <1>2, <1>3 DEF Paths
<1> QED BY <1>1, <1>4, <1>5, <1>7, <1>8 DEF FollowerInv

\* The types of the numbers, and what the numbers stand for.
LEMMA Numbers ==
    ASSUME FollowerAssumption, FollowerInv
    PROVE  /\ FollowerTypeOK /\ FilesInOrder /\ Paths
           /\ written \in Nat /\ files \in Nat /\ offset \in Nat /\ None \notin Int
           /\ Inode \subseteq Nat /\ Inode \subseteq Int
           /\ written <= MaxLines /\ files <= MaxFiles
           /\ MaxLines \in Nat /\ MaxFiles \in Nat
           /\ emitted \in Seq(Line) /\ Len(emitted) \in Nat
           /\ \A i \in 1..Len(emitted) : emitted[i] \in Nat /\ emitted[i] <= written
<1>1. /\ FollowerTypeOK /\ FilesInOrder /\ Paths
      /\ \A i \in 1..Len(emitted) : emitted[i] <= written
  BY DEF FollowerInv
<1>2. /\ MaxLines \in Nat /\ MaxFiles \in Nat /\ None \notin Int
  BY DEF FollowerAssumption
<1>3. /\ written \in Nat /\ files \in Nat /\ offset \in Nat /\ emitted \in Seq(Line)
      /\ written <= MaxLines /\ files <= MaxFiles
  BY <1>1, <1>2 DEF FollowerTypeOK
<1>4. Inode \subseteq Nat /\ Inode \subseteq Int /\ Line \subseteq Nat
  BY DEF Inode, Line
<1>5. Len(emitted) \in Nat /\ \A i \in 1..Len(emitted) : emitted[i] \in Line
  BY <1>3, LenProperties, ElementOfSeq
<1> QED BY <1>1, <1>2, <1>3, <1>4, <1>5

\* A chunk of a line that the sensor may write now.
Writable(n, part) ==
    /\ n \in Line /\ part \in {"whole", "head", "tail"}
    /\ (n = written + 1 /\ part # "tail") \/ (n = written /\ part = "tail")

\* Write and WriteRest write such a chunk.
LEMMA WriteIsWritable ==
    ASSUME FollowerAssumption, FollowerInv, Write \/ WriteRest
    PROVE  \E n, part : Writable(n, part) /\ WriteChunk(n, part)
<1>1. written \in Nat /\ MaxLines \in Nat /\ written <= MaxLines
  BY Numbers
<1>2. CASE Write
  <2>1. PICK part \in {"whole", "head"} : WriteChunk(written + 1, part)
    BY <1>2 DEF Write
  <2>2. written + 1 \in Line
    BY <1>1, <1>2 DEF Write, Line
  <2>3. Writable(written + 1, part)
    BY <2>1, <2>2 DEF Writable
  <2> QED BY <2>1, <2>3
<1>3. CASE WriteRest
  <2>1. half /\ WriteChunk(written, "tail")
    BY <1>3 DEF WriteRest
  <2>2. written \in Line
    BY <1>1, <2>1 DEF Line, FollowerInv
  <2>3. Writable(written, "tail")
    BY <2>2 DEF Writable
  <2> QED BY <2>1, <2>3
<1> QED BY <1>2, <1>3

\* A write.
LEMMA WriteInv ==
    ASSUME FollowerAssumption, FollowerInv, NEW n, NEW part, Writable(n, part),
           WriteChunk(n, part)
    PROVE  FollowerInv'
<1>1. /\ FollowerTypeOK /\ Paths /\ written \in Nat
      /\ \A i \in 1..Len(emitted) : emitted[i] \in Nat /\ emitted[i] <= written
  BY Numbers
<1>2. n \in Line /\ part \in {"whole", "head", "tail"} /\ n \in Nat /\ n >= 1 /\ written <= n
  BY <1>1 DEF Writable, Line
<1>3. FilesInOrder' /\ content' \in [Inode -> Seq(Chunk)]
  BY <1>1, <1>2, WriteOrdered, WrittenChunk DEF Writable
<1>4. /\ written' = n /\ half' = (part = "head")
      /\ UNCHANGED <<path, target, files, truncations, restarts, pc, stream, offset, inode,
                     first_open, emitted, parse_errors>>
  BY DEF WriteChunk, readerVars, taskVars
<1>5. FollowerTypeOK'
  <2>1. written' \in 0..MaxLines /\ half' \in BOOLEAN
    BY <1>2, <1>4 DEF Line
  <2> QED BY <1>1, <1>3, <1>4, <2>1 DEF FollowerTypeOK
<1>6. Paths'
  BY <1>1, <1>4 DEF Paths
<1>7. \A i \in 1..Len(emitted') : emitted'[i] <= written'
  BY <1>1, <1>2, <1>4
<1> QED BY <1>2, <1>3, <1>4, <1>5, <1>6, <1>7 DEF FollowerInv

\* The rotator and the sensor move between files.
LEMMA RotateInv ==
    ASSUME FollowerAssumption, FollowerInv, Rename \/ Install \/ Reopen
    PROVE  FollowerInv'
<1> USE DEF readerVars, taskVars
<1>1. /\ FollowerTypeOK /\ FilesInOrder /\ Paths /\ files \in Nat /\ MaxFiles \in Nat
      /\ None \notin Int /\ Inode \subseteq Int
      /\ \A i \in 1..Len(emitted) : emitted[i] <= written
      /\ half => written >= 1
  BY Numbers DEF FollowerInv
<1>2. CASE Rename
  <2>1. /\ path' = None
        /\ UNCHANGED <<target, content, written, half, files, truncations, readerVars>>
    BY <1>2 DEF Rename
  <2>2. FollowerTypeOK'
    BY <1>1, <2>1 DEF FollowerTypeOK
  <2>3. FilesInOrder'
    BY <1>1, <2>1 DEF FilesInOrder
  <2>4. Paths'
    BY <1>1, <2>1 DEF Paths, FollowerTypeOK
  <2> QED BY <1>1, <2>1, <2>2, <2>3, <2>4 DEF FollowerInv
<1>3. CASE Install
  <2>1. /\ files < MaxFiles /\ files' = files + 1 /\ path' = files + 1
        /\ UNCHANGED <<target, content, written, half, truncations, readerVars>>
    BY <1>3 DEF Install
  <2>2. files + 1 \in Inode /\ files + 1 \in 0..MaxFiles
    BY <1>1, <2>1 DEF Inode
  <2>3. FollowerTypeOK'
    BY <1>1, <2>1, <2>2 DEF FollowerTypeOK
  <2>4. FilesInOrder'
    BY <1>1, <2>1 DEF FilesInOrder
  <2>5. \A f \in Inode : f <= files => f <= files + 1 /\ f # files + 1
    BY <1>1
  <2>6. Paths'
    <3>1. /\ path' # None => path' = files'
          /\ target' # None => target' <= files'
          /\ stream' # None => stream' <= files'
      BY <1>1, <2>1, <2>5 DEF Paths, FollowerTypeOK
    <3>2. pc \in {"read", "check"} => path' # stream'
      BY <1>1, <2>1, <2>5 DEF Paths, FollowerTypeOK
    <3> QED BY <1>1, <2>1, <3>1, <3>2 DEF Paths
  <2> QED BY <1>1, <2>1, <2>3, <2>4, <2>6 DEF FollowerInv
<1>4. CASE Reopen
  <2>1. /\ path # None /\ target' = path
        /\ UNCHANGED <<path, content, written, half, files, truncations, readerVars>>
    BY <1>4 DEF Reopen
  <2>2. path = files /\ path \in Inode
    BY <1>1, <2>1 DEF Paths, FollowerTypeOK
  <2>3. FollowerTypeOK'
    BY <1>1, <2>1, <2>2 DEF FollowerTypeOK
  <2>4. ASSUME NEW f \in Inode, target' = None \/ f > target' PROVE content'[f] = <<>>
    <3>1. f > files
      BY <1>1, <2>1, <2>2, <2>4
    <3>2. target = None \/ f > target
      BY <1>1, <3>1 DEF Paths, FollowerTypeOK
    <3> QED BY <1>1, <2>1, <3>2 DEF FilesInOrder
  <2>5. FilesInOrder'
    BY <1>1, <2>1, <2>4 DEF FilesInOrder
  <2>6. Paths'
    BY <1>1, <2>1, <2>2 DEF Paths
  <2> QED BY <1>1, <2>1, <2>3, <2>5, <2>6 DEF FollowerInv
<1> QED BY <1>2, <1>3, <1>4

\* A truncation.
LEMMA TruncateInv ==
    ASSUME FollowerAssumption, FollowerInv, Truncate
    PROVE  FollowerInv'
<1> USE DEF readerVars, taskVars
<1>1. /\ FollowerTypeOK /\ FilesInOrder /\ Paths
      /\ \A i \in 1..Len(emitted) : emitted[i] <= written
      /\ half => written >= 1
  BY Numbers DEF FollowerInv
<1>2. /\ content' = [content EXCEPT ![path] = <<>>]
      /\ truncations < MaxTruncations /\ truncations' = truncations + 1 /\ path # None
      /\ UNCHANGED <<path, target, written, half, files, readerVars>>
  BY DEF Truncate
<1>3. path \in Inode /\ MaxTruncations \in Nat /\ truncations \in 0..MaxTruncations
  BY <1>1, <1>2 DEF FollowerTypeOK, FollowerAssumption
<1>4. /\ content'[path] = <<>> /\ Len(content'[path]) = 0
      /\ \A f \in Inode \ {path} : content'[f] = content[f]
      /\ content' \in [Inode -> Seq(Chunk)]
  BY <1>1, <1>2, <1>3 DEF FollowerTypeOK
<1>5. FollowerTypeOK'
  <2>1. truncations' \in 0..MaxTruncations
    BY <1>2, <1>3
  <2> QED BY <1>1, <1>2, <1>4, <2>1 DEF FollowerTypeOK
<1>6. FilesInOrder'
  <2>1. ASSUME NEW f \in Inode, NEW i \in 1..Len(content'[f]) PROVE content'[f] = content[f]
    <3>1. f # path
      BY <1>4
    <3> QED BY <1>4, <3>1
  <2>2. ASSUME NEW f \in Inode, NEW i \in 1..Len(content'[f]), NEW j \in 1..Len(content'[f]), i < j
        PROVE  Before(content'[f][i], content'[f][j])
    BY <1>1, <2>1, <2>2 DEF FilesInOrder
  <2>3. ASSUME NEW f \in Inode, NEW g \in Inode, f < g,
               NEW i \in 1..Len(content'[f]), NEW j \in 1..Len(content'[g])
        PROVE  Before(content'[f][i], content'[g][j])
    <3>1. content'[f] = content[f] /\ content'[g] = content[g]
      BY <2>1
    <3> QED BY <1>1, <2>3, <3>1 DEF FilesInOrder
  <2>4. ASSUME NEW f \in Inode, NEW i \in 1..Len(content'[f])
        PROVE  content'[f][i].line <= written
    BY <1>1, <2>1 DEF FilesInOrder
  <2>5. \A f \in Inode : target' = None \/ f > target' => content'[f] = <<>>
    BY <1>1, <1>2, <1>4 DEF FilesInOrder
  <2> QED BY <1>2, <2>2, <2>3, <2>4, <2>5 DEF FilesInOrder
<1>7. Paths'
  BY <1>1, <1>2 DEF Paths
<1> QED BY <1>1, <1>2, <1>5, <1>6, <1>7 DEF FollowerInv

\* Every action of the sensor and of the rotator.
LEMMA SensorInv ==
    ASSUME FollowerAssumption, FollowerInv, Sensor
    PROVE  FollowerInv'
<1>1. ASSUME Write \/ WriteRest PROVE FollowerInv'
  BY <1>1, WriteIsWritable, WriteInv
<1> QED BY <1>1, RotateInv, TruncateInv DEF Sensor

\* A line that the follower reads: where it starts, and how many chunks it takes.
LEMMA NextLineProperties ==
    ASSUME FollowerAssumption, FollowerInv, stream \in Inode, NextLine # <<>>
    PROVE  /\ offset < Len(content[stream]) /\ offset + 1 \in 1..Len(content[stream])
           /\ Len(NextLine) \in {1, 2} /\ offset + Len(NextLine) <= Len(content[stream])
           /\ NextLine[1] = content[stream][offset + 1]
           /\ Parses(NextLine) => NextLine[1].part # "tail"
<1> DEFINE file == content[stream]
           size == IF offset + 1 < Len(file) /\ file[offset + 1].part = "head" THEN 2 ELSE 1
           r == SubSeq(file, offset + 1, offset + size)
<1>1. FollowerTypeOK /\ offset \in Nat
  BY Numbers
<1>2. /\ file \in Seq(Chunk) /\ Len(file) \in Nat
      /\ \A i \in 1..Len(file) : file[i] \in Chunk
  BY <1>1, ChunkType
<1>3. offset < Len(file) /\ NextLine = r
  BY DEF NextLine
<1>4. /\ size \in {1, 2} /\ offset + size <= Len(file)
      /\ size = 2 => file[offset + 1].part = "head"
  BY <1>1, <1>2, <1>3
<1> HIDE DEF file, size
<1>5. /\ Len(r) = size
      /\ r[1] = file[offset + 1]
  <2>1. /\ offset + 1 \in Int /\ offset + size \in Int /\ offset + 1 <= offset + size
        /\ \A i \in (offset + 1)..(offset + size) : file[i] \in Chunk
    BY <1>1, <1>2, <1>4
  <2>2. /\ Len(r) = (offset + size) - (offset + 1) + 1
        /\ \A i \in 1..((offset + size) - (offset + 1) + 1) : r[i] = file[offset + 1 + i - 1]
    BY <1>2, <2>1, SubSeqProperties
  <2>3. (offset + size) - (offset + 1) + 1 = size /\ 1 \in 1..size /\ offset + 1 + 1 - 1 = offset + 1
    BY <1>1, <1>4
  <2> QED BY <2>2, <2>3
<1> HIDE DEF r
<1>6. Parses(r) => r[1].part # "tail"
  BY <1>4, <1>5 DEF Parses
<1>7. offset + 1 \in 1..Len(file)
  BY <1>1, <1>2, <1>3
<1> QED BY <1>3, <1>4, <1>5, <1>6, <1>7 DEF file

\* What the follower does leaves the files as they are.
LEMMA FollowerStepInv ==
    ASSUME FollowerAssumption, FollowerInv, UNCHANGED fileVars,
           FollowerTypeOK', Paths', \A i \in 1..Len(emitted') : emitted'[i] <= written
    PROVE  FollowerInv'
<1>1. UNCHANGED <<path, target, content, written, half, files, truncations>>
  BY DEF fileVars
<1>2. FilesInOrder'
  BY <1>1 DEF FollowerInv, FilesInOrder
<1> QED BY <1>1, <1>2 DEF FollowerInv

\* Every step of the follower, and a restart.
LEMMA FollowInv ==
    ASSUME FollowerAssumption, FollowerInv, Follow \/ Restart
    PROVE  FollowerInv'
<1> USE DEF fileVars
<1>1. /\ FollowerTypeOK /\ Paths /\ offset \in Nat /\ files \in Nat /\ None \notin Int
      /\ Inode \subseteq Int /\ emitted \in Seq(Line) /\ Len(emitted) \in Nat
      /\ \A i \in 1..Len(emitted) : emitted[i] <= written
  BY Numbers
<1>2. CASE Open
  <2>1. FollowerTypeOK'
    BY <1>1, <1>2 DEF Open, FollowerTypeOK
  <2>2. Paths'
    BY <1>1, <1>2 DEF Open, FollowerTypeOK, Paths
  <2> QED BY <1>1, <1>2, <2>1, <2>2, FollowerStepInv DEF Open
<1>3. CASE Stat
  <2>1. stream \in Inode
    BY <1>1, <1>3 DEF Stat, FollowerTypeOK
  <2>2. Len(content[stream]) \in Nat
    BY <1>1, <2>1, ChunkType
  <2>3. offset' \in Nat
    BY <1>3, <2>2 DEF Stat
  <2>4. FollowerTypeOK'
    BY <1>1, <1>3, <2>3 DEF Stat, FollowerTypeOK
  <2>5. Paths'
    BY <1>1, <1>3 DEF Stat, FollowerTypeOK, Paths
  <2> QED BY <1>1, <1>3, <2>4, <2>5, FollowerStepInv DEF Stat
<1>4. CASE StatMissing
  <2>1. FollowerTypeOK'
    BY <1>1, <1>4 DEF StatMissing, FollowerTypeOK
  <2>2. Paths'
    BY <1>1, <1>4 DEF StatMissing, FollowerTypeOK, Paths
  <2> QED BY <1>1, <1>4, <2>1, <2>2, FollowerStepInv DEF StatMissing
<1>5. CASE Read
  <2>1. /\ pc = "read" /\ NextLine # <<>> /\ offset' = offset + Len(NextLine)
        /\ UNCHANGED <<fileVars, restarts, pc, stream, inode, first_open>>
        /\ \/ emitted' = Append(emitted, NextLine[1].line) /\ UNCHANGED parse_errors
           \/ parse_errors' = parse_errors + 1 /\ UNCHANGED emitted
    BY <1>5 DEF Read
  <2>2. stream \in Inode
    BY <1>1, <2>1 DEF FollowerTypeOK
  <2>3. /\ offset + 1 \in 1..Len(content[stream]) /\ Len(NextLine) \in {1, 2}
        /\ NextLine[1] = content[stream][offset + 1]
    BY <2>1, <2>2, NextLineProperties
  <2>4. NextLine[1].line \in Line /\ NextLine[1].line <= written
    BY <1>1, <2>2, <2>3, ChunkType DEF FollowerInv, FilesInOrder
  <2>5. offset' \in Nat
    BY <1>1, <2>1, <2>3
  <2>6. emitted' \in Seq(Line) /\ \A i \in 1..Len(emitted') : emitted'[i] <= written
    BY <1>1, <2>1, <2>4, AppendProperties, SMTT(30)
  <2>7. FollowerTypeOK'
    BY <1>1, <2>1, <2>5, <2>6, SMTT(30) DEF FollowerTypeOK
  <2>8. Paths'
    BY <1>1, <2>1 DEF Paths
  <2> QED BY <2>1, <2>6, <2>7, <2>8, FollowerStepInv
<1>6. CASE DecodeFails
  <2>1. FollowerTypeOK'
    BY <1>1, <1>6 DEF DecodeFails, FollowerTypeOK
  <2>2. Paths'
    BY <1>1, <1>6 DEF DecodeFails, Paths
  <2> QED BY <1>1, <1>6, <2>1, <2>2, FollowerStepInv DEF DecodeFails
<1>7. CASE ReadEnd
  <2>1. FollowerTypeOK'
    BY <1>1, <1>7 DEF ReadEnd, FollowerTypeOK
  <2>2. Paths'
    BY <1>1, <1>7 DEF ReadEnd, Paths
  <2> QED BY <1>1, <1>7, <2>1, <2>2, FollowerStepInv DEF ReadEnd
<1>8. CASE Rotated
  <2>1. FollowerTypeOK'
    BY <1>1, <1>8 DEF Rotated, FollowerTypeOK
  <2>2. Paths'
    BY <1>1, <1>8 DEF Rotated, Paths
  <2> QED BY <1>1, <1>8, <2>1, <2>2, FollowerStepInv DEF Rotated
<1>9. CASE Sleep
  <2>1. FollowerTypeOK'
    BY <1>1, <1>9 DEF Sleep, FollowerTypeOK
  <2>2. Paths'
    BY <1>1, <1>9 DEF Sleep, Paths
  <2> QED BY <1>1, <1>9, <2>1, <2>2, FollowerStepInv DEF Sleep
<1>10. CASE Restart
  <2>1. /\ pc' = "open" /\ stream' = None /\ offset' = 0 /\ inode' = None /\ first_open' = TRUE
        /\ restarts < MaxRestarts /\ restarts' = restarts + 1
        /\ UNCHANGED <<fileVars, emitted, parse_errors>>
    BY <1>10 DEF Restart, Started
  <2>2. restarts' \in 0..MaxRestarts
    BY <1>1, <2>1 DEF FollowerTypeOK, FollowerAssumption
  <2>3. FollowerTypeOK'
    BY <1>1, <2>1, <2>2 DEF FollowerTypeOK
  <2>4. Paths'
    BY <1>1, <2>1 DEF Paths
  <2> QED BY <1>1, <2>1, <2>3, <2>4, FollowerStepInv
<1> QED BY <1>2, <1>3, <1>4, <1>5, <1>6, <1>7, <1>8, <1>9, <1>10 DEF Follow

\* A step that changes nothing.
LEMMA FollowerStutter ==
    ASSUME FollowerInv, UNCHANGED followerVars
    PROVE  FollowerInv'
<1>1. UNCHANGED <<path, target, content, written, half, files, truncations, restarts, pc,
                  stream, offset, inode, first_open, emitted, parse_errors>>
  BY DEF followerVars, fileVars, readerVars, taskVars
<1>2. FollowerTypeOK'
  BY <1>1 DEF FollowerInv, FollowerTypeOK
<1>3. FilesInOrder'
  BY <1>1 DEF FollowerInv, FilesInOrder
<1>4. Paths'
  BY <1>1 DEF FollowerInv, Paths
<1> QED BY <1>1, <1>2, <1>3, <1>4 DEF FollowerInv

\* Every step of the system keeps the invariant.
LEMMA FollowerInductive ==
    ASSUME FollowerAssumption
    PROVE  FollowerInv /\ [FollowerNext]_followerVars => FollowerInv'
BY SensorInv, FollowInv, FollowerStutter DEF FollowerNext

\* Every variable of the follower has its type, through every rotation and restart.
THEOREM FollowerTypeCorrect ==
    ASSUME FollowerAssumption
    PROVE  FollowerSpec => []FollowerTypeOK
<1>1. FollowerInit => FollowerInv
  BY FollowerInitInv
<1>2. FollowerInv => FollowerTypeOK
  BY DEF FollowerInv
<1> QED BY <1>1, <1>2, FollowerInductive, PTL DEF FollowerSpec

-----------------------------------------------------------------------------
\* Once and in order, action by action.

\* The sensor and the rotator never make a file less fresh, and a truncated file is fresh.
LEMMA SensorFresh ==
    ASSUME FollowerAssumption, FollowerInv, Sensor, NEW f \in Inode, NEW m \in Nat
    PROVE  /\ Fresh(f, m) => Fresh(f, m)'
           /\ Len(content'[f]) >= Len(content[f]) \/ Fresh(f, m)'
           /\ UNCHANGED readerVars
<1>1. /\ FollowerTypeOK /\ written \in Nat /\ Len(emitted) \in Nat
      /\ \A i \in 1..Len(emitted) : emitted[i] \in Nat /\ emitted[i] <= written
  BY Numbers
<1>2. Len(content[f]) \in Nat
  BY <1>1, ChunkType
<1>3. ASSUME Write \/ WriteRest
      PROVE  /\ Fresh(f, m) => Fresh(f, m)'
             /\ Len(content'[f]) >= Len(content[f])
             /\ UNCHANGED readerVars
  <2>1. PICK n, part : Writable(n, part) /\ WriteChunk(n, part)
    BY <1>3, WriteIsWritable
  <2>2. /\ target \in Inode
        /\ Len(content'[target]) = Len(content[target]) + 1
        /\ content'[target][Len(content[target]) + 1] = [line |-> n, part |-> part]
        /\ \A i \in 1..Len(content[target]) : content'[target][i] = content[target][i]
        /\ \A g \in Inode \ {target} : content'[g] = content[g]
    BY <1>1, <2>1, WrittenChunk DEF Writable
  <2>3. emitted' = emitted /\ UNCHANGED readerVars
    BY <2>1 DEF WriteChunk, readerVars
  <2>4. Late([line |-> n, part |-> part])
    BY <1>1, <2>1 DEF Late, Writable
  <2>5. ASSUME Fresh(f, m), NEW i \in 1..Len(content'[f]), i > m PROVE Late(content'[f][i])
    <3>1. CASE f # target
      BY <2>2, <2>5, <3>1 DEF Fresh
    <3>2. CASE f = target /\ i \in 1..Len(content[f])
      BY <2>2, <2>5, <3>2 DEF Fresh
    <3>3. CASE f = target /\ i = Len(content[f]) + 1
      BY <2>2, <2>4, <3>3
    <3> QED BY <1>2, <2>2, <3>1, <3>2, <3>3
  <2>6. Fresh(f, m) => Fresh(f, m)'
    BY <2>3, <2>5 DEF Fresh, Late
  <2>7. Len(content'[f]) >= Len(content[f])
    <3>1. CASE f = target
      BY <1>2, <2>2, <3>1
    <3>2. CASE f # target
      BY <1>2, <2>2, <3>2
    <3> QED BY <3>1, <3>2
  <2> QED BY <2>3, <2>6, <2>7
<1>4. ASSUME Rename \/ Install \/ Reopen
      PROVE  content' = content /\ UNCHANGED readerVars
  BY <1>4 DEF Rename, Install, Reopen
<1>5. ASSUME Truncate
      PROVE  /\ Fresh(f, m) => Fresh(f, m)'
             /\ Len(content'[f]) >= Len(content[f]) \/ Fresh(f, m)'
             /\ UNCHANGED readerVars
  <2>1. /\ path \in Inode /\ content' = [content EXCEPT ![path] = <<>>]
        /\ UNCHANGED readerVars
    BY <1>1, <1>5 DEF Truncate, FollowerTypeOK
  <2>2. emitted' = emitted
    BY <2>1 DEF readerVars
  <2>3. CASE f = path
    <3>1. content'[f] = <<>>
      BY <1>1, <2>1, <2>3 DEF FollowerTypeOK
    <3>2. Fresh(f, m)'
      BY <3>1 DEF Fresh
    <3> QED BY <2>1, <3>2
  <2>4. CASE f # path
    <3>1. content'[f] = content[f]
      BY <1>1, <2>1, <2>4 DEF FollowerTypeOK
    <3>2. Fresh(f, m) => Fresh(f, m)'
      BY <2>2, <3>1 DEF Fresh, Late
    <3>3. Len(content'[f]) >= Len(content[f])
      BY <1>2, <3>1
    <3> QED BY <2>1, <3>2, <3>3
  <2> QED BY <2>3, <2>4
<1>6. ASSUME content' = content, UNCHANGED readerVars
      PROVE  (Fresh(f, m) => Fresh(f, m)') /\ Len(content'[f]) >= Len(content[f])
  BY <1>2, <1>6 DEF Fresh, Late, readerVars
<1> QED BY <1>3, <1>4, <1>5, <1>6 DEF Sensor

\* An installed file is empty.
LEMMA InstalledFresh ==
    ASSUME FollowerAssumption, FollowerInv, Sensor, path' # None, path' # path
    PROVE  Fresh(path, 0)'
<1>1. FollowerTypeOK /\ FilesInOrder /\ Paths /\ files \in Nat /\ MaxFiles \in Nat /\ Inode \subseteq Int
      /\ None \notin Int
  BY Numbers
<1>2. Install
  BY DEF Sensor, Write, WriteRest, WriteChunk, Rename, Reopen, Truncate
<1>3. path' = files + 1 /\ files < MaxFiles /\ content' = content
  BY <1>2 DEF Install
<1>4. files + 1 \in Inode
  BY <1>1, <1>3 DEF Inode
<1>5. target = None \/ files + 1 > target
  BY <1>1 DEF Paths, FollowerTypeOK
<1>6. content[files + 1] = <<>>
  BY <1>1, <1>4, <1>5 DEF FilesInOrder
<1>7. content'[path'] = <<>>
  BY <1>3, <1>6
<1> QED BY <1>3, <1>4, <1>7 DEF Fresh

\* What the sensor and the rotator do makes nothing read.
LEMMA SensorUnread ==
    ASSUME FollowerAssumption, FollowerInv, Unread, Sensor
    PROVE  Unread'
<1>1. FollowerTypeOK /\ offset \in Nat /\ None \notin Int
  BY Numbers
<1>2. UNCHANGED <<restarts, pc, stream, offset, inode, first_open, emitted>>
  <2>1. ASSUME NEW f \in Inode PROVE UNCHANGED readerVars
    BY SensorFresh, 0 \in Nat
  <2>2. 1 \in Inode
    BY DEF FollowerAssumption, Inode
  <2> QED BY <2>1, <2>2 DEF readerVars, taskVars
<1>3. ASSUME NEW f \in Inode, NEW m \in Nat
      PROVE  (Fresh(f, m) => Fresh(f, m)')
                /\ (Len(content'[f]) >= Len(content[f]) \/ Fresh(f, m)')
  BY SensorFresh
<1>4. stream' # None => \A f \in Inode : f > stream' => Fresh(f, 0)'
  BY <1>2, <1>3 DEF Unread
<1>5. pc' = "open" /\ (restarts' = 0 \/ ~ first_open') => (path' # None => Fresh(path, 0)')
  <2>1. SUFFICES ASSUME pc = "open", restarts = 0 \/ ~ first_open, path' # None
                 PROVE  Fresh(path, 0)'
    BY <1>2
  <2>2. CASE path' = path
    <3>1. path \in Inode /\ Fresh(path, 0)
      BY <1>1, <2>1, <2>2 DEF Unread, FollowerTypeOK
    <3>2. PICK f \in Inode : f = path
      BY <3>1
    <3>3. Fresh(f, 0)'
      BY <1>3, <3>1, <3>2
    <3> QED BY <2>2, <3>2, <3>3 DEF Fresh
  <2>3. CASE path' # path
    BY <2>1, <2>3, InstalledFresh
  <2> QED BY <2>2, <2>3
<1>6. pc' = "stat" /\ (restarts' = 0 \/ ~ first_open') => Fresh(stream, 0)'
  <2>1. SUFFICES ASSUME pc = "stat", restarts = 0 \/ ~ first_open PROVE Fresh(stream, 0)'
    BY <1>2
  <2>2. PICK f \in Inode : f = stream
    BY <1>1, <2>1 DEF FollowerTypeOK
  <2>3. Fresh(f, 0)'
    BY <1>3, <2>1, <2>2 DEF Unread
  <2> QED BY <1>2, <2>2, <2>3 DEF Fresh
<1>7. pc' \in {"read", "check"} =>
        /\ Fresh(stream, offset)'
        /\ offset' > Len(content'[stream']) => Fresh(stream, 0)'
        /\ first_open' => restarts' = 0
  <2>1. SUFFICES ASSUME pc \in {"read", "check"}
                 PROVE  /\ Fresh(stream, offset)'
                        /\ offset' > Len(content'[stream']) => Fresh(stream, 0)'
                        /\ first_open' => restarts' = 0
    BY <1>2
  <2>2. PICK f \in Inode, m \in Nat : f = stream /\ m = offset
    BY <1>1, <2>1 DEF FollowerTypeOK
  <2>3. Fresh(f, m) /\ (m > Len(content[f]) => Fresh(f, 0)) /\ (first_open => restarts = 0)
    BY <2>1, <2>2 DEF Unread
  <2>4. Fresh(f, m)'
    BY <1>3, <2>3
  <2>5. m > Len(content'[f]) => Fresh(f, 0)'
    <3>1. Len(content[f]) \in Nat
      BY <1>1, ChunkType
    <3>2. CASE m > Len(content[f])
      BY <1>3, <2>3, <3>2
    <3>3. CASE ~ (m > Len(content[f])) /\ m > Len(content'[f])
      <4>1. ~ (Len(content'[f]) >= Len(content[f]))
        <5>1. FollowerTypeOK' /\ f \in Inode
          BY SensorInv DEF FollowerInv
        <5>2. content'[f] \in Seq(Chunk)
          BY <5>1 DEF FollowerTypeOK
        <5>3. Len(content'[f]) \in Nat
          BY <5>2, LenProperties
        <5> QED BY <3>1, <3>3, <5>3
      <4> QED BY <1>3, <4>1
    <3> QED BY <3>2, <3>3
  <2> QED BY <1>2, <2>2, <2>3, <2>4, <2>5 DEF Fresh
<1> QED BY <1>4, <1>5, <1>6, <1>7 DEF Unread

\* A step of the follower that emits nothing changes the freshness of no file.
LEMMA SameFresh ==
    ASSUME UNCHANGED <<content, emitted>>
    PROVE  \A f, m : Fresh(f, m)' <=> Fresh(f, m)
BY DEF Fresh, Late

\* Opening, seeking and the end of the file.
LEMMA OpenUnread ==
    ASSUME FollowerAssumption, FollowerInv, Unread, Open
    PROVE  Unread'
<1>1. FollowerTypeOK /\ FilesInOrder /\ Paths /\ None \notin Int /\ Inode \subseteq Int
      /\ files \in Nat
  BY Numbers
<1>2. /\ path \in Inode /\ stream' = path /\ offset' = 0 /\ pc = "open" /\ pc' = "stat"
      /\ UNCHANGED <<path, content, restarts, first_open, emitted>>
  BY <1>1 DEF Open, fileVars, FollowerTypeOK
<1>3. ASSUME NEW f \in Inode, f > path PROVE Fresh(f, 0)
  <2>1. path = files
    BY <1>2, Numbers DEF Open, Paths
  <2>2. target = None \/ f > target
    BY <1>1, <1>3, <2>1 DEF Paths, FollowerTypeOK
  <2>3. content[f] = <<>>
    BY <1>1, <2>2 DEF FilesInOrder
  <2> QED BY <2>3 DEF Fresh
<1>4. \A f, m : Fresh(f, m)' <=> Fresh(f, m)
  BY <1>2, SameFresh
<1>5. \A f \in Inode : f > path => Fresh(f, 0)'
  BY <1>3, <1>4
<1>6. restarts = 0 \/ ~ first_open => Fresh(path, 0)
  BY <1>1, <1>2 DEF Unread, Open
<1>7. restarts = 0 \/ ~ first_open => Fresh(stream, 0)'
  BY <1>2, <1>6 DEF Fresh, Late
<1> QED BY <1>2, <1>5, <1>7 DEF Unread

\* The seek: to the end, or to the beginning of a file of which nothing was read.
LEMMA StatUnread ==
    ASSUME FollowerAssumption, FollowerInv, Unread, Stat \/ StatMissing,
           restarts = 0 \/ ~ FromBeginning,
           StatMissing => restarts = 0 \/ ~ first_open
    PROVE  Unread'
<1>1. FollowerTypeOK /\ None \notin Int /\ Paths
  BY Numbers
<1>2. /\ pc = "stat" /\ pc' = "read" /\ stream' = stream
      /\ UNCHANGED <<content, restarts, emitted>>
  BY DEF Stat, StatMissing, fileVars
<1>3. stream \in Inode
  BY <1>1, <1>2 DEF FollowerTypeOK
<1>4. Len(content[stream]) \in Nat
  BY <1>1, <1>3, ChunkType
<1>5. \A f, m : Fresh(f, m)' <=> Fresh(f, m)
  BY <1>2, SameFresh
<1>6. \A f \in Inode : f > stream => Fresh(f, 0)'
  BY <1>1, <1>2, <1>3, <1>5 DEF Unread, FollowerTypeOK
<1>7. CASE Stat
  <2>1. first_open' = FALSE
    BY <1>7 DEF Stat
  <2>2. CASE first_open /\ ~ FromBeginning
    <3>1. offset' = Len(content[stream])
      BY <1>7, <2>2 DEF Stat
    <3>2. Fresh(stream, offset)'
      BY <1>2, <1>4, <3>1 DEF Fresh
    <3>3. ~ (offset' > Len(content'[stream']))
      BY <1>2, <1>4, <3>1
    <3> QED BY <1>2, <1>6, <2>1, <3>2, <3>3 DEF Unread
  <2>3. CASE ~ (first_open /\ ~ FromBeginning)
    <3>1. offset' = 0 /\ Fresh(stream, 0)
      BY <1>1, <1>2, <1>7, <2>3 DEF Stat, Unread, FollowerTypeOK
    <3>2. Fresh(stream, offset)' /\ Fresh(stream, 0)'
      BY <1>2, <3>1 DEF Fresh, Late
    <3> QED BY <1>2, <1>6, <2>1, <3>2 DEF Unread
  <2> QED BY <2>2, <2>3
<1>8. CASE StatMissing
  <2>1. offset = 0 /\ offset' = offset /\ first_open' = first_open
    BY <1>1, <1>2, <1>8 DEF StatMissing, Paths
  <2>2. Fresh(stream, 0)
    BY <1>2, <1>8 DEF Unread
  <2>3. Fresh(stream, offset)' /\ Fresh(stream, 0)'
    BY <1>2, <2>1, <2>2 DEF Fresh, Late
  <2>4. first_open' => restarts' = 0
    BY <1>2, <1>8, <2>1
  <2> QED BY <1>2, <1>6, <2>3, <2>4 DEF Unread
<1> QED BY <1>7, <1>8

\* At the end of the file: a rotation leads to another file, or to one that shrank.
LEMMA CheckUnread ==
    ASSUME FollowerAssumption, FollowerInv, Unread,
           Rotated \/ Sleep \/ ReadEnd \/ DecodeFails
    PROVE  Unread'
<1>1. FollowerTypeOK /\ None \notin Int /\ Paths /\ Inode \subseteq Int /\ files \in Nat
      /\ offset \in Nat
  BY Numbers
<1>2. UNCHANGED <<path, content, restarts, first_open, offset, emitted>> /\ pc \in {"read", "check"}
  BY DEF Rotated, Sleep, ReadEnd, DecodeFails, fileVars
<1>3. stream \in Inode
  BY <1>1, <1>2 DEF FollowerTypeOK
<1>4. \A f, m : Fresh(f, m)' <=> Fresh(f, m)
  BY <1>2, SameFresh
<1>5. CASE Rotated
  <2>1. stream' = None /\ pc' = "open" /\ pc = "check" /\ (Replaced \/ Truncated)
    BY <1>5 DEF Rotated
  <2>2. ASSUME path # None PROVE Fresh(path, 0)
    <3>1. path \in Inode /\ path = files /\ stream <= files
      BY <1>1, <1>3, <2>2 DEF FollowerTypeOK, Paths
    <3>2. CASE path = stream
      <4>1. inode = path
        BY <1>1, <2>1, <3>2 DEF Paths
      <4>2. Len(content[stream]) < offset
        BY <2>1, <2>2, <3>2, <4>1 DEF Replaced, Truncated
      <4>3. Len(content[stream]) \in Nat
        BY <1>1, <1>3, ChunkType
      <4>4. offset > Len(content[stream])
        BY <1>1, <4>2, <4>3
      <4> QED BY <2>1, <3>2, <4>4 DEF Unread
    <3>3. CASE path # stream
      <4>1. path > stream
        BY <1>1, <1>3, <3>1, <3>3
      <4> QED BY <1>1, <1>3, <3>1, <4>1 DEF Unread
    <3> QED BY <3>2, <3>3
  <2>3. path' # None => Fresh(path, 0)'
    BY <1>2, <2>2 DEF Fresh, Late
  <2> QED BY <2>1, <2>3 DEF Unread
<1>6. CASE Sleep \/ ReadEnd
  <2>1. pc' \in {"read", "check"} /\ stream' = stream
    BY <1>6 DEF Sleep, ReadEnd
  <2>2. /\ Fresh(stream, offset)' <=> Fresh(stream, offset)
        /\ Fresh(stream, 0)' <=> Fresh(stream, 0)
    BY <1>2, <2>1 DEF Fresh, Late
  <2>3. /\ Fresh(stream, offset)
        /\ offset > Len(content[stream]) => Fresh(stream, 0)
        /\ first_open => restarts = 0
        /\ \A f \in Inode : f > stream => Fresh(f, 0)
    BY <1>1, <1>2, <1>3 DEF Unread
  <2> QED BY <1>2, <1>4, <2>1, <2>2, <2>3 DEF Unread
<1>7. CASE DecodeFails
  <2>1. pc' = "failed" /\ stream' = stream
    BY <1>7 DEF DecodeFails
  <2>2. \A f \in Inode : f > stream => Fresh(f, 0)
    BY <1>1, <1>3 DEF Unread
  <2> QED BY <1>4, <2>1, <2>2 DEF Unread
<1> QED BY <1>5, <1>6, <1>7

\* A line that is read comes after all events so far, and before all that is unread.
LEMMA ReadUnread ==
    ASSUME FollowerAssumption, FollowerInv, Unread, InOrder, Read
    PROVE  Unread' /\ InOrder'
<1>1. /\ FollowerTypeOK /\ FilesInOrder /\ offset \in Nat /\ emitted \in Seq(Line)
      /\ Len(emitted) \in Nat /\ None \notin Int /\ Inode \subseteq Int
      /\ \A i \in 1..Len(emitted) : emitted[i] \in Nat
  BY Numbers
<1>2. /\ pc = "read" /\ NextLine # <<>> /\ offset' = offset + Len(NextLine)
      /\ UNCHANGED <<content, restarts, pc, stream, first_open>>
      /\ IF Parses(NextLine) THEN emitted' = Append(emitted, NextLine[1].line)
         ELSE emitted' = emitted
  BY DEF Read, fileVars
<1>3. stream \in Inode
  BY <1>1, <1>2 DEF FollowerTypeOK
<1> DEFINE c == content[stream][offset + 1]
<1>4. /\ offset < Len(content[stream]) /\ offset + 1 \in 1..Len(content[stream])
      /\ Len(NextLine) \in {1, 2} /\ offset + Len(NextLine) <= Len(content[stream])
      /\ NextLine[1] = c
      /\ Parses(NextLine) => c.part # "tail"
  BY <1>2, <1>3, NextLineProperties
<1>5. /\ Len(content[stream]) \in Nat /\ c \in Chunk /\ c.line \in Line
      /\ \A f \in Inode : /\ Len(content[f]) \in Nat
                          /\ \A i \in 1..Len(content[f]) : content[f][i].line \in Nat
  BY <1>1, <1>3, <1>4, ChunkType, SMTT(30) DEF Line
<1>6. /\ Fresh(stream, offset) /\ (first_open => restarts = 0)
      /\ \A f \in Inode : f > stream => Fresh(f, 0)
  BY <1>1, <1>2, <1>3 DEF Unread
<1>7. \A i \in (offset + 2)..Len(content[stream]) : Before(c, content[stream][i])
  BY <1>1, <1>3, <1>4, <1>5 DEF FilesInOrder
<1>8. \A f \in Inode : f > stream =>
            \A i \in 1..Len(content[f]) : Before(c, content[f][i])
  BY <1>1, <1>3, <1>4 DEF FilesInOrder
<1>9. Late(c) /\ c.line \in Nat
  BY <1>1, <1>4, <1>5, <1>6 DEF Fresh, Line
<1> HIDE DEF c
<1>10. ASSUME NEW d, Before(c, d), Late(d), d.line \in Nat
       PROVE  Late(d)'
  <2>1. CASE Parses(NextLine)
    <3>1. emitted' = Append(emitted, c.line)
      BY <1>2, <1>4, <2>1
    <3>2. /\ Len(emitted') = Len(emitted) + 1 /\ emitted'[Len(emitted) + 1] = c.line
          /\ \A i \in 1..Len(emitted) : emitted'[i] = emitted[i]
      BY <1>1, <1>5, <3>1, AppendProperties
    <3>3. ASSUME d.part # "tail", NEW i \in 1..Len(emitted') PROVE emitted'[i] < d.line
      <4>1. CASE i = Len(emitted) + 1
        BY <1>10, <3>2, <3>3, <4>1 DEF Before
      <4>2. CASE i \in 1..Len(emitted)
        BY <1>10, <3>2, <3>3, <4>2 DEF Late
      <4> QED BY <1>1, <3>2, <4>1, <4>2
    <3> QED BY <3>3 DEF Late
  <2>2. CASE ~ Parses(NextLine)
    BY <1>2, <1>10, <2>2 DEF Late
  <2> QED BY <2>1, <2>2
<1>11. Fresh(stream, offset)'
  <2>1. SUFFICES ASSUME NEW i \in 1..Len(content[stream]), i > offset'
                 PROVE  Late(content[stream][i])'
    BY <1>2 DEF Fresh
  <2>2. i > offset /\ i \in (offset + 2)..Len(content[stream])
    BY <1>1, <1>2, <1>4, <1>5, <2>1
  <2> DEFINE d == content[stream][i]
  <2>3. Before(c, d) /\ Late(d) /\ d.line \in Nat
    BY <1>3, <1>5, <1>6, <1>7, <2>2 DEF Fresh
  <2>4. Late(d)'
    <3>1. PICK x : x = d
      OBVIOUS
    <3>2. Late(x)'
      BY <1>10, <2>3, <3>1
    <3> QED BY <1>2, <3>1, <3>2 DEF Late
  <2> QED BY <1>2, <2>4 DEF Late
<1>12. ~ (offset' > Len(content'[stream']))
  BY <1>1, <1>2, <1>4, <1>5
<1>13. ASSUME NEW f \in Inode, f > stream PROVE Fresh(f, 0)'
  <2>1. SUFFICES ASSUME NEW i \in 1..Len(content[f]) PROVE Late(content[f][i])'
    BY <1>2 DEF Fresh
  <2> DEFINE d == content[f][i]
  <2>2. i > 0
    BY <1>5
  <2>3. Before(c, d) /\ Late(d) /\ d.line \in Nat
    BY <1>5, <1>6, <1>8, <1>13, <2>2 DEF Fresh
  <2>4. PICK x : x = d
    OBVIOUS
  <2>5. Late(x)'
    BY <1>10, <2>3, <2>4
  <2> QED BY <1>2, <2>4, <2>5 DEF Late
<1>14. Unread'
  BY <1>2, <1>6, <1>11, <1>12, <1>13 DEF Unread
<1>15. InOrder'
  <2>1. CASE Parses(NextLine)
    <3>1. emitted' = Append(emitted, c.line) /\ c.part # "tail"
      BY <1>2, <1>4, <2>1
    <3>2. /\ Len(emitted') = Len(emitted) + 1 /\ emitted'[Len(emitted) + 1] = c.line
          /\ \A i \in 1..Len(emitted) : emitted'[i] = emitted[i]
      BY <1>1, <1>5, <3>1, AppendProperties
    <3>3. ASSUME NEW i \in 1..Len(emitted'), NEW j \in 1..Len(emitted'), i < j
          PROVE  emitted'[i] < emitted'[j]
      <4>1. i \in 1..Len(emitted) /\ emitted'[i] = emitted[i]
        BY <1>1, <3>2, <3>3
      <4>2. CASE j = Len(emitted) + 1
        BY <1>9, <3>1, <3>2, <4>1, <4>2 DEF Late
      <4>3. CASE j \in 1..Len(emitted)
        BY <3>2, <3>3, <4>1, <4>3 DEF InOrder
      <4> QED BY <1>1, <3>2, <4>2, <4>3
    <3> QED BY <3>3 DEF InOrder
  <2>2. CASE ~ Parses(NextLine)
    BY <1>2, <2>2 DEF InOrder
  <2> QED BY <2>1, <2>2
<1> QED BY <1>14, <1>15

\* Every step of the system keeps the order.
LEMMA OrderInductive ==
    ASSUME FollowerAssumption, OrderInv, [MCNext]_mcVars
    PROVE  OrderInv'
<1>1. FollowerInv /\ FollowerInv'
  <2>1. [FollowerNext]_followerVars
    BY DEF MCNext, mcVars
  <2> QED BY <2>1, FollowerInductive DEF OrderInv
<1>2. FollowerTypeOK /\ FollowerTypeOK'
  BY <1>1 DEF FollowerInv
<1>3. SUFFICES ASSUME Undisturbed' PROVE InOrder' /\ Unread'
  BY <1>1 DEF OrderInv
<1>4. CASE UNCHANGED mcVars
  <2>1. UNCHANGED <<path, content, restarts, pc, stream, offset, first_open, emitted, sought>>
    BY <1>4 DEF mcVars, followerVars, fileVars, readerVars, taskVars
  <2>2. InOrder /\ Unread
    BY <1>3, <2>1 DEF OrderInv, Undisturbed
  <2> QED BY <2>1, <2>2 DEF InOrder, Unread, Fresh, Late
<1>5. CASE MCNext
  <2>1. FollowerNext /\ (sought' => sought /\ ~ Unsought)
    BY <1>5 DEF MCNext
  <2>2. restarts \in Nat /\ restarts' \in Nat
    BY <1>2 DEF FollowerTypeOK, FollowerAssumption
  <2>3. ASSUME restarts' = restarts PROVE InOrder /\ Unread
    BY <1>3, <2>1, <2>3 DEF OrderInv, Undisturbed
  <2>4. CASE Sensor
    <3>1. restarts' = restarts /\ emitted' = emitted
      BY <2>4 DEF Sensor, Write, WriteRest, WriteChunk, Rename, Install, Reopen, Truncate, readerVars
    <3>2. Unread'
      BY <1>1, <2>3, <2>4, <3>1, SensorUnread
    <3> QED BY <2>3, <3>1, <3>2 DEF InOrder
  <2>5. CASE Open
    BY <1>1, <2>3, <2>5, OpenUnread DEF Open, InOrder
  <2>6. CASE Stat \/ StatMissing
    <3>1. /\ UNCHANGED <<restarts, emitted>> /\ pc = "stat" /\ pc' = "read"
      BY <2>6 DEF Stat, StatMissing
    <3>2. restarts = 0 \/ (sought /\ ~ Unsought /\ ~ FromBeginning)
      BY <1>3, <2>1, <3>1 DEF Undisturbed
    <3>3. StatMissing => restarts = 0 \/ ~ first_open
      BY <3>1, <3>2 DEF StatMissing, Unsought
    <3>4. Unread'
      BY <1>1, <2>3, <2>6, <3>1, <3>2, <3>3, StatUnread
    <3> QED BY <2>3, <3>1, <3>4 DEF InOrder
  <2>7. CASE Read
    BY <1>1, <2>3, <2>7, ReadUnread DEF Read
  <2>8. CASE Rotated \/ Sleep \/ ReadEnd \/ DecodeFails
    <3>1. UNCHANGED <<restarts, emitted>>
      BY <2>8 DEF Rotated, Sleep, ReadEnd, DecodeFails
    <3> QED BY <1>1, <2>3, <2>8, <3>1, CheckUnread DEF InOrder
  <2>9. CASE Restart
    <3>1. /\ restarts' = restarts + 1 /\ emitted' = emitted
          /\ stream' = None /\ pc' = "open" /\ first_open' = TRUE
      BY <2>9 DEF Restart, Started
    <3>2. restarts' # 0
      BY <2>2, <3>1
    <3>3. InOrder
      BY <1>3, <2>1, <3>2 DEF OrderInv, Undisturbed
    <3> QED BY <3>1, <3>2, <3>3 DEF InOrder, Unread
  <2> QED BY <2>1, <2>4, <2>5, <2>6, <2>7, <2>8, <2>9 DEF FollowerNext, Follow
<1> QED BY <1>4, <1>5

\* The events of a process that starts from the beginning and is not restarted, and those
\* of processes that start at the end of the file, come once and in the order of their
\* lines, through every rotation, truncation and half-written line.
LEMMA OrderInvariant ==
    ASSUME FollowerAssumption
    PROVE  MCSpec => []OrderInv
<1>1. MCInit => OrderInv
  <2> SUFFICES ASSUME MCInit PROVE OrderInv
    OBVIOUS
  <2>1. FollowerInv
    BY FollowerInitInv DEF MCInit
  <2>2. emitted = <<>> /\ stream = None /\ pc = "open"
    BY DEF MCInit, FollowerInit, Started
  <2>3. Len(emitted) = 0
    BY <2>2
  <2> QED BY <2>1, <2>2, <2>3 DEF OrderInv, InOrder, Unread, Fresh, Late
<1>2. OrderInv /\ [MCNext]_mcVars => OrderInv'
  BY OrderInductive
<1> QED BY <1>1, <1>2, PTL DEF MCSpec

\* With the default, a first open that seeks to the end of the file, no reopening and no
\* restart reads a line again, unless a restarted process lost the path before its seek.
THEOREM EventsOnceInOrder ==
    ASSUME FollowerAssumption, ~ FromBeginning
    PROVE  MCSpec => []OnceInOrder
<1>1. OrderInv => OnceInOrder
  BY DEF OrderInv, Undisturbed, InOrder, OnceInOrder
<1> QED BY <1>1, OrderInvariant, PTL

\* Wherever it starts in the file, one process reads no line twice and none out of order.
THEOREM OneProcessOnceInOrder ==
    ASSUME FollowerAssumption
    PROVE  MCSpec => [](restarts = 0 => InOrder)
<1>1. OrderInv => (restarts = 0 => InOrder)
  BY DEF OrderInv, Undisturbed
<1> QED BY <1>1, OrderInvariant, PTL
====
