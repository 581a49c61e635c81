---- MODULE MCFileFollower ----
(***************************************************************************)
(* FileFollower with a record of whether a rotation, a restart or a half-  *)
(* written line has hit one of the moments at which the follower loses     *)
(* lines, or reads some again.                                             *)
(***************************************************************************)
EXTENDS FileFollower

VARIABLES
    calm,       \* no moment that loses lines has been hit
    sought      \* no process has gone on reading without its first seek

mcVars == <<followerVars, calm, sought>>

\* The follower has the file at the path open, and has not seen it shrink.
AtPath == path # None /\ path = stream /\ offset <= Len(content[path])

\* The file at the path holds chunks the follower has not read.
UnreadAtPath ==
    /\ path # None
    /\ IF AtPath THEN offset < Len(content[path]) ELSE content[path] # <<>>

\* The moments at which the follower loses lines.
Disturbing ==
    \* The path changes between open and stat: the wrong inode is recorded, or none.
    \/ pc = "stat" /\ path' # path
    \* The first open skips lines: those before the first start, those written while
    \* no process was running.
    \/ pc = "stat" /\ inode = None
        /\ \E i \in 1..offset' : content[stream][i].line \notin ToSet(emitted)
    \* The file loses the path before it is opened, or with lines written since its
    \* end was read.
    \/ path' # path /\ UnreadAtPath /\ ~ (pc = "read" /\ AtPath)
    \* A file is truncated with lines unread in it.
    \/ truncations' # truncations /\ UnreadAtPath
    \* A truncated file grows back to the position before the follower compares.
    \/ stream # None /\ Len(content[stream]) < offset /\ Len(content'[stream]) >= offset
    \* The sensor writes on to a file that has lost the path.
    \/ written' # written /\ target # path
    \* A line is read half written.
    \/ parse_errors' # parse_errors \/ pc' = "failed"
    \* The process restarts with lines unread behind it, in a file off the path.
    \/ restarts' # restarts /\ stream # path /\ stream # None /\ offset < Len(content[stream])

Unsought == pc = "stat" /\ pc' = "read" /\ first_open'

MCInit == FollowerInit /\ calm = TRUE /\ sought = TRUE

MCNext ==
    /\ FollowerNext
    /\ calm' = (calm /\ ~ Disturbing)
    /\ sought' = (sought /\ ~ Unsought)

MCSpec == MCInit /\ [][MCNext]_mcVars /\ FollowerFairness

-----------------------------------------------------------------------------
Complete(l) == l < written \/ (l = written /\ ~ half)

\* Across every rotation and restart a line becomes at most one event, and events come
\* in the order the sensor wrote their lines, whatever is lost between them: no reopening
\* reads a line again, unless a restarted process lost the path before its first seek.
OnceInOrder ==
    sought \/ restarts = 0 =>
        \A i, j \in 1..Len(emitted) : i < j => emitted[i] < emitted[j]

\* Unless one of those moments is hit, every line the sensor completes becomes an event,
\* across renames, replacements, truncations and restarts: the list is exhaustive.
ReadsEverything ==
    \A l \in Line : (Complete(l) /\ calm) ~> (l \in ToSet(emitted) \/ ~ calm)

\* The follower "handles both truncate and inode-replacement rotation" (README.md:100):
\* once a file keeps the path, the follower comes to read that file and stays with it.
EndsOnCurrentFile ==
    \A i \in Inode : <>[](path = i) => <>[](stream = i)
====
