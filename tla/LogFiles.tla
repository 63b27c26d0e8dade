------------------------------ MODULE LogFiles ------------------------------
(***************************************************************************)
(* The daemon's log: RotatingWriter (common/logging.go) keeps it in files  *)
(* of bounded size, and `daemon logs -f` (followFile in daemon.go) prints  *)
(* what is appended to the first of them.  Renaming, opening and reading   *)
(* are system calls of their own, so the follower and the end of the       *)
(* daemon may come between any two of them.                                *)
(***************************************************************************)
EXTENDS Naturals, Sequences, SequencesExt

CONSTANTS
    MaxFiles,       \* LogMaxFiles
    MaxBytes,       \* LogMaxBytes
    Sizes,          \* sizes of lines
    LogPlans        \* what behaviours may have: see logPlan

ASSUME LimitsAssumption == MaxFiles \in Nat \ {0, 1} /\ MaxBytes \in Nat \ {0}
ASSUME SizesAssumption == Sizes \subseteq Nat \ {0}
ASSUME LogPlansAssumption ==
    \A p \in LogPlans : p.faults \subseteq {"rename", "kill"} /\ p.racy \in BOOLEAN /\ p.lines \in Nat

VARIABLES
    files,          \* the log file, 0, and its backups
    nodes,          \* files created so far
    step,           \* the rename a rotation comes to next, MaxFiles if none is on
    line,           \* the line it is for
    logged,         \* the lines written, over all lives of the daemon
    lines,          \* Write calls
    follower, prev, offset, printed, from,    \* the follower
    logPlan         \* chosen at the start: the failures of renames and of the
                    \* process that can happen, whether files rotate before the
                    \* follower has read them, and how many lines are logged

writerVars == <<files, nodes, step, line, logged, lines>>
followerVars == <<follower, prev, offset, printed, from>>
logFilesVars == <<writerVars, followerVars>>

NoFile == [node |-> 0, lines |-> <<>>]
NoLine == [number |-> 0, size |-> 0]

\* Where line i of a file starts.
Start(s, i) ==
    LET end[k \in 0..Len(s)] == IF k = 0 THEN 0 ELSE end[k - 1] + s[k].size
    IN end[i - 1]
Bytes(s) == Start(s, Len(s) + 1)

\* The lines that start at a byte or after it.
FromByte(s, b) ==
    SubSeq(s, Min({i \in 1..(Len(s) + 1) : i > Len(s) \/ Start(s, i) >= b}), Len(s))

Exists(i) == files[i].node # 0

LogFilesInit ==
    /\ logPlan \in LogPlans
    /\ files = [i \in 0..(MaxFiles - 1) |-> NoFile]
    /\ nodes = 0
    /\ step = MaxFiles /\ line = NoLine /\ logged = <<>> /\ lines = 0
    /\ follower = "start" /\ prev = 0 /\ offset = 0 /\ printed = <<>> /\ from = 0

-----------------------------------------------------------------------------
(* RotatingWriter *)

Created == [node |-> nodes + 1, lines |-> <<>>]

\* open, if need be, and the write of a line.
AppendTo(f, l) ==
    /\ files' = [files EXCEPT ![0] = [node |-> f.node, lines |-> Append(f.lines, l)]]
    /\ nodes' = IF f.node > nodes THEN f.node ELSE nodes
    /\ logged' = Append(logged, l)

CaughtUp == follower = "idle" /\ prev = files[0].node /\ offset = Bytes(files[0].lines)

\* Write: a line that would make the file too long begins a rotation, which
\* closes the file.
Write(l) ==
    /\ step = MaxFiles /\ lines < logPlan.lines
    /\ l.number = lines + 1 /\ lines' = lines + 1
    /\ LET f == IF Exists(0) THEN files[0] ELSE Created
           size == Bytes(f.lines)
       IN IF size > 0 /\ size + l.size > MaxBytes
          THEN /\ logPlan.racy \/ follower = "start" \/ CaughtUp
               /\ step' = MaxFiles - 1 /\ line' = l
               /\ UNCHANGED <<files, nodes, logged>>
          ELSE AppendTo(f, l) /\ UNCHANGED <<step, line>>
    /\ UNCHANGED followerVars

\* rotate: the last backup is removed, the others move up.  A failure is
\* ignored.
Shift ==
    /\ step \in 1..(MaxFiles - 1)
    /\ \/ files' = IF step = MaxFiles - 1 THEN [files EXCEPT ![step] = NoFile]
                   ELSE IF Exists(step)
                   THEN [files EXCEPT ![step + 1] = files[step], ![step] = NoFile]
                   ELSE files
       \/ "rename" \in logPlan.faults /\ UNCHANGED files
    /\ step' = step - 1
    /\ UNCHANGED <<nodes, line, logged, lines, followerVars>>

\* The file becomes the first backup.
MoveAway ==
    /\ step = 0 /\ Exists(0)
    /\ files' = [files EXCEPT ![1] = files[0], ![0] = NoFile]
    /\ UNCHANGED <<nodes, step, line, logged, lines, followerVars>>

\* A new one is created and the line written.
Reopen ==
    /\ step = 0 /\ ~Exists(0)
    /\ AppendTo(Created, line)
    /\ step' = MaxFiles /\ line' = NoLine
    /\ UNCHANGED <<lines, followerVars>>

\* The rename fails: Write returns the error and the line is lost.
MoveAwayFails ==
    /\ "rename" \in logPlan.faults /\ step = 0 /\ Exists(0)
    /\ step' = MaxFiles /\ line' = NoLine
    /\ UNCHANGED <<files, nodes, logged, lines, followerVars>>

\* The daemon ends in the middle of a rotation; the next one takes the files
\* as they are.
Kill ==
    /\ "kill" \in logPlan.faults /\ step # MaxFiles
    /\ step' = MaxFiles /\ line' = NoLine
    /\ UNCHANGED <<files, nodes, logged, lines, followerVars>>

-----------------------------------------------------------------------------
(* daemonLogs and followFile.  What they print from is a place in the file *)
(* that they remember by its length only.                                  *)

FollowerSees == UNCHANGED writerVars

\* The file is read and its last lines are printed.
ReadAll ==
    /\ follower = "start" /\ Exists(0)
    /\ logPlan.racy \/ step = MaxFiles
    /\ offset' = Bytes(files[0].lines) /\ from' = Len(logged)
    /\ follower' = "first"
    /\ UNCHANGED <<prev, printed>> /\ FollowerSees

FirstStat ==
    /\ follower = "first"
    /\ prev' = files[0].node /\ follower' = "idle"
    /\ UNCHANGED <<offset, printed, from>> /\ FollowerSees

\* Mutant: a file of another node is read on from the same place.
StatBySizeOnly ==
    /\ follower = "idle" /\ Exists(0)
    /\ offset' = IF Bytes(files[0].lines) < offset THEN 0 ELSE offset
    /\ prev' = files[0].node
    /\ follower' = IF Bytes(files[0].lines) = offset' THEN "idle" ELSE "read"
    /\ UNCHANGED <<printed, from>> /\ FollowerSees

\* A tick: another file, or a shorter one, is read from its beginning.
Stat ==
    /\ follower = "idle" /\ Exists(0)
    /\ offset' = IF (prev # 0 /\ prev # files[0].node) \/ Bytes(files[0].lines) < offset
                 THEN 0 ELSE offset
    /\ prev' = files[0].node
    /\ follower' = IF Bytes(files[0].lines) = offset' THEN "idle" ELSE "read"
    /\ UNCHANGED <<printed, from>> /\ FollowerSees

\* The file is opened, which may be another one by now, and copied.
Read ==
    /\ follower = "read"
    /\ follower' = "idle"
    /\ IF Exists(0)
       THEN LET s == files[0].lines
            IN /\ printed' = printed \o FromByte(s, offset)
               /\ offset' = IF offset > Bytes(s) THEN offset ELSE Bytes(s)
       ELSE UNCHANGED <<printed, offset>>
    /\ UNCHANGED <<prev, from>> /\ FollowerSees

LogFilesNext ==
    \/ \E z \in Sizes : Write([number |-> lines + 1, size |-> z])
    \/ Shift \/ MoveAway \/ MoveAwayFails \/ Reopen \/ Kill
    \/ ReadAll \/ FirstStat \/ Stat \/ Read

LogFilesSpec == LogFilesInit /\ [][LogFilesNext /\ UNCHANGED logPlan]_<<logFilesVars, logPlan>>

-----------------------------------------------------------------------------
(* Properties. *)

LogFilesTypeOK ==
    /\ \A i \in DOMAIN files : files[i].node \in 0..nodes
    /\ \A i, j \in DOMAIN files : Exists(i) /\ files[i].node = files[j].node => i = j
    /\ step \in 0..MaxFiles /\ (line = NoLine <=> step = MaxFiles)
    /\ follower \in {"start", "first", "idle", "read"}
    /\ prev \in 0..nodes /\ offset \in Nat /\ from \in 0..Len(logged)

\* However rotations fail or are cut off, the files hold lines that were
\* logged, in that order, older ones in older backups; none is longer than its
\* limit allows; and the newest line is at the end of one.
KeptInOrder ==
    /\ \A i \in DOMAIN files : \A p \in DOMAIN files[i].lines : Contains(logged, files[i].lines[p])
    /\ \A i, j \in DOMAIN files : \A p \in DOMAIN files[i].lines, q \in DOMAIN files[j].lines :
         i > j \/ (i = j /\ p < q) => files[i].lines[p].number < files[j].lines[q].number
    /\ \A i \in DOMAIN files : Bytes(files[i].lines) <= MaxBytes \/ Len(files[i].lines) <= 1
    /\ logged # <<>> =>
         \E i \in DOMAIN files : files[i].lines # <<>> /\ Last(files[i].lines) = Last(logged)

Kept(l) == \E i \in DOMAIN files : Contains(files[i].lines, l)

\* Unless a rename fails, rotation drops the oldest lines and leaves no hole,
\* though the daemon may end between any two of its renames: what was logged
\* after a line that is kept is kept.
NewestKept ==
    "rename" \notin logPlan.faults =>
        \A i, j \in DOMAIN logged : i <= j /\ Kept(logged[i]) => Kept(logged[j])

\* The follower has printed every line logged since it was started, once it
\* has read up to the end of the log.  It must be fast enough to read a file
\* before that is rotated away: a line written to it in between is not printed.
FollowsAll ==
    ~logPlan.racy /\ CaughtUp /\ step = MaxFiles => printed = SubSeq(logged, from + 1, Len(logged))

\* Rotation, wherever it fails, is cut off or is watched, keeps the newest
\* lines in order, and a follower prints each of them (rotate, followFile).
LogFilesInv ==
    /\ LogFilesTypeOK
    /\ KeptInOrder
    /\ NewestKept
    /\ FollowsAll
=============================================================================
