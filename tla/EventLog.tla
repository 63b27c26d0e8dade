------------------------------ MODULE EventLog ------------------------------
(***************************************************************************)
(* The event log (common/events.go): a ring of the last Capacity events in *)
(* memory and a file of lines it is loaded from when the daemon starts.    *)
(* The file is appended to, rewritten from the ring when it has grown to   *)
(* twice the capacity, and given up for the rest of the daemon's life when *)
(* a rewrite fails.                                                        *)
(***************************************************************************)
EXTENDS Naturals, Sequences, SequencesExt

CONSTANTS
    Capacity,       \* EventLogCapacity
    Repos,          \* repositories events are about
    Plans           \* what behaviours may have: see plan

ASSUME CapacityAssumption == Capacity \in Nat \ {0}
ASSUME PlansAssumption ==
    \A p \in Plans : p.repos \subseteq Repos /\ p.events \in Nat /\ p.starts \in Nat \ {0}

VARIABLES
    ring,           \* buf, start and count
    lastID, lines,
    open,           \* the log has its file
    disk,           \* the lines of events.jsonl
    life, starts,   \* whether the daemon runs; how often it was started
    history,        \* every event that was emitted, over all starts
    plan            \* chosen at the start: the failures of the file system and of
                    \* the process that can happen, the repositories that have
                    \* events, how many events and starts there are (bounds), and
                    \* whether a client follows (module EventFollower)

logVars == <<ring, lastID, lines, open, disk, life, starts, history>>

Faults == plan.faults           \* of "write", "short", "rewrite", "late", "kill"
MaxEvents == plan.events
MaxStarts == plan.starts

\* Two events are the same only if they have the same number, whatever
\* identifier the log gave them.
Event == [id : Nat, repo : Repos, number : Nat]

\* A line is whole; whole but for its newline; cut short; or the garbage
\* that comes of writing after one of the latter two.
Line == [event : Event, kind : {"whole", "unended", "cut", "garbage"}]

NoRing == [buf |-> [i \in {} |-> 0], start |-> 0, count |-> 0]

-----------------------------------------------------------------------------
(* The ring. *)

At(g, i) == g.buf[(g.start + i) % Capacity]
Put(buf, i, ev) == [j \in DOMAIN buf \cup {i} |-> IF j = i THEN ev ELSE buf[j]]

\* Mutant: a full ring overwrites its oldest event and still starts there.
PushStartKept(g, ev) ==
    IF g.count < Capacity
    THEN [g EXCEPT !.buf = Put(@, (g.start + g.count) % Capacity, ev), !.count = @ + 1]
    ELSE [g EXCEPT !.buf = Put(@, g.start, ev)]

Push(g, ev) ==
    IF g.count < Capacity
    THEN [g EXCEPT !.buf = Put(@, (g.start + g.count) % Capacity, ev), !.count = @ + 1]
    ELSE [g EXCEPT !.buf = Put(@, g.start, ev), !.start = (@ + 1) % Capacity]

\* The events in the ring, oldest first.
Held(g) == [i \in 1..g.count |-> At(g, i - 1)]

\* Mutant: the newest events are skipped where the oldest should be.
SinceFromOldest(since, repo, limit) ==
    LET wanted == SelectSeq(Held(ring), LAMBDA ev : ev.id > since /\ (repo = "" \/ ev.repo = repo))
    IN IF limit > 0 /\ Len(wanted) > limit THEN SubSeq(wanted, 1, limit) ELSE wanted

\* Since walks back from the newest event until an identifier is not new or
\* the limit is reached.  The empty name asks for every repository.
Since(since, repo, limit) ==
    LET walk[k \in 0..ring.count] ==
          IF k = 0 THEN [out |-> <<>>, on |-> TRUE]
          ELSE LET w == walk[k - 1]
                   ev == At(ring, ring.count - k)
               IN IF ~w.on \/ ev.id <= since THEN [out |-> w.out, on |-> FALSE]
                  ELSE IF repo \notin {"", ev.repo} THEN w
                  ELSE [out |-> <<ev>> \o w.out, on |-> limit = 0 \/ Len(w.out) + 1 < limit]
    IN walk[ring.count].out

-----------------------------------------------------------------------------
(* The file. *)

\* What a write leaves: a line that follows an unended one runs into it.
Written(d, ev, kind) ==
    IF d # <<>> /\ Last(d).kind \in {"unended", "cut"}
    THEN [d EXCEPT ![Len(d)].kind = IF kind = "whole" THEN "garbage" ELSE "cut"]
    ELSE Append(d, [event |-> ev, kind |-> kind])

\* The lines rewrite writes to the file that replaces the old one.
Compacted(g) == [i \in 1..g.count |-> [event |-> Held(g)[i], kind |-> "whole"]]

\* load: unreadable lines and those that do not go up are skipped.
Loaded(d) ==
    LET load[i \in 0..Len(d)] ==
          IF i = 0 THEN [ring |-> NoRing, lastID |-> 0]
          ELSE IF d[i].kind \in {"whole", "unended"} /\ d[i].event.id > load[i - 1].lastID
          THEN [ring |-> Push(load[i - 1].ring, d[i].event), lastID |-> d[i].event.id]
          ELSE load[i - 1]
    IN load[Len(d)]

\* rewrite: it works, fails with the old file in place, or fails to open
\* the new one.  In both failures the log is left without a file.
RewriteOutcomes == {"done"} \cup (IF "rewrite" \in Faults THEN {"early", "late"} ELSE {})

Rewritten(outcome, d, g) ==
    /\ disk' = IF outcome = "early" THEN d ELSE Compacted(g)
    /\ open' = (outcome = "done")

-----------------------------------------------------------------------------
LogInit ==
    /\ plan \in Plans
    /\ ring = NoRing /\ lastID = 0 /\ lines = 0 /\ open = TRUE
    /\ disk = <<>> /\ life = "up" /\ starts = 1 /\ history = <<>>

\* The outcomes of writing a line.
WriteOutcomes == {"whole"} \cup (IF "short" \in Faults THEN {"unended", "cut"} ELSE {})
                           \cup (IF "write" \in Faults THEN {"none"} ELSE {})

\* A watcher that outlives Stop still emits after the log was closed.
Emitting == life = "up" \/ (life = "stopping" /\ "late" \in Faults)

\* Append: a failed write is logged and the line counted all the same.
AppendEvent(repo) ==
    /\ Emitting /\ Len(history) < MaxEvents
    /\ LET ev == [id |-> lastID + 1, repo |-> repo, number |-> Len(history) + 1]
           g == Push(ring, ev)
       IN /\ lastID' = lastID + 1
          /\ ring' = g
          /\ history' = Append(history, ev)
          /\ \/ ~open /\ UNCHANGED <<disk, lines, open>>
             \/ /\ open
                /\ \E w \in WriteOutcomes :
                     LET d == IF w = "none" THEN disk ELSE Written(disk, ev, w)
                     IN \/ /\ lines + 1 <= 2 * Capacity
                           /\ disk' = d /\ lines' = lines + 1 /\ UNCHANGED open
                        \/ /\ lines + 1 > 2 * Capacity
                           /\ \E o \in RewriteOutcomes :
                                /\ Rewritten(o, d, g)
                                /\ lines' = IF o = "done" THEN g.count ELSE lines + 1
    /\ UNCHANGED <<life, starts>>

\* Stop closes the log, and the process ends.
CloseLog ==
    /\ life = "up"
    /\ life' = "stopping" /\ open' = FALSE
    /\ UNCHANGED <<ring, lastID, lines, disk, starts, history>>

Exit ==
    /\ life = "stopping"
    /\ life' = "down"
    /\ UNCHANGED <<ring, lastID, lines, open, disk, starts, history>>

\* The process is killed, perhaps in the middle of a write: the event counts
\* as emitted if all of it but the newline is in the file.
Kill(repo) ==
    /\ "kill" \in Faults /\ life # "down"
    /\ life' = "down" /\ open' = FALSE
    /\ \/ UNCHANGED <<disk, history>>
       \/ /\ open /\ Len(history) < MaxEvents
          /\ LET ev == [id |-> lastID + 1, repo |-> repo, number |-> Len(history) + 1]
             IN \/ /\ disk' = Written(disk, ev, "unended")
                   /\ history' = IF disk' # <<>> /\ Last(disk').kind = "unended"
                                 THEN Append(history, ev) ELSE history
                \/ disk' = Written(disk, ev, "cut") /\ UNCHANGED history
    /\ UNCHANGED <<ring, lastID, lines, starts>>

\* Mutant: the file is loaded and not rewritten.
NewEventLogAppends ==
    /\ life = "down" /\ starts < MaxStarts
    /\ life' = "up" /\ starts' = starts + 1
    /\ ring' = Loaded(disk).ring /\ lastID' = Loaded(disk).lastID
    /\ lines' = Len(disk) /\ open' = TRUE
    /\ UNCHANGED <<disk, history>>

\* NewEventLog; if it fails the daemon goes on with an empty log in memory.
NewEventLog ==
    /\ life = "down" /\ starts < MaxStarts
    /\ life' = "up" /\ starts' = starts + 1
    /\ LET l == Loaded(disk)
       IN \E o \in RewriteOutcomes :
            /\ Rewritten(o, disk, l.ring)
            /\ \/ /\ o = "done"
                  /\ ring' = l.ring /\ lastID' = l.lastID /\ lines' = l.ring.count
               \/ /\ o # "done"
                  /\ ring' = NoRing /\ lastID' = 0 /\ lines' = 0
    /\ UNCHANGED history

LogNext ==
    \/ \E r \in plan.repos : AppendEvent(r) \/ Kill(r)
    \/ CloseLog \/ Exit \/ NewEventLog

-----------------------------------------------------------------------------
(* Properties. *)

LogTypeOK ==
    /\ ring.start \in 0..(Capacity - 1) /\ ring.count \in 0..Capacity
    /\ DOMAIN ring.buf \subseteq 0..(Capacity - 1) /\ Range(ring.buf) \subseteq Event
    /\ lastID \in Nat /\ lines \in Nat /\ open \in BOOLEAN
    /\ life \in {"up", "stopping", "down"}
    /\ disk \in Seq(Line) /\ history \in Seq(Event)
    /\ starts \in 1..MaxStarts

\* The ring is in order and ends with the last identifier given, whatever
\* was loaded, skipped or overwritten: what Since's walk relies on.
RingInOrder ==
    LET held == Held(ring)
    IN /\ \A i, j \in 1..ring.count : i < j => held[i].id < held[j].id
       /\ ring.count > 0 => Last(held).id = lastID

\* The events of the ring that are asked for.
Wanted(since, repo) == {ev \in Range(Held(ring)) : ev.id > since /\ repo \in {"", ev.repo}}

\* Since returns the newest of the events asked for, oldest first and no
\* more than the limit: what it leaves out is older than all it returns.
SinceIsExact ==
    \A since \in 0..lastID, repo \in Repos \cup {""}, limit \in 0..Capacity :
        LET got == Since(since, repo, limit)
            wanted == Wanted(since, repo)
        IN /\ Range(got) \subseteq wanted
           /\ \A i, j \in DOMAIN got : i < j => got[i].id < got[j].id
           /\ limit > 0 => Len(got) <= limit
           /\ \A ev \in wanted \ Range(got) :
                 limit > 0 /\ Len(got) = limit /\ ev.id < got[1].id

\* The file stays within twice the capacity and one line, also when writes
\* and rewrites fail and the daemon is started over and over.
FileBounded == Len(disk) <= 2 * Capacity + 1

\* While the daemon is up, its log holds the last Capacity events that were
\* emitted, the ones of earlier starts included: also after it was killed in
\* the middle of a write.  A failed write or rewrite, or an event after the
\* log was closed, is outside this promise: what the file misses the next
\* start does not know.
RemembersEvents ==
    life = "up" /\ Faults \subseteq {"kill"} => Held(ring) = IF Len(history) <= Capacity THEN history
                       ELSE SubSeq(history, Len(history) - Capacity + 1, Len(history))

\* Through failed writes and rewrites, kills and restarts the ring stays in
\* order and in step with lastID, and the file within its bound (load, push,
\* Append, rewrite).
LogInv == LogTypeOK /\ RingInOrder /\ FileBounded
=============================================================================
