----------------------------- MODULE AppEvents -----------------------------
(***************************************************************************)
(* The timeline of the menu bar app (AppState.swift): live events from the *)
(* subscription, the backfill it asks for on every hello, and the copy     *)
(* that Data/EventStore.swift keeps on disk between launches.  The daemon  *)
(* is its event log (module EventLog).                                     *)
(*                                                                         *)
(* AppState runs on the main actor: a step is what it does between two     *)
(* awaits.  Faults are what can go wrong: requests and writes fail,        *)
(* connections are lost and the app is quit while something is under way   *)
(* ("hasty"), a write lasts longer than saveDelay ("slow"), the app is     *)
(* killed, the daemon loses its log ("reset").                             *)
(***************************************************************************)
EXTENDS Naturals, Sequences, SequencesExt

CONSTANTS
    Capacity,           \* EventLogCapacity
    MaxShown,           \* AppState.maxEvents
    InitialBackfill,
    EventsPlans         \* what behaviours may have: see eventsPlan

ASSUME SizesAssumption ==
    Capacity \in Nat \ {0} /\ MaxShown \in Nat \ {0} /\ InitialBackfill \in Nat \ {0}
ASSUME FaultsAssumption ==
    \A p \in EventsPlans : p.faults \subseteq {"fail", "hasty", "slow", "kill", "reset"}

VARIABLES
    log, lastID,        \* the daemon's ring, and the last identifier it gave
    generation,         \* how often the log was lost
    emitted,
    eventLinks, eventLink,
    eventStream,             \* DaemonClient.messages
    launches, running,
    allEvents, lastSeenEventID,
    task,               \* backfillTask: what it asked, and the answer
    pending, saveTask,  \* EventStore
    writes,             \* the detached writes, done or not
    file, saved,        \* the cached events; lastSeen in the defaults
    eventsPlan          \* chosen at the start: the faults, and how many events,
                        \* connections and launches there are (bounds)

daemonVars == <<log, lastID, generation, emitted>>
linkVars == <<eventLinks, eventLink, eventStream>>
appVars == <<allEvents, lastSeenEventID, task>>
storeVars == <<pending, saveTask, writes, file, saved>>
eventsVars == <<daemonVars, linkVars, launches, running, appVars, storeVars>>

Faults == eventsPlan.faults

NoTask == [stage |-> "none"]
NoSave == [events |-> <<>>, lastSeen |-> 0, real |-> FALSE]
Save(events, lastSeen) == [events |-> events, lastSeen |-> lastSeen, real |-> TRUE]

Newest(s, n) == IF Len(s) > n THEN SubSeq(s, Len(s) - n + 1, Len(s)) ELSE s
LastIdOf(s) == IF s = <<>> THEN 0 ELSE Last(s).id
Ids(s) == {s[i].id : i \in DOMAIN s}
\* Where the events after an identifier begin.
FirstAfter(s, id) == Min({i \in 1..(Len(s) + 1) : i > Len(s) \/ s[i].id > id})
Larger(a, b) == IF a > b THEN a ELSE b
Smaller(a, b) == IF a < b THEN a ELSE b

EventsInit ==
    /\ eventsPlan \in EventsPlans
    /\ log = <<>> /\ lastID = 0 /\ generation = 0 /\ emitted = 0
    /\ eventLinks = 0 /\ eventLink = FALSE /\ eventStream = <<>>
    /\ launches = 1 /\ running = TRUE
    /\ allEvents = <<>> /\ lastSeenEventID = 0 /\ task = NoTask
    /\ pending = NoSave /\ saveTask = FALSE /\ writes = {} /\ file = <<>> /\ saved = 0

-----------------------------------------------------------------------------
(* The timeline.  seenEventIDs holds the identifiers of allEvents: what is *)
(* trimmed is taken out of both.                                           *)

\* An event that is fresh goes to its place, as sorting would put it.
Inserted(events, ev) ==
    IF ev.id \in Ids(events) THEN events ELSE InsertAt(events, FirstAfter(events, ev.id), ev)

\* The events ingest leaves: the fresh ones in their places, the newest kept.
Merged(events, batch) ==
    LET merged[i \in 0..Len(batch)] ==
          IF i = 0 THEN events ELSE Inserted(merged[i - 1], batch[i])
    IN Newest(merged[Len(batch)], MaxShown)

\* EventStore.scheduleSave
ScheduleSave(events, lastSeen) ==
    /\ pending' = Save(events, lastSeen) /\ saveTask' = TRUE
    /\ UNCHANGED <<writes, file, saved>>

Ingest(batch) ==
    IF \A i \in DOMAIN batch : batch[i].id \in Ids(allEvents)
    THEN UNCHANGED <<allEvents, lastSeenEventID, storeVars>>
    ELSE /\ allEvents' = Merged(allEvents, batch)
         /\ lastSeenEventID' = Larger(lastSeenEventID, LastIdOf(allEvents'))
         /\ ScheduleSave(allEvents', lastSeenEventID')

\* Mutant: the backfill is asked for as if nothing were known.
BackfillAlwaysInitial(last) ==
    IF last > lastSeenEventID
    THEN /\ task' = [stage |-> "asked", since |-> 0, limit |-> 1]
         /\ UNCHANGED <<allEvents, lastSeenEventID, storeVars>>
    ELSE UNCHANGED <<appVars, storeVars>>

\* backfill: the log starts over, or has more than was seen, or has not.
\* A backfill that is asked for replaces the one before.
Backfill(last) ==
    LET over == last < lastSeenEventID
        seen == IF over THEN 0 ELSE lastSeenEventID
    IN /\ task' = IF last > seen
                  THEN [stage |-> "asked", since |-> seen,
                        limit |-> IF seen > 0 THEN MaxShown ELSE InitialBackfill]
                  ELSE IF over THEN NoTask ELSE task
       /\ IF over THEN /\ allEvents' = <<>> /\ lastSeenEventID' = 0
                       /\ ScheduleSave(<<>>, 0)
          ELSE UNCHANGED <<allEvents, lastSeenEventID, storeVars>>

\* handle
HandleEvents ==
    /\ running /\ eventStream # <<>>
    /\ eventStream' = Tail(eventStream)
    /\ LET m == Head(eventStream)
       IN \/ m.kind = "hello" /\ Backfill(m.last)
          \/ m.kind = "event" /\ Ingest(<<m.event>>) /\ UNCHANGED task
    /\ UNCHANGED <<daemonVars, eventLinks, eventLink, launches, running>>

\* The daemon answers "events" with what its log holds; both attempts of
\* perform may fail.
Answer ==
    /\ task.stage = "asked"
    /\ task' = [stage |-> "answered",
                events |-> Newest(SubSeq(log, FirstAfter(log, task.since), Len(log)), task.limit)]
    /\ UNCHANGED <<daemonVars, linkVars, launches, running, allEvents, lastSeenEventID, storeVars>>

AnswerFails ==
    /\ task.stage = "asked" /\ "fail" \in Faults
    /\ task' = NoTask
    /\ UNCHANGED <<daemonVars, linkVars, launches, running, allEvents, lastSeenEventID, storeVars>>

\* The task goes on with the answer.
Backfilled ==
    /\ task.stage = "answered"
    /\ Ingest(task.events)
    /\ task' = NoTask
    /\ UNCHANGED <<daemonVars, linkVars, launches, running>>

-----------------------------------------------------------------------------
(* EventStore *)

\* The task of scheduleSave wakes up and calls flush, which writes away
\* from the main actor and then records what was written.
Flush ==
    /\ saveTask /\ saveTask' = FALSE
    /\ "slow" \in Faults \/ writes = {}
    /\ writes' = IF pending.real THEN writes \cup {[save |-> pending, done |-> FALSE]} ELSE writes
    /\ pending' = NoSave
    /\ UNCHANGED <<daemonVars, linkVars, launches, running, appVars, file, saved>>

Write(w) ==
    /\ w \in writes /\ ~w.done
    /\ file' = w.save.events
    /\ writes' = (writes \ {w}) \cup {[save |-> w.save, done |-> TRUE]}
    /\ UNCHANGED <<daemonVars, linkVars, launches, running, appVars, pending, saveTask, saved>>

WriteFails(w) ==
    /\ w \in writes /\ ~w.done /\ "fail" \in Faults
    /\ writes' = writes \ {w}
    /\ UNCHANGED <<daemonVars, linkVars, launches, running, appVars, pending, saveTask, file, saved>>

Record(w) ==
    /\ w \in writes /\ w.done
    /\ saved' = w.save.lastSeen
    /\ writes' = writes \ {w}
    /\ UNCHANGED <<daemonVars, linkVars, launches, running, appVars, pending, saveTask, file>>

-----------------------------------------------------------------------------
(* The app ends and is launched again. *)

Calm == "hasty" \notin Faults => task = NoTask /\ eventStream = <<>> /\ writes = {}

Ends ==
    /\ running' = FALSE /\ eventLink' = FALSE /\ eventStream' = <<>>
    /\ allEvents' = <<>> /\ lastSeenEventID' = 0 /\ task' = NoTask
    /\ pending' = NoSave /\ saveTask' = FALSE /\ writes' = {}
    /\ UNCHANGED <<daemonVars, eventLinks, launches>>

\* saveNow
Quit ==
    /\ running /\ Calm
    /\ IF pending.real THEN file' = pending.events /\ saved' = pending.lastSeen
       ELSE UNCHANGED <<file, saved>>
    /\ Ends

Kill ==
    /\ running /\ "kill" \in Faults
    /\ Ends
    /\ UNCHANGED <<file, saved>>

\* Mutant: lastSeen is taken as it was recorded.
LoadedTrusting == [events |-> file, lastSeen |-> IF file = <<>> THEN 0 ELSE saved]

\* load: what was recorded may be of another write than the file.
Loaded == [events |-> file,
           lastSeen |-> IF file = <<>> THEN 0 ELSE Smaller(saved, LastIdOf(file))]

\* restoreEvents
Launch ==
    /\ ~running /\ launches < eventsPlan.launches
    /\ running' = TRUE /\ launches' = launches + 1
    /\ allEvents' = Merged(<<>>, Loaded.events)
    /\ lastSeenEventID' = Loaded.lastSeen
    /\ UNCHANGED <<daemonVars, linkVars, task, storeVars>>

-----------------------------------------------------------------------------
(* The daemon and the subscriber. *)

Emit ==
    /\ emitted < eventsPlan.events
    /\ LET ev == [id |-> lastID + 1, log |-> generation]
       IN /\ log' = Newest(Append(log, ev), Capacity)
          /\ eventStream' = IF eventLink THEN Append(eventStream, [kind |-> "event", event |-> ev]) ELSE eventStream
    /\ lastID' = lastID + 1 /\ emitted' = emitted + 1
    /\ UNCHANGED <<generation, eventLinks, eventLink, launches, running, appVars, storeVars>>

ConnectEvents ==
    /\ running /\ ~eventLink /\ eventLinks < eventsPlan.links
    /\ eventLink' = TRUE /\ eventLinks' = eventLinks + 1
    /\ eventStream' = Append(eventStream, [kind |-> "hello", last |-> lastID])
    /\ UNCHANGED <<daemonVars, launches, running, appVars, storeVars>>

DisconnectEvents ==
    /\ eventLink /\ Calm
    /\ eventLink' = FALSE
    /\ UNCHANGED <<daemonVars, eventLinks, eventStream, launches, running, appVars, storeVars>>

\* The daemon starts again without its log.
LoseLog ==
    /\ "reset" \in Faults /\ generation = 0 /\ lastID > 0
    /\ log' = <<>> /\ lastID' = 0 /\ generation' = 1
    /\ eventLink' = FALSE
    /\ UNCHANGED <<emitted, eventLinks, eventStream, launches, running, appVars, storeVars>>

EventsNext ==
    \/ HandleEvents \/ Answer \/ AnswerFails \/ Backfilled
    \/ Flush \/ \E w \in writes : Write(w) \/ WriteFails(w) \/ Record(w)
    \/ Quit \/ Kill \/ Launch
    \/ Emit \/ ConnectEvents \/ DisconnectEvents \/ LoseLog

EventsSpec == EventsInit /\ [][EventsNext /\ UNCHANGED eventsPlan]_<<eventsVars, eventsPlan>>

-----------------------------------------------------------------------------
(* Properties. *)

\* The timeline goes up, without doubles, within its limit; and so does the
\* copy on disk, whichever of the racing writes came last (Merged).
TimelineOrdered ==
    \A s \in {allEvents, file} :
        Len(s) <= MaxShown /\ \A i, j \in DOMAIN s : i < j => s[i].id < s[j].id

\* The app never claims to have seen more than it holds, though the cached
\* events and the number that goes with them are written one after the
\* other, by writes that may overtake each other (flush, saveNow, load).
SeenIsHeld == lastSeenEventID <= LastIdOf(allEvents)

EventsSettled == eventLink /\ eventStream = <<>> /\ task = NoTask

\* Once the app is connected and nothing is under way, the timeline has no
\* holes that the daemon could fill: it goes up to the newest event, and
\* from its oldest event on it holds all that the log does (backfill merged
\* with the live events that arrive meanwhile).  A connection lost, or the
\* app quit, while a backfill is under way is outside this promise: live
\* events have moved lastSeenEventID past the hole by then.
CaughtUp ==
    EventsSettled /\ Faults = {} =>
        /\ log # <<>> => allEvents # <<>> /\ Last(allEvents) = Last(log)
        /\ \A i \in DOMAIN log :
             allEvents # <<>> /\ log[i].id >= Head(allEvents).id => Contains(allEvents, log[i])

\* Whichever write, launch or event comes when, the timeline and its copy on
\* disk are in order, and the app never claims to have seen more than it
\* holds (ingest, flush, saveNow, load).
TimelineInv == TimelineOrdered /\ SeenIsHeld
=============================================================================
