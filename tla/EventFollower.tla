--------------------------- MODULE EventFollower ---------------------------
(***************************************************************************)
(* `daemon events --follow` (daemon.go): a client that asks for the newest *)
(* events, subscribes, asks for those it has missed in between, and prints *)
(* what it is told from then on.  It runs against the daemon's event log,  *)
(* module EventLog, and the feed of a subscription as module EventFeed     *)
(* promises it.                                                            *)
(***************************************************************************)
EXTENDS EventLog

CONSTANTS
    OnlyRepo,       \* the repository the client asks for, or "" for all
    Limit           \* the newest Limit events are printed first, all if 0

ASSUME ClientAssumption ==
    /\ Limit \in Nat
    /\ \A p \in Plans : p.client \in BOOLEAN /\ (p.client => p.starts = 1)

VARIABLES
    pc,             \* where daemonEvents and followEvents are
    printed,        \* the events printed so far
    answered,       \* LastEventID of the first answer, or the event before the
                    \* oldest in the log when the gap was asked for, if newer
    after,          \* `after` of followEvents
    heard           \* the last event the subscription has told of

clientVars == <<pc, printed, answered, after, heard>>
followerVars == <<logVars, clientVars>>

Init ==
    /\ LogInit
    /\ pc = "ask" /\ printed = <<>> /\ answered = 0 /\ after = 0 /\ heard = 0

\* HandleCommand answers an events request in two steps: the events, and
\* then the last identifier.
AskEvents ==
    /\ pc = "ask"
    /\ printed' = Since(0, OnlyRepo, Limit)
    /\ pc' = "answer"
    /\ UNCHANGED <<logVars, answered, after, heard>>

AskLast ==
    /\ pc = "answer"
    /\ after' = lastID /\ answered' = lastID
    /\ pc' = "subscribe"
    /\ UNCHANGED <<logVars, printed, heard>>

\* Mutant: what was missed until the subscription is not asked for.
SubscribeOnly ==
    /\ pc = "subscribe"
    /\ heard' = lastID
    /\ pc' = "follow"
    /\ UNCHANGED <<logVars, printed, answered, after>>

\* The hello carries the event the subscription goes on from.
Subscribe ==
    /\ pc = "subscribe"
    /\ heard' = lastID
    /\ pc' = IF lastID > after THEN "gap" ELSE "follow"
    /\ UNCHANGED <<logVars, printed, answered, after>>

\* The events up to one are printed.
Printing(out, events, last) ==
    LET print[i \in 0..Len(events)] ==
          IF i = 0 THEN out
          ELSE IF events[i].id <= last THEN Append(print[i - 1], events[i]) ELSE print[i - 1]
    IN print[Len(events)]

\* By the time the gap is asked for it may reach past the hello.
AskGap ==
    /\ pc = "gap"
    /\ printed' = Printing(printed, Since(after, OnlyRepo, 0), heard)
    /\ answered' = IF lastID > answered + Capacity THEN lastID - Capacity ELSE answered
    /\ after' = heard
    /\ pc' = "follow"
    /\ UNCHANGED <<logVars, heard>>

\* ReadFrame: the next event of the feed.
ReadFrame ==
    /\ pc = "follow" /\ heard < lastID
    /\ LET ev == history[heard + 1]
       IN /\ heard' = ev.id
          /\ printed' = IF ev.id <= after \/ (OnlyRepo # "" /\ ev.repo # OnlyRepo) THEN printed
                        ELSE Append(printed, ev)
    /\ UNCHANGED <<logVars, pc, answered, after>>

\* The daemon closes the connection, and the command ends with an error.
CutOff ==
    /\ pc = "follow"
    /\ pc' = "ended"
    /\ UNCHANGED <<logVars, printed, answered, after, heard>>

\* A daemon that is closing its log no longer answers: what is left to a
\* client is to read what was sent and to be cut off.
ClientNext ==
    \/ life = "up" /\ (AskEvents \/ AskLast \/ Subscribe \/ AskGap)
    \/ ReadFrame \/ CutOff

Next ==
    \/ LogNext /\ UNCHANGED clientVars
    \/ plan.client /\ ClientNext

Spec == Init /\ [][Next /\ UNCHANGED plan]_<<followerVars, plan>>

-----------------------------------------------------------------------------
(* Properties. *)

\* No event is printed twice or after a newer one, whatever arrives between
\* the question, the subscription and the question for the gap.
PrintedInOrder ==
    \A i, j \in 1..Len(printed) : i < j => printed[i].id < printed[j].id

\* The events that concern the client among those from first to last.
Concern(first, last) == {history[i] : i \in {k \in first..last : OnlyRepo \in {"", history[k].repo}}}

\* Once it follows, the client has printed all that came after the answer to
\* its first question, as far as it has been told, unless the log no longer
\* had it when the client asked for the gap.  (An event that falls
\* between the two halves of that answer is not among them: its identifier is
\* covered by LastEventID and it is not in the events.)
PrintsFromAnswer ==
    pc \in {"follow", "ended"} => Concern(answered + 1, heard) \subseteq Range(printed)

\* The client prints every event that concerns it once and in order, through
\* the question, the subscription and the question for the gap (followEvents).
FollowsExactly == PrintedInOrder /\ PrintsFromAnswer
=============================================================================
