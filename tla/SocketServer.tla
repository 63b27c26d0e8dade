---------------------------- MODULE SocketServer ----------------------------
(***************************************************************************)
(* The socket server (common/socket.go): one goroutine per connection that *)
(* reads requests, one that writes the frames of its queue, and the two    *)
(* sources of frames for subscribers, the events (Emit) and the changes of *)
(* the repositories' states (RepoStateStore.Update, BroadcastState).       *)
(*                                                                         *)
(* A step holds SocketServer.mu for as long as the code does.  A frame is  *)
(* what it tells the client: a response the number of the request, a hello *)
(* the newest event and the state it was made from, an event its           *)
(* identifier, a state frame the Seq of the state.                         *)
(***************************************************************************)
EXTENDS Naturals, Sequences, FiniteSetsExt

CONSTANTS
    Conns,          \* connections
    QueueSize,      \* ClientQueueSize
    Plans           \* what behaviours may have: see plan

Requests == {"command", "malformed", "blank", "subscribe"}

ASSUME PlansAssumption ==
    \A p \in Plans : /\ p.conns \subseteq Conns /\ p.requests \subseteq Requests
                     /\ {p.lines, p.events, p.updates} \subseteq Nat
ASSUME QueueAssumption == QueueSize \in Nat \ {0}

VARIABLES
    conn,           \* socketConn and its two goroutines
    conns, subs,    \* SocketServer.conns, subs
    server,         \* "open", "done" once done is closed, "closed" after Close
    lastID,         \* EventLog.LastID()
    seq,            \* RepoStateStore.seq
    notifying,      \* the Seq that is to be broadcast, 0 if notifyMu is free
    plan            \* chosen at the start: the connections and what they ask for,
                    \* and the bounds on lines a client sends, events and updates

serverVars == <<conn, conns, subs, server, lastID, seq, notifying>>

MaxRequests == plan.lines
MaxEvents == plan.events
MaxUpdates == plan.updates

Frame == [kind : {"response", "hello", "event", "state"}, n : Nat, seq : Nat]
ResponseFrame(n) == [kind |-> "response", n |-> n, seq |-> 0]
HelloFrame == [kind |-> "hello", n |-> lastID, seq |-> seq]
EventFrame(id) == [kind |-> "event", n |-> id, seq |-> 0]
StateFrame(s) == [kind |-> "state", n |-> 0, seq |-> s]

Connection == [reader : {"none", "reading", "left", "unregistered", "gone"},
               writer : {"none", "writing", "gone"},
               queue : Seq(Frame), finished : BOOLEAN, done : BOOLEAN,
               todo : Seq(Requests), sent : Nat, asked : Nat, eof : BOOLEAN,
               got : Seq(Frame)]

NoConnection == [reader |-> "none", writer |-> "none", queue |-> <<>>,
                 finished |-> FALSE, done |-> FALSE, todo |-> <<>>, sent |-> 0,
                 asked |-> 0, eof |-> FALSE, got |-> <<>>]

Init ==
    /\ plan \in Plans
    /\ conn = [c \in Conns |-> NoConnection]
    /\ conns = {} /\ subs = {} /\ server = "open"
    /\ lastID = 0 /\ seq = 0 /\ notifying = 0

-----------------------------------------------------------------------------
(* socketConn. *)

\* Mutant: a frame that does not fit is dropped and the connection kept.
SendDropping(k, frame) ==
    IF k.done \/ Len(k.queue) >= QueueSize THEN k
    ELSE [k EXCEPT !.queue = Append(@, frame)]

\* send: a full queue closes the connection.
Send(k, frame) ==
    IF k.done THEN k
    ELSE IF Len(k.queue) < QueueSize THEN [k EXCEPT !.queue = Append(@, frame)]
    ELSE [k EXCEPT !.done = TRUE]

\* The next line is read, and skipped or its response sent.
Skip(k) == [k EXCEPT !.todo = Tail(@)]
Respond(k) == Send([Skip(k) EXCEPT !.asked = @ + 1], ResponseFrame(k.asked + 1))

\* handleClient goes on after sends that worked.
GoOn(k) == IF k.done THEN [k EXCEPT !.reader = "left"] ELSE k

\* Mutant: a client whose queue is full is taken off the list and kept open.
PushForgetting(frame) ==
    LET full == {c \in subs : conn[c].done \/ Len(conn[c].queue) >= QueueSize}
    IN /\ conn' = [c \in Conns |-> IF c \in subs \ full THEN Send(conn[c], frame) ELSE conn[c]]
       /\ subs' = subs \ full

\* pushLocked
Push(frame) ==
    LET pushed == [c \in Conns |-> IF c \in subs THEN Send(conn[c], frame) ELSE conn[c]]
    IN /\ conn' = pushed
       /\ subs' = {c \in subs : ~pushed[c].done}

\* writeLoop: the next frame is written, or cannot be (the client is gone,
\* or has not read for ClientWriteTimeout).
WriteLoop(c) ==
    /\ conn[c].writer = "writing" /\ ~conn[c].done /\ conn[c].queue # <<>>
    /\ conn' = [conn EXCEPT ![c].got = Append(@, Head(conn[c].queue)),
                            ![c].queue = Tail(@)]
    /\ UNCHANGED <<conns, subs, server, lastID, seq, notifying>>

\* Mutant: the writer gives up and leaves the connection open.
WriteFailsQuietly(c) ==
    /\ conn[c].writer = "writing" /\ conn[c].queue # <<>>
    /\ conn' = [conn EXCEPT ![c].writer = "gone"]
    /\ UNCHANGED <<conns, subs, server, lastID, seq, notifying>>

WriteFails(c) ==
    /\ conn[c].writer = "writing" /\ conn[c].queue # <<>>
    /\ conn' = [conn EXCEPT ![c].writer = "gone", ![c].done = TRUE]
    /\ UNCHANGED <<conns, subs, server, lastID, seq, notifying>>

\* The queue is closed and drained, or the connection was closed.
WriteEnds(c) ==
    /\ conn[c].writer = "writing"
    /\ conn[c].done \/ (conn[c].finished /\ conn[c].queue = <<>>)
    /\ conn' = [conn EXCEPT ![c].writer = "gone", ![c].done = TRUE]
    /\ UNCHANGED <<conns, subs, server, lastID, seq, notifying>>

-----------------------------------------------------------------------------
(* Accept and handleClient. *)

\* A connection that is accepted when the server is done is closed at once.
Accept(c) ==
    /\ conn[c].reader = "none" /\ server = "open"
    /\ conn' = [conn EXCEPT ![c].reader = "reading", ![c].writer = "writing"]
    /\ conns' = conns \cup {c}
    /\ UNCHANGED <<subs, server, lastID, seq, notifying>>

\* A line is read and answered: with the result of the command (dispatch), or
\* with what is wrong with it.  A blank one is skipped.
Handle(c) ==
    /\ conn[c].reader = "reading" /\ conn[c].todo # <<>>
    /\ Head(conn[c].todo) # "subscribe"
    /\ conn' = [conn EXCEPT ![c] =
          IF Head(@.todo) = "blank" THEN Skip(@) ELSE GoOn(Respond(@))]
    /\ UNCHANGED <<conns, subs, server, lastID, seq, notifying>>

\* subscribe
Subscribe(c) ==
    /\ conn[c].reader = "reading" /\ conn[c].todo # <<>>
    /\ Head(conn[c].todo) = "subscribe"
    /\ conn' = [conn EXCEPT ![c] = GoOn(Send(Respond(@), HelloFrame))]
    /\ subs' = IF conn'[c].done THEN subs ELSE subs \cup {c}
    /\ UNCHANGED <<conns, server, lastID, seq, notifying>>

\* The connection was closed, or the client has sent its last line.
ReadFails(c) ==
    /\ conn[c].reader = "reading"
    /\ conn[c].done \/ (conn[c].eof /\ conn[c].todo = <<>>)
    /\ conn' = [conn EXCEPT ![c].reader = "left"]
    /\ UNCHANGED <<conns, subs, server, lastID, seq, notifying>>

\* handleClient's deferred function.
Unregister(c) ==
    /\ conn[c].reader = "left"
    /\ conn' = [conn EXCEPT ![c].reader = "unregistered"]
    /\ conns' = conns \ {c} /\ subs' = subs \ {c}
    /\ UNCHANGED <<server, lastID, seq, notifying>>

Finish(c) ==
    /\ conn[c].reader = "unregistered"
    /\ conn' = [conn EXCEPT ![c].reader = "gone", ![c].finished = TRUE]
    /\ UNCHANGED <<conns, subs, server, lastID, seq, notifying>>

-----------------------------------------------------------------------------
(* What is pushed to the subscribers. *)

Emit ==
    /\ lastID < MaxEvents
    /\ lastID' = lastID + 1
    /\ Push(EventFrame(lastID + 1))
    /\ UNCHANGED <<conns, server, seq, notifying>>

\* RepoStateStore.Update: notifyMu is held until the listener has returned,
\* the store's own mutex is not.
Update ==
    /\ seq < MaxUpdates /\ notifying = 0
    /\ seq' = seq + 1 /\ notifying' = seq + 1
    /\ UNCHANGED <<conn, conns, subs, server, lastID>>

BroadcastState ==
    /\ notifying # 0
    /\ Push(StateFrame(notifying))
    /\ notifying' = 0
    /\ UNCHANGED <<conns, server, lastID, seq>>

-----------------------------------------------------------------------------
(* Close: done is closed, then the connections, under the lock. *)

CloseDone ==
    /\ server = "open"
    /\ server' = "done"
    /\ UNCHANGED <<conn, conns, subs, lastID, seq, notifying>>

CloseConns ==
    /\ server = "done"
    /\ server' = "closed"
    /\ conn' = [c \in Conns |-> IF c \in conns THEN [conn[c] EXCEPT !.done = TRUE] ELSE conn[c]]
    /\ conns' = {} /\ subs' = {}
    /\ UNCHANGED <<lastID, seq, notifying>>

-----------------------------------------------------------------------------
(* The client: it sends lines, and stops sending. *)

SendLine(c, request) ==
    /\ conn[c].reader # "none" /\ ~conn[c].done /\ ~conn[c].eof
    /\ conn[c].sent < MaxRequests
    /\ conn' = [conn EXCEPT ![c].todo = Append(@, request), ![c].sent = @ + 1]
    /\ UNCHANGED <<conns, subs, server, lastID, seq, notifying>>

HangUp(c) ==
    /\ conn[c].reader # "none" /\ ~conn[c].done /\ ~conn[c].eof
    /\ conn' = [conn EXCEPT ![c].eof = TRUE]
    /\ UNCHANGED <<conns, subs, server, lastID, seq, notifying>>

Reader(c) == Handle(c) \/ Subscribe(c) \/ ReadFails(c) \/ Unregister(c) \/ Finish(c)
Writer(c) == WriteLoop(c) \/ WriteFails(c) \/ WriteEnds(c)

Next ==
    \/ \E c \in plan.conns :
         \/ Accept(c) \/ Reader(c) \/ Writer(c) \/ HangUp(c)
         \/ \E request \in plan.requests : SendLine(c, request)
    \/ Emit \/ Update \/ BroadcastState \/ CloseDone \/ CloseConns

\* The goroutines of a connection run; a write ends, at the latest after
\* ClientWriteTimeout.
Fairness == \A c \in Conns : WF_serverVars(Reader(c)) /\ WF_serverVars(Writer(c))

Spec == Init /\ [][Next /\ UNCHANGED plan]_<<serverVars, plan>> /\ Fairness

-----------------------------------------------------------------------------
(* Properties. *)

\* What the client was sent and what waits for it.
Stream(k) == k.got \o k.queue
Places(frames, kinds) == {i \in 1..Len(frames) : frames[i].kind \in kinds}

TypeOK ==
    /\ conn \in [Conns -> Connection]
    /\ \A c \in Conns : Len(conn[c].queue) <= QueueSize
    /\ subs \subseteq conns /\ conns \subseteq Conns
    /\ server \in {"open", "done", "closed"}
    /\ lastID \in 0..MaxEvents /\ seq \in 0..MaxUpdates /\ notifying \in 0..seq

\* No frame is sent on a closed channel, which would end the daemon: finish
\* comes after the client is off the list the pushes go through.
NoSendAfterFinish == \A c \in Conns : conn[c].finished => c \notin subs

\* A client that was subscribed and is no longer told of anything is told
\* so: its connection is closed.  None is left listening to silence.
NoDeafSubscriber ==
    \A c \in Conns : Places(Stream(conn[c]), {"hello"}) # {} /\ c \notin subs
                        => conn[c].done \/ conn[c].reader # "reading"

\* Every request is answered once and in order, between whatever is pushed.
OneResponsePerRequest ==
    \A c \in Conns :
        LET frames == Stream(conn[c])
            responses == Places(frames, {"response"})
        IN /\ \A i \in responses : frames[i].n = Cardinality({j \in responses : j <= i})
           /\ ~conn[c].done => Cardinality(responses) = conn[c].asked

\* What a subscriber is sent of the states never goes back, and is the last
\* update except while that is being broadcast.  That a repository comes or
\* goes is not an update (Ensure, Remove): module AppRepos shows what follows.
StatesUpToDate ==
    \A c \in Conns :
        LET frames == Stream(conn[c])
            states == Places(frames, {"hello", "state"})
        IN /\ \A i, j \in states : i < j => frames[i].seq <= frames[j].seq
           /\ c \in subs => \E i \in states : /\ \A j \in states : j <= i
                                            /\ notifying = 0 => frames[i].seq = seq

\* After Close no connection is served: those that are still there drain
\* what their last answers left in the queue.
ClosedIsClosed ==
    server = "closed" => \A c \in Conns : conn[c].reader = "reading" => conn[c].done

\* The event feed a client reads off its connection.
Heard(c) ==
    LET news == Places(conn[c].got, {"hello", "event"})
    IN IF news = {} THEN [joined |-> FALSE, at |-> 0]
       ELSE [joined |-> TRUE, at |-> conn[c].got[Max(news)].n]

Feed == INSTANCE EventFeed WITH last <- lastID, heard <- [c \in Conns |-> Heard(c)]

\* subscribe, Emit, pushLocked and writeLoop together implement the feed of
\* module EventFeed: no gap, no repetition, no reordering.
ImplementsFeed == Feed!Spec

\* Every event reaches every subscriber, or the connection ends.
EveryEventHeard ==
    \A c \in Conns, n \in 1..2 :
        lastID >= n /\ c \in subs ~> conn[c].done \/ Heard(c).at >= n

\* A client that hangs up is let go: both goroutines end, and the
\* connection is closed, after the answers it still waits for were written.
HangUpCompletes ==
    \A c \in Conns : conn[c].eof ~> conn[c].reader = "gone" /\ conn[c].writer = "gone"
                                      /\ conn[c].done

\* Whenever clients ask, subscribe, hang up or are too slow, and whenever the
\* server is closed: no push goes to a closed channel, no subscriber is left
\* in silence, requests are answered one by one, and states never go back
\* (handleClient, subscribe, pushLocked, Close).
ServerInv ==
    /\ TypeOK
    /\ NoSendAfterFinish
    /\ NoDeafSubscriber
    /\ OneResponsePerRequest
    /\ StatesUpToDate
    /\ ClosedIsClosed

\* A connection never hangs: its subscriber hears every event or is cut off,
\* and one that the client leaves is cleaned up (writeLoop, handleClient).
ConnectionsProgress == EveryEventHeard /\ HangUpCompletes
=============================================================================
