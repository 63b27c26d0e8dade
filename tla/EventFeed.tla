----------------------------- MODULE EventFeed -----------------------------
(***************************************************************************)
(* What a subscription promises to a client: from the event it joins at it *)
(* is told of every event, in order, once, until it is told of nothing any *)
(* more.  It may fall behind and it may be cut off; it never skips one.    *)
(***************************************************************************)
EXTENDS Naturals

CONSTANT Conns

VARIABLES
    last,    \* identifier of the newest event
    heard    \* the last event each client knows of; None before it joins

None == [joined |-> FALSE, at |-> 0]
At(n) == [joined |-> TRUE, at |-> n]

Init == last = 0 /\ heard = [c \in Conns |-> None]

Publish == last' = last + 1 /\ UNCHANGED heard

\* The point it joins at may be behind by the time the client learns of it.
Join(c) ==
    /\ ~heard[c].joined
    /\ \E n \in 0..last : heard' = [heard EXCEPT ![c] = At(n)]
    /\ UNCHANGED last

Hear(c) ==
    /\ heard[c].joined /\ heard[c].at < last
    /\ heard' = [heard EXCEPT ![c] = At(heard[c].at + 1)]
    /\ UNCHANGED last

Next == Publish \/ \E c \in Conns : Join(c) \/ Hear(c)

Spec == Init /\ [][Next]_<<last, heard>>
=============================================================================
