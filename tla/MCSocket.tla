------------------------------ MODULE MCSocket ------------------------------
(* Instances of SocketServer and SingleInstance.  They share no variable:  *)
(* a behaviour is one of the server of a daemon, or one of daemons that    *)
(* start and stop, and the other module rests.                             *)
EXTENDS SocketServer, SingleInstance

CONSTANTS c1, c2, d1, d2, d3

VARIABLE part       \* the module that moves

TwoConns == {c1, c2}
ThreeDaemons == {d1, d2, d3}

MCPlans ==
    {[conns |-> {c1}, requests |-> Requests, lines |-> 2, events |-> 1, updates |-> 1],
     [conns |-> {c1}, requests |-> {"subscribe"}, lines |-> 1, events |-> 2, updates |-> 2],
     [conns |-> TwoConns, requests |-> {"subscribe"}, lines |-> 1, events |-> 1, updates |-> 0]}

mcVars == <<serverVars, plan, instanceVars, overlap, part>>

MCInit ==
    /\ Init /\ InstanceInit
    /\ \/ part = "server" /\ path = "none" /\ overlap = FALSE
       \/ part = "instances" /\ plan.updates = 0

MCNext ==
    /\ \/ part = "server" /\ Next /\ UNCHANGED <<instanceVars, overlap>>
       \/ part = "instances" /\ InstanceNext /\ UNCHANGED serverVars
    /\ UNCHANGED <<plan, part>>

MCSpec == MCInit /\ [][MCNext]_mcVars /\ Fairness /\ InstanceFairness
=============================================================================
