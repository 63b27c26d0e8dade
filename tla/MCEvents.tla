------------------------------ MODULE MCEvents ------------------------------
(* An instance of EventFollower: a log whose file fails in every way, one  *)
(* that is only killed, and one that a client follows, whose gap may       *)
(* outgrow the ring.                                                       *)
EXTENDS EventFollower

MCPlans ==
    {[faults |-> {"write", "short", "rewrite", "late", "kill"}, repos |-> {"r1"},
      events |-> 8, starts |-> 2, client |-> FALSE],
     [faults |-> {"kill"}, repos |-> {"r1", "r2"}, events |-> 8, starts |-> 3, client |-> FALSE],
     [faults |-> {"late", "kill"}, repos |-> {"r1", "r2"}, events |-> 4, starts |-> 1, client |-> TRUE]}
=============================================================================
