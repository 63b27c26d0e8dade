-------------------------- MODULE MCDaemonWatchers --------------------------
(* An instance of DaemonWatchers: one repository, and six mixes of what    *)
(* clients, the command line and signals do to it.                         *)
EXTENDS DaemonWatchers

CONSTANTS r1, c1, c2

OneRepo == {r1}
TwoClients == {c1, c2}

MCPlans ==
    {[commands |-> {"add", "remove", "settings", "stop"}, clients |-> {c1},
      configured |-> OneRepo, handles |-> 3],
     [commands |-> {"add", "remove", "stop"}, clients |-> TwoClients,
      configured |-> {}, handles |-> 2],
     [commands |-> {"add", "remove", "pause", "abort"}, clients |-> {c1},
      configured |-> OneRepo, handles |-> 2],
     [commands |-> {"abort", "settings"}, clients |-> TwoClients,
      configured |-> OneRepo, handles |-> 3],
     [commands |-> {"add", "remove", "abort"}, clients |-> TwoClients,
      configured |-> OneRepo, handles |-> 2],
     [commands |-> {"reload", "edit", "settings"}, clients |-> {c1},
      configured |-> OneRepo, handles |-> 2]}
=============================================================================
