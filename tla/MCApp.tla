------------------------------- MODULE MCApp -------------------------------
(* Instances of AppRepos and AppEvents.  They share no variable: one of    *)
(* them moves in a behaviour, and the other rests.                         *)
EXTENDS AppRepos, AppEvents

VARIABLE part       \* the module that moves

Cond(status, code) == [status |-> status, code |-> code]

JustAdded == Cond("idle", "")

AllConditions ==
    {JustAdded, Cond("ok", ""), Cond("conflict", "conflict"), Cond("offline", "network"),
     Cond("syncing", "auth"), Cond("error", "auth"), Cond("preflight", ""), Cond("preflight", "no_upstream")}

OkOrConflict == {Cond("ok", ""), Cond("conflict", "conflict")}

MCReposPlans ==
    [statuses |-> [repos |-> {"a"}, conditions |-> AllConditions, commands |-> {},
                   late |-> FALSE, changes |-> 3],
     commands |-> [repos |-> {"a"}, conditions |-> OkOrConflict,
                   commands |-> {"add", "remove"}, late |-> FALSE, changes |-> 4],
     late |-> [repos |-> {"a", "b"}, conditions |-> OkOrConflict,
               commands |-> {"add", "remove"}, late |-> TRUE, changes |-> 2]]

MCEventsPlans ==
    {[faults |-> {}, events |-> 6, links |-> 3, launches |-> 3],
     [faults |-> {"fail", "hasty", "slow", "kill", "reset"}, events |-> 3, links |-> 2,
      launches |-> 2]}

mcVars == <<reposVars, reposPlan, eventsVars, eventsPlan, part>>

MCInit ==
    /\ ReposInit /\ EventsInit
    /\ \/ part = "repos" /\ eventsPlan.faults = {}
       \/ part = "events" /\ reposPlan = "late"

MCNext ==
    /\ \/ part = "repos" /\ ReposNext /\ UNCHANGED eventsVars
       \/ part = "events" /\ EventsNext /\ UNCHANGED reposVars
    /\ UNCHANGED <<reposPlan, eventsPlan, part>>

MCSpec == MCInit /\ [][MCNext]_mcVars
=============================================================================
