---------------------------- MODULE WatcherTurns ----------------------------
(***************************************************************************)
(* What the daemon promises about the watchers of a repository: however    *)
(* often it is removed, added again or restarted, its watchers take turns. *)
(* One has the repository at a time, and they have it in the order in      *)
(* which they were started.                                                *)
(***************************************************************************)
EXTENDS Naturals

CONSTANTS Repos, MaxHandles

VARIABLES
    owner,   \* the watcher that has the repository, 0 for none
    had      \* the watchers whose turn has come

Init ==
    /\ owner = [r \in Repos |-> 0]
    /\ had = [r \in Repos |-> {}]

\* The turn of a watcher comes after every earlier turn is over.  One that
\* was stopped while it waited lets its turn pass.
Turn(r, h) ==
    /\ owner[r] = 0
    /\ \A g \in had[r] : g < h
    /\ had' = [had EXCEPT ![r] = @ \cup {h}]
    /\ owner' \in {owner, [owner EXCEPT ![r] = h]}

Return(r) ==
    /\ owner[r] # 0
    /\ owner' = [owner EXCEPT ![r] = 0]
    /\ UNCHANGED had

Next == \E r \in Repos : Return(r) \/ \E h \in 1..MaxHandles : Turn(r, h)

Spec == Init /\ [][Next]_<<owner, had>>
=============================================================================
