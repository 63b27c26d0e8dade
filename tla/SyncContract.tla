---------------------------- MODULE SyncContract ----------------------------
(***************************************************************************)
(* What the sync engine promises about the user's work, without saying     *)
(* when or how it runs: the only things that ever happen to a repository   *)
(* and its remote.  The engine (module AutoSync) implements this           *)
(* specification, and so would any other engine that keeps work safe.      *)
(***************************************************************************)
EXTENDS GitHistory

CONSTANTS
    LocalEdit,         \* the edits the user of this machine makes
    RemoteEdit,        \* the edits other machines push
    InitialHistory     \* the histories the repository may start from

ASSUME EditAssumption ==
    /\ LocalEdit \subseteq Edit
    /\ RemoteEdit \subseteq Edit
    /\ LocalEdit \cap RemoteEdit = {}
ASSUME HistoryAssumption ==
    /\ InitialHistory \subseteq History
    /\ \A h \in InitialHistory : Content(h) \cap (LocalEdit \cup RemoteEdit) = {}

VARIABLES
    wt,          \* edits in the worktree that no commit holds
    local,       \* the branch
    tracking,    \* the remote-tracking ref, refs/remotes/<remote>/<branch>
    reflog,      \* the tips tracking has had
    remote,      \* the branch on the remote
    used,        \* edits made so far
    removed,     \* edits a force-push took off the remote
    clobbered    \* edits "rebase --abort" threw away

work == <<wt, local, tracking, reflog, remote, used, removed, clobbered>>

WorkOK ==
    /\ wt \subseteq Edit
    /\ local \in History /\ tracking \in History /\ remote \in History
    /\ reflog \subseteq History
    /\ used \subseteq Edit /\ removed \subseteq Edit /\ clobbered \subseteq Edit

WorkInit ==
    /\ \E h \in InitialHistory :
          /\ local = h /\ tracking = h /\ remote = h
          /\ reflog = IF h = <<>> THEN {} ELSE {h}
    /\ wt = {} /\ used = {} /\ removed = {} /\ clobbered = {}

\* Somebody edits a file here.
Edits ==
    \E e \in LocalEdit \ used :
       /\ used' = used \cup {e} /\ wt' = wt \cup {e}
       /\ UNCHANGED <<local, tracking, reflog, remote, removed, clobbered>>

\* Everything uncommitted is committed.
Commits ==
    /\ local' = Append(local, wt) /\ wt' = {}
    /\ UNCHANGED <<tracking, reflog, remote, used, removed, clobbered>>

\* The tracking ref follows the remote.
Fetches ==
    /\ tracking' = remote /\ reflog' = reflog \cup {remote}
    /\ UNCHANGED <<wt, local, remote, used, removed, clobbered>>

\* The branch is replayed on the tracking ref.  Commits are left out only if
\* a tip the upstream has or once had holds them.
Replays ==
    /\ \E base \in 0..Len(local) :
          /\ \E t \in reflog \cup {tracking} :
                Content(SubSeq(local, 1, base)) \subseteq Content(t)
          /\ local' = Rebased(local, tracking, base)
    /\ UNCHANGED <<wt, tracking, reflog, remote, used, removed, clobbered>>

\* The remote is fast-forwarded to the branch; the answer may get lost.
Pushes ==
    /\ IsAncestor(remote, local)
    /\ remote' = local
    /\ \/ tracking' = local /\ reflog' = reflog \cup {local}
       \/ UNCHANGED <<tracking, reflog>>
    /\ UNCHANGED <<wt, local, used, removed, clobbered>>

\* An aborted rebase overwrites uncommitted edits.
Overwrites ==
    /\ \E gone \in SUBSET wt : wt' = wt \ gone /\ clobbered' = clobbered \cup gone
    /\ UNCHANGED <<local, tracking, reflog, remote, used, removed>>

\* Another machine pushes, or rewinds the branch by force.
OthersPush ==
    /\ \E e \in RemoteEdit \ used : used' = used \cup {e} /\ remote' = Append(remote, {e})
    /\ UNCHANGED <<wt, local, tracking, reflog, removed, clobbered>>

OthersForce ==
    /\ \E n \in 0..Len(remote) :
          /\ remote' = SubSeq(remote, 1, n)
          /\ removed' = removed \cup (Content(remote) \ Content(SubSeq(remote, 1, n)))
    /\ UNCHANGED <<wt, local, tracking, reflog, used, clobbered>>

WorkNext ==
    \/ Edits \/ Commits \/ Fetches \/ Replays \/ Pushes \/ Overwrites
    \/ OthersPush \/ OthersForce

\* The contract: every step of the engine, the user and the other machines is
\* one of these.  In particular the engine never moves the branch but by a
\* commit on top of it or a replay that leaves out nothing unknown to the
\* upstream, and never moves the remote but forward.
WorkSpec == WorkInit /\ [][WorkNext]_work

\* Whatever the user made on this machine is still in the worktree, in the
\* branch or on the remote, unless another machine's force-push took it off
\* the remote or "rebase --abort" overwrote it in the worktree: no commit,
\* rebase, fork-point rebase, retry, cancellation or crash of the engine
\* loses work.
NoCommittedWorkLost ==
    used \cap LocalEdit \subseteq
        wt \cup Content(local) \cup Content(remote) \cup removed \cup clobbered

\* What makes it inductive: what a tip of the upstream held is on the remote,
\* or was removed from it by force.
UpstreamWasRemote ==
    \A h \in reflog \cup {tracking} : Content(h) \subseteq Content(remote) \cup removed

WorkInv == WorkOK /\ UpstreamWasRemote /\ NoCommittedWorkLost
=============================================================================
