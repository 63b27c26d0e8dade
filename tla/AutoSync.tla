------------------------------ MODULE AutoSync ------------------------------
(***************************************************************************)
(* The sync engine (common/autosync.go, commit.go, fetch.go, rebase.go,    *)
(* push.go, preflight.go) for one repository, with the RepoState entry it  *)
(* maintains (common/repostate.go) and what of it survives a restart       *)
(* (common/repostate_persist.go).                                          *)
(*                                                                         *)
(* One run of AutoSyncCtx is a sequence of git commands; each command is   *)
(* one step, and between two of them the user edits, commits, fetches or   *)
(* resolves, other machines push or force-push, and the daemon is          *)
(* cancelled or dies.                                                      *)
(***************************************************************************)
EXTENDS SyncContract

CONSTANTS
    PushAttempts,      \* pushAttempts of push.go
    MaxForcePush,      \* bound: force-pushes by other machines
    MaxStops           \* bound: cancelled runs and daemon crashes

ASSUME BoundAssumption ==
    /\ PushAttempts \in Nat \ {0}
    /\ MaxForcePush \in Nat
    /\ MaxStops \in Nat

VARIABLES
    \* the repository
    mid,         \* a rebase is stopped half-way (.git/rebase-merge exists)
    exposed,     \* edits made to tracked files while mid
    blocked,     \* another condition preflight refuses, or ""
    \* the daemon
    st,          \* the repository's RepoState
    disk,        \* what state.json holds of it
    pc,          \* the command AutoSyncCtx runs next
    run,         \* syncRun
    emit,        \* the events the last step emitted
    \* history variables
    told,        \* the conflict files the user was last told of
    lost,        \* a crash came before the record of that was saved
    moved,       \* the tracking ref is not the one of the conflict on record
    forces,      \* force-pushes so far
    stops        \* cancellations and crashes so far

git   == <<wt, local, tracking, reflog, remote, mid, exposed, blocked>>
ghost == <<used, removed, clobbered, told, lost, moved, forces, stops>>
vars  == <<wt, local, tracking, reflog, remote, mid, exposed, blocked,
           st, disk, pc, run, emit,
           used, removed, clobbered, told, lost, moved, forces, stops>>

-----------------------------------------------------------------------------
(* The RepoState entry. *)

Status == {"idle", "syncing", "ok", "error", "offline", "conflict", "preflight"}
PreflightCode == {"rebase_in_progress", "detached_head", "no_head", "upstream_gone"}
Code == {"", "conflict", "network", "other"} \cup PreflightCode

RepoState ==
    [status : Status, conflict : BOOLEAN, files : SUBSET File,
     head : History, up : History,
     lastError : Code, preflight : PreflightCode \cup {""}, code : Code]

Persistent == [conflict : BOOLEAN, files : SUBSET File, head : History, up : History]

NewState ==
    [status |-> "idle", conflict |-> FALSE, files |-> {}, head |-> <<>>, up |-> <<>>,
     lastError |-> "", preflight |-> "", code |-> ""]

MarkSyncing(s) == [s EXCEPT !.status = "syncing"]

MarkSuccess(s) ==
    [s EXCEPT !.status = "ok", !.lastError = "", !.code = "", !.preflight = "",
              !.conflict = FALSE, !.files = {}, !.head = <<>>, !.up = <<>>]

MarkErrorCode(s, code) ==
    [s EXCEPT !.status = "error", !.lastError = code, !.code = code, !.preflight = ""]

MarkOffline(s) ==
    [s EXCEPT !.status = "offline", !.lastError = "network", !.code = "network",
              !.preflight = ""]

SetConflictRefs(s, head, up) == [s EXCEPT !.head = head, !.up = up]

MarkConflict(s, files, msg) ==
    [s EXCEPT !.status = "conflict", !.conflict = TRUE, !.files = files,
              !.lastError = msg, !.code = "conflict", !.preflight = ""]

MarkPreflight(s, code) ==
    [s EXCEPT !.status = "preflight", !.preflight = code, !.code = code]

\* Mutant: a cancelled run leaves the status as it is.
KeepsSyncing(s, prev) == s

\* restoreStatus: a cancelled run gives back the status it found.
RestoreStatus(s, prev) ==
    IF s.status = "syncing" THEN [s EXCEPT !.status = prev.status] ELSE s

\* Mutant: the upstream of a conflict is not written.
ForgetsUpstream(s) ==
    [conflict |-> s.conflict, files |-> s.files, head |-> s.head]

MarshalPersisted(s) ==
    [conflict |-> s.conflict, files |-> IF s.conflict THEN s.files ELSE {},
     head |-> s.head, up |-> s.up]

\* Mutant: the refs are restored, the conflict is not.
RestoresRefsOnly(p) == [NewState EXCEPT !.head = p.head, !.up = p.up]

LoadPersisted(p) ==
    LET fresh == [NewState EXCEPT !.head = p.head, !.up = p.up]
    IN  IF p.conflict THEN MarkConflict(fresh, p.files, "conflict") ELSE fresh

-----------------------------------------------------------------------------
(* One run. *)

Stage == {"idle", "prepare", "localcommit", "commit", "fetch", "guard", "count",
          "rebase", "recommit", "abort", "record", "recount", "push"}

RunState ==
    [prev : RepoState, force : BOOLEAN, localOnly : BOOLEAN, cancelled : BOOLEAN,
     committed : BOOLEAN, forced : BOOLEAN, forkPoint : BOOLEAN,
     pulled : BOOLEAN, dropped : BOOLEAN,
     ahead : Nat, behind : Nat, retried : BOOLEAN, attempt : Nat,
     files : SUBSET File,
     \* history: what the run set out to sync, the upstream it fetched last,
     \* and that a lookup of its guard failed
     goal : SUBSET Edit, fetched : History, unsure : BOOLEAN]

NewRun(prev, force, localOnly, goal) ==
    [prev |-> prev, force |-> force, localOnly |-> localOnly, cancelled |-> FALSE,
     committed |-> FALSE, forced |-> FALSE, forkPoint |-> FALSE,
     pulled |-> FALSE, dropped |-> FALSE,
     ahead |-> 0, behind |-> 0, retried |-> FALSE, attempt |-> 1, files |-> {},
     goal |-> goal, fetched |-> <<>>, unsure |-> FALSE]

NoRun == NewRun(NewState, FALSE, FALSE, {})

Event == {"commit", "pull", "dropped", "push", "recovered", "synced",
          "conflict", "offline", "error", "preflight"}

DaemonOK ==
    /\ st \in RepoState /\ disk \in Persistent
    /\ pc \in Stage /\ run \in RunState
    /\ emit \subseteq Event

RepoOK ==
    /\ mid \in BOOLEAN /\ exposed \subseteq Edit
    /\ blocked \in {"", "detached_head"}
    /\ told \subseteq File /\ lost \in BOOLEAN /\ moved \in BOOLEAN
    /\ forces \in 0..MaxForcePush /\ stops \in 0..MaxStops

TypeOK == WorkOK /\ DaemonOK /\ RepoOK

Init ==
    /\ WorkInit
    /\ exposed = {} /\ mid = FALSE /\ blocked = ""
    /\ st = NewState /\ disk = MarshalPersisted(NewState)
    /\ pc = "idle" /\ run = NoRun /\ emit = {}
    /\ told = {} /\ lost = FALSE /\ moved = FALSE /\ forces = 0 /\ stops = 0

\* The run is over: AutoSyncCtx returned with the state entry s.
Return(s, events) ==
    /\ st' = s /\ emit' = events
    /\ pc' = "idle" /\ run' = NoRun
    /\ UNCHANGED disk

Goto(stage, r, events) ==
    /\ pc' = stage /\ run' = r /\ emit' = events
    /\ UNCHANGED <<st, disk>>

\* fail and its callers for an error that is neither a conflict nor a
\* preflight refusal: a local-only run reports nothing, a cancelled one puts
\* the status back, a network error means offline.
Fail(kind) ==
    LET prev == run.prev
        told_error == prev.status = "error" /\ prev.code = kind /\ prev.lastError = kind
    IN  IF run.localOnly THEN Return(st, {})
        ELSE IF run.cancelled THEN Return(RestoreStatus(st, prev), {})
        ELSE IF kind = "network"
             THEN Return(MarkOffline(st), IF prev.status = "offline" THEN {} ELSE {"offline"})
        ELSE Return(MarkErrorCode(st, kind), IF told_error THEN {} ELSE {"error"})

\* markPreflight
FailPreflight(code) ==
    LET known == run.prev.status = "preflight" /\ run.prev.preflight = code
    IN  IF run.localOnly THEN Return(st, {})
        ELSE Return(MarkPreflight(st, code), IF known THEN {} ELSE {"preflight"})

\* succeed.  The run pushed exactly when it still counts itself ahead.
Succeed ==
    LET unhealthy == run.prev.status \in {"error", "offline", "conflict", "preflight"}
        changed   == run.committed \/ run.pulled \/ run.dropped \/ run.ahead > 0
    IN  /\ Return(MarkSuccess(st),
                  (IF run.pulled THEN {"pull"} ELSE {})
                  \cup (IF run.dropped THEN {"dropped"} ELSE {})
                  \cup (IF run.ahead > 0 THEN {"push"} ELSE {})
                  \cup (IF unhealthy THEN {"recovered"} ELSE {})
                  \cup (IF changed THEN {"synced"} ELSE {}))
        /\ told' = {} /\ lost' = FALSE /\ moved' = FALSE
        /\ UNCHANGED <<used, removed, clobbered, forces, stops>>

\* AutoSyncCtx begins: the poll, a file event, a wake-up or a command.
Start(force, localOnly) ==
    /\ pc = "idle"
    /\ Goto("prepare", NewRun(st, force, localOnly, wt \cup Content(local)), {})
    /\ UNCHANGED <<git, ghost>>

\* Mutant: preflight does not look for a stopped rebase.
IgnoresRebase ==
    IF blocked # "" THEN blocked ELSE IF local = <<>> THEN "no_head" ELSE ""

\* preflight
Refusal ==
    IF mid THEN "rebase_in_progress"
    ELSE IF blocked # "" THEN blocked
    ELSE IF local = <<>> THEN "no_head"
    ELSE ""

\* Mutant: one changed path is staged, not all of them.
CommitsOnePath ==
    /\ \E e \in wt : local' = Append(local, {e}) /\ wt' = wt \ {e}
    /\ UNCHANGED <<tracking, reflog, remote, mid, exposed, blocked>>

\* git add -A; git commit
CommitAll ==
    /\ local' = Append(local, wt)
    /\ wt' = {}
    /\ UNCHANGED <<tracking, reflog, remote, mid, exposed, blocked>>

\* prepare succeeded: a local-only run commits and returns, any other run is
\* shown as syncing.
Begin(committed) ==
    /\ pc' = IF run.localOnly THEN "localcommit" ELSE "commit"
    /\ st' = IF run.localOnly THEN st ELSE MarkSyncing(st)
    /\ run' = [run EXCEPT !.committed = committed]
    /\ emit' = IF committed THEN {"commit"} ELSE {}
    /\ UNCHANGED <<disk, ghost>>

Prepare ==
    /\ pc = "prepare" /\ ~run.cancelled
    /\ \/ Refusal = "" /\ Begin(FALSE) /\ UNCHANGED git
       \/ Refusal \notin {"", "no_head"} /\ FailPreflight(Refusal) /\ UNCHANGED <<git, ghost>>
       \/ Refusal = "no_head" /\ wt = {} /\ FailPreflight("no_head") /\ UNCHANGED <<git, ghost>>
       \/ Refusal = "no_head" /\ wt # {} /\ CommitAll /\ Begin(TRUE)

\* commit: in run, in rebase after the worktree turned out dirty, and alone
\* in a local-only run.
CommitStep ==
    /\ pc \in {"commit", "recommit", "localcommit"} /\ ~run.cancelled
    /\ IF wt = {} THEN UNCHANGED git ELSE CommitAll
    /\ LET events == IF wt = {} THEN {} ELSE {"commit"}
           r      == [run EXCEPT !.committed = @ \/ wt # {}]
       IN  CASE pc = "commit"      -> Goto("fetch", r, events)
             [] pc = "recommit"    -> Goto("rebase", r, events)
             [] pc = "localcommit" -> Return(st, events)
    /\ UNCHANGED ghost

\* History: the tracking ref is no longer the one of the conflict.
NotesMove == moved' = (moved \/ (st.conflict /\ tracking' # tracking))

\* fetch: the tracking ref follows the remote, forced or not; a branch that
\* is gone from the remote is a refusal once it has been seen.
FetchStep ==
    /\ pc = "fetch" /\ ~run.cancelled
    /\ \/ /\ remote # <<>>
          /\ tracking' = remote
          /\ reflog' = reflog \cup {remote}
          /\ Goto(IF run.attempt = 1 THEN "guard" ELSE "count",
                  [run EXCEPT !.forced = @ \/ ~IsAncestor(tracking, remote),
                              !.fetched = remote], {})
          /\ UNCHANGED <<wt, local, remote, mid, exposed, blocked>>
       \/ /\ remote = <<>> /\ tracking = <<>>
          /\ Goto(IF run.attempt = 1 THEN "guard" ELSE "count", run, {})
          /\ UNCHANGED git
       \/ /\ remote = <<>> /\ tracking # <<>>
          /\ FailPreflight("upstream_gone")
          /\ UNCHANGED git
    /\ NotesMove
    /\ UNCHANGED <<used, removed, clobbered, told, lost, forces, stops>>

\* conflictUnchanged: the conflict of the last run stands, and nothing is new
\* upstream.  Its last condition asks whether the upstream has been merged.
HasRecord ==
    /\ ~run.force /\ run.prev.conflict
    /\ run.prev.head # <<>> /\ run.prev.up # <<>>

KnownConflict ==
    /\ HasRecord
    /\ tracking = run.prev.up
    /\ IsAncestor(run.prev.head, local)

\* Mutant: the last condition without its negation.
GuardsMergedUpstream == KnownConflict /\ IsAncestor(tracking, local)

ConflictUnchanged == KnownConflict /\ ~IsAncestor(tracking, local)

\* stayInConflict
StayInConflict ==
    LET msg == IF run.prev.lastError = "" THEN "conflict" ELSE run.prev.lastError
    IN  Return(MarkConflict(st, run.prev.files, msg), {})

\* A lookup of the guard fails, by itself or killed by a cancellation.  The
\* last one then reads as "not merged", any other as "not this conflict".
LookupFails ==
    \/ KnownConflict /\ StayInConflict
    \/ HasRecord /\ Goto("count", [run EXCEPT !.unsure = TRUE], {})

GuardStep ==
    /\ pc = "guard"
    /\ \/ ConflictUnchanged /\ StayInConflict
       \/ ~ConflictUnchanged /\ Goto("count", run, {})
       \/ LookupFails
    /\ UNCHANGED <<git, ghost>>

\* Mutant: a failing count is taken for "nothing to do".
CountIgnoresErrors ==
    /\ pc = "count"
    /\ LET a == IF run.cancelled THEN 0 ELSE Ahead(local, tracking)
           b == IF run.cancelled THEN 0 ELSE Behind(local, tracking)
       IN  Goto(IF b > 0 \/ run.forced THEN "rebase" ELSE "push",
                [run EXCEPT !.ahead = a, !.behind = b, !.retried = FALSE], {})
    /\ UNCHANGED <<git, ghost>>

\* rebase, first part: count, and rebase only if the upstream has moved.
CountStep ==
    /\ pc = "count" /\ ~run.cancelled
    /\ LET r == [run EXCEPT !.ahead = Ahead(local, tracking),
                            !.behind = Behind(local, tracking), !.retried = FALSE]
       IN  Goto(IF r.behind > 0 \/ r.forced THEN "rebase" ELSE "push", r, {})
    /\ UNCHANGED <<git, ghost>>

\* aheadBehind finds no tracking ref although the remote has other branches.
UpstreamGone ==
    /\ pc \in {"count", "recount"} /\ ~run.cancelled
    /\ tracking = <<>>
    /\ FailPreflight("upstream_gone")
    /\ UNCHANGED <<git, ghost>>

\* Mutant: after a forced update the branch is reset to the upstream.
ResetsToUpstream ==
    LET base == IF run.forced THEN Len(local)
                ELSE RebaseBase(local, tracking, reflog, FALSE)
    IN  /\ ConflictFiles(local, tracking, base) = {}
        /\ local' = Rebased(local, tracking, base)
        /\ Goto("recount",
                [run EXCEPT !.forced = FALSE, !.forkPoint = run.forced,
                            !.pulled = @ \/ run.behind > 0], {})
        /\ UNCHANGED <<wt, tracking, reflog, remote, mid, exposed, blocked, ghost>>

\* git rebase [--fork-point] <upstream>, run to its end, cancelled or not.
\* Untracked edits do not stand in its way, changes of tracked files do.
RebaseApplies ==
    LET base == RebaseBase(local, tracking, reflog, run.forced)
    IN  /\ ConflictFiles(local, tracking, base) = {}
        /\ local' = Rebased(local, tracking, base)
        /\ Goto("recount",
                [run EXCEPT !.forced = FALSE, !.forkPoint = run.forced,
                            !.pulled = @ \/ run.behind > 0], {})
        /\ UNCHANGED <<wt, tracking, reflog, remote, mid, exposed, blocked, ghost>>

RebaseConflicts ==
    LET files == ConflictFiles(local, tracking,
                               RebaseBase(local, tracking, reflog, run.forced))
    IN  /\ files # {}
        /\ mid' = TRUE
        /\ Goto("abort", [run EXCEPT !.files = files], {})
        /\ UNCHANGED <<wt, local, tracking, reflog, remote, exposed, blocked, ghost>>

\* The rebase timed out half-way: the conflict files are not read.
RebaseTimesOut ==
    /\ mid' = TRUE
    /\ Goto("abort", [run EXCEPT !.files = {}], {})
    /\ UNCHANGED <<wt, local, tracking, reflog, remote, exposed, blocked, ghost>>

\* errDirtyWorktree: commit what the user changed meanwhile, once.
RebaseRefusesDirty ==
    /\ wt # {}
    /\ IF run.retried THEN Fail("other")
       ELSE Goto("recommit", [run EXCEPT !.retried = TRUE], {})
    /\ UNCHANGED <<git, ghost>>

RebaseStep ==
    /\ pc = "rebase"
    /\ \/ RebaseApplies
       \/ RebaseConflicts
       \/ RebaseTimesOut
       \/ RebaseRefusesDirty
       \/ Fail("other") /\ UNCHANGED <<git, ghost>>

\* git rebase --abort resets the tracked files, and with them whatever the
\* user typed into them, or committed, since the rebase stopped.
AbortStep ==
    /\ pc = "abort"
    /\ \/ \E gone \in SUBSET exposed :
            /\ mid' = FALSE
            /\ exposed' = {}
            /\ wt' = wt \ gone
            /\ clobbered' = clobbered \cup gone
            /\ IF run.files = {} THEN Fail("other") ELSE Goto("record", run, {})
            /\ UNCHANGED <<local, tracking, reflog, remote, blocked,
                           used, removed, told, lost, moved, forces, stops>>
       \* the abort failed: "repo is mid-rebase"
       \/ Fail("other") /\ UNCHANGED <<git, ghost>>

\* handleConflict
HandleConflict(files, head, up) ==
    LET prev  == run.prev
        isNew == ~prev.conflict \/ prev.files # files \/ run.force
    IN  /\ Return(MarkConflict(SetConflictRefs(st, head, up), files, "conflict"),
                  IF isNew THEN {"conflict"} ELSE {})
        /\ told' = (IF isNew THEN files ELSE told)
        /\ lost' = (lost /\ ~isNew)
        /\ moved' = (up # tracking)
        /\ UNCHANGED <<used, removed, clobbered, forces, stops>>

\* The refs of the conflict are read after the abort.  A rev-parse that fails
\* leaves its ref empty; one of them is of no use without the other.
RecordStep ==
    /\ pc = "record"
    /\ \/ run.cancelled /\ Fail("other") /\ UNCHANGED ghost
       \/ /\ ~run.cancelled
          /\ \/ HandleConflict(run.files, local, tracking)
             \/ HandleConflict(run.files, <<>>, <<>>)
    /\ UNCHANGED git

\* rebase, last part: count again; fewer commits than before the forced
\* rebase are reported as dropped.
RecountStep ==
    /\ pc = "recount" /\ ~run.cancelled
    /\ LET a == Ahead(local, tracking)
       IN  Goto("push", [run EXCEPT !.ahead = a, !.behind = Behind(local, tracking),
                                    !.dropped = @ \/ (run.forkPoint /\ a < run.ahead)], {})
    /\ UNCHANGED <<git, ghost>>

\* push: a fast-forward of the remote, or up to PushAttempts rounds of fetch
\* and rebase.  A push that fails on the network may have reached the remote.
PushNothing == run.ahead = 0 /\ Succeed /\ UNCHANGED git

\* Mutant: the push does not insist on a fast-forward.
PushesByForce ==
    /\ run.ahead > 0 /\ ~run.cancelled
    /\ remote' = local /\ tracking' = local /\ reflog' = reflog \cup {local}
    /\ Succeed
    /\ UNCHANGED <<wt, local, mid, exposed, blocked>>

PushAccepted ==
    /\ run.ahead > 0 /\ ~run.cancelled
    /\ IsAncestor(remote, local)
    /\ remote' = local /\ tracking' = local /\ reflog' = reflog \cup {local}
    /\ Succeed
    /\ UNCHANGED <<wt, local, mid, exposed, blocked>>

\* Mutant: rejected pushes are not counted.
RetriesForever ==
    /\ run.ahead > 0 /\ ~run.cancelled
    /\ Goto("fetch", run, {})
    /\ UNCHANGED <<git, ghost>>

\* Not a fast-forward, or the remote could not lock the ref.
PushRejected ==
    /\ run.ahead > 0 /\ ~run.cancelled
    /\ IF run.attempt = PushAttempts THEN Fail("other")
       ELSE Goto("fetch", [run EXCEPT !.attempt = @ + 1], {})
    /\ UNCHANGED <<git, ghost>>

PushUnacknowledged ==
    /\ run.ahead > 0
    /\ IsAncestor(remote, local)
    /\ remote' = local
    /\ Fail("network")
    /\ UNCHANGED <<wt, local, tracking, reflog, mid, exposed, blocked, ghost>>

PushStep ==
    /\ pc = "push"
    /\ PushNothing \/ PushAccepted \/ PushRejected \/ PushUnacknowledged

\* A git command fails for a reason of its own (a hook, the author, a lock,
\* a timeout, authentication), or because the run is cancelled.
CommandFails ==
    /\ \/ pc \in {"prepare", "commit", "recommit", "localcommit", "fetch", "count", "recount"}
       \/ pc = "push" /\ run.ahead > 0
    /\ Fail("other")
    /\ UNCHANGED <<git, ghost>>

\* fetch or push cannot reach the remote.
NetworkFails ==
    /\ pc = "fetch" \/ (pc = "push" /\ run.ahead > 0)
    /\ Fail("network")
    /\ UNCHANGED <<git, ghost>>

EngineStep ==
    \/ Prepare \/ CommitStep \/ FetchStep \/ GuardStep \/ CountStep \/ UpstreamGone
    \/ RebaseStep \/ AbortStep \/ RecordStep \/ RecountStep \/ PushStep
    \/ CommandFails \/ NetworkFails

-----------------------------------------------------------------------------
(* The daemon around the engine. *)

\* The watcher is stopped or restarted while the run is on.
Cancel ==
    /\ pc # "idle" /\ ~run.cancelled /\ stops < MaxStops
    /\ run' = [run EXCEPT !.cancelled = TRUE]
    /\ stops' = stops + 1
    /\ emit' = {}
    /\ UNCHANGED <<git, st, disk, pc, used, removed, clobbered, told, lost, moved, forces>>

\* saveState, some time after a change.  Only a crash makes the file matter,
\* so nothing is saved once the last of them has happened.
SaveState ==
    /\ stops < MaxStops
    /\ disk # MarshalPersisted(st)
    /\ disk' = MarshalPersisted(st)
    /\ emit' = {}
    /\ UNCHANGED <<git, st, pc, run, ghost>>

\* The daemon dies between two commands and starts again from state.json.
Crash ==
    /\ stops < MaxStops
    /\ stops' = stops + 1
    /\ st' = LoadPersisted(disk)
    /\ lost' = (told # disk.files)
    /\ moved' = (disk.conflict /\ (moved \/ disk # MarshalPersisted(st)))
    /\ pc' = "idle" /\ run' = NoRun /\ emit' = {}
    /\ UNCHANGED <<git, disk, used, removed, clobbered, told, forces>>

-----------------------------------------------------------------------------
(* The user and the other machines. *)

daemon == <<st, disk, pc, run>>

UserEdits(e) ==
    /\ e \in LocalEdit \ used
    /\ used' = used \cup {e}
    /\ wt' = wt \cup {e}
    /\ exposed' = IF mid THEN exposed \cup {e} ELSE exposed
    /\ emit' = {}
    /\ UNCHANGED <<local, tracking, reflog, remote, mid, blocked, daemon,
                   removed, clobbered, told, lost, moved, forces, stops>>

\* A commit on a stopped rebase is not on the branch: until the rebase is
\* taken care of it is at stake like an edit made meanwhile.
UserCommits ==
    /\ wt # {}
    /\ \/ ~mid /\ CommitAll
       \/ /\ mid /\ exposed' = wt
          /\ UNCHANGED <<wt, local, tracking, reflog, remote, mid, blocked>>
    /\ emit' = {}
    /\ UNCHANGED <<daemon, ghost>>

\* git fetch, by hand or by an editor in the background
UserFetches ==
    /\ remote # <<>> /\ tracking # remote
    /\ tracking' = remote /\ reflog' = reflog \cup {remote}
    /\ emit' = {} /\ NotesMove
    /\ UNCHANGED <<wt, local, remote, mid, exposed, blocked, daemon,
                   used, removed, clobbered, told, lost, forces, stops>>

\* The user rebases onto the upstream and resolves the conflicts.
UserResolves ==
    /\ ~mid /\ wt = {} /\ local # <<>> /\ ~IsAncestor(tracking, local)
    /\ local' = Rebased(local, tracking, CommonLen(local, tracking))
    /\ emit' = {}
    /\ UNCHANGED <<wt, tracking, reflog, remote, mid, exposed, blocked, daemon, ghost>>

\* Between runs the user leaves a rebase stopped, or takes care of one.
UserTogglesRebase ==
    /\ pc = "idle" /\ local # <<>>
    /\ mid' = ~mid /\ exposed' = {}
    /\ emit' = {}
    /\ UNCHANGED <<wt, local, tracking, reflog, remote, blocked, daemon, ghost>>

UserTogglesBlock ==
    /\ pc = "idle"
    /\ blocked' = IF blocked = "" THEN "detached_head" ELSE ""
    /\ emit' = {}
    /\ UNCHANGED <<wt, local, tracking, reflog, remote, mid, exposed, daemon, ghost>>

OtherPushes(e) ==
    /\ e \in RemoteEdit \ used
    /\ used' = used \cup {e}
    /\ remote' = Append(remote, {e})
    /\ emit' = {}
    /\ UNCHANGED <<wt, local, tracking, reflog, mid, exposed, blocked, daemon,
                   removed, clobbered, told, lost, moved, forces, stops>>

\* Another machine rewinds the branch (n = 0: deletes it) by force.
OtherForces(n) ==
    /\ forces < MaxForcePush /\ n < Len(remote)
    /\ forces' = forces + 1
    /\ remote' = SubSeq(remote, 1, n)
    /\ removed' = removed \cup (Content(remote) \ Content(SubSeq(remote, 1, n)))
    /\ emit' = {}
    /\ UNCHANGED <<wt, local, tracking, reflog, mid, exposed, blocked, daemon,
                   used, clobbered, told, lost, moved, stops>>

UserStep ==
    \/ \E e \in LocalEdit : UserEdits(e)
    \/ UserCommits \/ UserFetches \/ UserResolves
    \/ UserTogglesRebase \/ UserTogglesBlock

OtherStep ==
    \/ \E e \in RemoteEdit : OtherPushes(e)
    \/ \E n \in 0..Len(remote) : OtherForces(n)

Next ==
    \/ \E force, localOnly \in BOOLEAN : Start(force, localOnly)
    \/ EngineStep
    \/ Cancel \/ SaveState \/ Crash
    \/ UserStep \/ OtherStep

\* Every git command ends (each has a timeout), and the poll timer starts a
\* full run again and again.
Fairness ==
    /\ WF_vars(EngineStep)
    /\ SF_vars(Start(FALSE, FALSE))

Spec == Init /\ [][Next]_vars
FairSpec == Spec /\ Fairness

-----------------------------------------------------------------------------
(* Properties. *)

\* MarkSyncing is always undone: a run that fails, is cancelled or is guarded
\* never leaves the repository shown as syncing with nothing running.
SyncingOnlyWhileRunning == pc = "idle" => st.status # "syncing"

\* The engine leaves a stopped rebase alone: while one is in progress it
\* neither commits, fetches, counts nor pushes, and only edits typed meanwhile
\* are at stake when it is aborted.
MidRebaseQuiet ==
    /\ mid => pc \in {"idle", "prepare", "abort"}
    /\ ~mid => exposed = {}
    /\ exposed \subseteq wt

\* The step in which a run reports success.
Succeeds ==
    /\ pc = "push" /\ pc' = "idle" /\ st'.status = "ok"
    /\ run.cancelled => run.ahead = 0

\* A run that reports success has brought everything that was in the
\* worktree or the branch when it began to the remote, whatever was pushed,
\* force-pushed, fetched or committed by others while it ran.
SuccessMeansSynced ==
    [][Succeeds => run.goal \subseteq Content(remote') \cup removed \cup clobbered]_vars

\* README: "you are told once".  A conflict event names files the user has
\* not just been told about, unless the user forced the retry.  A crash that
\* comes before the debounced save takes the record of having told them: it
\* costs one repetition and no more, since what is told next is told again
\* only after another such crash.
ConflictToldOnce ==
    [][("conflict" \in emit' /\ ~run.force /\ ~lost) => run.files # told]_vars

\* README: "The daemon does not retry the same conflict on every poll".  While
\* the upstream stays where it was when the conflict was recorded, no rebase
\* of the same local commit is started again to stop at a conflict, unless the
\* user forced it, a crash lost the record, or a git lookup failed: one of the
\* guard in this run, or the one that should have recorded the upstream.
ConflictNotRetried ==
    [][(pc = "rebase" /\ pc' = "abort" /\ run'.files # {}
        /\ st.conflict /\ ~moved /\ ~run.force /\ ~run.unsure)
        => local # st.head]_vars

\* No code path leaves the repository in the middle of a rebase without
\* telling the user: a stopped rebase (a failed abort, a crash before the
\* abort, the user's own) ends up as an error or a preflight refusal.
MidRebaseTold == mid ~> (~mid \/ st.status \in {"error", "preflight"})

\* Every run ends: the rounds of push, fetch and rebase are bounded.
RunEnds == pc # "idle" ~> pc = "idle"

-----------------------------------------------------------------------------
(* What the documents and tests say and the engine does not do. *)

\* Test_UpstreamForcePushedRewrite: what this machine has seen on the
\* upstream, and a force-push removed, is not pushed back by a run that has
\* fetched the rewritten upstream.
RemovedNotPushedBack ==
    [][(pc = "push" /\ remote' # remote /\ remote = run.fetched)
        => \A h \in reflog :
              removed \cap Content(h) \cap (Content(remote') \ Content(remote)) = {}]_vars

\* Anti-goal "losing ... uncommitted work".
NoUncommittedWorkLost == clobbered = {}
=============================================================================
