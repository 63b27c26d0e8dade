--------------------------- MODULE DaemonWatchers ---------------------------
(***************************************************************************)
(* The daemon's watchers (daemon/main.go) and the commands that start,     *)
(* stop, restart and pause them (daemon/commands.go), which clients send   *)
(* at the same time over the socket, together with the two other writers   *)
(* of the configuration: a reload on SIGHUP and the command line, which    *)
(* edits config.json by itself.                                            *)
(*                                                                         *)
(* A watcher is known by its number among those started for its            *)
(* repository; 0 stands for no watcher.  What one of them does while it    *)
(* watches is module Scheduler.  A step holds Daemon.mu for as long as the *)
(* code does: what happens between two acquisitions is a step apart.       *)
(***************************************************************************)
EXTENDS Naturals, FiniteSets

CONSTANTS
    Repos,
    Clients,        \* connections that send commands
    Plans,          \* what behaviours may have: see plan
    MaxHandles,     \* bound: watchers started for one repository
    MaxEdits        \* bound: changes of the environment in config.json

ASSUME PlansAssumption ==
    \A p \in Plans : p.clients \subseteq Clients /\ p.configured \subseteq Repos
                        /\ p.handles \in 0..MaxHandles
ASSUME ClientsAssumption == "main" \notin Clients /\ "cli" \notin Clients
ASSUME BoundAssumption == MaxHandles \in Nat /\ MaxEdits \in Nat

VARIABLES
    config,         \* config.json
    ctxDone,        \* Daemon.ctx is cancelled
    stopped,        \* how Stop returned: "no" while it has not
    envs,           \* Daemon.envs
    watchers,       \* Daemon.watchers
    stopping,       \* Daemon.stopping: the watcher whose done channel it holds
    made,           \* watchers started so far
    handle,         \* the watcherHandle and the goroutine of each
    epoch,          \* which mutex Daemon.syncLocks holds: one more per deletion
    forgets,        \* watchers a forgetWhenStopped waits for
    restarts,       \* repositories a restartWatcher is about to restart
    entry,          \* RepoStateStore
    cmd,            \* the command each actor is in the middle of
    plan,           \* chosen at the start: the commands and edits that are made,
                    \* the clients that make them, the watchers there can be,
                    \* the repositories in config.json when the daemon starts
    \* history
    since           \* the watcher with which each was last added

vars == <<config, ctxDone, stopped, envs, watchers, stopping, made, handle, epoch,
          forgets, restarts, entry, cmd, since>>

Commands == plan.commands

H == 1..MaxHandles
Actors == Clients \cup {"main", "cli"}
Config == [repos : SUBSET Repos, envs : 0..MaxEdits]

Handle == [phase : {"off", "queued", "starting", "watching", "syncing", "ended"},
           cancelled : BOOLEAN, paused : BOOLEAN, prev : 0..MaxHandles, lock : Nat]
NoHandle == [phase |-> "off", cancelled |-> FALSE, paused |-> FALSE, prev |-> 0, lock |-> 0]

Entry == [known : BOOLEAN, paused : BOOLEAN]
NoEntry == [known |-> FALSE, paused |-> FALSE]

Command == [pc : {"idle", "boot", "write", "check", "reconcile", "store", "abort",
                  "locking", "aborting", "edit"},
            repo : Repos \cup {"none"}, snap : Config, on : BOOLEAN,
            found : 0..MaxHandles, lock : Nat]
NoCommand == [pc |-> "idle", repo |-> "none", snap |-> [repos |-> {}, envs |-> 0],
              on |-> FALSE, found |-> 0, lock |-> 0]
Idle(a) == [cmd EXCEPT ![a] = NoCommand]

TypeOK ==
    /\ config \in Config
    /\ ctxDone \in BOOLEAN /\ stopped \in {"no", "clean", "timeout"}
    /\ envs \in 0..MaxEdits
    /\ watchers \in [Repos -> 0..MaxHandles] /\ stopping \in [Repos -> 0..MaxHandles]
    /\ made \in [Repos -> 0..MaxHandles]
    /\ handle \in [Repos -> [H -> Handle]]
    /\ epoch \in [Repos -> Nat]
    /\ forgets \in [Repos -> SUBSET H] /\ restarts \subseteq Repos
    /\ entry \in [Repos -> Entry]
    /\ cmd \in [Actors -> Command]
    /\ since \in [Repos -> 0..MaxHandles]

\* run has opened the socket and read the configuration, and not yet
\* started the watchers: commands may already arrive.
Init ==
    /\ plan \in Plans
    /\ config = [repos |-> plan.configured, envs |-> 0]
    /\ ctxDone = FALSE /\ stopped = "no" /\ envs = 0
    /\ watchers = [r \in Repos |-> 0] /\ stopping = [r \in Repos |-> 0]
    /\ made = [r \in Repos |-> 0]
    /\ handle = [r \in Repos |-> [h \in H |-> NoHandle]]
    /\ epoch = [r \in Repos |-> 0]
    /\ forgets = [r \in Repos |-> {}] /\ restarts = {}
    /\ entry = [r \in Repos |-> NoEntry]
    /\ cmd = [a \in Actors |-> IF a = "main"
                               THEN [NoCommand EXCEPT !.pc = "boot", !.snap = config]
                               ELSE NoCommand]
    /\ since = [r \in Repos |-> 0]

-----------------------------------------------------------------------------
(* RepoStateStore. *)

\* Ensure
Ensured(e) == [e EXCEPT !.known = TRUE]

\* Update, which creates the entry it does not find.
Updated(r) == [entry EXCEPT ![r] = Ensured(@)]

-----------------------------------------------------------------------------
(* Starting and stopping watchers, under Daemon.mu. *)

\* The handle startWatcherLocked makes: its goroutine waits for the watcher
\* that is being stopped, if there is one.
NewHandle(r, prev) ==
    [NoHandle EXCEPT !.phase = "queued", !.prev = prev,
                     !.paused = entry[r].known /\ entry[r].paused]

\* Mutant: a new watcher does not wait for the one before it.
StartAndStopWithoutWaiting(stop, start) ==
    /\ \A r \in start : made[r] < plan.handles
    /\ handle' = [r \in Repos |-> [h \in H |->
           IF r \in start /\ h = made[r] + 1
           THEN NewHandle(r, 0)
           ELSE IF r \in stop /\ h = watchers[r]
           THEN [handle[r][h] EXCEPT !.cancelled = TRUE]
           ELSE handle[r][h]]]
    /\ watchers' = [r \in Repos |-> IF r \in start THEN made[r] + 1
                                    ELSE IF r \in stop THEN 0 ELSE watchers[r]]
    /\ stopping' = [r \in Repos |-> IF r \in start THEN 0
                                    ELSE IF r \in stop THEN watchers[r] ELSE stopping[r]]
    /\ made' = [r \in Repos |-> IF r \in start THEN made[r] + 1 ELSE made[r]]
    /\ since' = [r \in Repos |-> IF r \in start \ stop THEN made[r] + 1 ELSE since[r]]

\* stopWatcherLocked for the repositories in stop, then startWatcherLocked
\* for the ones in start: a restart is in both.
StartAndStop(stop, start) ==
    /\ \A r \in start : made[r] < plan.handles
    /\ handle' = [r \in Repos |-> [h \in H |->
           IF r \in start /\ h = made[r] + 1
           THEN NewHandle(r, IF r \in stop THEN watchers[r] ELSE stopping[r])
           ELSE IF r \in stop /\ h = watchers[r]
           THEN [handle[r][h] EXCEPT !.cancelled = TRUE]
           ELSE handle[r][h]]]
    /\ watchers' = [r \in Repos |-> IF r \in start THEN made[r] + 1
                                    ELSE IF r \in stop THEN 0 ELSE watchers[r]]
    /\ stopping' = [r \in Repos |-> IF r \in start THEN 0
                                    ELSE IF r \in stop THEN watchers[r] ELSE stopping[r]]
    /\ made' = [r \in Repos |-> IF r \in start THEN made[r] + 1 ELSE made[r]]
    /\ since' = [r \in Repos |-> IF r \in start \ stop THEN made[r] + 1 ELSE since[r]]

Watched == {r \in Repos : watchers[r] # 0}

\* reconcileWatchers, from the moment it holds Daemon.mu.
ReconcileWatchers(c) ==
    LET gone == Watched \ c.repos
        restart == IF envs # c.envs THEN Watched \cap c.repos ELSE {}
        start == restart \cup (c.repos \ Watched)
    IN /\ StartAndStop(gone \cup restart, start)
       /\ forgets' = [r \in Repos |-> forgets[r] \cup (IF r \in gone THEN {watchers[r]} ELSE {})]
       /\ entry' = [r \in Repos |-> IF r \in gone THEN NoEntry
                                    ELSE IF r \in start THEN Ensured(entry[r]) ELSE entry[r]]
       /\ envs' = c.envs
       /\ UNCHANGED <<epoch, restarts>>

unchangedWatchers == <<envs, watchers, stopping, made, since, handle, epoch, forgets, restarts>>

-----------------------------------------------------------------------------
(* The main goroutine. *)

\* startWatchers, or no configuration to start from.
Boot ==
    /\ cmd["main"].pc = "boot"
    /\ \/ LET c == cmd["main"].snap
              start == c.repos \ Watched
          IN /\ StartAndStop({}, start)
             /\ entry' = [r \in Repos |-> IF r \in start THEN Ensured(entry[r]) ELSE entry[r]]
             /\ envs' = c.envs
             /\ UNCHANGED <<epoch, forgets, restarts>>
       \/ UNCHANGED <<unchangedWatchers, entry>>
    /\ cmd' = Idle("main")
    /\ UNCHANGED <<config, ctxDone, stopped>>

\* reloadConfig reads the file, without cfgMu.
ReloadConfig ==
    /\ "reload" \in Commands
    /\ cmd["main"].pc = "idle" /\ ~ctxDone
    /\ cmd' = [cmd EXCEPT !["main"].pc = "check", !["main"].snap = config]
    /\ UNCHANGED <<config, ctxDone, stopped, unchangedWatchers, entry>>

\* reconcileWatchers looks at the context before it takes Daemon.mu.
Check(a) ==
    /\ cmd[a].pc = "check"
    /\ cmd' = IF ctxDone THEN Idle(a) ELSE [cmd EXCEPT ![a].pc = "reconcile"]
    /\ UNCHANGED <<config, ctxDone, stopped, unchangedWatchers, entry>>

Reconcile(a) ==
    /\ cmd[a].pc = "reconcile"
    /\ ReconcileWatchers(cmd[a].snap)
    /\ cmd' = Idle(a)
    /\ UNCHANGED <<config, ctxDone, stopped>>

-----------------------------------------------------------------------------
(* The commands of the clients. *)

\* Mutant: the configuration is changed without the lock.
CfgMuIgnored == TRUE

CfgMuFree == \A c \in Clients : cmd[c].pc \notin {"write", "check", "reconcile"}

\* AddRepo and RemoveRepo up to the change they are about to write.
AddRepo(c, r) ==
    /\ "add" \in Commands
    /\ cmd[c].pc = "idle" /\ CfgMuFree
    /\ cmd' = [cmd EXCEPT ![c] =
          [@ EXCEPT !.pc = IF r \in config.repos THEN "check" ELSE "write", !.repo = r,
                    !.snap = [config EXCEPT !.repos = config.repos \cup {r}]]]
    /\ UNCHANGED <<config, ctxDone, stopped, unchangedWatchers, entry>>

RemoveRepo(c, r) ==
    /\ "remove" \in Commands
    /\ cmd[c].pc = "idle" /\ CfgMuFree
    /\ r \in config.repos
    /\ cmd' = [cmd EXCEPT ![c] =
          [@ EXCEPT !.pc = "write", !.repo = r, !.snap = [config EXCEPT !.repos = config.repos \ {r}]]]
    /\ UNCHANGED <<config, ctxDone, stopped, unchangedWatchers, entry>>

\* cfg.Write replaces the file; AddRepo then makes sure of the entry.
WriteConfig(c) ==
    /\ cmd[c].pc = "write"
    /\ config' = cmd[c].snap
    /\ entry' = IF cmd[c].repo \in cmd[c].snap.repos THEN Updated(cmd[c].repo) ELSE entry
    /\ cmd' = [cmd EXCEPT ![c].pc = "check"]
    /\ UNCHANGED <<ctxDone, stopped, unchangedWatchers>>

WriteConfigFails(c) ==
    /\ cmd[c].pc = "write"
    /\ cmd' = Idle(c)
    /\ UNCHANGED <<config, ctxDone, stopped, unchangedWatchers, entry>>

\* Mutant: the pause is kept in the watcher's handle only.
StorePausedNot(c) ==
    /\ cmd[c].pc = "store"
    /\ cmd' = Idle(c)
    /\ UNCHANGED <<config, ctxDone, stopped, unchangedWatchers, entry>>

\* SetPaused finds the handle and swaps its flag, then updates the entry.
SetPaused(c, r, on) ==
    /\ "pause" \in Commands
    /\ cmd[c].pc = "idle" /\ r \in Watched
    /\ handle' = [handle EXCEPT ![r][watchers[r]].paused = on]
    /\ cmd' = [cmd EXCEPT ![c] = [@ EXCEPT !.pc = "store", !.repo = r, !.on = on]]
    /\ UNCHANGED <<config, ctxDone, stopped, envs, watchers, stopping, made, since, epoch,
                   forgets, restarts, entry>>

StorePaused(c) ==
    /\ cmd[c].pc = "store"
    /\ entry' = [entry EXCEPT ![cmd[c].repo] = [known |-> TRUE, paused |-> cmd[c].on]]
    /\ cmd' = Idle(c)
    /\ UNCHANGED <<config, ctxDone, stopped, unchangedWatchers>>

\* set_settings: the reply is sent and the restart is a goroutine of its own.
SetSettings(c, r) ==
    /\ "settings" \in Commands
    /\ cmd[c].pc = "idle" /\ r \in Watched
    /\ restarts' = restarts \cup {r}
    /\ UNCHANGED <<config, ctxDone, stopped, envs, watchers, stopping, made, since, handle,
                   epoch, forgets, entry, cmd>>

RestartWatcher(r) ==
    /\ r \in restarts
    /\ restarts' = restarts \ {r}
    /\ IF ctxDone \/ r \notin Watched
       THEN UNCHANGED <<watchers, stopping, made, since, handle, entry>>
       ELSE StartAndStop({r}, {r}) /\ entry' = Updated(r)
    /\ UNCHANGED <<config, ctxDone, stopped, envs, epoch, forgets, cmd>>

\* Whether the mutex a watcher or an AbortRebase was given is free.
LockFree(r, e) ==
    /\ \A h \in H : ~(handle[r][h].phase = "syncing" /\ handle[r][h].lock = e)
    /\ \A c \in Clients : ~(cmd[c].pc = "aborting" /\ cmd[c].repo = r /\ cmd[c].lock = e)

\* AbortRebase: the handle is found, the repository's settings are read, the
\* mutex is looked up, locked, and held while git runs.
AbortRebase(c, r) ==
    /\ "abort" \in Commands
    /\ cmd[c].pc = "idle" /\ r \in Watched
    /\ cmd' = [cmd EXCEPT ![c] = [@ EXCEPT !.pc = "abort", !.repo = r, !.found = watchers[r]]]
    /\ UNCHANGED <<config, ctxDone, stopped, unchangedWatchers, entry>>

AbortFindsLock(c) ==
    /\ cmd[c].pc = "abort"
    /\ cmd' = [cmd EXCEPT ![c] = [@ EXCEPT !.pc = "locking", !.lock = epoch[cmd[c].repo]]]
    /\ UNCHANGED <<config, ctxDone, stopped, unchangedWatchers, entry>>

AbortBegins(c) ==
    /\ cmd[c].pc = "locking" /\ LockFree(cmd[c].repo, cmd[c].lock)
    /\ cmd' = [cmd EXCEPT ![c].pc = "aborting"]
    /\ UNCHANGED <<config, ctxDone, stopped, unchangedWatchers, entry>>

\* No rebase was in progress, or it was aborted and the entry says what
\* preflight made of the repository.
AbortEnds(c) ==
    /\ cmd[c].pc = "aborting"
    /\ entry' \in {entry, Updated(cmd[c].repo)}
    /\ cmd' = Idle(c)
    /\ UNCHANGED <<config, ctxDone, stopped, unchangedWatchers>>

-----------------------------------------------------------------------------
(* The command line reads, changes and writes config.json by itself:       *)
(* daemon env, and daemon add and rm when no daemon answers.               *)

EditReads ==
    /\ "edit" \in Commands
    /\ cmd["cli"].pc = "idle"
    /\ cmd' = [cmd EXCEPT !["cli"].pc = "edit", !["cli"].snap = config]
    /\ UNCHANGED <<config, ctxDone, stopped, unchangedWatchers, entry>>

EditWrites ==
    /\ cmd["cli"].pc = "edit"
    /\ LET c == cmd["cli"].snap
       IN \/ c.envs < MaxEdits /\ config' = [c EXCEPT !.envs = @ + 1]
          \/ \E r \in Repos \ c.repos : config' = [c EXCEPT !.repos = @ \cup {r}]
          \/ \E r \in c.repos : config' = [c EXCEPT !.repos = @ \ {r}]
    /\ cmd' = Idle("cli")
    /\ UNCHANGED <<ctxDone, stopped, unchangedWatchers, entry>>

-----------------------------------------------------------------------------
(* The goroutine of a watcher. *)

Cancelled(r, h) == ctxDone \/ handle[r][h].cancelled

\* The watcher is not the only thing that moves, but all it changes.
Moves(r, h, to) ==
    /\ handle' = [handle EXCEPT ![r][h].phase = to]
    /\ UNCHANGED <<config, ctxDone, stopped, envs, watchers, stopping, made, since, epoch,
                   forgets, restarts, cmd>>

PrevDone(r, h) == handle[r][h].prev # 0 => handle[r][handle[r][h].prev].phase = "ended"

\* Mutant: a watcher stopped before its turn came never closes its done
\* channel.
BeginLeavesDoneOpen(r, h) ==
    /\ handle[r][h].phase = "queued" /\ PrevDone(r, h) /\ ~Cancelled(r, h)
    /\ Moves(r, h, "starting")
    /\ UNCHANGED entry

\* The watcher before has ended: start, or give up if already stopped.
Begin(r, h) ==
    /\ handle[r][h].phase = "queued" /\ PrevDone(r, h)
    /\ Moves(r, h, IF Cancelled(r, h) THEN "ended" ELSE "starting")
    /\ UNCHANGED entry

\* runWatcher up to WatchForChangesWith: the folder may be missing for a
\* while, which is noted in the entry, and so are branch and settings.
Open(r, h) ==
    /\ handle[r][h].phase = "starting"
    /\ handle' = [handle EXCEPT ![r][h].phase = "watching", ![r][h].lock = epoch[r]]
    /\ entry' = Updated(r)
    /\ UNCHANGED <<config, ctxDone, stopped, envs, watchers, stopping, made, since, epoch,
                   forgets, restarts, cmd>>

\* WaitForRepoDir found no folder.
FindsNoFolder(r, h) ==
    /\ handle[r][h].phase \in {"starting", "watching"}
    /\ entry' = Updated(r)
    /\ UNCHANGED <<config, ctxDone, stopped, unchangedWatchers, cmd>>

\* The repository's settings cannot be loaded: the context is looked at
\* before the error is noted.
OpenFails(r, h) ==
    /\ handle[r][h].phase = "starting"
    /\ entry' \in {Updated(r)} \cup (IF Cancelled(r, h) THEN {entry} ELSE {})
    /\ Moves(r, h, "ended")

\* Cancelled between runs: a pending batch is taken off the entry, which
\* makes one; SetWatching leaves a missing entry missing.
Exit(r, h) ==
    /\ handle[r][h].phase \in {"starting", "watching"} /\ Cancelled(r, h)
    /\ Moves(r, h, "ended")
    /\ entry' \in {entry} \cup (IF handle[r][h].phase = "watching" THEN {Updated(r)} ELSE {})

\* A run starts with the mutex held, and notes it in the entry.
SyncBegins(r, h) ==
    /\ handle[r][h].phase = "watching" /\ ~handle[r][h].paused /\ ~Cancelled(r, h)
    /\ LockFree(r, handle[r][h].lock)
    /\ Moves(r, h, "syncing")
    /\ entry' = Updated(r)

\* It notes its outcome, or puts back what it found if it was cancelled.
SyncEnds(r, h) ==
    /\ handle[r][h].phase = "syncing"
    /\ Moves(r, h, "watching")
    /\ entry' = Updated(r)

\* The goroutine stopWatcherLocked leaves behind.
ClearStopping(r) ==
    /\ stopping[r] # 0 /\ handle[r][stopping[r]].phase = "ended"
    /\ stopping' = [stopping EXCEPT ![r] = 0]
    /\ UNCHANGED <<config, ctxDone, stopped, envs, watchers, made, since, handle, epoch,
                   forgets, restarts, entry, cmd>>

\* Mutant: the repository is forgotten although it was added again.
ForgetEvenIfBack(r, h) ==
    /\ h \in forgets[r] /\ handle[r][h].phase = "ended"
    /\ forgets' = [forgets EXCEPT ![r] = @ \ {h}]
    /\ entry' = [entry EXCEPT ![r] = NoEntry]
    /\ epoch' = [epoch EXCEPT ![r] = @ + 1]
    /\ UNCHANGED <<config, ctxDone, stopped, envs, watchers, stopping, made, since, handle,
                   restarts, cmd>>

\* Mutant: the mutex is deleted before it is seen that the repository is back.
ForgetsLockFirst(r, h) ==
    /\ h \in forgets[r] /\ handle[r][h].phase = "ended"
    /\ forgets' = [forgets EXCEPT ![r] = @ \ {h}]
    /\ entry' = IF watchers[r] # 0 THEN entry ELSE [entry EXCEPT ![r] = NoEntry]
    /\ epoch' = [epoch EXCEPT ![r] = @ + 1]
    /\ UNCHANGED <<config, ctxDone, stopped, envs, watchers, stopping, made, since, handle,
                   restarts, cmd>>

\* forgetWhenStopped
ForgetWhenStopped(r, h) ==
    /\ h \in forgets[r] /\ handle[r][h].phase = "ended"
    /\ forgets' = [forgets EXCEPT ![r] = @ \ {h}]
    /\ IF watchers[r] # 0 THEN UNCHANGED <<entry, epoch>>
       ELSE /\ entry' = [entry EXCEPT ![r] = NoEntry]
            /\ epoch' = [epoch EXCEPT ![r] = @ + 1]
    /\ UNCHANGED <<config, ctxDone, stopped, envs, watchers, stopping, made, since, handle,
                   restarts, cmd>>

-----------------------------------------------------------------------------
(* Stop. *)

Stop ==
    /\ "stop" \in Commands /\ ~ctxDone
    /\ ctxDone' = TRUE
    /\ UNCHANGED <<config, stopped, unchangedWatchers, entry, cmd>>

\* The wait group is empty, or stopTimeout is over.
StopReturns ==
    /\ ctxDone /\ stopped = "no"
    /\ \/ /\ \A r \in Repos, h \in H : handle[r][h].phase \in {"off", "ended"}
          /\ stopped' = "clean"
       \/ /\ \E r \in Repos, h \in H : handle[r][h].phase \notin {"off", "ended"}
          /\ stopped' = "timeout"
    /\ UNCHANGED <<config, ctxDone, unchangedWatchers, entry, cmd>>

-----------------------------------------------------------------------------
Watcher(r, h) ==
    \/ Begin(r, h) \/ Open(r, h) \/ FindsNoFolder(r, h) \/ OpenFails(r, h)
    \/ Exit(r, h) \/ SyncBegins(r, h) \/ SyncEnds(r, h)
    \/ ForgetWhenStopped(r, h)

Client(c) ==
    \/ WriteConfig(c) \/ WriteConfigFails(c) \/ Check(c) \/ Reconcile(c)
    \/ StorePaused(c) \/ AbortFindsLock(c) \/ AbortBegins(c) \/ AbortEnds(c)
    \/ \E r \in Repos :
         \/ AddRepo(c, r) \/ RemoveRepo(c, r) \/ SetSettings(c, r) \/ AbortRebase(c, r)
         \/ \E on \in BOOLEAN : SetPaused(c, r, on)

Next ==
    \/ Boot \/ ReloadConfig \/ Check("main") \/ Reconcile("main")
    \/ EditReads \/ EditWrites
    \/ Stop \/ StopReturns
    \/ \E c \in plan.clients : Client(c)
    \/ \E r \in Repos : RestartWatcher(r) \/ ClearStopping(r)
    \/ \E r \in Repos, h \in H : Watcher(r, h)

Spec == Init /\ [][Next /\ UNCHANGED plan]_<<vars, plan>>

\* Goroutines are scheduled: a watcher whose turn has come moves on, a run
\* ends (git commands have timeouts), a stopped watcher leaves its select,
\* and what waits for its end goes on.
Fairness ==
    /\ \A r \in Repos, h \in H :
         /\ WF_vars(Begin(r, h)) /\ WF_vars(Open(r, h) \/ OpenFails(r, h))
         /\ WF_vars(Exit(r, h)) /\ WF_vars(SyncEnds(r, h))
         /\ WF_vars(ForgetWhenStopped(r, h))
    /\ \A c \in Clients : WF_vars(Check(c)) /\ WF_vars(Reconcile(c))

LiveSpec == Spec /\ Fairness

-----------------------------------------------------------------------------
(* Properties. *)

Active == {"starting", "watching", "syncing"}

\* A repository never has two watchers at work, however removals, additions
\* and restarts (stopWatcherLocked, startWatcherLocked) interleave with the
\* end of earlier watchers.
NeverTwoWatchers ==
    \A r \in Repos, g, h \in H :
        handle[r][g].phase \in Active /\ handle[r][h].phase \in Active => g = h

\* The watchers take turns in the order they were started.
Owner == [r \in Repos |-> IF \E h \in H : handle[r][h].phase \in Active
                          THEN CHOOSE h \in H : handle[r][h].phase \in Active
                          ELSE 0]
Had == [r \in Repos |-> {h \in H : handle[r][h].phase \notin {"off", "queued"}}]

Turns == INSTANCE WatcherTurns WITH owner <- Owner, had <- Had

\* startWatcherLocked and the goroutine it starts implement the taking of
\* turns that module WatcherTurns describes.
TakesTurns == Turns!Spec

\* The end of an old watcher does not forget a repository that was added
\* again in the meantime (forgetWhenStopped): what is watched has an entry.
WatchedIsKnown == \A r \in Watched : entry[r].known

\* Once Stop has returned without running into its timeout no watcher is at
\* work, not even one that a command started while the daemon was stopping.
StoppedMeansQuiet ==
    stopped = "clean" => \A r \in Repos, h \in H : handle[r][h].phase \notin Active

CommandOn(r) == \E c \in Clients : cmd[c].pc # "idle" /\ cmd[c].repo = r

\* A repository that was removed is forgotten: no update a stopping watcher
\* makes (RepoStateStore.Update creates entries) outlives forgetWhenStopped.
\* A pause or an abort that found the watcher before the removal may bring the
\* entry back afterwards.
RemovedIsForgotten ==
    Commands \cap {"pause", "abort"} = {} =>
        \A r \in Repos : ~ctxDone /\ r \notin Watched /\ entry[r].known
                            => forgets[r] # {} \/ CommandOn(r)

\* The flag the watcher obeys is the one the state shows (and saves), except
\* while a SetPaused is between the two.  A restart that comes just then makes
\* the new watcher from the old value, and it stays with it; and the two
\* halves of pauses by two clients may cross.
PauseAgrees ==
    Commands \cap {"settings", "reload"} = {} /\ (\A c, d \in plan.clients : c = d) =>
        \A r \in Watched : ~CommandOn(r) => handle[r][watchers[r]].paused = entry[r].paused

\* As long as a repository stays on record git works for the daemon on one
\* thing at a time in it: no run of a watcher that was started, and no
\* AbortRebase that found one, since it was last added meet, whatever restarts
\* it and however late the removals before that are carried through: the mutex
\* forgetWhenStopped deletes is never that of a repository that is back.  A
\* command or a run that a removal overtook holds a mutex nobody shares.
GitSerialized ==
    \A r \in Watched, h \in H, c \in Clients :
        h >= since[r] /\ cmd[c].found >= since[r]
        => ~(handle[r][h].phase = "syncing" /\ cmd[c].pc = "aborting" /\ cmd[c].repo = r)

\* When nothing is under way, the repositories that are watched are the
\* ones in config.json.  A reload reads the file without cfgMu, and the
\* command line writes it: either may cross a command, and so may the start of
\* the daemon, which also goes on when it cannot read the file.
ConfigFollowed ==
    plan.configured = {} /\ Commands \cap {"reload", "edit"} = {} /\ ~ctxDone
        /\ (\A a \in Actors : cmd[a].pc = "idle") => Watched = config.repos

\* The watcher that is on record takes over however many earlier ones have
\* to end first, and none of them waits for another for ever.
NewestTakesOver ==
    \A r \in Repos, h \in H :
        watchers[r] = h /\ handle[r][h].phase = "queued" ~> handle[r][h].phase # "queued"

\* Every removal is carried through: the wait for the old watcher ends and
\* the repository is forgotten, or it is watched again.
RemovalCompletes == \A r \in Repos : r \notin Watched /\ forgets[r] # {}
                                        ~> forgets[r] = {} \/ r \in Watched

\* However commands interleave with the end of earlier watchers: one watcher
\* at most is at work, what is watched has an entry and what was removed has
\* none, and nothing works after a clean Stop (startWatcherLocked,
\* stopWatcherLocked, forgetWhenStopped, Stop).
WatchersInv ==
    /\ TypeOK
    /\ NeverTwoWatchers
    /\ WatchedIsKnown
    /\ RemovedIsForgotten
    /\ StoppedMeansQuiet

\* No watcher and no removal waits for ever: the watcher on record gets its
\* turn (startWatcherLocked), and the end of a removed one is waited for with
\* success (forgetWhenStopped).
TurnsCome == NewestTakesOver /\ RemovalCompletes
=============================================================================
