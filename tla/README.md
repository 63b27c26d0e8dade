# git-auto-sync: formal verification

TLA+ models of git-auto-sync, the daemon that commits, fetches, rebases and
pushes a set of git repositories on its own.  TLC checks small instances of the
modules; TLAPS proves the central safety results for every value of the
constants.  `PROJECT.json` holds the table of runs, the mutants that show the
properties can fail, the map from definitions to source lines, the hazards and
the findings.

## The system

| Component | State | Operations | Interacts with | Hard because of | Correct when |
|---|---|---|---|---|---|
| Sync engine (`common/autosync.go`, `commit.go`, `fetch.go`, `rebase.go`, `push.go`, `preflight.go`) | one `syncRun` per run | preflight, commit, fetch, conflict guard, count, rebase or abort, push with retries | git, the state store, the event log | the user, other machines, cancellation and crashes act between any two git commands | no work is lost, success means synced, a conflict is told once, a half-done rebase is never hidden |
| Repository state (`common/repostate.go`) | one `RepoState` per path | `Mark*`, `Set*`, `Update`, `Get` | everybody | many writers, partial updates | the status shown is what happens |
| Persistence (`common/repostate_persist.go`, `daemon/state.go`) | `state.json` | debounced save, restore | state store | crash before the save | a restart neither repeats a notification nor keeps a stale one |
| Scheduler (`common/watch.go`, `repomissing.go`) | timers, backoffs, channels of one repository | a select loop, debounce, batch window, retry, missing folder | file watcher, engine, daemon commands | a race of five timers and three channels with pauses, stops and a folder that vanishes | a seen edit is committed, offline is retried, a backoff is respected |
| Daemon (`daemon/main.go`, `commands.go`, `netwatch.go`) | `watchers`, `stopping`, `syncLocks` | add, remove, restart, pause, abort rebase, reload, stop | schedulers, socket, configuration | old and new watcher of one repository overlap | one run at a time per repository, removed means forgotten |
| Socket server (`common/socket.go`, `daemon/socket.go`) | connections, subscribers, their queues | accept, subscribe, emit, broadcast, close | event log, app, CLI | slow clients, start-up races | a subscriber sees every event after its hello, or is disconnected |
| Event log (`common/events.go`) | ring of 1000, file | append, since, load, compaction | socket server | torn writes, failed compaction | ids increase, a restart resumes them |
| Start-up (`daemon/socket.go`, `NewSocketServer`) | the socket path | dial, wait, remove, listen | other daemons | system calls of two processes interleave, each may fail | one daemon works, and it answers |
| Configuration (`common/config`, `common/repoconfig.go`) | `config.json`, git config | read, write, clamp | CLI, daemon | unlocked read-modify-write, overflow | what is configured is watched, settings are in range |
| Ignore rules (`common/ignore.go`) | cache of git's answers | look up, ask git, store | file watcher | rules change while git is asked | no wrong answer lasts |
| Log (`common/logging.go`) and `logs -f` (`daemon.go`) | the file and its backups | write, rotate, follow | each other | kills and rotations between two system calls | lines are kept in order, every line is printed |
| `events --follow` (`daemon.go`) | the last event printed | ask, subscribe, ask for the gap | event log, socket | events between the steps | each event is printed once, in order |
| Menu bar app (`macos/`) | connection, repositories, events, a copy on disk | reconnect, refresh, backfill, notify, save | socket | reconnects, late answers, kills | it shows what the daemon said last, tells a problem once, has no gaps and no duplicates |

The other commands of the CLI, doctor, service installation, wake-up notifiers
and the app's views are sequential glue or layout.

## Modules

| Module | What it is |
|---|---|
| `GitHistory` | what the engine asks of git: histories, ancestry, merge base, fork point, rebase, conflicts |
| `SyncContract` | abstract specification of what may happen to the user's work |
| `AutoSync` | the engine for one repository, its state entry, `state.json`, and the world around it |
| `Scheduler` | the watcher of one repository |
| `DaemonWatchers` | the daemon's watchers and the commands, reloads and edits that start and stop them |
| `WatcherTurns` | abstract specification: the watchers of a repository take turns, in order |
| `RepoSettings` | the settings of a repository: writing, validation, parsing |
| `EventLog` | the ring of events and its file |
| `SocketServer` | connections, queues, subscribers, emitting and announcing |
| `EventFeed` | abstract specification of a subscription: every event from the hello on, until it ends |
| `EventFollower` | `events --follow` over `EventLog` |
| `SingleInstance` | daemons that start, stop and die around one socket path |
| `IgnoreCache` | the cache in front of `git check-ignore` |
| `LogFiles` | rotation of the log, and `logs -f` |
| `AppRepos` | what the menu bar app shows of the repositories, and its notifications |
| `AppEvents` | the app's timeline: live events, backfill, copy on disk |
| `MC*` | instances for TLC: sets and requests that a configuration cannot write down |
| `AutoSyncProofs` | proofs about `GitHistory`, `SyncContract` and the engine |
| `SchedulerProofs`, `DaemonWatchersProofs` | proofs about the watcher of a repository and about the daemon's watchers |
| `SocketProofs` | proofs about `SingleInstance`, `SocketServer` and its refinement of `EventFeed` |
| `EventLogProofs` | proofs about `EventLog` and `EventFollower` |
| `HousekeepingProofs` | proofs about `RepoSettings`, `IgnoreCache` and `LogFiles` |
| `AppProofs` | proofs about `AppRepos` and `AppEvents` |
| `Iteration` | induction on natural numbers, and functions defined by it |

**GitHistory.** A commit is the set of edits it records and a history is the
sequence of its commits.  A commit id covers its parents, so the id of a commit
is the history up to it and ancestry is the prefix order.  Each edit changes
one file; a rebase conflicts when a replayed commit touches a file that the
upstream changed since the base.  Two users never make the same edit, so git's
dropping of patches the upstream already has does not occur.

**SyncContract.** Eight kinds of step: edit, commit, fetch, replay, push,
overwrite (by an aborted rebase), push and force-push by others.  A replay may
leave out a commit only if a tip that the upstream has or had holds its
content, and a push moves the remote forward only.

**AutoSync.** `pc` is the git command that `AutoSyncCtx` runs next and `run` is
`syncRun`.  Each action is one command with everything the code does up to the
next one:

| Code | Actions |
|---|---|
| `AutoSyncCtx` | `Start`, `Begin`, `Return`, `Fail`, `FailPreflight`, `Succeed` |
| `prepare`, `preflight` | `Prepare`, `Refusal` |
| `commit` | `CommitStep` (in a run, after a dirty worktree, and alone in a local-only run) |
| `fetch` | `FetchStep` |
| `conflictUnchanged`, `stayInConflict` | `GuardStep`, with lookups that fail by themselves or by a cancellation |
| `rebase`, `aheadBehind`, `handleConflict` | `CountStep`, `UpstreamGone`, `RebaseStep`, `AbortStep`, `RecordStep`, `RecountStep` |
| `push` | `PushStep` |
| an error or a timeout of any command | `CommandFails`, `NetworkFails` |
| the watcher's context | `Cancel` |
| `saveState`, a crash and `ensureRestored` | `SaveState`, `Crash` |

`run.goal`, `run.fetched`, `run.unsure`, `told`, `lost`, `moved`, `used`,
`removed` and `clobbered` are history variables: only properties read them. What
the user was told stays told through a crash; `lost` says that the record of it
did not reach the disk.  The rebase ignores cancellation, as in the code
(`context.WithoutCancel`).  The messages of errors are reduced to their class.
The user edits, commits, fetches and resolves at any time, also on a rebase that
the engine is about to abort, where a commit is at stake like an edit; stopping
a rebase or detaching HEAD by hand happens between runs.

**Scheduler.** Timers count down by ticks and stay at 0 until the loop receives
from them.  `Fire` and `FireLocal` are `fire` and `fireLocal` up to the lock,
`Acquire`, `SyncCommits`, `SyncFailsEarly` and `SyncEnds` the run as the
scheduler sees it, and the `Settle` actions the rest of `execute`, `fire` and
`fireLocal`.  `SyncNow` and `Kick` are the two halves of the command: another run
may start between them.  The poll and existence tickers may fire at any time.
`FileEvent` hands an event on or skips it, as the code does when git cannot be
asked about the path or answers by rules that have changed; the history variable
`owed` says that one was handed on and no commit has come of it or failed since.
`SetPaused` is one step here; its two halves are apart in `DaemonWatchers`.

**DaemonWatchers.** A step holds `Daemon.mu` as long as the code does; where a
command lets it go and takes it again (AddRepo between the write of
`config.json` and `reconcileWatchers`, SetPaused between handle and state,
AbortRebase between finding and taking the lock) there are two steps.
`handle[r][h]` is the h-th watcher started for r: its `watcherHandle` and the
phase of its goroutine (`Begin` waits for the previous one, `Open` is
`runWatcher`, `SyncBegins` and `SyncEnds` stand for all of `Scheduler`).  Since
`WatchForChangesWith` returns no error once it watches, a watcher ends by
cancellation or because it cannot open the repository.  `epoch` tells apart the
mutexes that `syncLocks` has held for one path, and the history variable `since`
the watchers since a repository was last added from the ones before.  The write
of `config.json` and the `Ensure` that follows it in AddRepo are one step: no
other step depends on the state that is not there yet in between.  `EditReads`
and `EditWrites` are the CLI's own read and write of `config.json`.

**RepoSettings.** `WriteRepoSettings` validates a request and `WriteKey` is one
`git config` of it.  `Duration` multiplies with wrap-around at the width
`Wide`, as `time.Duration(secs)*time.Second` does.

**EventLog.** The ring is `buf`, `start` and `count` as in the code, a file is a
sequence of lines, of which some are torn.  Writes fail or are cut short,
rewrites fail before or after the old file is closed, the process is killed in
the middle of a write; `NewEventLog` is the next start.  The loops of `load` and
`Since` are recursive functions of the line or the place they have come to.

**SocketServer, EventFeed.** Per connection a reader (`Handle`, `Subscribe`,
`ReadFails`, `Unregister`, `Finish`) and a writer (`WriteLoop`, `WriteFails`,
`WriteEnds`); `Emit` and `Subscribe` hold the server's lock, `Update` and
`BroadcastState` are apart, since the state store announces a change after it
has released its own lock.  `ImplementsFeed` maps what a client was sent and
what is still queued for it to `EventFeed`.

**EventFollower** composes the client with `EventLog`: `AskEvents` and `AskLast`
are the two reads of one answer.  A daemon that closes its log answers no more.

`WriteLoop` takes a frame and writes it in one step: the frame is on its way
from the moment it is taken, and `WriteFails` is the step that does not write it.

**SingleInstance.** One action per system call of `NewSocketServer` and `Close`,
each of which may fail: a path too long, a directory that cannot be made, a file
at the path that is no socket, a dial that times out, a removal, a `listen` or a
`chmod` refused (`SocketFails`, `Lstat`, `DialFails`, `Chmod`).  A daemon then
works without a socket (`WithoutSocket`, state "deaf").  A killed daemon leaves
its path behind, a stopping one answers until it closes.

**IgnoreCache.** `ShouldIgnoreFile`, `LookUp`, `CheckIgnore` and `Store` are the
stages of one question; the rules may change between any two of them, with an
event of the `.gitignore` or without.

**LogFiles.** `Shift`, `MoveAway` and `Reopen` are the renames of `rotate`; the
follower reads, looks (`Stat`) and reads on.  A line is a number and a length;
where it starts in its file is the sum of the lengths before it (`Start`), and
the follower remembers such a place.

**AppRepos.** A condition is a status with its code; `ProblemKey`,
`IsTransient` and `IsSameProblem` are the app's functions on it, and
`TrackTransition` decides about a notification.  `Becomes` counts the problems of
a repository as a reader of its states would: a status in between or the same
problem reported without its code does not begin a new one.  One life of the
app is modelled.  The daemon adds (`Adds`) and removes (`Removes`) repositories
for the app (`AddRepo`, `RemoveRepo`), or for the command line, a reload or a
command of the app whose answer is lost (`AddedUnheard`, `RemovedUnheard`).
`Ensure` and `Remove` send nothing.  A removed repository has watchers that are
`ending`: they still update its state, which makes it anew and is sent, until
`Forgotten` removes it.  The history variable `unsaid` holds the repositories
that came or went without a word to the subscriber since.

**AppEvents.** A step is what `AppState` does between two awaits on the main
actor.  `Merged` puts each fresh event of a batch in its place, which for a
timeline in order is what appending and sorting give.  `Flush`, `Write` and
`Record` are the delayed save of `EventStore`, in
which events and the last identifier are stored one after the other; `Quit`
writes at once, `Kill` does not.  A detached write that lands after the one at
exit leaves the copy on disk as the fault "slow" leaves it.

**Plans.** The modules of the daemon, the socket, the files and the app have a
variable `plan` (`settingsPlan`, `logPlan`, `reposPlan`, `eventsPlan`; `overlap` in
`SingleInstance`) that is chosen in the initial state and never changes: which
commands, faults and actors the behaviour has, and its bounds.  One run then
explores several mixes, and a property that the code keeps only in some of them
says so in its own words (`~overlap => ...`, `Faults \subseteq {"kill"} => ...`).
`MCSocket`, `MCHousekeeping` and `MCApp` put modules side by side that share no
variable; `part` names the one that moves in a behaviour, since their
interleavings would show nothing new.

## Runs

| Run | Shows | Bounds |
|---|---|---|
| `races` | `WorkSpec`, `SuccessMeansSynced`, `ConflictNotRetried` | two local edits, one remote edit, two files, one force-push, two push attempts |
| `stops` | the type invariant, `NoCommittedWorkLost`, `SuccessMeansSynced`, `ConflictToldOnce`, `SyncingOnlyWhileRunning`, `MidRebaseQuiet` | one edit on each side, one force-push, two cancellations or crashes, an empty or a one-commit repository |
| `engine_live` | `RunEnds`, `MidRebaseTold` | one edit on each side, one cancellation or crash |
| `scheduler` | `EditScheduled`, `OfflineRetried`, `HoldHonoured`, types | debounce 1, cooldown 1, error backoff 1 to 2, offline backoff 2 to 3, one queued event |
| `scheduler_live` | `EditCommitted`, `ForceHonoured` | batch window 1, error backoff 1, offline backoff 2 (an edit is committed while the backoff runs); events skipped, rebases aborted by command |
| `watchers` | `WatchersInv` (types, `NeverTwoWatchers`, `WatchedIsKnown`, `RemovedIsForgotten`, `StoppedMeansQuiet`), `PauseAgrees`, `GitSerialized`, `ConfigFollowed`; `TakesTurns` (refinement), `TurnsCome` (`NewestTakesOver`, `RemovalCompletes`) | one repository; six mixes of add, remove, settings, pause, abort, reload, edit and stop by one or two clients; two or three watchers |
| `socket` | `ServerInv` (types, `NoSendAfterFinish`, `NoDeafSubscriber`, `OneResponsePerRequest`, `StatesUpToDate`, `ClosedIsClosed`); `ImplementsFeed` (refinement), `ConnectionsProgress` (`EveryEventHeard`, `HangUpCompletes`).  `InstanceInv` (types, `OneDaemon`, `AtWorkAnswers`), `StartDecides` | a queue of 2; one connection with two requests of any kind, one with two events and updates, or two subscribers.  Three daemons, one after the other or at the same time, with every failure of a start; two dials |
| `events` | `LogInv` (types, `RingInOrder`, `FileBounded`), `SinceIsExact`, `RemembersEvents`; `FollowsExactly` (`PrintedInOrder`, `PrintsFromAnswer`) | capacity 3; eight events and two starts with every fault; eight events of two repositories and three starts with kills; four events, some of them while the daemon stops, with a client |
| `housekeeping` | `SettingsInv` (types, `LiveFollowsFile`, `PollWithinLimits`, `ValidIsKept`, `SettingsClamped`); `CacheInv` (types, `NoAnswerOutlivesGitignore`), `WrongNoLongerThanTTL`; `LogFilesInv` (types, `KeptInOrder`, `NewestKept`, `FollowsAll`) | two clients, failing writes, numbers by hand around every limit and overflow; TTL 2, two entries, two waiting events; 3 files of 3 bytes, six lines of 1, 2 or 4 with kills, four with failing renames and rotation at any time |
| `app` | `ReposInv` (types, `ToldOnce`, `NoticeMatches`), `ShowsTruth`; `TimelineInv` (`TimelineOrdered`, `SeenIsHeld`), `CaughtUp` | one repository with eight conditions, one that is added and removed, heard and unheard, with answers in order, or two with late answers; six events, three connections and launches uninterrupted, or three events and two launches with every fault |

A run checks the state properties of a module as one invariant, the
conjunction of the parts named in brackets; each part has its definition and its
statement in the module.

The bounds are the smallest at which the cases happen: two local edits let a
commit join a branch under a run and let a conflict be known while the branch
grows; an edit of the same file on both sides gives a conflict and one of
another file none; two push attempts give a rejected push and a last one; two
stops give a crash after a restored conflict; a backoff with two values shows
doubling and cap.  A Trigger capacity of one makes the channel overflow.  The
code's own values (three push attempts, a capacity of 100) only repeat these.
For the daemon the smallest case is one repository with two or three watchers,
one that ends, one that waits and one that is started next; more repositories
share nothing but `config.json`, of which the race is between actors.  A ring of
three wraps around and is rewritten within seven events; a queue of two
overflows with the third frame; the width of nine bits puts several overflows
between the limits 2, 5 and 20.  Three bytes with lines of one, two and four
give files with one line, several lines and a line too long.
Runs that the system may really stop in (the daemon ends, the server is
closed) or whose bounds end them do not check for deadlock.
`MaxForcePush` and `MaxStops` bound what other machines and the operating system
do; nothing in the code does.  `InitialHistory`, the edits and files are finite
sets for TLC only.

**Fairness.** `FairSpec` assumes that a git command ends (`WF` of `EngineStep`:
`runGitFull` gives each one a timeout) and that full runs start again and again
(`SF` of `Start`: the poll ticker).  `Scheduler` assumes that the scheduler's
goroutines go on (`WF`), that Go's `select` does not starve a case that is
ready again and again (`SF`, its choice is random), and for `EditCommitted` and
`ForceHonoured` that a commit does not fail for ever.  `LiveSpec` is the system
of a user who does not pause, move or remove the repository: each of these ends
the promise.  The safety runs have all of them.
`DaemonWatchers` assumes weak fairness of each watcher's goroutine and of a
command's check and reconcile, which wait for nothing but a mutex held for a
few assignments; a sync ends because git commands have timeouts.
`SocketServer` assumes it of readers and writers, where a write to a client
that does not read ends by `ClientWriteTimeout`.  `SingleInstance` assumes it of a
starting daemon only.

**Where code and documents disagree.** Two runs check a claim of the documents
or tests and find it violated:

- `removed_pushed_back`: whether the upstream was force-pushed is remembered by
  one run only.  If that run fails after its fetch, the next one pushes the
  removed commits back.
- `uncommitted_lost`: an edit of a tracked file, made between the stop of a
  rebase and its abort, is reset with it.

**Exceptions.** Other properties hold except for the cases below, which TLC finds
when the antecedent that excludes them is dropped:

- `ConflictToldOnce`: the record of a conflict reaches `state.json` by a debounced
  save.  A daemon that dies before it starts without the record and tells the
  user again, against "you are told once" (README.md:104 of the repository).  Each
  such crash allows one repetition: what is told next is not told again.
- `ConflictNotRetried`: a lookup of the guard that fails, in the run that retries,
  or a rev-parse that failed when the conflict was recorded.
- `EditScheduled`: an edit whose event was skipped, by an error of `check-ignore` or
  an outdated answer of the cache, waits for the poll or a later event
  (`EditCommitted`).
- `RemovedIsForgotten`: a pause or an abort that found the watcher before its
  repository was removed and forgotten creates the entry again.
- `PauseAgrees`: a restart (settings, a reload) between the two halves of a pause
  starts a watcher that is not paused, though its repository is shown as paused;
  `Test_RestartWatcherKeepsPaused` (src/daemon/main_test.go:102) restarts a
  repository whose pause is complete.  And the halves of two clients' pauses may
  cross.
- `GitSerialized`: the mutex of a removed repository is deleted under an
  AbortRebase, or under the last run of its watcher's successor, which then works
  beside the watchers and commands of the repository added again.  What belongs
  to the repository since it was last added is serialized.
- `ConfigFollowed`: a reload, or the boot, that read `config.json` too early stops
  a repository that was just added or starts one that was just removed, and an
  edit by the command line is not noticed before the next reload.
- `OneDaemon`, `AtWorkAnswers`: two daemons that start together both work, and so
  may one that could not open its socket or that does not answer the dial of
  another in time, although "only one daemon runs at a time" (README.md:128 of the
  repository).
- `StatesUpToDate`: additions and removals are no updates, and nothing is sent.
- `RemembersEvents`: after one failed rewrite no event reaches the disk.
- `PrintsFromAnswer`: an event between the two reads of one answer is never
  printed by `events --follow`.
- `SettingsClamped`, and with it `SettingsInv`: an interval whose nanoseconds
  overflow is not clamped to the limit it exceeds, and a batch window may become
  negative, where the plan of the improvement pass says "clamp to ... batch
  0–86400 s" (docs/plans/2026-10-22-improvement-pass.md:228).
- `FollowsAll`: lines written before a rotation that `logs -f` has not yet read are
  not printed.
- `ShowsTruth`, `NoticeMatches`: a late answer to `status` overwrites newer states
  in the app until the next hello; and since `Ensure` and `Remove` send no frame a
  repository that came or went unheard is shown as it was last said to be, until
  something is sent of it again.
- `NoticeMatches`: when a snapshot leaves a repository out the app forgets its
  problem and not the notice, which then outlives the problem if the repository
  is added again and well.
- `CaughtUp`: a backfill that is never answered is not asked for again once a live
  event has come; and a log that began anew and has passed the identifier the
  app saw last is taken for the old one.

The engine has three more that no property states: a known conflict is not
retried when only the local branch moves (README.md:104 says "either side");
dropped commits are inferred from two counts, so that a commit added between
them hides the drop; and the error of a run in between is shown as the
conflict's.  A run that was on when its repository was paused shows its outcome
in place of "paused".

After an error other than offline the scheduler sets its hold and arms no
retry, so the sync comes back with a poll or a file event; `EditCommitted`
rests on the poll, as its mutant shows.

## Proofs

Each theorem holds for every value of the constants that the named assumptions
admit: any number of repositories, clients, connections and daemons, any
requests and bounds, any delays, sizes and widths.

**Engine** (`AutoSyncProofs`).
`ContractSafe`: the contract implies `NoCommittedWorkLost`.  That is not
inductive: a replay leaves commits out because the upstream once held them, so
one has to know that what an upstream tip held is on the remote or was removed
from it by force.  `UpstreamWasRemote` says so, and `WorkInv` adds the types.
The proof has one step per kind of contract step and rests on lemmas about
`GitHistory`: common stems, fork points and the content of concatenations,
prefixes and suffixes.

`EngineKeepsContract`: every step of `AutoSync` is a step of the contract or
leaves the work alone.  It needs the types and `MidRebaseQuiet` (only edits of
the worktree are at stake in an abort).  With `ContractSafe` it gives
`EngineLosesNoWork`.  `TypeCorrect` and `RebaseLeftAlone` come from the same
inductive invariant, `Inv == TypeOK /\ MidRebaseQuiet /\ WorkInv`.

`StatusShownTrue`: the status "syncing" never outlives its run.  The invariant
`StatusInv` adds that a run found another status when it began (so that putting
it back on cancellation is right) and that a run which has not marked itself,
or is local-only, still shows it.

The lemmas that end in `Shape` sort the steps of a run: it moves on, ends
without touching the record of a conflict, succeeds, stays in its conflict or
reports one.  From them come three action properties.  `ConflictIsToldOnce`
needs `ToldInv`: the user was last told of the conflict on record, the record
does not change under a run, and the file that a restart loads holds no files
without a conflict; until a crash comes between the telling and the save
(`lost`).  `SuccessIsSynced` needs `GoalInv`, which says where the work a run
set out to sync is: in the worktree, the branch or gone to the remote before its
commit, no longer in the worktree only after it, and gone to the remote once the
run counts itself not ahead.  That no step takes work back is a lemma about the
contract (`WorkGoesForward`), and that a branch which is not ahead holds nothing
the remote did not get follows from `UpstreamWasRemote` (`NotAhead`).

`ConflictIsNotRetried` is about the time in which the tracking ref stays where
it was when the conflict was recorded (`moved` is false).  That time is part of
the property: a force-push that brings the upstream back to the commit on record
makes the engine run into the same conflict again, as it should.  `RetryInv`
says that meanwhile the branch begins with the commit on record or has the
upstream merged, that no run found a forced update, and that a run past its
guard, if no lookup failed, has another commit to rebase or nothing to rebase it
onto.  It uses that a branch never comes back to a commit it left but by merging
the upstream (`BranchNeverBack`) and that a rebase onto a merged upstream does
not conflict (`MergedNoConflict`).

**Scheduler** (`SchedulerProofs`).  `TypeHolds` bounds the timers and backoffs:
no backoff passes its maximum, however many failures follow each other.
`HoldHolds` and `OfflineHolds` need `RunInv`: a full run that nobody asked for
began when no backoff ran, a full run has cleared the retry timer, a local one
carries the wait it will arm it with, and a run that ended well is not shown as
offline.  `EditsScheduled` is proved from `EditInv`, which makes the same promise
for a folder that is away: moving it back must find the edits on their way.

**Daemon** (`DaemonWatchersProofs`).  `WatchersInvHolds` rests on `TurnInv`: of the
watchers of a repository only the last is on record or being stopped; one that
waits does so for its predecessor unless that has ended; and all before one
that had its turn have ended.  `ForgetInv` (the last watcher of a removed
repository is waited for) and `RemovedInv` (an entry without a watcher is about
to be forgotten, or belongs to an AddRepo under way) carry `RemovedIsForgotten`.
`WatchersTakeTurns` is the refinement of `WatcherTurns` from the same invariant.
`PauseAgreesHolds` and `ConfigFollowedHolds` need `CommandInv`: what a command
that is between two of its steps has read is still true, and that `cfgMu` lets
one command at a time go from its read of `config.json` to the end of
`reconcileWatchers`.  `GitSerializedHolds` rests on its part `GitInv`: the runs of
watchers since a repository was last added hold the mutex that `syncLocks` has
now (`SameLock`), and so does an abort that found one of these watchers
(`HasLock`); since `forgetWhenStopped` deletes the mutex only of a repository
without a watcher on record, the mutex stays the same as long as there is one.

**Socket** (`SocketProofs`).  `OneInstance` needs `AloneInv`: where a start that is
not overtaken is about to remove the path nobody works behind it, and where it
is about to listen there is none; a daemon that failed to open the socket holds
neither listener nor path.  `ServerInvHolds` is proved from `SocketInv`:
`ListInv` says who is in `conns` and `subs` and may still push, and `FrameInv`
describes the stream of a connection (written, being written and queued) as a
whole: the events in it follow each other without a gap from the hello on, the
states never go back, every request has its answer, and a subscriber has the
newest event, and the newest state unless that is still to be broadcast.
A property of the queue or of what was written alone is not inductive, since
frames move from one to the other.  `ServerFeeds` is the refinement of
`EventFeed`: the client's position is the last event it was written.

**Event log** (`EventLogProofs`).  `LogIInv` says that the ring is filled from its
first slot and turns when it is full, that its events go up to the last
identifier, and that the file stays within the lines that are counted; and,
where nothing worse than kills happens, ties both to `history`, the events emitted
over all starts: the identifier of an event is its place in the history, the
ring holds the end of it, and the lines of the file, but for a last one that is
cut, tell enough of that end (`Tells`).  `EventLogInOrder` and `EventLogRemembers`
follow; the second needs that what a start loads from such a file is the end of
the history, which is shown line by line.  `SinceAnswersExactly` goes from the
newest place of the ring down, as the loop does.  `FollowerPrintsExactly` adds
where a client is (`ClientFits`): it has printed nothing newer than its first
answer until the gap is filled, and nothing newer than what it heard after.

What `load`, `Since` and the other loops compute for every input is an induction
over data.  It is done without the library's induction theorems, which the
provers cannot instantiate: `Iteration` shows, from the order of the naturals
being well-founded, that a set which holds 0 and is closed under a step holds
all numbers up to a bound (`Climb`), and that a function defined by a step exists
(`Iterated`).  A loop is then a function of the index, and its result one
application of `Climb` to the set of indices for which the claim holds.

**Log files** (`HousekeepingProofs`).  `LogFilesKept` rests on a layout: there are
bounds `a[i]` and `b[i]` such that file i holds what was logged after the first
`a[i]` lines, up to `b[i]`; older files end where newer ones begin or before, the
log file (or the first backup, between two renames) ends with the newest line,
and if no rename fails `a[i] = b[i+1]`, so that there is no hole.  A rename moves
the bounds with the file, which leaves no hole since the place it goes to was
emptied by the step before (`RotationFits`).  For the follower there is a place p
in what was logged: all from its start up to p is printed, and its offset is
where line p + 1 begins in the log file; when it looks at another file than
before, all that came before that file is printed.

**App** (`AppProofs`).  What the app shows lags behind the daemon by the frames that
are on their way, so `AppShowsTruth` is proved from what the app will show once it
has handled them: the last frame on its way that mentions a repository decides,
and it carries what the daemon has, unless a late answer overtook it or the
repository came or went unsaid.
`AppNotifies` needs that what the app keeps of a repository fits together
(`EntryFits`), and that each frame on its way reports the problem the app knows
of, or a newer one than all it has told, in the order of the frames; whether
a repository is absent from a snapshot because a frame has taken it away,
or unsaid, is part of it, and so is the notice that such a snapshot leaves up.

`AppTimeline` is about all that is or may become the timeline: what is shown, a
save that is pending or being written, and the copy on disk, each in order,
without doubles and within its limit.  For `AppCatchesUp` the timeline is whole
from some identifier b up to the last event that the subscription told of
(`SomeWhole`); while a backfill is under way there may be a gap, which the
question (`SomeGap`) or its answer (`Answered`) covers.  A save under way is of what
is shown or is followed by one that is, so that the copy a launch finds was whole
and the launch is the same as a lost connection.  Both rest on lemmas about
`Merged`: inserting events one by one gives a sequence in order with the
identifiers of both.

**Settings and ignore rules** (`HousekeepingProofs`).  `SettingsHold` rests on
lemmas about `Duration`: a number of seconds that fits is multiplied without
wrap-around and is clamped to its limit, and one that does not fit still ends
within the limits for the poll interval.  `FollowInv` says that a watcher with
other settings than the file's is due to be restarted, is known to be stale, or
has a client that is not done.  `CacheHolds` and `WrongOnlyBriefly` come from
`IgnoreInv`: an answer, kept or just found, is right if git was asked after the
last change of the rules, and also whenever no change is untold or waits in
the queue.  A question concerns one path, so that it fits in an empty cache.

**Assumptions.** Edits are of files (`FileOfAssumption`), local and remote edits
are disjoint (`EditAssumption`), the initial histories hold none of them
(`HistoryAssumption`), and the bounds are natural numbers (`BoundAssumption`).
Delays are natural numbers and no backoff begins above its maximum
(`DelayAssumption`).  A plan names clients, repositories, connections and requests
that exist (`PlansAssumption`, `SettingsPlansAssumption`), and no client or daemon
has a reserved name (`ClientsAssumption`, `DaemonsAssumption`).  A queue and the
number of dials are not empty (`QueueAssumption`, `DialsAssumption`).  The limits of
settings are in order and, in nanoseconds, within the width of an integer
(`WidthAssumption`), as the constants of `repoconfig.go` are.  The cache has room
for one path and its directories (`CacheAssumption`): 4096 entries in the code.
The event log, its answers and the app's timeline and backfill have room for one
event (`CapacityAssumption`, `SizesAssumption` of `AppEvents`); a log is kept in at
least two files of at least one byte, and no line is empty (`LimitsAssumption`,
`SizesAssumption` of `LogFiles`).  A client of `events --follow` is followed through
one start of the daemon (`ClientAssumption`), since the daemon's end cuts it off.
A repository that is added is idle, and conditions are statuses with codes
(`ConditionsAssumption`); plans name repositories, conditions and faults that
exist (`ReposPlansAssumption`, `FaultsAssumption`, `LogPlansAssumption`).

**Only model-checked.** Liveness, which is out of the prover's reach: `RunEnds`,
`MidRebaseTold`, `EditCommitted`, `ForceHonoured`, `TurnsCome`,
`ConnectionsProgress`, `StartDecides`.  Every other property of a passing run is
stated by a theorem.

## Not modelled, and the plan

Not modelled: the text of messages and the patterns of `classify.go`,
credentials, hooks, LFS, submodules, the printing of the CLI's answers, doctor,
service installation, wake-up notifiers, the app's launcher of the daemon and
its views.  They keep no state that another part reads, or are layout.  A rebase
that the user starts by hand in the middle of a run, and is aborted by the
engine, is the one interleaving of the engine left out: in `AutoSync` the user
stops and ends rebases between runs.  The debounce of `state.json` is a save
that may come at any time.

Worth doing next: a composition of `SocketServer` with `AppRepos` and `AppEvents`,
so that the frames the app is proved to handle are the ones the server is proved
to send; today `EventFeed` and the app's `stream` meet in prose only.
