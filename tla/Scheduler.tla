----------------------------- MODULE Scheduler -----------------------------
(***************************************************************************)
(* The watcher of one repository (common/watch.go): the select loop of     *)
(* syncScheduler, its timers and backoffs, the file watcher that feeds it, *)
(* the wait for a folder that went away (common/repomissing.go), and the   *)
(* commands that reach it from outside (SyncNow, SetPaused and AbortRebase *)
(* of daemon/commands.go).  A sync run is what module AutoSync says of it, *)
(* reduced to whether it committed, what it returned and the status it     *)
(* left behind.                                                            *)
(*                                                                         *)
(* A timer is the number of ticks until it expires, Off when not armed; an *)
(* expired timer stays at 0 until the loop receives from its channel.  The *)
(* poll and existence tickers may tick at any time.                        *)
(***************************************************************************)
EXTENDS Integers

CONSTANTS
    FSLag, BatchWindow, Cooldown,
    ErrorBackoffMin, ErrorBackoffMax, OfflineBackoffMin, OfflineBackoffMax,
    TriggerCap         \* capacity of the Trigger channel

ASSUME DelayAssumption ==
    /\ {FSLag, BatchWindow, Cooldown} \subseteq Nat
    /\ {ErrorBackoffMin, ErrorBackoffMax, OfflineBackoffMin, OfflineBackoffMax,
        TriggerCap} \subseteq Nat \ {0}
    /\ ErrorBackoffMin <= ErrorBackoffMax
    /\ OfflineBackoffMin <= OfflineBackoffMax

VARIABLES
    \* syncScheduler
    pc,               \* where the scheduler's goroutine is
    run,              \* the run in progress
    holdUntil, cooldownUntil, errorBackoff, offlineBackoff,
    fsTimer, batching, retryTimer,
    \* shared with the daemon
    trigger,          \* events waiting in the Trigger channel
    immediate,        \* a token waits in the Immediate channel
    kicking,          \* a SyncNow has checked the repository and not yet kicked
    forcePending, paused,
    cancelled,        \* the watcher's context
    locked,           \* AbortRebase holds SyncMu
    status,           \* RepoState.Status; "missing" is preflight with repo_missing
    \* the repository
    present,          \* the folder exists
    refused,          \* preflight refuses it (a rebase was left stopped)
    dirty,            \* it has uncommitted edits
    watched,          \* the file watcher is set up
    notified,         \* a file event is on its way to the Trigger channel
    \* history
    owed              \* the file watcher handed an event on while there was an
                      \* uncommitted edit, and no commit has failed since

timers  == <<holdUntil, cooldownUntil, errorBackoff, offlineBackoff,
             fsTimer, batching, retryTimer>>
inputs  == <<trigger, immediate, kicking, forcePending, paused, cancelled, locked>>
repo    == <<present, refused, dirty, watched, notified, owed>>
vars    == <<pc, run, timers, inputs, status, repo>>

Off == -1
Longest(a, b) == IF a < b THEN b ELSE a
Shortest(a, b) == IF a < b THEN a ELSE b
MaxDelay == Longest(Longest(ErrorBackoffMax, OfflineBackoffMax),
                    Longest(BatchWindow, FSLag + Cooldown))
Timer == Off..MaxDelay

Status == {"idle", "syncing", "ok", "error", "offline", "preflight", "missing", "paused"}

Run == [local : BOOLEAN, force : BOOLEAN, asked : BOOLEAN,
        wait : Timer, prev : Status, ok : BOOLEAN]
NoRun == [local |-> FALSE, force |-> FALSE, asked |-> FALSE,
          wait |-> Off, prev |-> "idle", ok |-> FALSE]

TypeOK ==
    /\ pc \in {"select", "lock", "begin", "network", "settle", "gone", "stopped"}
    /\ run \in Run
    /\ holdUntil \in 0..MaxDelay /\ cooldownUntil \in 0..Cooldown
    /\ errorBackoff \in ErrorBackoffMin..ErrorBackoffMax
    /\ offlineBackoff \in OfflineBackoffMin..OfflineBackoffMax
    /\ fsTimer \in Timer /\ retryTimer \in Timer
    /\ trigger \in 0..TriggerCap
    /\ status \in Status
    /\ {batching, immediate, kicking, forcePending, paused, cancelled, locked,
        present, refused, dirty, watched, notified, owed} \subseteq BOOLEAN

Init ==
    /\ pc = "select" /\ run = NoRun
    /\ holdUntil = 0 /\ cooldownUntil = 0
    /\ errorBackoff = ErrorBackoffMin /\ offlineBackoff = OfflineBackoffMin
    /\ fsTimer = Off /\ batching = FALSE /\ retryTimer = 0
    /\ trigger = 0 /\ immediate = FALSE /\ kicking = FALSE /\ forcePending = FALSE
    /\ paused \in BOOLEAN /\ cancelled = FALSE /\ locked = FALSE
    /\ status = IF paused THEN "paused" ELSE "idle"
    /\ present = TRUE /\ refused \in BOOLEAN /\ dirty \in BOOLEAN
    /\ watched = FALSE /\ notified = FALSE /\ owed = FALSE

-----------------------------------------------------------------------------
(* Helpers of the loop. *)

\* onFileEvent, given the cooldown that is left.
OnFileEvent(cooldown) ==
    IF BatchWindow > 0 THEN fsTimer' = BatchWindow /\ batching' = TRUE
    ELSE fsTimer' = FSLag + cooldown /\ UNCHANGED batching

DisarmFS == fsTimer' = Off /\ batching' = FALSE

\* armRetry: a timer that is armed stays as it is.
ArmRetry(d) == retryTimer' = IF retryTimer = Off THEN d ELSE retryTimer

\* The loop is over because the folder is gone: checkExists, the deferred
\* calls of run, and watchOnce stopping the file watcher.
Leave ==
    /\ pc' = "gone" /\ status' = "missing"
    /\ retryTimer' = Off /\ DisarmFS
    /\ watched' = FALSE /\ notified' = FALSE

\* fire, when the retry timer is as given: Off if its expiry is the cause.
Fire(force, asked, retry) ==
    /\ \/ /\ paused
          /\ DisarmFS /\ retryTimer' = retry
          /\ UNCHANGED <<pc, run, status, watched, notified>>
       \/ /\ ~paused /\ ~present
          /\ Leave /\ UNCHANGED run
       \/ /\ ~paused /\ present
          /\ DisarmFS /\ retryTimer' = Off
          /\ pc' = "lock"
          /\ run' = [NoRun EXCEPT !.force = force, !.asked = asked]
          /\ UNCHANGED <<status, watched, notified>>
    /\ UNCHANGED <<holdUntil, cooldownUntil, errorBackoff, offlineBackoff,
                   present, refused, dirty, owed>>

\* fireLocal, and the armRetry that request makes after it.
FireLocal ==
    /\ \/ /\ paused
          /\ DisarmFS /\ ArmRetry(holdUntil)
          /\ UNCHANGED <<pc, run, status, watched, notified>>
       \/ /\ ~paused /\ ~present
          /\ Leave /\ UNCHANGED run
       \/ /\ ~paused /\ present
          /\ DisarmFS /\ UNCHANGED retryTimer
          /\ pc' = "lock"
          /\ run' = [NoRun EXCEPT !.local = TRUE, !.wait = holdUntil]
          /\ UNCHANGED <<status, watched, notified>>
    /\ UNCHANGED <<holdUntil, cooldownUntil, errorBackoff, offlineBackoff,
                   present, refused, dirty, owed>>

\* request made while the backoff runs: nothing now, a retry when it ends.
Defer(retry) ==
    /\ retryTimer' = IF retry = Off THEN holdUntil ELSE retry
    /\ UNCHANGED <<pc, run, holdUntil, cooldownUntil, errorBackoff, offlineBackoff,
                   status, repo>>

\* localCommitAllowed
LocalCommitAllowed == status \notin {"preflight", "missing"}

-----------------------------------------------------------------------------
(* The cases of the select statement. *)

\* Mutant: the token is consumed, the pending force is left for later.
OnImmediateKeepsForce ==
    /\ pc = "select" /\ immediate
    /\ immediate' = FALSE
    /\ Fire(FALSE, TRUE, retryTimer)
    /\ UNCHANGED <<trigger, kicking, forcePending, paused, cancelled, locked>>

OnImmediate ==
    /\ pc = "select" /\ immediate
    /\ immediate' = FALSE /\ forcePending' = FALSE
    /\ Fire(forcePending, TRUE, retryTimer)
    /\ UNCHANGED <<trigger, kicking, paused, cancelled, locked>>

OnTrigger ==
    /\ pc = "select" /\ trigger > 0
    /\ trigger' = trigger - 1
    /\ IF present
       THEN /\ OnFileEvent(cooldownUntil)
            /\ UNCHANGED <<pc, status, retryTimer, watched, notified>>
       ELSE Leave
    /\ UNCHANGED <<run, holdUntil, cooldownUntil, errorBackoff, offlineBackoff,
                   immediate, kicking, forcePending, paused, cancelled, locked,
                   present, refused, dirty, owed>>

\* Mutant: a file event goes to the network while the backoff runs.
OnFSTimerIgnoresHold ==
    /\ pc = "select" /\ fsTimer = 0
    /\ Fire(FALSE, FALSE, retryTimer)
    /\ UNCHANGED inputs

\* A file event, or the end of a batch window: while the backoff runs it is
\* committed and not synced.
OnFSTimer ==
    /\ pc = "select" /\ fsTimer = 0
    /\ \/ holdUntil = 0 /\ Fire(FALSE, FALSE, retryTimer)
       \/ holdUntil > 0 /\ LocalCommitAllowed /\ FireLocal
       \/ holdUntil > 0 /\ ~LocalCommitAllowed /\ Defer(retryTimer) /\ DisarmFS
    /\ UNCHANGED inputs

OnRetryTimer ==
    /\ pc = "select" /\ retryTimer = 0
    /\ \/ holdUntil = 0 /\ Fire(FALSE, FALSE, Off)
       \/ holdUntil > 0 /\ Defer(Off) /\ UNCHANGED <<fsTimer, batching>>
    /\ UNCHANGED inputs

\* Mutant: a repository in error is not polled.
OnPollWhenHealthy ==
    /\ pc = "select" /\ status # "error"
    /\ \/ holdUntil = 0 /\ Fire(FALSE, FALSE, retryTimer)
       \/ holdUntil > 0 /\ Defer(retryTimer) /\ UNCHANGED <<fsTimer, batching>>
    /\ UNCHANGED inputs

OnPoll ==
    /\ pc = "select"
    /\ \/ holdUntil = 0 /\ Fire(FALSE, FALSE, retryTimer)
       \/ holdUntil > 0 /\ Defer(retryTimer) /\ UNCHANGED <<fsTimer, batching>>
    /\ UNCHANGED inputs

OnExist ==
    /\ pc = "select" /\ ~present
    /\ Leave
    /\ UNCHANGED <<run, holdUntil, cooldownUntil, errorBackoff, offlineBackoff, inputs,
                   present, refused, dirty, owed>>

OnDone ==
    /\ pc \in {"select", "gone"} /\ cancelled
    /\ pc' = "stopped"
    /\ DisarmFS /\ retryTimer' = Off
    /\ watched' = FALSE /\ notified' = FALSE
    /\ UNCHANGED <<run, holdUntil, cooldownUntil, errorBackoff, offlineBackoff, inputs,
                   status, present, refused, dirty, owed>>

-----------------------------------------------------------------------------
(* execute and the sync run. *)

\* SyncMu is free: start the run, or give up if the watcher is stopped.
Acquire ==
    /\ pc = "lock" /\ ~locked
    /\ IF cancelled
       THEN /\ pc' = "select" /\ run' = NoRun
            /\ IF run.local THEN ArmRetry(run.wait) ELSE UNCHANGED retryTimer
       ELSE /\ pc' = "begin" /\ run' = [run EXCEPT !.prev = status]
            /\ UNCHANGED retryTimer
    /\ UNCHANGED <<holdUntil, cooldownUntil, errorBackoff, offlineBackoff, fsTimer,
                   batching, inputs, status, repo>>

\* AutoSyncCtx passed preflight and committed what there was.
SyncCommits ==
    /\ pc = "begin" /\ present /\ ~refused
    /\ dirty' = FALSE /\ owed' = FALSE
    /\ pc' = IF run.local THEN "settle" ELSE "network"
    /\ run' = [run EXCEPT !.ok = run.local]
    /\ status' = IF run.local \/ paused THEN status ELSE "syncing"
    /\ UNCHANGED <<timers, inputs, present, refused, watched, notified>>

\* AutoSyncCtx returned an error and left the status s; a local-only run
\* leaves it alone, a cancelled one puts it back.
Returns(ok, s) ==
    /\ pc' = "settle" /\ run' = [run EXCEPT !.ok = ok]
    /\ status' = IF run.local THEN status
                 ELSE IF cancelled /\ ~ok
                      THEN (IF status = "syncing" THEN run.prev ELSE status)
                 ELSE s

\* An event in the Trigger channel is still to come.
SyncFailsEarly ==
    /\ pc = "begin"
    /\ Returns(FALSE, IF refused \/ ~present THEN "preflight" ELSE "error")
    /\ owed' = (owed /\ trigger > 0)
    /\ UNCHANGED <<timers, inputs, present, refused, dirty, watched, notified>>

\* Fetch, rebase and push; a rebase may write to the worktree.
SyncEnds(ok, s) ==
    /\ pc = "network"
    /\ Returns(ok, s)
    /\ notified' \in {notified, watched}
    /\ UNCHANGED <<timers, inputs, present, refused, dirty, watched, owed>>

\* Mutant: the events that came in while the run was on are dropped.
DrainDiscards == trigger' = 0 /\ UNCHANGED <<fsTimer, batching>>

\* The rest of execute: the events that came in while the run was on count
\* as one file event.
Drain ==
    /\ trigger' = 0
    /\ IF trigger > 0 THEN OnFileEvent(Cooldown) ELSE UNCHANGED <<fsTimer, batching>>

\* The rest of fire, after execute: what the outcome does to the backoffs.
Succeeded ==
    /\ run.ok
    /\ errorBackoff' = ErrorBackoffMin /\ offlineBackoff' = OfflineBackoffMin
    /\ holdUntil' = 0
    /\ UNCHANGED retryTimer

\* Mutant: only the hold is set, as for any other error.
HoldsOnly ==
    /\ ~run.ok /\ status = "offline"
    /\ holdUntil' = offlineBackoff
    /\ offlineBackoff' = Shortest(2 * offlineBackoff, OfflineBackoffMax)
    /\ errorBackoff' = ErrorBackoffMin
    /\ UNCHANGED retryTimer

WentOffline ==
    /\ ~run.ok /\ status = "offline"
    /\ holdUntil' = offlineBackoff
    /\ ArmRetry(offlineBackoff)
    /\ offlineBackoff' = Shortest(2 * offlineBackoff, OfflineBackoffMax)
    /\ errorBackoff' = ErrorBackoffMin

\* Mutant: the backoff doubles without its cap.
DoublesWithoutCap ==
    /\ ~run.ok /\ status # "offline" /\ present
    /\ holdUntil' = errorBackoff
    /\ errorBackoff' = 2 * errorBackoff
    /\ offlineBackoff' = OfflineBackoffMin
    /\ UNCHANGED retryTimer

\* The hold is set and no retry is armed: the next file event commits, the
\* next poll brings the sync back.
BackedOff ==
    /\ ~run.ok /\ status # "offline" /\ present
    /\ holdUntil' = errorBackoff
    /\ errorBackoff' = Shortest(2 * errorBackoff, ErrorBackoffMax)
    /\ offlineBackoff' = OfflineBackoffMin
    /\ UNCHANGED retryTimer

SettleFull ==
    /\ pc = "settle" /\ ~run.local /\ ~cancelled
    /\ run' = NoRun /\ cooldownUntil' = Cooldown
    /\ \/ /\ Succeeded \/ WentOffline \/ BackedOff
          /\ Drain
          /\ pc' = "select"
          /\ UNCHANGED <<status, watched, notified>>
       \/ /\ ~run.ok /\ status # "offline" /\ ~present
          /\ trigger' = 0
          /\ Leave
          /\ UNCHANGED <<holdUntil, errorBackoff, offlineBackoff>>
    /\ UNCHANGED <<immediate, kicking, forcePending, paused, cancelled, locked,
                   present, refused, dirty, owed>>

SettleLocal ==
    /\ pc = "settle" /\ run.local /\ ~cancelled
    /\ run' = NoRun /\ cooldownUntil' = Cooldown
    /\ Drain
    /\ ArmRetry(run.wait)
    /\ pc' = "select"
    /\ UNCHANGED <<holdUntil, errorBackoff, offlineBackoff, immediate, kicking, forcePending,
                   paused, cancelled, locked, status, repo>>

SettleCancelled ==
    /\ pc = "settle" /\ cancelled
    /\ run' = NoRun /\ cooldownUntil' = Cooldown
    /\ IF run.local THEN ArmRetry(run.wait) ELSE UNCHANGED retryTimer
    /\ pc' = "select"
    /\ UNCHANGED <<holdUntil, errorBackoff, offlineBackoff, fsTimer, batching,
                   inputs, status, repo>>

RunStep ==
    \/ Acquire \/ SyncCommits \/ SyncFailsEarly
    \/ SyncEnds(TRUE, "ok")
    \/ \E s \in {"error", "offline", "preflight"} : SyncEnds(FALSE, s)
    \/ SettleFull \/ SettleLocal \/ SettleCancelled

-----------------------------------------------------------------------------
(* The goroutines beside the scheduler. *)

\* WaitForRepoDir saw the folder: a new scheduler starts, with an empty
\* Trigger channel and an initial sync.
Reappear ==
    /\ pc = "gone" /\ present /\ ~cancelled
    /\ pc' = "select" /\ run' = NoRun
    /\ status' = IF status = "missing" THEN (IF paused THEN "paused" ELSE "idle") ELSE status
    /\ holdUntil' = 0 /\ cooldownUntil' = 0
    /\ errorBackoff' = ErrorBackoffMin /\ offlineBackoff' = OfflineBackoffMin
    /\ retryTimer' = 0 /\ DisarmFS
    /\ trigger' = 0
    /\ UNCHANGED <<immediate, kicking, forcePending, paused, cancelled, locked, repo>>

\* watchFileSystem sets up its watch some time after the scheduler started.
WatchStarts ==
    /\ pc \notin {"gone", "stopped"} /\ ~watched
    /\ watched' = TRUE
    /\ UNCHANGED <<pc, run, timers, inputs, status,
                   present, refused, dirty, notified, owed>>

\* watchFileSystem hands an event on, into a channel that drops it when full,
\* or skips it: git check-ignore failed though the folder is there, or the path
\* is ignored, by the rules or by an answer of the cache that is out of date.
FileEvent ==
    /\ notified
    /\ notified' = FALSE
    /\ \/ /\ trigger' = Shortest(trigger + 1, TriggerCap)
          /\ owed' = (owed \/ dirty)
       \/ UNCHANGED <<trigger, owed>>
    /\ UNCHANGED <<pc, run, timers, immediate, kicking, forcePending, paused, cancelled, locked,
                   status, present, refused, dirty, watched>>

Tick ==
    LET Next1(t) == IF t > 0 THEN t - 1 ELSE t
    IN  /\ \E t \in {holdUntil, cooldownUntil, fsTimer, retryTimer} : t > 0
        /\ holdUntil' = Next1(holdUntil) /\ cooldownUntil' = Next1(cooldownUntil)
        /\ fsTimer' = Next1(fsTimer) /\ retryTimer' = Next1(retryTimer)
        /\ UNCHANGED <<pc, run, errorBackoff, offlineBackoff, batching, inputs, status, repo>>

-----------------------------------------------------------------------------
(* The user and the daemon's commands. *)

Edit ==
    /\ present /\ pc # "stopped"
    /\ dirty' = TRUE
    /\ notified' = (notified \/ watched)
    /\ UNCHANGED <<pc, run, timers, inputs, status, present, refused, watched, owed>>

\* The folder is moved away or back.
MoveFolder ==
    /\ present' = ~present
    /\ notified' = (notified \/ (present /\ watched))
    /\ UNCHANGED <<pc, run, timers, inputs, status, refused, dirty, watched, owed>>

\* A rebase is left stopped, or ended, by the user's own hands.
ToggleRefusal ==
    /\ refused' = ~refused
    /\ UNCHANGED <<pc, run, timers, inputs, status,
                   present, dirty, watched, notified, owed>>

\* SyncNow, also for every wake-up and change of network: it looks at the
\* repository and stores the force ...
SyncNow(force) ==
    /\ ~paused /\ present /\ ~cancelled
    /\ kicking' = TRUE
    /\ forcePending' = (forcePending \/ force)
    /\ UNCHANGED <<pc, run, timers, trigger, immediate, paused, cancelled, locked,
                   status, repo>>

\* ... and kicks the scheduler, whatever has happened since.
Kick ==
    /\ kicking
    /\ kicking' = FALSE /\ immediate' = TRUE
    /\ UNCHANGED <<pc, run, timers, trigger, forcePending, paused, cancelled, locked,
                   status, repo>>

\* SetPaused
SetPaused ==
    /\ ~cancelled
    /\ paused' = ~paused
    /\ status' = IF ~paused THEN "paused" ELSE IF status = "paused" THEN "idle" ELSE status
    /\ immediate' = (immediate \/ paused)
    /\ UNCHANGED <<pc, run, timers, trigger, kicking, forcePending, cancelled, locked, repo>>

\* AbortRebase takes SyncMu ...
AbortRebase ==
    /\ pc \notin {"begin", "network", "settle"} /\ ~locked
    /\ present /\ refused /\ ~cancelled
    /\ locked' = TRUE
    /\ UNCHANGED <<pc, run, timers, trigger, immediate, kicking, forcePending, paused, cancelled,
                   status, repo>>

\* ... and ends with the repository cleared, refused for another reason, or
\* an error that changes nothing.
AbortRebaseEnds ==
    /\ locked
    /\ locked' = FALSE
    /\ \/ /\ refused' = FALSE
          /\ status' = IF status \in {"preflight", "missing"}
                       THEN (IF paused THEN "paused" ELSE "idle") ELSE status
          /\ immediate' = (immediate \/ ~paused)
       \/ /\ status' = "preflight"
          /\ UNCHANGED <<refused, immediate>>
       \/ UNCHANGED <<refused, status, immediate>>
    /\ UNCHANGED <<pc, run, timers, trigger, kicking, forcePending, paused, cancelled,
                   present, dirty, watched, notified, owed>>

\* The watcher is stopped: removed, restarted or shut down.
Cancel ==
    /\ ~cancelled
    /\ cancelled' = TRUE
    /\ UNCHANGED <<pc, run, timers, trigger, immediate, kicking, forcePending, paused, locked,
                   status, repo>>

Loop ==
    \/ OnImmediate \/ OnTrigger \/ OnFSTimer \/ OnRetryTimer \/ OnPoll \/ OnExist \/ OnDone

Environment ==
    \/ Edit \/ MoveFolder \/ ToggleRefusal
    \/ \E force \in BOOLEAN : SyncNow(force)
    \/ SetPaused \/ AbortRebase \/ Cancel

Next ==
    \/ Loop \/ RunStep
    \/ Reappear \/ WatchStarts \/ FileEvent \/ Tick
    \/ Kick \/ AbortRebaseEnds
    \/ Environment

Spec == Init /\ [][Next]_vars

\* Go's select chooses among the ready cases at random, so a case that is
\* ready again and again is chosen (SF), and a Go mutex starves nobody (SF);
\* goroutines go on and git is killed at its timeout (WF); commits do not fail
\* for ever.
Fairness ==
    /\ SF_vars(OnImmediate) /\ SF_vars(OnTrigger) /\ SF_vars(OnFSTimer)
    /\ SF_vars(OnRetryTimer) /\ SF_vars(OnPoll)
    /\ WF_vars(RunStep) /\ SF_vars(SyncCommits)
    /\ WF_vars(WatchStarts) /\ WF_vars(FileEvent) /\ WF_vars(Tick)
    /\ WF_vars(Kick) /\ WF_vars(AbortRebaseEnds) /\ SF_vars(Acquire)

-----------------------------------------------------------------------------
(* Properties. *)

\* An edit whose event the file watcher handed on is on its way into a commit:
\* the event is queued, the debounce or batch timer is armed, or a run that has
\* not committed yet is due.  That holds whatever runs, backoffs, polls, pauses
\* and stops came in between; only a pause, a commit that failed after the last
\* event or a missing folder excuses it.  An edit whose event was skipped is
\* left to the poll (EditCommitted).
EditScheduled ==
    (owed /\ present /\ ~paused /\ ~cancelled /\ pc # "gone")
    => \/ trigger > 0 \/ fsTimer # Off \/ immediate
       \/ pc \in {"lock", "begin"}
       \/ retryTimer # Off /\ (holdUntil = 0 \/ ~LocalCommitAllowed)

\* A repository shown as offline has a retry coming, unless it is paused or
\* the watcher is going away.
OfflineRetried ==
    (pc = "select" /\ status = "offline" /\ ~paused /\ ~cancelled)
    => retryTimer # Off \/ immediate

\* "The network retry stays on its own schedule": no file event, poll or
\* retry syncs before the backoff of the last failure has run out.
HoldHonoured ==
    [][(pc = "lock" /\ pc' = "begin" /\ ~run.local /\ ~run.asked) => holdUntil = 0]_vars

\* An edit is committed in the end, through any number of failures and
\* backoffs and also when no file event tells of it (after an error that is
\* not an offline one no retry timer is armed and only the poll comes back),
\* unless the repository is refused: a stopped rebase is the user's to end.
EditCommitted == dirty ~> (~dirty \/ refused)

\* A forced sync the daemon accepted takes place.
ForceHonoured == forcePending ~> (pc = "begin" /\ run.force)
=============================================================================
