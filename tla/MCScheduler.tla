---------------------------- MODULE MCScheduler ----------------------------
(* Small instances of Scheduler, and the fair system of a user who edits,  *)
(* asks for syncs and leaves or aborts rebases, and neither pauses, moves  *)
(* nor removes the repository: each of those ends the promises that the    *)
(* liveness properties are about.                                          *)
EXTENDS Scheduler

LiveNext ==
    \/ OnImmediate \/ OnTrigger \/ OnFSTimer \/ OnRetryTimer \/ OnPoll
    \/ RunStep \/ WatchStarts \/ FileEvent \/ Tick \/ Kick
    \/ AbortRebase \/ AbortRebaseEnds \/ Edit \/ ToggleRefusal \/ \E force \in BOOLEAN : SyncNow(force)

LiveInit == Init /\ ~paused

LiveSpec == LiveInit /\ [][LiveNext]_vars /\ Fairness
=============================================================================
