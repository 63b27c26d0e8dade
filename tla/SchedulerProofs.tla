-------------------------- MODULE SchedulerProofs --------------------------
(***************************************************************************)
(* The scheduler of a repository forgets no edit it was told of, has        *)
(* a retry coming while it is offline, and lets a backoff run out, for all *)
(* delays, backoffs and sizes of the Trigger channel.                      *)
(***************************************************************************)
EXTENDS Scheduler, TLAPS

USE DelayAssumption

-----------------------------------------------------------------------------
(* Types. *)

LEMMA Delays ==
    /\ MaxDelay \in Nat
    /\ ErrorBackoffMax <= MaxDelay /\ OfflineBackoffMax <= MaxDelay
    /\ BatchWindow <= MaxDelay /\ FSLag + Cooldown <= MaxDelay
    /\ FSLag \in Nat /\ BatchWindow \in Nat /\ Cooldown \in Nat /\ TriggerCap \in Nat \ {0}
    /\ ErrorBackoffMin \in Nat \ {0} /\ ErrorBackoffMax \in Nat
    /\ OfflineBackoffMin \in Nat \ {0} /\ OfflineBackoffMax \in Nat
BY DEF MaxDelay, Longest

\* The type invariant in three parts: where the loop and its run are, the
\* numbers, and the flags.
PlaceOK ==
    /\ pc \in {"select", "lock", "begin", "network", "settle", "gone", "stopped"}
    /\ run \in Run /\ status \in Status

NumbersOK ==
    /\ holdUntil \in 0..MaxDelay /\ cooldownUntil \in 0..Cooldown
    /\ errorBackoff \in ErrorBackoffMin..ErrorBackoffMax
    /\ offlineBackoff \in OfflineBackoffMin..OfflineBackoffMax
    /\ fsTimer \in Timer /\ retryTimer \in Timer
    /\ trigger \in 0..TriggerCap

FlagsOK ==
    /\ batching \in BOOLEAN /\ immediate \in BOOLEAN /\ kicking \in BOOLEAN
    /\ forcePending \in BOOLEAN /\ paused \in BOOLEAN /\ cancelled \in BOOLEAN
    /\ locked \in BOOLEAN /\ present \in BOOLEAN /\ refused \in BOOLEAN /\ dirty \in BOOLEAN
    /\ watched \in BOOLEAN /\ notified \in BOOLEAN /\ owed \in BOOLEAN

\* A step that changes five of the flags at most.
LEMMA FlagsKept ==
    ASSUME FlagsOK,
           batching' \in BOOLEAN, immediate' \in BOOLEAN, kicking' \in BOOLEAN,
           watched' \in BOOLEAN, notified' \in BOOLEAN,
           UNCHANGED <<forcePending, paused, cancelled, locked>>,
           UNCHANGED <<present, refused, dirty, owed>>
    PROVE  FlagsOK'
<1>1. forcePending' \in BOOLEAN /\ paused' \in BOOLEAN
  BY DEF FlagsOK
<1>2. cancelled' \in BOOLEAN /\ locked' \in BOOLEAN
  BY DEF FlagsOK
<1>3. present' \in BOOLEAN /\ refused' \in BOOLEAN
  BY DEF FlagsOK
<1>4. dirty' \in BOOLEAN /\ owed' \in BOOLEAN
  BY DEF FlagsOK
<1>. QED
  BY <1>1, <1>2, <1>3, <1>4 DEF FlagsOK

LEMMA TypeParts == TypeOK <=> PlaceOK /\ NumbersOK /\ FlagsOK
BY DEF TypeOK, PlaceOK, NumbersOK, FlagsOK

LEMMA TypePartsNext == TypeOK' <=> PlaceOK' /\ NumbersOK' /\ FlagsOK'
BY DEF TypeOK, PlaceOK, NumbersOK, FlagsOK

LEMMA InitTypes == Init => TypeOK
<1>. SUFFICES ASSUME Init PROVE TypeOK
  OBVIOUS
<1>1. PlaceOK
  BY Delays DEF Init, PlaceOK, Run, NoRun, Status, Timer, Off
<1>2. NumbersOK
  BY Delays DEF Init, NumbersOK, Timer, Off
<1>3. FlagsOK
  BY DEF Init, FlagsOK
<1>. QED
  BY <1>1, <1>2, <1>3, TypeParts

\* The runs fire and fireLocal begin, and what a run becomes.
LEMMA RunTypes ==
    ASSUME TypeOK
    PROVE  /\ NoRun \in Run /\ ~NoRun.local
           /\ \A f, a \in BOOLEAN :
                LET r == [NoRun EXCEPT !.force = f, !.asked = a]
                IN  r \in Run /\ ~r.local /\ r.asked = a
           /\ LET r == [NoRun EXCEPT !.local = TRUE, !.wait = holdUntil]
              IN  r \in Run /\ r.local /\ r.wait = holdUntil
           /\ LET r == [run EXCEPT !.prev = status]
              IN  r \in Run /\ r.local = run.local /\ r.asked = run.asked /\ r.wait = run.wait
           /\ \A ok \in BOOLEAN :
                LET r == [run EXCEPT !.ok = ok]
                IN  /\ r \in Run /\ r.local = run.local /\ r.asked = run.asked /\ r.wait = run.wait
                    /\ r.ok = ok
           /\ run.local \in BOOLEAN /\ run.asked \in BOOLEAN /\ run.ok \in BOOLEAN
           /\ run.wait \in Timer /\ run.prev \in Status
<1>1. run \in Run /\ status \in Status /\ holdUntil \in Timer /\ Off \in Timer
  BY Delays DEF TypeOK, Timer, Off
<1>2. "idle" \in Status
  BY DEF Status
<1>. HIDE DEF Status, Timer
<1>3. NoRun \in Run /\ ~NoRun.local
  BY <1>1, <1>2 DEF NoRun, Run
<1>4. \A f, a \in BOOLEAN :
        LET r == [NoRun EXCEPT !.force = f, !.asked = a]
        IN  r \in Run /\ ~r.local /\ r.asked = a
  BY <1>1, <1>2 DEF NoRun, Run
<1>5. LET r == [NoRun EXCEPT !.local = TRUE, !.wait = holdUntil]
      IN  r \in Run /\ r.local /\ r.wait = holdUntil
  BY <1>1, <1>2 DEF NoRun, Run
<1>6. LET r == [run EXCEPT !.prev = status]
      IN  r \in Run /\ r.local = run.local /\ r.asked = run.asked /\ r.wait = run.wait
  BY <1>1 DEF Run
<1>7. \A ok \in BOOLEAN :
        LET r == [run EXCEPT !.ok = ok]
        IN  /\ r \in Run /\ r.local = run.local /\ r.asked = run.asked /\ r.wait = run.wait
            /\ r.ok = ok
  BY <1>1 DEF Run
<1>. QED
  BY <1>1, <1>3, <1>4, <1>5, <1>6, <1>7 DEF Run

\* What fire, fireLocal and a deferred request leave of the loop's state.
LoopOK ==
    /\ PlaceOK'
    /\ UNCHANGED <<holdUntil, cooldownUntil, errorBackoff, offlineBackoff,
                   present, refused, dirty, owed>>
    /\ fsTimer' \in Timer /\ retryTimer' \in Timer
    /\ batching' \in BOOLEAN /\ watched' \in BOOLEAN /\ notified' \in BOOLEAN

LEMMA LoopTypes ==
    ASSUME TypeOK
    PROVE  /\ \A f, a \in BOOLEAN, t \in Timer : Fire(f, a, t) => LoopOK
           /\ FireLocal => LoopOK
           /\ \A t \in Timer : Defer(t) /\ (DisarmFS \/ UNCHANGED <<fsTimer, batching>>) => LoopOK
<1>1. /\ PlaceOK /\ NumbersOK /\ FlagsOK /\ Off \in Timer /\ holdUntil \in Timer
      /\ "missing" \in Status
  BY TypeParts, Delays DEF NumbersOK, Timer, Off, Status
<1>. HIDE DEF Timer, Status
<1>2. DisarmFS => fsTimer' \in Timer /\ batching' \in BOOLEAN
  BY <1>1 DEF DisarmFS
<1>3. ASSUME Leave, UNCHANGED <<run, holdUntil, cooldownUntil, errorBackoff, offlineBackoff,
                                present, refused, dirty, owed>>
      PROVE  LoopOK
  BY <1>1, <1>2, <1>3 DEF Leave, LoopOK, PlaceOK
<1>4. ASSUME NEW f \in BOOLEAN, NEW a \in BOOLEAN, NEW t \in Timer, Fire(f, a, t) PROVE LoopOK
  <2>. DEFINE r == [NoRun EXCEPT !.force = f, !.asked = a]
  <2>1. r \in Run
    BY RunTypes
  <2>2. \/ pc' = "gone" /\ Leave /\ UNCHANGED run
        \/ /\ pc' \in {pc, "lock"} /\ run' \in {run, r} /\ retryTimer' \in {t, Off} /\ DisarmFS
           /\ UNCHANGED <<status, watched, notified>>
    BY <1>4 DEF Fire, Leave
  <2>3. UNCHANGED <<holdUntil, cooldownUntil, errorBackoff, offlineBackoff,
                    present, refused, dirty, owed>>
    BY <1>4 DEF Fire
  <2>. HIDE DEF r
  <2>. QED
    BY <1>1, <1>2, <1>3, <2>1, <2>2, <2>3 DEF LoopOK, PlaceOK, FlagsOK
<1>5. ASSUME FireLocal PROVE LoopOK
  <2>. DEFINE r == [NoRun EXCEPT !.local = TRUE, !.wait = holdUntil]
  <2>1. r \in Run
    BY RunTypes
  <2>2. \/ pc' = "gone" /\ Leave /\ UNCHANGED run
        \/ /\ pc' \in {pc, "lock"} /\ run' \in {run, r} /\ DisarmFS
           /\ retryTimer' \in {retryTimer, holdUntil}
           /\ UNCHANGED <<status, watched, notified>>
    BY <1>5 DEF FireLocal, Leave, ArmRetry
  <2>3. UNCHANGED <<holdUntil, cooldownUntil, errorBackoff, offlineBackoff,
                    present, refused, dirty, owed>>
    BY <1>5 DEF FireLocal
  <2>. HIDE DEF r
  <2>. QED
    BY <1>1, <1>2, <1>3, <2>1, <2>2, <2>3 DEF LoopOK, PlaceOK, FlagsOK, NumbersOK
<1>6. ASSUME NEW t \in Timer, Defer(t), DisarmFS \/ UNCHANGED <<fsTimer, batching>> PROVE LoopOK
  BY <1>1, <1>2, <1>6 DEF Defer, repo, LoopOK, PlaceOK, FlagsOK, NumbersOK
<1>. QED
  BY <1>4, <1>5, <1>6

\* The select statement.
LEMMA SelectTypes ==
    ASSUME TypeOK, Loop
    PROVE  TypeOK'
<1>1. /\ PlaceOK /\ NumbersOK /\ FlagsOK /\ Off \in Timer /\ retryTimer \in Timer
      /\ "missing" \in Status
  BY TypeParts, Delays DEF NumbersOK, Timer, Off, Status
<1>2. ASSUME LoopOK, UNCHANGED <<trigger, kicking, paused, cancelled, locked>>,
             immediate' \in BOOLEAN, forcePending' \in BOOLEAN
      PROVE  TypeOK'
  BY <1>1, <1>2, TypePartsNext DEF LoopOK, NumbersOK, FlagsOK
<1>3. ASSUME OnImmediate PROVE TypeOK'
  BY <1>1, <1>2, <1>3, LoopTypes DEF OnImmediate, FlagsOK
<1>4. ASSUME OnFSTimer \/ OnRetryTimer \/ OnPoll PROVE TypeOK'
  <2>1. LoopOK
    BY <1>1, <1>4, LoopTypes DEF OnFSTimer, OnRetryTimer, OnPoll
  <2>. QED
    BY <1>1, <1>2, <1>4, <2>1 DEF OnFSTimer, OnRetryTimer, OnPoll, inputs, FlagsOK
<1>5. ASSUME OnTrigger PROVE TypeOK'
  <2>1. PlaceOK'
    BY <1>1, <1>5 DEF OnTrigger, Leave, PlaceOK
  <2>2. NumbersOK'
    BY <1>1, <1>5, Delays DEF OnTrigger, OnFileEvent, Leave, DisarmFS, NumbersOK, Timer, Off
  <2>3. FlagsOK'
    <3>1. /\ batching' \in {batching, TRUE, FALSE} /\ watched' \in {watched, FALSE}
          /\ notified' \in {notified, FALSE}
      BY <1>5 DEF OnTrigger, OnFileEvent, Leave, DisarmFS
    <3>2. UNCHANGED <<immediate, kicking, forcePending, paused, cancelled, locked,
                      present, refused, dirty, owed>>
      BY <1>5 DEF OnTrigger
    <3>3. batching' \in BOOLEAN /\ watched' \in BOOLEAN /\ notified' \in BOOLEAN
      BY <1>1, <3>1 DEF FlagsOK
    <3>4. immediate' \in BOOLEAN /\ kicking' \in BOOLEAN
      BY <1>1, <3>2 DEF FlagsOK
    <3>. QED
      BY <1>1, <3>2, <3>3, <3>4, FlagsKept
  <2>. QED
    BY <2>1, <2>2, <2>3, TypePartsNext
<1>6. ASSUME OnExist \/ OnDone PROVE TypeOK'
  <2>1. PlaceOK'
    BY <1>1, <1>6 DEF OnExist, OnDone, Leave, PlaceOK
  <2>2. NumbersOK'
    BY <1>1, <1>6 DEF OnExist, OnDone, inputs, Leave, DisarmFS, NumbersOK
  <2>3. FlagsOK'
    <3>1. batching' = FALSE /\ watched' = FALSE /\ notified' = FALSE
      BY <1>6 DEF OnExist, OnDone, Leave, DisarmFS
    <3>2. UNCHANGED <<immediate, kicking, forcePending, paused, cancelled, locked,
                      present, refused, dirty, owed>>
      BY <1>6 DEF OnExist, OnDone, inputs
    <3>3. immediate' \in BOOLEAN /\ kicking' \in BOOLEAN
      BY <1>1, <3>2 DEF FlagsOK
    <3>. QED
      BY <1>1, <3>1, <3>2, <3>3, FlagsKept
  <2>. QED
    BY <2>1, <2>2, <2>3, TypePartsNext
<1>. QED
  BY <1>3, <1>4, <1>5, <1>6 DEF Loop

\* The run.
LEMMA ReturnsTypes ==
    ASSUME TypeOK, NEW ok \in BOOLEAN, NEW s \in Status, Returns(ok, s)
    PROVE  PlaceOK'
<1>1. status \in Status /\ run.prev \in Status /\ run' \in Run
  BY RunTypes DEF TypeOK, Returns
<1>. HIDE DEF Status
<1>. QED
  BY <1>1 DEF Returns, PlaceOK

LEMMA BackoffTypes ==
    ASSUME TypeOK, Succeeded \/ WentOffline \/ BackedOff
    PROVE  /\ holdUntil' \in 0..MaxDelay
           /\ errorBackoff' \in ErrorBackoffMin..ErrorBackoffMax
           /\ offlineBackoff' \in OfflineBackoffMin..OfflineBackoffMax
           /\ retryTimer' \in Timer
<1>1. CASE Succeeded
  BY <1>1, Delays DEF Succeeded, TypeOK
<1>2. CASE WentOffline
  BY <1>2, Delays DEF WentOffline, ArmRetry, Shortest, TypeOK, Timer, Off
<1>3. CASE BackedOff
  BY <1>3, Delays DEF BackedOff, Shortest, TypeOK
<1>. QED
  BY <1>1, <1>2, <1>3

LEMMA RunStepTypes ==
    ASSUME TypeOK, RunStep
    PROVE  TypeOK'
<1>1. PlaceOK /\ NumbersOK /\ FlagsOK /\ run.wait \in Timer /\ run.local \in BOOLEAN
  BY TypeParts, RunTypes
<1>2. ASSUME Acquire PROVE TypeOK'
  <2>1. PlaceOK'
    BY <1>1, <1>2, RunTypes DEF Acquire, PlaceOK
  <2>2. NumbersOK'
    BY <1>1, <1>2 DEF Acquire, ArmRetry, inputs, NumbersOK
  <2>3. FlagsOK'
    BY <1>1, <1>2 DEF Acquire, inputs, repo, FlagsOK
  <2>. QED
    BY <2>1, <2>2, <2>3, TypePartsNext
<1>3. ASSUME SyncCommits PROVE TypeOK'
  <2>1. PlaceOK'
    BY <1>1, <1>3, RunTypes DEF SyncCommits, PlaceOK, Status
  <2>2. NumbersOK'
    BY <1>1, <1>3 DEF SyncCommits, timers, inputs, NumbersOK
  <2>3. FlagsOK'
    BY <1>1, <1>3 DEF SyncCommits, timers, inputs, FlagsOK
  <2>. QED
    BY <2>1, <2>2, <2>3, TypePartsNext
<1>4. ASSUME SyncFailsEarly PROVE TypeOK'
  <2>1. PlaceOK'
    BY <1>4, ReturnsTypes DEF SyncFailsEarly, Status
  <2>2. NumbersOK'
    BY <1>1, <1>4 DEF SyncFailsEarly, timers, inputs, NumbersOK
  <2>3. FlagsOK'
    <3>1. owed' \in BOOLEAN
      BY <1>1, <1>4, Zenon DEF SyncFailsEarly, FlagsOK
    <3>2. UNCHANGED <<batching, immediate, kicking, forcePending, paused, cancelled, locked,
                      present, refused, dirty, watched, notified>>
      BY <1>4, Zenon DEF SyncFailsEarly, timers, inputs
    <3>. QED
      BY <1>1, <3>1, <3>2 DEF FlagsOK
  <2>. QED
    BY <2>1, <2>2, <2>3, TypePartsNext
<1>5. ASSUME NEW ok \in BOOLEAN, NEW s \in Status, SyncEnds(ok, s) PROVE TypeOK'
  <2>1. PlaceOK'
    BY <1>5, ReturnsTypes DEF SyncEnds
  <2>2. NumbersOK'
    BY <1>1, <1>5 DEF SyncEnds, timers, inputs, NumbersOK
  <2>3. FlagsOK'
    BY <1>1, <1>5 DEF SyncEnds, timers, inputs, FlagsOK
  <2>. QED
    BY <2>1, <2>2, <2>3, TypePartsNext
<1>6. Drain => fsTimer' \in Timer /\ trigger' \in 0..TriggerCap /\ batching' \in BOOLEAN
  <2>1. Drain => fsTimer' \in Timer /\ trigger' \in 0..TriggerCap
    BY <1>1, Delays DEF Drain, OnFileEvent, NumbersOK, Timer, Off
  <2>2. Drain => batching' \in BOOLEAN
    BY <1>1 DEF Drain, OnFileEvent, FlagsOK
  <2>. QED
    BY <2>1, <2>2
<1>7. ASSUME SettleFull PROVE TypeOK'
  <2>1. PlaceOK'
    BY <1>1, <1>7, RunTypes DEF SettleFull, Leave, PlaceOK, Status
  <2>2. CASE Succeeded \/ WentOffline \/ BackedOff
    <3>1. Drain /\ UNCHANGED <<watched, notified>>
      BY <1>7, <2>2 DEF SettleFull, Succeeded, WentOffline, BackedOff
    <3>2. NumbersOK'
      BY <1>1, <1>6, <1>7, <2>2, <3>1, BackoffTypes, Delays DEF SettleFull, NumbersOK
    <3>3. FlagsOK'
      BY <1>1, <1>6, <1>7, <3>1 DEF SettleFull, FlagsOK
    <3>. QED
      BY <2>1, <3>2, <3>3, TypePartsNext
  <2>3. CASE ~(Succeeded \/ WentOffline \/ BackedOff)
    <3>1. Leave /\ trigger' = 0 /\ UNCHANGED <<holdUntil, errorBackoff, offlineBackoff>>
      BY <1>7, <2>3 DEF SettleFull
    <3>2. NumbersOK'
      BY <1>1, <1>7, <3>1, Delays DEF SettleFull, Leave, DisarmFS, NumbersOK, Timer, Off
    <3>3. FlagsOK'
      BY <1>1, <1>7, <3>1 DEF SettleFull, Leave, DisarmFS, FlagsOK
    <3>. QED
      BY <2>1, <3>2, <3>3, TypePartsNext
  <2>. QED
    BY <2>2, <2>3
<1>8. ASSUME SettleLocal PROVE TypeOK'
  <2>1. PlaceOK'
    BY <1>1, <1>8, RunTypes DEF SettleLocal, PlaceOK
  <2>2. NumbersOK'
    BY <1>1, <1>6, <1>8, Delays DEF SettleLocal, ArmRetry, NumbersOK
  <2>3. FlagsOK'
    BY <1>1, <1>6, <1>8 DEF SettleLocal, repo, FlagsOK
  <2>. QED
    BY <2>1, <2>2, <2>3, TypePartsNext
<1>9. ASSUME SettleCancelled PROVE TypeOK'
  <2>1. PlaceOK'
    BY <1>1, <1>9, RunTypes DEF SettleCancelled, PlaceOK
  <2>2. NumbersOK'
    BY <1>1, <1>9, Delays DEF SettleCancelled, ArmRetry, inputs, NumbersOK
  <2>3. FlagsOK'
    BY <1>1, <1>9 DEF SettleCancelled, inputs, repo, FlagsOK
  <2>. QED
    BY <2>1, <2>2, <2>3, TypePartsNext
<1>10. {"ok", "error", "offline", "preflight"} \subseteq Status
  BY DEF Status
<1>. QED
  BY <1>2, <1>3, <1>4, <1>5, <1>7, <1>8, <1>9, <1>10 DEF RunStep

\* The goroutines beside the loop, the user and the daemon's commands.
LEMMA OtherTypes ==
    ASSUME TypeOK, Reappear \/ WatchStarts \/ FileEvent \/ Tick \/ Kick \/ AbortRebaseEnds \/ Environment
    PROVE  TypeOK'
<1>1. PlaceOK /\ NumbersOK /\ FlagsOK
  BY TypeParts
<1>2. ASSUME Reappear PROVE TypeOK'
  <2>1. PlaceOK'
    BY <1>1, <1>2, RunTypes DEF Reappear, PlaceOK, Status
  <2>2. NumbersOK'
    BY <1>1, <1>2, Delays DEF Reappear, DisarmFS, NumbersOK, Timer, Off
  <2>3. FlagsOK'
    <3>1. batching' = FALSE
      BY <1>2 DEF Reappear, DisarmFS
    <3>2. UNCHANGED <<immediate, kicking, forcePending, paused, cancelled, locked,
                      present, refused, dirty, watched, notified, owed>>
      BY <1>2 DEF Reappear, repo
    <3>3. immediate' \in BOOLEAN /\ kicking' \in BOOLEAN
      BY <1>1, <3>2 DEF FlagsOK
    <3>4. watched' \in BOOLEAN /\ notified' \in BOOLEAN
      BY <1>1, <3>2 DEF FlagsOK
    <3>. QED
      BY <1>1, <3>1, <3>2, <3>3, <3>4, FlagsKept
  <2>. QED
    BY <2>1, <2>2, <2>3, TypePartsNext
<1>3. ASSUME FileEvent PROVE TypeOK'
  <2>1. PlaceOK'
    BY <1>1, <1>3 DEF FileEvent, PlaceOK
  <2>2. NumbersOK'
    BY <1>1, <1>3, Delays DEF FileEvent, timers, Shortest, NumbersOK
  <2>3. FlagsOK'
    <3>1. /\ UNCHANGED <<batching, immediate, kicking, forcePending, paused, cancelled, locked,
                         present, refused, dirty, watched>>
          /\ notified' \in BOOLEAN /\ owed' \in BOOLEAN
      BY <1>1, <1>3, Zenon DEF FileEvent, timers, FlagsOK
    <3>. QED
      BY <1>1, <3>1 DEF FlagsOK
  <2>. QED
    BY <2>1, <2>2, <2>3, TypePartsNext
<1>4. ASSUME Tick PROVE TypeOK'
  <2>1. PlaceOK'
    BY <1>1, <1>4 DEF Tick, PlaceOK
  <2>2. NumbersOK'
    <3>1. UNCHANGED <<errorBackoff, offlineBackoff, trigger>>
      BY <1>4 DEF Tick, inputs
    <3>2. /\ holdUntil' = IF holdUntil > 0 THEN holdUntil - 1 ELSE holdUntil
          /\ cooldownUntil' = IF cooldownUntil > 0 THEN cooldownUntil - 1 ELSE cooldownUntil
          /\ fsTimer' = IF fsTimer > 0 THEN fsTimer - 1 ELSE fsTimer
          /\ retryTimer' = IF retryTimer > 0 THEN retryTimer - 1 ELSE retryTimer
      BY <1>4 DEF Tick
    <3>. QED
      BY <1>1, <3>1, <3>2, Delays DEF NumbersOK, Timer, Off
  <2>3. FlagsOK'
    BY <1>1, <1>4 DEF Tick, inputs, repo, FlagsOK
  <2>. QED
    BY <2>1, <2>2, <2>3, TypePartsNext
\* The rest moves neither the loop nor its timers.
<1>5. ASSUME UNCHANGED <<pc, run, timers, trigger>>, status' \in Status, FlagsOK' PROVE TypeOK'
  <2>1. PlaceOK'
    BY <1>1, <1>5 DEF PlaceOK
  <2>2. NumbersOK'
    BY <1>1, <1>5 DEF NumbersOK, timers
  <2>. QED
    BY <1>5, <2>1, <2>2, TypePartsNext
<1>6. ASSUME WatchStarts PROVE TypeOK'
  <2>1. FlagsOK'
    BY <1>1, <1>6 DEF WatchStarts, timers, inputs, FlagsOK
  <2>. QED
    BY <1>1, <1>5, <1>6, <2>1 DEF WatchStarts, inputs, PlaceOK
<1>7. ASSUME Kick PROVE TypeOK'
  <2>1. FlagsOK'
    <3>1. kicking' = FALSE /\ immediate' = TRUE
      BY <1>7 DEF Kick
    <3>2. UNCHANGED <<batching, forcePending, paused, cancelled, locked,
                      present, refused, dirty, watched, notified, owed>>
      BY <1>7 DEF Kick, timers, repo
    <3>3. batching' \in BOOLEAN /\ watched' \in BOOLEAN /\ notified' \in BOOLEAN
      BY <1>1, <3>2 DEF FlagsOK
    <3>. QED
      BY <1>1, <3>1, <3>2, <3>3, FlagsKept
  <2>. QED
    BY <1>1, <1>5, <1>7, <2>1 DEF Kick, PlaceOK
<1>8. ASSUME AbortRebaseEnds PROVE TypeOK'
  <2>1. FlagsOK'
    <3>1. immediate' \in BOOLEAN /\ refused' \in BOOLEAN /\ locked' \in BOOLEAN
      BY <1>1, <1>8, Zenon DEF AbortRebaseEnds, FlagsOK
    <3>2. UNCHANGED <<batching, kicking, forcePending, paused, cancelled,
                      present, dirty, watched, notified, owed>>
      BY <1>8, Zenon DEF AbortRebaseEnds, timers
    <3>. QED
      BY <1>1, <3>1, <3>2 DEF FlagsOK
  <2>2. status' \in Status
    BY <1>1, <1>8 DEF AbortRebaseEnds, PlaceOK, Status
  <2>. QED
    BY <1>5, <1>8, <2>1, <2>2 DEF AbortRebaseEnds
<1>9. ASSUME Edit \/ MoveFolder \/ ToggleRefusal PROVE TypeOK'
  <2>1. FlagsOK'
    <3>1. /\ present' \in BOOLEAN /\ refused' \in BOOLEAN /\ dirty' \in BOOLEAN
          /\ notified' \in BOOLEAN
      BY <1>1, <1>9, Zenon DEF Edit, MoveFolder, ToggleRefusal, FlagsOK
    <3>2. UNCHANGED <<batching, immediate, kicking, forcePending, paused, cancelled, locked,
                      watched, owed>>
      BY <1>9, Zenon DEF Edit, MoveFolder, ToggleRefusal, timers, inputs
    <3>. QED
      BY <1>1, <3>1, <3>2 DEF FlagsOK
  <2>. QED
    BY <1>1, <1>5, <1>9, <2>1 DEF Edit, MoveFolder, ToggleRefusal, inputs, PlaceOK
<1>10. ASSUME NEW force \in BOOLEAN, SyncNow(force) PROVE TypeOK'
  <2>1. FlagsOK'
    BY <1>1, <1>10 DEF SyncNow, timers, repo, FlagsOK
  <2>. QED
    BY <1>1, <1>5, <1>10, <2>1 DEF SyncNow, PlaceOK
<1>11. ASSUME SetPaused PROVE TypeOK'
  <2>1. FlagsOK'
    <3>1. paused' \in BOOLEAN /\ immediate' \in BOOLEAN
      BY <1>1, <1>11, Zenon DEF SetPaused, FlagsOK
    <3>2. UNCHANGED <<batching, kicking, forcePending, cancelled, locked, present, refused, dirty,
                      watched, notified, owed>>
      BY <1>11, Zenon DEF SetPaused, timers, repo
    <3>. QED
      BY <1>1, <3>1, <3>2 DEF FlagsOK
  <2>2. status' \in Status
    BY <1>1, <1>11 DEF SetPaused, PlaceOK, Status
  <2>. QED
    BY <1>5, <1>11, <2>1, <2>2 DEF SetPaused
<1>12. ASSUME AbortRebase \/ Cancel PROVE TypeOK'
  <2>1. FlagsOK'
    <3>1. locked' \in BOOLEAN /\ cancelled' \in BOOLEAN
      BY <1>1, <1>12, Zenon DEF AbortRebase, Cancel, FlagsOK
    <3>2. UNCHANGED <<batching, immediate, kicking, forcePending, paused, present, refused, dirty,
                      watched, notified, owed>>
      BY <1>12, Zenon DEF AbortRebase, Cancel, timers, repo
    <3>. QED
      BY <1>1, <3>1, <3>2 DEF FlagsOK
  <2>. QED
    BY <1>1, <1>5, <1>12, <2>1 DEF AbortRebase, Cancel, PlaceOK
<1>. QED
  BY <1>2, <1>3, <1>4, <1>6, <1>7, <1>8, <1>9, <1>10, <1>11, <1>12 DEF Environment

LEMMA NextTypes == TypeOK /\ [Next]_vars => TypeOK'
<1>1. ASSUME TypeOK, Next PROVE TypeOK'
  BY <1>1, SelectTypes, RunStepTypes, OtherTypes DEF Next
<1>2. ASSUME TypeOK, UNCHANGED vars PROVE TypeOK'
  BY <1>2 DEF vars, timers, inputs, repo, TypeOK
<1>. QED
  BY <1>1, <1>2

\* The loop, its run, its timers and its backoffs stay within their bounds: no
\* backoff grows past its maximum, however many failures follow each other.
THEOREM TypeHolds == Spec => []TypeOK
BY InitTypes, NextTypes, PTL DEF Spec

-----------------------------------------------------------------------------
(* What a run in progress knows. *)

\* A full run has cleared the retry timer, and a local one carries the wait it
\* will arm it with; a full run nobody asked for began when no backoff ran; a
\* run that ended well is not shown as offline; and only a watch that is set up
\* has events on their way.
RunInv ==
    /\ pc = "network" => ~run.local
    /\ run.local => run.wait # Off
    /\ pc \in {"lock", "begin", "network", "settle"} /\ ~run.local => retryTimer = Off
    /\ pc = "settle" /\ ~run.local /\ run.ok /\ ~cancelled => status # "offline"
    /\ pc = "lock" /\ ~run.local /\ ~run.asked => holdUntil = 0
    /\ notified => watched

LEMMA InitRun == Init => RunInv
BY DEF Init, RunInv, NoRun

LEMMA FireRun ==
    ASSUME TypeOK, RunInv, NEW force \in BOOLEAN, NEW asked \in BOOLEAN, NEW retry \in Timer,
           pc = "select", asked \/ holdUntil = 0, Fire(force, asked, retry)
    PROVE  RunInv'
<1>. DEFINE r == [NoRun EXCEPT !.force = force, !.asked = asked]
<1>1. r \in Run /\ ~r.local /\ r.asked = asked
  BY RunTypes
<1>2. holdUntil' = holdUntil
  BY DEF Fire
<1>3. CASE paused
  BY <1>3, <1>2 DEF Fire, RunInv
<1>4. CASE ~paused /\ ~present
  BY <1>4, <1>2 DEF Fire, Leave, RunInv
<1>5. CASE ~paused /\ present
  <2>1. /\ pc' = "lock" /\ run' = r /\ retryTimer' = Off
        /\ watched' = watched /\ notified' = notified
    BY <1>5 DEF Fire
  <2>. HIDE DEF r
  <2>. QED
    BY <1>1, <1>2, <2>1 DEF RunInv
<1>. QED
  BY <1>3, <1>4, <1>5

LEMMA FireLocalRun ==
    ASSUME TypeOK, RunInv, pc = "select", FireLocal
    PROVE  RunInv'
<1>. DEFINE r == [NoRun EXCEPT !.local = TRUE, !.wait = holdUntil]
<1>0. holdUntil # Off
  BY Delays DEF TypeOK, Off
<1>1. r \in Run /\ r.local /\ r.wait = holdUntil /\ holdUntil # Off
  BY <1>0, RunTypes
<1>2. CASE paused
  BY <1>2 DEF FireLocal, RunInv
<1>3. CASE ~paused /\ ~present
  BY <1>3 DEF FireLocal, Leave, RunInv
<1>4. CASE ~paused /\ present
  <2>1. pc' = "lock" /\ run' = r /\ watched' = watched /\ notified' = notified
    BY <1>4 DEF FireLocal
  <2>. HIDE DEF r
  <2>. QED
    BY <1>1, <2>1 DEF RunInv
<1>. QED
  BY <1>2, <1>3, <1>4

LEMMA LoopRun ==
    ASSUME TypeOK, RunInv, Loop
    PROVE  RunInv'
<1>1. retryTimer \in Timer /\ Off \in Timer /\ forcePending \in BOOLEAN /\ holdUntil \in Nat
  BY Delays DEF TypeOK, Timer, Off
<1>. HIDE DEF Timer
<1>2. ASSUME NEW t, pc = "select", Defer(t), DisarmFS \/ UNCHANGED <<fsTimer, batching>> PROVE RunInv'
  BY <1>2 DEF Defer, repo, RunInv
<1>3. CASE OnImmediate
  BY <1>1, <1>3, FireRun DEF OnImmediate
<1>4. CASE OnTrigger
  BY <1>4 DEF OnTrigger, Leave, RunInv
<1>5. CASE OnFSTimer
  BY <1>1, <1>2, <1>5, FireRun, FireLocalRun DEF OnFSTimer
<1>6. CASE OnRetryTimer \/ OnPoll
  BY <1>1, <1>2, <1>6, FireRun DEF OnRetryTimer, OnPoll
<1>7. CASE OnExist \/ OnDone
  BY <1>7 DEF OnExist, OnDone, Leave, RunInv
<1>. QED
  BY <1>3, <1>4, <1>5, <1>6, <1>7 DEF Loop

LEMMA RunStepRun ==
    ASSUME TypeOK, RunInv, RunStep
    PROVE  RunInv'
<1>1. /\ ~NoRun.local
      /\ run.local \in BOOLEAN /\ run.asked \in BOOLEAN /\ run.ok \in BOOLEAN
  BY RunTypes
<1>2. CASE Acquire
  <2>1. notified' = notified /\ watched' = watched
    BY <1>2 DEF Acquire, repo
  <2>2. CASE cancelled
    BY <1>1, <1>2, <2>1, <2>2 DEF Acquire, RunInv
  <2>3. CASE ~cancelled
    <3>. DEFINE r == [run EXCEPT !.prev = status]
    <3>1. r.local = run.local /\ r.wait = run.wait
      BY RunTypes
    <3>2. pc = "lock" /\ pc' = "begin" /\ run' = r /\ retryTimer' = retryTimer
      BY <1>2, <2>3 DEF Acquire
    <3>. HIDE DEF r
    <3>. QED
      BY <2>1, <3>1, <3>2 DEF RunInv
  <2>. QED
    BY <2>2, <2>3
<1>3. CASE SyncCommits
  <2>. DEFINE r == [run EXCEPT !.ok = run.local]
  <2>1. r.local = run.local /\ r.wait = run.wait /\ r.ok = run.local
    BY <1>1, RunTypes
  <2>2. /\ pc = "begin" /\ pc' = IF run.local THEN "settle" ELSE "network"
        /\ run' = r /\ retryTimer' = retryTimer /\ notified' = notified /\ watched' = watched
    BY <1>3 DEF SyncCommits, timers
  <2>. HIDE DEF r
  <2>. QED
    BY <1>1, <2>1, <2>2 DEF RunInv
<1>4. ASSUME pc \in {"begin", "network"}, pc' = "settle",
             retryTimer' = retryTimer, notified' => watched',
             NEW ok \in BOOLEAN, run' = [run EXCEPT !.ok = ok],
             ~run.local /\ run'.ok => status' # "offline"
      PROVE  RunInv'
  <2>1. run'.local = run.local /\ run'.wait = run.wait
    BY <1>4, RunTypes
  <2>. QED
    BY <1>1, <1>4, <2>1 DEF RunInv
<1>5. ASSUME pc \in {"begin", "network"}, pc' = "settle", run' = [run EXCEPT !.ok = FALSE],
             retryTimer' = retryTimer, notified' => watched'
      PROVE  RunInv'
  <2>1. run'.ok = FALSE
    BY <1>5, RunTypes
  <2>. QED
    BY <1>4, <1>5, <2>1
<1>6. CASE SyncFailsEarly
  <2>1. pc = "begin" /\ pc' = "settle" /\ run' = [run EXCEPT !.ok = FALSE]
    BY <1>6 DEF SyncFailsEarly, Returns
  <2>2. retryTimer' = retryTimer
    BY <1>6 DEF SyncFailsEarly, timers
  <2>3. notified' => watched'
    BY <1>6 DEF SyncFailsEarly, RunInv
  <2>. QED
    BY <1>5, <2>1, <2>2, <2>3
<1>7. ASSUME NEW ok, NEW s, SyncEnds(ok, s)
      PROVE  /\ pc = "network" /\ pc' = "settle" /\ run' = [run EXCEPT !.ok = ok]
             /\ retryTimer' = retryTimer /\ (notified' => watched')
  BY <1>7 DEF SyncEnds, Returns, timers, RunInv
<1>8. CASE \E s \in {"error", "offline", "preflight"} : SyncEnds(FALSE, s)
  BY <1>5, <1>7, <1>8
<1>9. CASE SyncEnds(TRUE, "ok")
  <2>1. ~run.local => status' = "ok"
    BY <1>9 DEF SyncEnds, Returns
  <2>. QED
    BY <1>4, <1>7, <1>9, <2>1
<1>10. CASE SettleFull \/ SettleLocal \/ SettleCancelled
  <2>1. run' = NoRun /\ pc' \in {"select", "gone"}
    BY <1>10 DEF SettleFull, SettleLocal, SettleCancelled, Leave
  <2>2. notified' => watched'
    BY <1>10 DEF SettleFull, SettleLocal, SettleCancelled, Leave, repo, RunInv
  <2>. QED
    BY <1>1, <2>1, <2>2 DEF RunInv
<1>. QED
  BY <1>2, <1>3, <1>6, <1>8, <1>9, <1>10 DEF RunStep

\* Nothing outside the loop touches the run, arms its retry or extends a hold.
LEMMA OtherRun ==
    ASSUME TypeOK, RunInv,
           Reappear \/ WatchStarts \/ FileEvent \/ Tick \/ Kick \/ AbortRebaseEnds \/ Environment
    PROVE  RunInv'
<1>1. CASE Reappear
  BY <1>1, RunTypes DEF Reappear, repo, RunInv
<1>2. CASE Tick
  <2>1. /\ holdUntil = 0 => holdUntil' = 0
        /\ retryTimer = Off => retryTimer' = Off
    BY <1>2 DEF Tick, Off
  <2>2. UNCHANGED <<pc, run, cancelled, status, notified, watched>>
    BY <1>2 DEF Tick, inputs, repo
  <2>. QED
    BY <2>1, <2>2 DEF RunInv
<1>3. ASSUME UNCHANGED <<pc, run, timers>>, cancelled => cancelled',
             status' # status => status' # "offline", notified' => watched'
      PROVE  RunInv'
  BY <1>3 DEF RunInv, timers
<1>4. CASE WatchStarts \/ FileEvent \/ Kick
  BY <1>3, <1>4 DEF WatchStarts, FileEvent, Kick, inputs, repo, RunInv
<1>5. CASE AbortRebaseEnds
  BY <1>3, <1>5 DEF AbortRebaseEnds, RunInv
<1>6. CASE Edit \/ MoveFolder \/ ToggleRefusal
  <2>1. notified' => watched'
    BY <1>6, Zenon DEF Edit, MoveFolder, ToggleRefusal, RunInv
  <2>. QED
    BY <1>3, <1>6, <2>1 DEF Edit, MoveFolder, ToggleRefusal, inputs
<1>7. CASE \E force \in BOOLEAN : SyncNow(force)
  BY <1>3, <1>7 DEF SyncNow, repo, RunInv
<1>8. CASE SetPaused
  BY <1>3, <1>8 DEF SetPaused, repo, RunInv
<1>9. CASE AbortRebase \/ Cancel
  BY <1>3, <1>9 DEF AbortRebase, Cancel, repo, RunInv
<1>. QED
  BY <1>1, <1>2, <1>4, <1>5, <1>6, <1>7, <1>8, <1>9 DEF Environment

LEMMA NextRun == TypeOK /\ RunInv /\ [Next]_vars => RunInv'
<1>1. ASSUME TypeOK, RunInv, Next PROVE RunInv'
  BY <1>1, LoopRun, RunStepRun, OtherRun DEF Next
<1>2. ASSUME RunInv, UNCHANGED vars PROVE RunInv'
  BY <1>2 DEF vars, timers, inputs, repo, RunInv
<1>. QED
  BY <1>1, <1>2

LEMMA RunHolds == Spec => [](TypeOK /\ RunInv)
BY InitTypes, InitRun, NextTypes, NextRun, PTL DEF Spec

\* The backoff of a failure runs out before the repository is synced again by
\* itself: a run that goes past SyncMu into AutoSyncCtx while the hold is on
\* (src/common/watch.go, request) is local, or somebody asked for it.
THEOREM HoldHolds == Spec => HoldHonoured
<1>. DEFINE Honours == (pc = "lock" /\ pc' = "begin" /\ ~run.local /\ ~run.asked) => holdUntil = 0
<1>1. RunInv => Honours
  BY DEF RunInv
<1>. QED
  BY <1>1, RunHolds, PTL DEF HoldHonoured

-----------------------------------------------------------------------------
(* The retry of a repository that is offline, and the edits on their way. *)

\* What the loop's helpers leave behind, as far as both invariants look: a
\* fire that does not stay in the loop, and an armed retry.
LEMMA FireEnds ==
    ASSUME NEW force, NEW asked, NEW retry, Fire(force, asked, retry), ~paused
    PROVE  pc' \in {"lock", "gone"}
BY DEF Fire, Leave

LEMMA FireLocalEnds ==
    ASSUME FireLocal, ~paused
    PROVE  pc' \in {"lock", "gone"}
BY DEF FireLocal, Leave

LEMMA DeferArms ==
    ASSUME TypeOK, NEW retry, Defer(retry)
    PROVE  retryTimer' # Off /\ UNCHANGED <<pc, holdUntil, status, repo>>
BY Delays DEF Defer, TypeOK, Off

LEMMA TimersKeep ==
    ASSUME TypeOK, Tick
    PROVE  /\ holdUntil = 0 => holdUntil' = 0
           /\ fsTimer # Off => fsTimer' # Off
           /\ retryTimer # Off => retryTimer' # Off
<1>1. /\ holdUntil' = IF holdUntil > 0 THEN holdUntil - 1 ELSE holdUntil
      /\ fsTimer' = IF fsTimer > 0 THEN fsTimer - 1 ELSE fsTimer
      /\ retryTimer' = IF retryTimer > 0 THEN retryTimer - 1 ELSE retryTimer
  BY DEF Tick
<1>. QED
  BY <1>1, Delays DEF TypeOK, Timer, Off

LEMMA OfflineLoop ==
    ASSUME TypeOK, OfflineRetried, Loop
    PROVE  OfflineRetried'
<1>. SUFFICES ASSUME pc' = "select", status' = "offline", ~paused', ~cancelled'
              PROVE  retryTimer' # Off \/ immediate'
  BY DEF OfflineRetried
<1>1. CASE OnImmediate
  BY <1>1, FireEnds DEF OnImmediate
<1>2. CASE OnTrigger
  BY <1>2 DEF OnTrigger, Leave, OfflineRetried
<1>3. CASE OnFSTimer \/ OnRetryTimer \/ OnPoll
  <2>1. ~paused
    BY <1>3 DEF OnFSTimer, OnRetryTimer, OnPoll, inputs
  <2>2. CASE \E force, asked, retry : Fire(force, asked, retry)
    BY <2>1, <2>2, FireEnds
  <2>3. CASE FireLocal
    BY <2>1, <2>3, FireLocalEnds
  <2>4. CASE \E retry : Defer(retry)
    BY <2>4, DeferArms
  <2>. QED
    BY <1>3, <2>2, <2>3, <2>4 DEF OnFSTimer, OnRetryTimer, OnPoll
<1>4. CASE OnExist \/ OnDone
  BY <1>4 DEF OnExist, OnDone, Leave
<1>. QED
  BY <1>1, <1>2, <1>3, <1>4 DEF Loop

LEMMA OfflineRunStep ==
    ASSUME TypeOK, RunInv, OfflineRetried, RunStep
    PROVE  OfflineRetried'
<1>. SUFFICES ASSUME pc' = "select", status' = "offline", ~paused', ~cancelled'
              PROVE  retryTimer' # Off \/ immediate'
  BY DEF OfflineRetried
<1>1. CASE Acquire \/ SettleCancelled
  BY <1>1 DEF Acquire, SettleCancelled, inputs
<1>2. CASE SyncCommits \/ SyncFailsEarly \/ \E ok, s : SyncEnds(ok, s)
  BY <1>2 DEF SyncCommits, SyncFailsEarly, SyncEnds, Returns
<1>3. CASE SettleFull
  <2>1. pc = "settle" /\ ~run.local /\ ~cancelled
    BY <1>3 DEF SettleFull
  <2>2. status' = status /\ (Succeeded \/ WentOffline \/ BackedOff)
    BY <1>3 DEF SettleFull, Leave
  <2>3. CASE Succeeded
    BY <2>1, <2>2, <2>3 DEF Succeeded, RunInv
  <2>4. CASE WentOffline
    BY <2>4, Delays DEF WentOffline, ArmRetry, TypeOK, Off
  <2>5. CASE BackedOff
    BY <2>2, <2>5 DEF BackedOff
  <2>. QED
    BY <2>2, <2>3, <2>4, <2>5
<1>4. CASE SettleLocal
  BY <1>4 DEF SettleLocal, ArmRetry, RunInv
<1>. QED
  BY <1>1, <1>2, <1>3, <1>4 DEF RunStep

LEMMA OfflineOther ==
    ASSUME TypeOK, OfflineRetried,
           Reappear \/ WatchStarts \/ FileEvent \/ Tick \/ Kick \/ AbortRebaseEnds \/ Environment
    PROVE  OfflineRetried'
<1>. SUFFICES ASSUME pc' = "select", status' = "offline", ~paused', ~cancelled'
              PROVE  retryTimer' # Off \/ immediate'
  BY DEF OfflineRetried
<1>1. CASE Reappear
  BY <1>1 DEF Reappear, Off
<1>2. CASE Tick
  BY <1>2, TimersKeep DEF Tick, inputs, OfflineRetried
<1>3. CASE WatchStarts \/ FileEvent \/ Edit \/ MoveFolder \/ ToggleRefusal
  BY <1>3 DEF WatchStarts, FileEvent, Edit, MoveFolder, ToggleRefusal, timers, inputs, OfflineRetried
<1>4. CASE Kick
  BY <1>4 DEF Kick
<1>5. CASE AbortRebaseEnds
  <2>1. status = "offline" /\ pc = "select" /\ ~paused /\ ~cancelled /\ retryTimer' = retryTimer
    BY <1>5 DEF AbortRebaseEnds, timers
  <2>2. immediate => immediate'
    BY <1>5, Zenon DEF AbortRebaseEnds
  <2>. QED
    BY <2>1, <2>2 DEF OfflineRetried
<1>6. CASE \E force \in BOOLEAN : SyncNow(force)
  BY <1>6 DEF SyncNow, timers, OfflineRetried
<1>7. CASE SetPaused
  BY <1>7, Zenon DEF SetPaused
<1>8. CASE AbortRebase \/ Cancel
  BY <1>8 DEF AbortRebase, Cancel, timers, OfflineRetried
<1>. QED
  BY <1>1, <1>2, <1>3, <1>4, <1>5, <1>6, <1>7, <1>8 DEF Environment

LEMMA NextOffline == TypeOK /\ RunInv /\ OfflineRetried /\ [Next]_vars => OfflineRetried'
<1>1. ASSUME TypeOK, RunInv, OfflineRetried, Next PROVE OfflineRetried'
  BY <1>1, OfflineLoop, OfflineRunStep, OfflineOther DEF Next
<1>2. ASSUME OfflineRetried, UNCHANGED vars PROVE OfflineRetried'
  BY <1>2 DEF vars, timers, inputs, OfflineRetried
<1>. QED
  BY <1>1, <1>2

LEMMA InitOffline == Init => OfflineRetried
BY DEF Init, OfflineRetried

\* A repository shown as offline comes back by itself: fire arms the retry with
\* the backoff (src/common/watch.go), and no file event, pause, aborted rebase
\* or local commit takes it away without asking for a sync.
THEOREM OfflineHolds == Spec => []OfflineRetried
BY InitOffline, NextOffline, RunHolds, PTL DEF Spec

\* EditScheduled asked of a folder that is away as well: moving the folder back
\* must find the edits it had on their way.
Owed == owed /\ ~paused /\ ~cancelled /\ pc # "gone"
Waiting == trigger > 0 \/ fsTimer # Off \/ immediate
RetryCommits == retryTimer # Off /\ (holdUntil = 0 \/ ~LocalCommitAllowed)
EditInv == Owed => Waiting \/ pc \in {"lock", "begin"} \/ RetryCommits

LEMMA InitEdit == Init => EditInv
BY DEF Init, EditInv, Owed

LEMMA EditLoop ==
    ASSUME TypeOK, EditInv, Loop
    PROVE  EditInv'
<1>. SUFFICES ASSUME Owed' PROVE Waiting' \/ pc' \in {"lock", "begin"} \/ RetryCommits'
  BY DEF EditInv
<1>1. ~paused' /\ ~cancelled' /\ pc' # "gone"
  BY DEF Owed
<1>2. CASE OnImmediate
  BY <1>1, <1>2, FireEnds DEF OnImmediate
<1>3. CASE OnTrigger
  <2>1. present /\ OnFileEvent(cooldownUntil)
    BY <1>1, <1>3 DEF OnTrigger, Leave
  <2>2. fsTimer' # Off
    BY <2>1, Delays DEF OnFileEvent, TypeOK, Off
  <2>. QED
    BY <2>2 DEF Waiting
<1>4. CASE OnFSTimer \/ OnRetryTimer \/ OnPoll
  <2>1. ~paused /\ ~cancelled /\ pc = "select" /\ immediate' = immediate /\ trigger' = trigger
    <3>1. UNCHANGED <<trigger, immediate, paused, cancelled>> /\ pc = "select"
      BY <1>4 DEF OnFSTimer, OnRetryTimer, OnPoll, inputs
    <3>. QED
      BY <1>1, <3>1, Zenon
  <2>2. CASE \E force, asked, retry : Fire(force, asked, retry)
    BY <1>1, <2>1, <2>2, FireEnds
  <2>3. CASE FireLocal
    BY <1>1, <2>1, <2>3, FireLocalEnds
  <2>4. ASSUME NEW retry, Defer(retry), ~LocalCommitAllowed PROVE RetryCommits'
    BY <2>4, DeferArms DEF RetryCommits, LocalCommitAllowed
  <2>5. ASSUME NEW retry, Defer(retry), fsTimer' = fsTimer
        PROVE  Waiting' \/ pc' \in {"lock", "begin"} \/ RetryCommits'
    <3>1. UNCHANGED <<owed, pc, holdUntil, status>> /\ retryTimer' # Off
      BY <2>5, DeferArms DEF repo
    <3>2. Owed
      BY <2>1, <3>1 DEF Owed
    <3>3. CASE Waiting
      BY <2>1, <2>5, <3>1, <3>3 DEF Waiting
    <3>4. CASE RetryCommits
      BY <3>1, <3>4 DEF RetryCommits, LocalCommitAllowed
    <3>. QED
      BY <2>1, <3>2, <3>3, <3>4 DEF EditInv
  <2>. QED
    BY <1>4, <2>2, <2>3, <2>4, <2>5 DEF OnFSTimer, OnRetryTimer, OnPoll
<1>5. CASE OnExist \/ OnDone
  BY <1>1, <1>5 DEF OnExist, OnDone, Leave, inputs
<1>. QED
  BY <1>2, <1>3, <1>4, <1>5 DEF Loop

\* The events of the Trigger channel that a run left become an armed timer.
LEMMA DrainKeeps ==
    ASSUME TypeOK, Drain, Waiting, UNCHANGED immediate
    PROVE  Waiting'
<1>1. CASE trigger > 0
  <2>1. fsTimer' # Off
    BY <1>1, Delays DEF Drain, OnFileEvent, TypeOK, Off
  <2>. QED
    BY <2>1 DEF Waiting
<1>2. CASE ~(trigger > 0)
  BY <1>2 DEF Drain, Waiting
<1>. QED
  BY <1>1, <1>2

LEMMA EditRunStep ==
    ASSUME TypeOK, RunInv, EditInv, RunStep
    PROVE  EditInv'
<1>. SUFFICES ASSUME Owed' PROVE Waiting' \/ pc' \in {"lock", "begin"} \/ RetryCommits'
  BY DEF EditInv
<1>1. owed' /\ ~paused' /\ ~cancelled' /\ pc' # "gone"
  BY DEF Owed
<1>2. CASE Acquire
  BY <1>1, <1>2 DEF Acquire, inputs
<1>3. CASE SyncCommits \/ SyncFailsEarly
  <2>1. SyncFailsEarly /\ owed' = (owed /\ trigger > 0) /\ trigger' = trigger
    BY <1>1, <1>3 DEF SyncCommits, SyncFailsEarly, inputs
  <2>2. trigger' > 0
    BY <1>1, <2>1
  <2>. QED
    BY <2>2 DEF Waiting
<1>4. CASE \E ok, s : SyncEnds(ok, s)
  <2>1. /\ pc = "network" /\ UNCHANGED <<owed, paused, cancelled>>
        /\ UNCHANGED <<trigger, fsTimer, immediate>>
    BY <1>4 DEF SyncEnds, timers, inputs, RunInv
  <2>2. Owed /\ ~RetryCommits
    BY <1>1, <2>1 DEF Owed, RetryCommits, RunInv
  <2>. QED
    BY <2>1, <2>2 DEF EditInv, Waiting
<1>5. CASE SettleFull
  <2>1. /\ pc = "settle" /\ ~run.local
        /\ UNCHANGED <<owed, paused, cancelled, immediate>>
    BY <1>5 DEF SettleFull
  <2>2. Drain
    BY <1>1, <1>5 DEF SettleFull, Leave
  <2>3. Owed /\ ~RetryCommits
    BY <1>1, <2>1 DEF Owed, RetryCommits, RunInv
  <2>4. Waiting
    BY <2>1, <2>3 DEF EditInv
  <2>. QED
    BY <2>1, <2>2, <2>4, DrainKeeps
<1>6. CASE SettleLocal
  <2>1. /\ pc = "settle" /\ UNCHANGED <<owed, paused, cancelled, immediate>>
        /\ Drain /\ UNCHANGED <<holdUntil, status>>
    BY <1>6 DEF SettleLocal, repo
  <2>2. Owed
    BY <1>1, <2>1 DEF Owed
  <2>3. CASE Waiting
    BY <2>1, <2>3, DrainKeeps
  <2>4. CASE RetryCommits
    <3>1. retryTimer' = retryTimer
      BY <1>6, <2>4 DEF SettleLocal, ArmRetry, RetryCommits
    <3>. QED
      BY <2>1, <2>4, <3>1 DEF RetryCommits, LocalCommitAllowed
  <2>. QED
    BY <2>1, <2>2, <2>3, <2>4 DEF EditInv
<1>7. CASE SettleCancelled
  BY <1>1, <1>7 DEF SettleCancelled, inputs
<1>. QED
  BY <1>2, <1>3, <1>4, <1>5, <1>6, <1>7 DEF RunStep

LEMMA EditOther ==
    ASSUME TypeOK, EditInv,
           Reappear \/ WatchStarts \/ FileEvent \/ Tick \/ Kick \/ AbortRebaseEnds \/ Environment
    PROVE  EditInv'
<1>. SUFFICES ASSUME Owed' PROVE Waiting' \/ pc' \in {"lock", "begin"} \/ RetryCommits'
  BY DEF EditInv
<1>1. owed' /\ ~paused' /\ ~cancelled' /\ pc' # "gone"
  BY DEF Owed
<1>2. CASE Reappear
  BY <1>2 DEF Reappear, RetryCommits, Off
<1>3. CASE FileEvent
  <2>1. CASE trigger' = Shortest(trigger + 1, TriggerCap)
    <3>1. trigger' > 0
      BY <2>1, Delays DEF Shortest, TypeOK
    <3>. QED
      BY <3>1 DEF Waiting
  <2>2. CASE UNCHANGED <<trigger, owed>>
    <3>1. UNCHANGED <<pc, timers, status, immediate, paused, cancelled>>
      BY <1>3 DEF FileEvent
    <3>2. Owed
      BY <1>1, <2>2, <3>1 DEF Owed
    <3>. QED
      BY <2>2, <3>1, <3>2 DEF EditInv, Waiting, RetryCommits, LocalCommitAllowed, timers
  <2>. QED
    BY <1>3, <2>1, <2>2 DEF FileEvent
<1>4. CASE Tick
  <2>1. UNCHANGED <<pc, owed, paused, cancelled, trigger, immediate, status>>
    BY <1>4 DEF Tick, inputs, repo
  <2>2. Owed
    BY <1>1, <2>1 DEF Owed
  <2>. QED
    BY <1>4, <2>1, <2>2, TimersKeep DEF EditInv, Waiting, RetryCommits, LocalCommitAllowed
<1>5. CASE Kick
  BY <1>5 DEF Kick, Waiting
\* What keeps the edit and takes away none of its ways.
<1>6. ASSUME UNCHANGED <<pc, timers, trigger, status>>, Owed, immediate => immediate'
      PROVE  Waiting' \/ pc' \in {"lock", "begin"} \/ RetryCommits'
  BY <1>6 DEF EditInv, Waiting, RetryCommits, LocalCommitAllowed, timers
<1>7. CASE WatchStarts \/ Edit \/ MoveFolder \/ ToggleRefusal \/ AbortRebase \/ Cancel \/ \E force \in BOOLEAN : SyncNow(force)
  <2>1. /\ UNCHANGED <<pc, timers, trigger, status, immediate, owed, paused>>
        /\ cancelled => cancelled'
    BY <1>7 DEF WatchStarts, Edit, MoveFolder, ToggleRefusal, AbortRebase, Cancel, SyncNow, inputs, repo
  <2>2. Owed
    BY <1>1, <2>1 DEF Owed
  <2>. QED
    BY <1>6, <2>1, <2>2
<1>8. CASE AbortRebaseEnds
  <2>1. UNCHANGED <<pc, timers, trigger, owed, paused, cancelled>>
    BY <1>8 DEF AbortRebaseEnds
  <2>2. Owed
    BY <1>1, <2>1 DEF Owed
  <2>3. CASE immediate' = (immediate \/ ~paused)
    BY <1>1, <2>1, <2>3 DEF Waiting
  <2>4. CASE status' \in {"preflight", status} /\ UNCHANGED immediate
    BY <2>1, <2>2, <2>4 DEF EditInv, Waiting, RetryCommits, LocalCommitAllowed, timers
  <2>. QED
    BY <1>8, <2>3, <2>4 DEF AbortRebaseEnds
<1>9. CASE SetPaused
  <2>1. immediate'
    BY <1>1, <1>9, Zenon DEF SetPaused
  <2>. QED
    BY <2>1 DEF Waiting
<1>. QED
  BY <1>2, <1>3, <1>4, <1>5, <1>7, <1>8, <1>9 DEF Environment

LEMMA NextEdit == TypeOK /\ RunInv /\ EditInv /\ [Next]_vars => EditInv'
<1>1. ASSUME TypeOK, RunInv, EditInv, Next PROVE EditInv'
  BY <1>1, EditLoop, EditRunStep, EditOther DEF Next
<1>2. ASSUME EditInv, UNCHANGED vars PROVE EditInv'
  BY <1>2 DEF vars, timers, inputs, repo, EditInv, Owed, Waiting, RetryCommits, LocalCommitAllowed
<1>. QED
  BY <1>1, <1>2

\* An edit the file watcher handed on is never dropped: through full channels, drained
\* triggers, batches, backoffs, pauses, refusals and a folder that goes away and
\* comes back, something that commits it is due (src/common/watch.go).
THEOREM EditsScheduled == Spec => []EditScheduled
<1>1. EditInv => EditScheduled
  BY DEF EditInv, EditScheduled, Owed, Waiting, RetryCommits
<1>. QED
  BY <1>1, InitEdit, NextEdit, RunHolds, PTL DEF Spec
=============================================================================
