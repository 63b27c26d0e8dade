------------------------ MODULE DaemonWatchersProofs ------------------------
(***************************************************************************)
(* The watchers of a repository take turns and are forgotten, paused and   *)
(* stopped as they should be, for all repositories, clients, plans and     *)
(* numbers of watchers.                                                    *)
(***************************************************************************)
EXTENDS DaemonWatchers, TLAPS

USE PlansAssumption, ClientsAssumption, BoundAssumption DEF H, Actors

-----------------------------------------------------------------------------
(* The inductive invariant. *)

\* The commands that need a repository have one.
CommandsInv ==
    /\ plan \in Plans
    /\ \A a \in Actors :
         cmd[a].pc \in {"store", "abort", "locking", "aborting"} => cmd[a].repo \in Repos

\* Of the watchers of a repository only the last is on record or being
\* stopped; one that waits does so for the one before it, unless that has
\* ended; and all before one that has had its turn have ended.
InTurn(r) ==
    /\ watchers[r] \in {0, made[r]} /\ stopping[r] \in {0, made[r]}
    /\ watchers[r] = 0 /\ stopping[r] = 0 /\ made[r] # 0
         => handle[r][made[r]].phase = "ended"
    /\ \A h \in H :
         /\ handle[r][h].phase = "off" <=> h > made[r]
         /\ handle[r][h].phase = "queued" /\ h # 1
              => handle[r][h].prev = h - 1 \/ handle[r][h - 1].phase = "ended"
         /\ handle[r][h].phase \notin {"off", "queued"}
              => \A g \in H : g < h => handle[r][g].phase = "ended"

TurnInv == \A r \in Repos : InTurn(r)

\* The last watcher of a removed repository is waited for.
ForgetInv ==
    \A r \in Repos :
        watchers[r] = 0 /\ made[r] # 0 /\ handle[r][made[r]].phase # "ended"
            => made[r] \in forgets[r]

\* An entry without a watcher is about to be forgotten, or belongs to an
\* AddRepo that has still to start the watcher.
RemovedInv ==
    Commands \cap {"pause", "abort"} = {} =>
        /\ \A a \in Actors : cmd[a].pc \notin {"store", "abort", "locking", "aborting"}
        /\ \A r \in Repos : ~ctxDone /\ r \notin Watched /\ entry[r].known
             => \/ forgets[r] # {}
                \/ \E c \in Clients : /\ cmd[c].pc \in {"check", "reconcile"}
                                      /\ cmd[c].repo = r /\ r \in cmd[c].snap.repos

StopInv == (stopped # "no" => ctxDone) /\ StoppedMeansQuiet

Inv == TypeOK /\ CommandsInv /\ TurnInv /\ ForgetInv /\ WatchedIsKnown /\ RemovedInv /\ StopInv

LEMMA InvImplies == Inv => WatchersInv
<1>. SUFFICES ASSUME Inv PROVE WatchersInv
  OBVIOUS
<1>1. NeverTwoWatchers
  <2>. SUFFICES ASSUME NEW r \in Repos, NEW g \in H, NEW h \in H,
                       handle[r][g].phase \in Active, handle[r][h].phase \in Active
                PROVE  g = h
    BY DEF NeverTwoWatchers
  <2>1. ~(g < h) /\ ~(h < g)
    BY DEF Inv, TurnInv, InTurn, Active
  <2>. QED
    BY <2>1
<1>2. RemovedIsForgotten
  BY DEF Inv, RemovedInv, RemovedIsForgotten, CommandOn
<1>. QED
  BY <1>1, <1>2 DEF Inv, WatchersInv, StopInv

LEMMA InitInv == Init => Inv
<1>. SUFFICES ASSUME Init PROVE Inv
  OBVIOUS
<1>. USE DEF Init
<1>1. /\ config \in Config /\ NoCommand \in Command
      /\ [NoCommand EXCEPT !.pc = "boot", !.snap = config] \in Command
  <2>1. plan.configured \subseteq Repos
    OBVIOUS
  <2>2. config \in Config
    BY <2>1 DEF Config
  <2>3. [repos |-> {}, envs |-> 0] \in Config
    BY DEF Config
  <2>4. NoCommand \in Command
    BY <2>3 DEF NoCommand, Command
  <2>. QED
    BY <2>2, <2>4 DEF Command
<1>2. TypeOK
  <2>1. NoHandle \in Handle /\ NoEntry \in Entry
    BY DEF NoHandle, Handle, NoEntry, Entry
  <2>2. handle \in [Repos -> [H -> Handle]] /\ entry \in [Repos -> Entry]
    BY <2>1
  <2>3. cmd \in [Actors -> Command]
    BY <1>1
  <2>4. ctxDone \in BOOLEAN /\ stopped \in {"no", "clean", "timeout"}
    OBVIOUS
  <2>5. /\ envs \in 0..MaxEdits
        /\ watchers \in [Repos -> 0..MaxHandles] /\ stopping \in [Repos -> 0..MaxHandles]
        /\ made \in [Repos -> 0..MaxHandles] /\ epoch \in [Repos -> Nat]
    OBVIOUS
  <2>6. forgets \in [Repos -> SUBSET H] /\ restarts \subseteq Repos
    OBVIOUS
  <2>7. since \in [Repos -> 0..MaxHandles]
    OBVIOUS
  <2>. QED
    BY <1>1, <2>2, <2>3, <2>4, <2>5, <2>6, <2>7 DEF TypeOK
<1>3. CommandsInv /\ RemovedInv
  BY DEF CommandsInv, RemovedInv, NoCommand, NoEntry
<1>4. TurnInv /\ ForgetInv
  BY DEF TurnInv, InTurn, ForgetInv, NoHandle
<1>5. WatchedIsKnown /\ StopInv
  BY DEF WatchedIsKnown, Watched, StopInv, StoppedMeansQuiet
<1>. QED
  BY <1>2, <1>3, <1>4, <1>5 DEF Inv

-----------------------------------------------------------------------------
(* Starting and stopping watchers. *)

\* What StartAndStop does, when it stops only watchers that are on record and
\* starts one only where there is none, or where it stops the one there is.
LEMMA StartAndStopTurns ==
    ASSUME TypeOK, CommandsInv, TurnInv, NEW stop \in SUBSET Watched, NEW start \in SUBSET Repos,
           start \cap Watched \subseteq stop, StartAndStop(stop, start)
    PROVE  /\ watchers' \in [Repos -> 0..MaxHandles] /\ stopping' \in [Repos -> 0..MaxHandles]
           /\ made' \in [Repos -> 0..MaxHandles] /\ handle' \in [Repos -> [H -> Handle]]
           /\ since' \in [Repos -> 0..MaxHandles]
           /\ TurnInv'
<1>0. /\ plan.handles \in 0..MaxHandles
      /\ \A r \in start : made[r] < plan.handles
  BY DEF CommandsInv, StartAndStop
<1>1. /\ watchers' \in [Repos -> 0..MaxHandles] /\ stopping' \in [Repos -> 0..MaxHandles]
      /\ made' \in [Repos -> 0..MaxHandles] /\ since' \in [Repos -> 0..MaxHandles]
  BY <1>0 DEF StartAndStop, TypeOK
<1>2. ASSUME NEW r \in Repos, NEW p \in 0..MaxHandles PROVE NewHandle(r, p) \in Handle
  BY DEF NewHandle, NoHandle, Handle, Entry, TypeOK
<1>3. ASSUME NEW r \in Repos, NEW h \in H PROVE [handle[r][h] EXCEPT !.cancelled = TRUE] \in Handle
  <2>1. handle[r][h] \in Handle
    BY DEF TypeOK
  <2>. QED
    BY <2>1 DEF Handle
<1>4. handle' \in [Repos -> [H -> Handle]]
  BY <1>2, <1>3 DEF StartAndStop, TypeOK
<1>5. ASSUME NEW r \in Repos
      PROVE  InTurn(r)'
  <2>1. InTurn(r)
    BY DEF TurnInv
  <2>2. /\ watchers[r] \in 0..MaxHandles /\ made[r] \in 0..MaxHandles
        /\ watchers'[r] \in 0..MaxHandles /\ made'[r] \in 0..MaxHandles
        /\ \A h \in H : handle[r][h] \in Handle
    BY <1>1 DEF TypeOK
  <2>3. CASE r \in start
    <3>. DEFINE new == made[r] + 1
                prev == IF r \in stop THEN watchers[r] ELSE stopping[r]
    <3>1. new \in H /\ made'[r] = new /\ watchers'[r] = new /\ stopping'[r] = 0
      BY <1>0, <2>2, <2>3 DEF StartAndStop
    <3>2. \A h \in H : h # new => /\ handle'[r][h].phase = handle[r][h].phase
                                  /\ handle'[r][h].prev = handle[r][h].prev
      BY <2>2, <2>3 DEF StartAndStop, Handle
    <3>3. handle'[r][new].phase = "queued" /\ handle'[r][new].prev = prev
      BY <2>3, <3>1 DEF StartAndStop, NewHandle, NoHandle
    <3>4. new # 1 => prev = new - 1 \/ handle[r][new - 1].phase = "ended"
      BY <2>1, <2>2, <2>3 DEF InTurn, Watched
    <3>. HIDE DEF prev
    <3>5. \A h \in H : h # new =>
            /\ handle'[r][h].phase = "off" <=> h > made[r]
            /\ handle[r][h].phase = "ended" => h < new
      BY <2>1, <2>2, <3>1, <3>2 DEF InTurn
    <3>6. \A h \in H : handle'[r][h].phase = "off" <=> h > made'[r]
      BY <2>2, <3>1, <3>3, <3>5
    <3>7. ASSUME NEW h \in H, handle'[r][h].phase = "queued", h # 1
          PROVE  handle'[r][h].prev = h - 1 \/ handle'[r][h - 1].phase = "ended"
      <4>1. CASE h = new
        BY <2>2, <3>1, <3>2, <3>3, <3>4, <3>7, <4>1
      <4>2. CASE h # new
        <5>1. handle[r][h].phase = "queued" /\ h <= made[r] /\ h - 1 \in H /\ h - 1 # new
          BY <2>1, <2>2, <3>1, <3>2, <3>7, <4>2 DEF InTurn
        <5>. QED
          BY <2>1, <3>2, <3>7, <4>2, <5>1 DEF InTurn
      <4>. QED
        BY <4>1, <4>2
    <3>8. ASSUME NEW h \in H, handle'[r][h].phase \notin {"off", "queued"}, NEW g \in H, g < h
          PROVE  handle'[r][g].phase = "ended"
      <4>1. h # new /\ handle[r][h].phase \notin {"off", "queued"} /\ h <= made[r]
        BY <2>1, <2>2, <3>2, <3>3, <3>8 DEF InTurn
      <4>. QED
        BY <2>1, <2>2, <3>1, <3>2, <3>8, <4>1 DEF InTurn
    <3>. QED
      BY <3>1, <3>6, <3>7, <3>8 DEF InTurn
  <2>4. CASE r \notin start
    <3>1. \A h \in H : /\ handle'[r][h].phase = handle[r][h].phase
                       /\ handle'[r][h].prev = handle[r][h].prev
      BY <2>2, <2>4 DEF StartAndStop, Handle
    <3>2. /\ made'[r] = made[r]
          /\ watchers'[r] = IF r \in stop THEN 0 ELSE watchers[r]
          /\ stopping'[r] = IF r \in stop THEN watchers[r] ELSE stopping[r]
      BY <2>4 DEF StartAndStop
    <3>3. r \in stop => watchers[r] # 0
      BY DEF Watched
    <3>. QED
      BY <2>1, <2>2, <3>1, <3>2, <3>3 DEF InTurn
  <2>. QED
    BY <2>3, <2>4
<1>. QED
  BY <1>1, <1>4, <1>5 DEF TurnInv

-----------------------------------------------------------------------------
(* Types. *)

LEMMA EntryTypes ==
    ASSUME TypeOK
    PROVE  /\ NoEntry \in Entry
           /\ \A e \in Entry : Ensured(e) \in Entry /\ Ensured(e).known
                                 /\ Ensured(e).paused = e.paused
           /\ \A r : Updated(r) \in [Repos -> Entry]
<1>1. NoEntry \in Entry
  BY DEF NoEntry, Entry
<1>2. \A e \in Entry : Ensured(e) \in Entry /\ Ensured(e).known /\ Ensured(e).paused = e.paused
  BY DEF Ensured, Entry
<1>. QED
  BY <1>1, <1>2 DEF Updated, TypeOK

LEMMA CommandTypes ==
    ASSUME TypeOK, NEW a \in Actors
    PROVE  /\ config \in Config /\ cmd[a] \in Command /\ cmd[a].snap \in Config
           /\ \A k \in Command : [cmd EXCEPT ![a] = k] \in [Actors -> Command]
           /\ Idle(a) \in [Actors -> Command]
<1>1. config \in Config /\ cmd[a] \in Command
  BY DEF TypeOK
<1>2. cmd[a].snap \in Config
  BY <1>1 DEF Command
<1>3. \A k \in Command : [cmd EXCEPT ![a] = k] \in [Actors -> Command]
  BY DEF TypeOK
<1>4. NoCommand \in Command
  BY DEF NoCommand, Command, Config
<1>. QED
  BY <1>1, <1>2, <1>3, <1>4 DEF Idle

\* reconcileWatchers and startWatchers stop watchers that are on record, and
\* start one where there is none or where they stop the one there is.
LEMMA ReconcileTypes ==
    ASSUME TypeOK, CommandsInv, TurnInv, NEW c \in Config, ReconcileWatchers(c)
    PROVE  /\ watchers' \in [Repos -> 0..MaxHandles] /\ stopping' \in [Repos -> 0..MaxHandles]
           /\ made' \in [Repos -> 0..MaxHandles] /\ handle' \in [Repos -> [H -> Handle]]
           /\ since' \in [Repos -> 0..MaxHandles]
           /\ TurnInv'
           /\ forgets' \in [Repos -> SUBSET H] /\ entry' \in [Repos -> Entry]
           /\ envs' \in 0..MaxEdits
<1>. DEFINE gone == Watched \ c.repos
            restart == IF envs # c.envs THEN Watched \cap c.repos ELSE {}
            start == restart \cup (c.repos \ Watched)
<1>0. c.repos \subseteq Repos /\ c.envs \in 0..MaxEdits /\ Watched \subseteq Repos
  BY DEF Config, Watched
<1>1. /\ gone \cup restart \in SUBSET Watched /\ start \in SUBSET Repos
      /\ start \cap Watched \subseteq gone \cup restart
  BY <1>0
<1>2. /\ StartAndStop(gone \cup restart, start)
      /\ forgets' = [r \in Repos |-> forgets[r] \cup (IF r \in gone THEN {watchers[r]} ELSE {})]
      /\ entry' = [r \in Repos |-> IF r \in gone THEN NoEntry
                                   ELSE IF r \in start THEN Ensured(entry[r]) ELSE entry[r]]
      /\ envs' = c.envs
  BY DEF ReconcileWatchers
<1>3. forgets' \in [Repos -> SUBSET H]
  BY <1>2 DEF TypeOK, Watched
<1>4. entry' \in [Repos -> Entry]
  BY <1>2, EntryTypes DEF TypeOK
<1>5. envs' \in 0..MaxEdits
  BY <1>0, <1>2
<1>. HIDE DEF gone, restart, start
<1>. QED
  BY <1>1, <1>2, <1>3, <1>4, <1>5, StartAndStopTurns

\* Steps that leave the watchers and what is about them alone.
LEMMA QuietTypes ==
    ASSUME TypeOK, CommandsInv, UNCHANGED <<unchangedWatchers, plan>>,
           config' \in Config, ctxDone' \in BOOLEAN, stopped' \in {"no", "clean", "timeout"},
           entry' \in [Repos -> Entry],
           \/ UNCHANGED cmd
           \/ \E a \in Actors : cmd' = Idle(a)
           \/ \E a \in Actors : \E k \in Command :
                /\ cmd' = [cmd EXCEPT ![a] = k]
                /\ k.pc \in {"store", "abort", "locking", "aborting"} => k.repo \in Repos
    PROVE  TypeOK' /\ CommandsInv'
<1>1. cmd' \in [Actors -> Command]
  <2>1. cmd \in [Actors -> Command]
    BY DEF TypeOK
  <2>2. ASSUME NEW a \in Actors, NEW k \in Command, cmd' = [cmd EXCEPT ![a] = k]
        PROVE  cmd' \in [Actors -> Command]
    BY <2>1, <2>2
  <2>3. ASSUME NEW a \in Actors, cmd' = Idle(a)
        PROVE  cmd' \in [Actors -> Command]
    BY <2>1, <2>3, CommandTypes
  <2>. QED
    BY <2>1, <2>2, <2>3
<1>2. TypeOK'
  BY <1>1 DEF TypeOK, unchangedWatchers
<1>3. CommandsInv'
  <2>. SUFFICES ASSUME NEW b \in Actors,
                       cmd'[b].pc \in {"store", "abort", "locking", "aborting"}
                PROVE  cmd'[b].repo \in Repos
    BY DEF CommandsInv
  <2>1. cmd \in [Actors -> Command] /\ NoCommand.pc = "idle"
    BY DEF TypeOK, NoCommand
  <2>2. CASE cmd'[b] = cmd[b]
    BY <2>2 DEF CommandsInv
  <2>3. CASE cmd'[b] # cmd[b]
    BY <2>1, <2>3 DEF Idle
  <2>. QED
    BY <2>2, <2>3
<1>. QED
  BY <1>2, <1>3

\* Steps of a watcher's goroutine.
LEMMA PhaseTypes ==
    ASSUME TypeOK, CommandsInv, NEW r \in Repos, NEW h \in H,
           NEW to \in {"queued", "starting", "watching", "syncing", "ended"},
           Moves(r, h, to), entry' \in [Repos -> Entry], UNCHANGED plan
    PROVE  TypeOK' /\ CommandsInv'
<1>1. handle[r][h] \in Handle
  BY DEF TypeOK
<1>2. [handle[r][h] EXCEPT !.phase = to] \in Handle
  BY <1>1 DEF Handle
<1>3. handle' \in [Repos -> [H -> Handle]]
  BY <1>2 DEF Moves, TypeOK
<1>4. TypeOK'
  BY <1>3 DEF TypeOK, Moves
<1>. QED
  BY <1>4 DEF CommandsInv, Moves

LEMMA StepTypes ==
    ASSUME TypeOK, CommandsInv, TurnInv, Next, UNCHANGED plan
    PROVE  TypeOK' /\ CommandsInv'
<1>0. /\ config \in Config /\ ctxDone \in BOOLEAN /\ stopped \in {"no", "clean", "timeout"}
      /\ entry \in [Repos -> Entry] /\ plan.clients \subseteq Actors
      /\ "main" \in Actors /\ "cli" \in Actors
  BY DEF TypeOK, CommandsInv
<1>1. ASSUME Boot PROVE TypeOK' /\ CommandsInv'
  <2>1. cmd' \in [Actors -> Command]
    BY <1>0, <1>1, CommandTypes DEF Boot
  <2>2. CommandsInv'
    BY <1>1 DEF Boot, CommandsInv, Idle, NoCommand, TypeOK
  <2>3. CASE UNCHANGED <<unchangedWatchers, entry>>
    BY <1>1, <2>1, <2>2, <2>3 DEF Boot, TypeOK, unchangedWatchers
  <2>4. CASE ~UNCHANGED <<unchangedWatchers, entry>>
    <3>. DEFINE c == cmd["main"].snap
                start == c.repos \ Watched
    <3>1. c.repos \subseteq Repos /\ c.envs \in 0..MaxEdits
      BY <1>0, CommandTypes DEF Config
    <3>2. /\ StartAndStop({}, start)
          /\ entry' = [r \in Repos |-> IF r \in start THEN Ensured(entry[r]) ELSE entry[r]]
          /\ envs' = c.envs
          /\ UNCHANGED <<epoch, forgets, restarts>>
      BY <1>1, <2>4 DEF Boot
    <3>3. {} \in SUBSET Watched /\ start \in SUBSET Repos /\ start \cap Watched \subseteq {}
      BY <3>1
    <3>4. entry' \in [Repos -> Entry]
      BY <3>2, EntryTypes DEF TypeOK
    <3>. HIDE DEF start
    <3>5. /\ watchers' \in [Repos -> 0..MaxHandles] /\ stopping' \in [Repos -> 0..MaxHandles]
          /\ made' \in [Repos -> 0..MaxHandles] /\ handle' \in [Repos -> [H -> Handle]]
          /\ since' \in [Repos -> 0..MaxHandles]
      BY <3>2, <3>3, StartAndStopTurns
    <3>. QED
      BY <1>1, <2>1, <2>2, <3>1, <3>2, <3>4, <3>5 DEF Boot, TypeOK
  <2>. QED
    BY <2>3, <2>4
<1>2. ASSUME ReloadConfig PROVE TypeOK' /\ CommandsInv'
  <2>. DEFINE k == [cmd["main"] EXCEPT !.pc = "check", !.snap = config]
  <2>1. k \in Command /\ k.pc = "check" /\ cmd' = [cmd EXCEPT !["main"] = k]
    <3>1. cmd["main"] \in Command /\ cmd \in [Actors -> Command]
      BY <1>0, CommandTypes DEF TypeOK
    <3>2. k \in Command /\ k.pc = "check"
      BY <1>0, <1>2, <3>1 DEF Command
    <3>. QED
      BY <1>0, <1>2, <3>1, <3>2 DEF ReloadConfig
  <2>. HIDE DEF k
  <2>. QED
    BY <1>0, <1>2, <2>1, QuietTypes DEF ReloadConfig
<1>3. ASSUME NEW a \in Actors, Check(a) PROVE TypeOK' /\ CommandsInv'
  <2>. DEFINE k == [cmd[a] EXCEPT !.pc = "reconcile"]
  <2>1. k \in Command /\ k.pc = "reconcile" /\ cmd' \in {Idle(a), [cmd EXCEPT ![a] = k]}
    <3>1. cmd[a] \in Command /\ cmd \in [Actors -> Command]
      BY <1>0, CommandTypes DEF TypeOK
    <3>2. k \in Command /\ k.pc = "reconcile"
      BY <1>3, <3>1 DEF Command
    <3>. QED
      BY <1>3, <3>1, <3>2 DEF Check
  <2>. HIDE DEF k
  <2>. QED
    BY <1>0, <1>3, <2>1, QuietTypes DEF Check
<1>4. ASSUME NEW a \in Actors, Reconcile(a) PROVE TypeOK' /\ CommandsInv'
  <2>1. cmd[a].snap \in Config /\ cmd' \in [Actors -> Command]
    BY <1>4, CommandTypes DEF Reconcile
  <2>2. CommandsInv'
    BY <1>4 DEF Reconcile, CommandsInv, Idle, NoCommand, TypeOK
  <2>3. UNCHANGED <<epoch, restarts>>
    BY <1>4 DEF Reconcile, ReconcileWatchers
  <2>. QED
    BY <1>4, <2>1, <2>2, <2>3, ReconcileTypes DEF Reconcile, TypeOK
<1>5. ASSUME NEW a \in Actors, NEW r \in Repos, AddRepo(a, r) PROVE TypeOK' /\ CommandsInv'
  <2>. DEFINE k == [cmd[a] EXCEPT !.pc = IF r \in config.repos THEN "check" ELSE "write",
                        !.repo = r, !.snap = [config EXCEPT !.repos = @ \cup {r}]]
  <2>1. [config EXCEPT !.repos = @ \cup {r}] \in Config
    BY <1>0 DEF Config
  <2>2. k \in Command /\ k.repo \in Repos /\ cmd' = [cmd EXCEPT ![a] = k]
    <3>1. cmd[a] \in Command /\ cmd \in [Actors -> Command]
      BY <1>0, CommandTypes DEF TypeOK
    <3>2. k \in Command /\ k.repo \in Repos
      BY <1>5, <2>1, <3>1 DEF Command
    <3>. QED
      BY <1>5, <2>1, <3>1, <3>2 DEF AddRepo
  <2>. HIDE DEF k
  <2>. QED
    BY <1>0, <1>5, <2>2, QuietTypes DEF AddRepo
<1>6. ASSUME NEW a \in Actors, NEW r \in Repos, RemoveRepo(a, r) PROVE TypeOK' /\ CommandsInv'
  <2>. DEFINE k == [cmd[a] EXCEPT !.pc = "write",
                        !.repo = r, !.snap = [config EXCEPT !.repos = @ \ {r}]]
  <2>1. [config EXCEPT !.repos = @ \ {r}] \in Config
    BY <1>0 DEF Config
  <2>2. k \in Command /\ k.repo \in Repos /\ cmd' = [cmd EXCEPT ![a] = k]
    <3>1. cmd[a] \in Command /\ cmd \in [Actors -> Command]
      BY <1>0, CommandTypes DEF TypeOK
    <3>2. k \in Command /\ k.repo \in Repos
      BY <1>6, <2>1, <3>1 DEF Command
    <3>. QED
      BY <1>6, <2>1, <3>1, <3>2 DEF RemoveRepo
  <2>. HIDE DEF k
  <2>. QED
    BY <1>0, <1>6, <2>2, QuietTypes DEF RemoveRepo
<1>7. ASSUME NEW a \in Actors, WriteConfig(a) PROVE TypeOK' /\ CommandsInv'
  <2>. DEFINE k == [cmd[a] EXCEPT !.pc = "check"]
  <2>1. k \in Command /\ k.pc = "check" /\ cmd' = [cmd EXCEPT ![a] = k]
    <3>1. cmd[a] \in Command /\ cmd \in [Actors -> Command]
      BY <1>0, CommandTypes DEF TypeOK
    <3>2. k \in Command /\ k.pc = "check"
      BY <1>7, <3>1 DEF Command
    <3>. QED
      BY <1>7, <3>1, <3>2 DEF WriteConfig
  <2>2. config' \in Config /\ entry' \in [Repos -> Entry]
    BY <1>0, <1>7, CommandTypes, EntryTypes DEF WriteConfig
  <2>. HIDE DEF k
  <2>. QED
    BY <1>0, <1>7, <2>1, <2>2, QuietTypes DEF WriteConfig
<1>8. ASSUME NEW a \in Actors, WriteConfigFails(a) PROVE TypeOK' /\ CommandsInv'
  BY <1>0, <1>8, QuietTypes DEF WriteConfigFails
<1>9. ASSUME NEW a \in Actors, NEW r \in Repos, NEW on \in BOOLEAN, SetPaused(a, r, on)
      PROVE  TypeOK' /\ CommandsInv'
  <2>. DEFINE k == [cmd[a] EXCEPT !.pc = "store", !.repo = r, !.on = on]
              w == [handle[r][watchers[r]] EXCEPT !.paused = on]
  <2>1. k \in Command /\ k.repo = r /\ cmd' = [cmd EXCEPT ![a] = k]
    <3>1. cmd[a] \in Command /\ cmd \in [Actors -> Command]
      BY <1>0, CommandTypes DEF TypeOK
    <3>2. k \in Command /\ k.repo = r
      BY <1>9, <3>1 DEF Command
    <3>. QED
      BY <1>9, <3>1, <3>2 DEF SetPaused
  <2>2. watchers[r] \in H
    BY <1>9 DEF SetPaused, Watched, TypeOK
  <2>3. handle[r][watchers[r]] \in Handle
    BY <2>2 DEF TypeOK
  <2>4. w \in Handle
    BY <2>3 DEF Handle
  <2>5. handle' \in [Repos -> [H -> Handle]]
    BY <1>9, <2>4 DEF SetPaused, TypeOK
  <2>. HIDE DEF k, w
  <2>6. cmd' \in [Actors -> Command] /\ CommandsInv'
    BY <2>1, CommandTypes DEF CommandsInv, TypeOK
  <2>. QED
    BY <1>9, <2>5, <2>6 DEF SetPaused, TypeOK
<1>10. ASSUME NEW a \in Actors, StorePaused(a) PROVE TypeOK' /\ CommandsInv'
  <2>1. [known |-> TRUE, paused |-> cmd[a].on] \in Entry
    BY CommandTypes DEF Command, Entry
  <2>2. entry' \in [Repos -> Entry]
    BY <1>0, <1>10, <2>1 DEF StorePaused
  <2>. QED
    BY <1>0, <1>10, <2>2, QuietTypes DEF StorePaused
<1>11. ASSUME NEW a \in Actors, NEW r \in Repos, SetSettings(a, r) PROVE TypeOK' /\ CommandsInv'
  BY <1>11 DEF SetSettings, TypeOK, CommandsInv
<1>12. ASSUME NEW a \in Actors, NEW r \in Repos, AbortRebase(a, r) PROVE TypeOK' /\ CommandsInv'
  <2>. DEFINE k == [cmd[a] EXCEPT !.pc = "abort", !.repo = r, !.found = watchers[r]]
  <2>1. k \in Command /\ k.repo = r /\ cmd' = [cmd EXCEPT ![a] = k]
    <3>1. cmd[a] \in Command /\ cmd \in [Actors -> Command] /\ watchers[r] \in 0..MaxHandles
      BY <1>0, CommandTypes DEF TypeOK
    <3>2. k \in Command /\ k.repo = r
      BY <1>12, <3>1 DEF Command
    <3>. QED
      BY <1>12, <3>1, <3>2 DEF AbortRebase
  <2>. HIDE DEF k
  <2>. QED
    BY <1>0, <1>12, <2>1, QuietTypes DEF AbortRebase
<1>13. ASSUME NEW a \in Actors, AbortFindsLock(a) PROVE TypeOK' /\ CommandsInv'
  <2>. DEFINE k == [cmd[a] EXCEPT !.pc = "locking", !.lock = epoch[cmd[a].repo]]
  <2>1. cmd[a].repo \in Repos
    BY <1>13 DEF AbortFindsLock, CommandsInv
  <2>2. epoch[cmd[a].repo] \in Nat
    BY <2>1 DEF TypeOK
  <2>3. k \in Command /\ k.repo \in Repos /\ cmd' = [cmd EXCEPT ![a] = k]
    <3>1. cmd[a] \in Command /\ cmd \in [Actors -> Command]
      BY <1>0, CommandTypes DEF TypeOK
    <3>2. k \in Command /\ k.repo \in Repos
      BY <1>13, <2>1, <2>2, <3>1 DEF Command
    <3>. QED
      BY <1>13, <2>1, <2>2, <3>1, <3>2 DEF AbortFindsLock
  <2>. HIDE DEF k
  <2>. QED
    BY <1>0, <1>13, <2>3, QuietTypes DEF AbortFindsLock
<1>14. ASSUME NEW a \in Actors, AbortBegins(a) PROVE TypeOK' /\ CommandsInv'
  <2>. DEFINE k == [cmd[a] EXCEPT !.pc = "aborting"]
  <2>1. cmd[a].repo \in Repos
    BY <1>14 DEF AbortBegins, CommandsInv
  <2>2. k \in Command /\ k.repo \in Repos /\ cmd' = [cmd EXCEPT ![a] = k]
    <3>1. cmd[a] \in Command /\ cmd \in [Actors -> Command]
      BY <1>0, CommandTypes DEF TypeOK
    <3>2. k \in Command /\ k.repo \in Repos
      BY <1>14, <2>1, <3>1 DEF Command
    <3>. QED
      BY <1>14, <2>1, <3>1, <3>2 DEF AbortBegins
  <2>. HIDE DEF k
  <2>. QED
    BY <1>0, <1>14, <2>2, QuietTypes DEF AbortBegins
<1>15. ASSUME NEW a \in Actors, AbortEnds(a) PROVE TypeOK' /\ CommandsInv'
  <2>1. entry' \in [Repos -> Entry]
    BY <1>0, <1>15, EntryTypes DEF AbortEnds
  <2>. QED
    BY <1>0, <1>15, <2>1, QuietTypes DEF AbortEnds
<1>16. ASSUME EditReads PROVE TypeOK' /\ CommandsInv'
  <2>. DEFINE k == [cmd["cli"] EXCEPT !.pc = "edit", !.snap = config]
  <2>1. k \in Command /\ k.pc = "edit" /\ cmd' = [cmd EXCEPT !["cli"] = k]
    <3>1. cmd["cli"] \in Command /\ cmd \in [Actors -> Command]
      BY <1>0, CommandTypes DEF TypeOK
    <3>2. k \in Command /\ k.pc = "edit"
      BY <1>0, <1>16, <3>1 DEF Command
    <3>. QED
      BY <1>0, <1>16, <3>1, <3>2 DEF EditReads
  <2>. HIDE DEF k
  <2>. QED
    BY <1>0, <1>16, <2>1, QuietTypes DEF EditReads
<1>17. ASSUME EditWrites PROVE TypeOK' /\ CommandsInv'
  <2>1. cmd["cli"].snap \in Config
    BY <1>0, CommandTypes
  <2>2. config' \in Config
    BY <1>17, <2>1 DEF EditWrites, Config
  <2>. QED
    BY <1>0, <1>17, <2>2, QuietTypes DEF EditWrites
<1>18. ASSUME NEW r \in Repos, RestartWatcher(r) PROVE TypeOK' /\ CommandsInv'
  <2>1. restarts' \subseteq Repos /\ UNCHANGED <<config, ctxDone, stopped, envs, epoch, forgets, cmd>>
    BY <1>18 DEF RestartWatcher, TypeOK
  <2>2. CASE ctxDone \/ r \notin Watched
    BY <1>18, <2>1, <2>2 DEF RestartWatcher, TypeOK, CommandsInv
  <2>3. CASE ~(ctxDone \/ r \notin Watched)
    <3>1. /\ StartAndStop({r}, {r}) /\ entry' = Updated(r)
          /\ {r} \in SUBSET Watched /\ {r} \in SUBSET Repos /\ {r} \cap Watched \subseteq {r}
      BY <1>18, <2>3 DEF RestartWatcher
    <3>2. /\ watchers' \in [Repos -> 0..MaxHandles] /\ stopping' \in [Repos -> 0..MaxHandles]
          /\ made' \in [Repos -> 0..MaxHandles] /\ handle' \in [Repos -> [H -> Handle]]
          /\ since' \in [Repos -> 0..MaxHandles]
      BY <3>1, StartAndStopTurns
    <3>3. entry' \in [Repos -> Entry]
      BY <3>1, EntryTypes
    <3>. QED
      BY <2>1, <3>2, <3>3 DEF TypeOK, CommandsInv
  <2>. QED
    BY <2>2, <2>3
<1>19. ASSUME NEW r \in Repos, ClearStopping(r) PROVE TypeOK' /\ CommandsInv'
  BY <1>19 DEF ClearStopping, TypeOK, CommandsInv
<1>20. ASSUME Stop \/ StopReturns PROVE TypeOK' /\ CommandsInv'
  BY <1>0, <1>20, QuietTypes DEF Stop, StopReturns
<1>21. ASSUME NEW r \in Repos, NEW h \in H, Watcher(r, h) PROVE TypeOK' /\ CommandsInv'
  <2>0. Updated(r) \in [Repos -> Entry]
    BY EntryTypes
  <2>1. CASE Begin(r, h)
    BY <1>0, <2>1, PhaseTypes DEF Begin
  <2>2. CASE Open(r, h)
    <3>1. handle[r][h] \in Handle /\ epoch[r] \in Nat
      BY DEF TypeOK
    <3>2. [handle[r][h] EXCEPT !.phase = "watching", !.lock = epoch[r]] \in Handle
      BY <3>1 DEF Handle
    <3>3. handle' \in [Repos -> [H -> Handle]]
      BY <2>2, <3>2 DEF Open, TypeOK
    <3>. QED
      BY <2>0, <2>2, <3>3 DEF Open, TypeOK, CommandsInv
  <2>3. CASE FindsNoFolder(r, h)
    BY <1>0, <2>0, <2>3, QuietTypes DEF FindsNoFolder
  <2>4. CASE OpenFails(r, h)
    BY <1>0, <2>0, <2>4, PhaseTypes DEF OpenFails
  <2>5. CASE Exit(r, h)
    BY <1>0, <2>0, <2>5, PhaseTypes DEF Exit
  <2>6. CASE SyncBegins(r, h)
    BY <2>0, <2>6, PhaseTypes DEF SyncBegins
  <2>7. CASE SyncEnds(r, h)
    BY <2>0, <2>7, PhaseTypes DEF SyncEnds
  <2>8. CASE ForgetWhenStopped(r, h)
    <3>1. forgets' \in [Repos -> SUBSET H]
      BY <2>8 DEF ForgetWhenStopped, TypeOK
    <3>2. epoch' \in [Repos -> Nat]
      <4>1. epoch \in [Repos -> Nat] /\ epoch[r] + 1 \in Nat
        BY DEF TypeOK
      <4>2. epoch' = epoch \/ epoch' = [epoch EXCEPT ![r] = epoch[r] + 1]
        BY <2>8 DEF ForgetWhenStopped
      <4>. QED
        BY <4>1, <4>2
    <3>3. entry' \in [Repos -> Entry]
      BY <1>0, <2>8, EntryTypes DEF ForgetWhenStopped
    <3>. QED
      BY <2>8, <3>1, <3>2, <3>3 DEF ForgetWhenStopped, TypeOK, CommandsInv
  <2>. QED
    BY <1>21, <2>1, <2>2, <2>3, <2>4, <2>5, <2>6, <2>7, <2>8 DEF Watcher
<1>. QED
  BY <1>0, <1>1, <1>2, <1>3, <1>4, <1>5, <1>6, <1>7, <1>8, <1>9, <1>10, <1>11, <1>12, <1>13,
     <1>14, <1>15, <1>16, <1>17, <1>18, <1>19, <1>20, <1>21 DEF Next, Client

-----------------------------------------------------------------------------
(* Watchers take turns, and the last of a removed repository is waited for. *)

\* Steps that move no watcher.
LEMMA RestTurns ==
    ASSUME TypeOK, TurnInv, ForgetInv, UNCHANGED <<watchers, stopping, made, forgets>>,
           \A r \in Repos, h \in H : /\ handle'[r][h].phase = handle[r][h].phase
                                     /\ handle'[r][h].prev = handle[r][h].prev
    PROVE  TurnInv' /\ ForgetInv'
<1>1. \A r \in Repos : watchers[r] \in 0..MaxHandles /\ made[r] \in 0..MaxHandles
  BY DEF TypeOK
<1>2. TurnInv'
  BY <1>1 DEF TurnInv, InTurn
<1>. QED
  BY <1>1, <1>2 DEF ForgetInv

\* Steps that take a watcher on, from its turn to its end.
LEMMA PhaseTurns ==
    ASSUME TypeOK, TurnInv, ForgetInv, UNCHANGED <<watchers, stopping, made, forgets>>,
           NEW r \in Repos, NEW h \in H,
           \A s \in Repos, g \in H : /\ handle'[s][g].prev = handle[s][g].prev
                                     /\ s # r \/ g # h => handle'[s][g].phase = handle[s][g].phase,
           handle'[r][h].phase \notin {"off", "queued"},
           handle[r][h].phase \notin {"off", "ended"},
           handle[r][h].phase = "queued" => PrevDone(r, h)
    PROVE  TurnInv' /\ ForgetInv'
<1>1. ASSUME NEW s \in Repos
      PROVE  /\ watchers[s] \in 0..MaxHandles /\ made[s] \in 0..MaxHandles /\ InTurn(s)
  BY DEF TypeOK, TurnInv
<1>2. ASSUME NEW s \in Repos, s # r PROVE InTurn(s)'
  <2>1. /\ \A g \in H : /\ handle'[s][g].prev = handle[s][g].prev
                        /\ handle'[s][g].phase = handle[s][g].phase
        /\ watchers'[s] = watchers[s] /\ stopping'[s] = stopping[s] /\ made'[s] = made[s]
    BY <1>2
  <2>2. made[s] # 0 => made[s] \in H
    BY <1>1
  <2>3. \A g \in H : g # 1 => g - 1 \in H
    OBVIOUS
  <2>4. InTurn(s)
    BY <1>1
  <2>5. \A g \in H :
          /\ handle'[s][g].phase = "off" <=> g > made'[s]
          /\ handle'[s][g].phase = "queued" /\ g # 1
               => handle'[s][g].prev = g - 1 \/ handle'[s][g - 1].phase = "ended"
    BY <2>1, <2>3, <2>4 DEF InTurn
  <2>6. ASSUME NEW g \in H, handle'[s][g].phase \notin {"off", "queued"}, NEW f \in H, f < g
        PROVE  handle'[s][f].phase = "ended"
    BY <2>1, <2>4, <2>6 DEF InTurn
  <2>7. /\ watchers'[s] \in {0, made'[s]} /\ stopping'[s] \in {0, made'[s]}
        /\ watchers'[s] = 0 /\ stopping'[s] = 0 /\ made'[s] # 0
             => handle'[s][made'[s]].phase = "ended"
    BY <2>1, <2>2, <2>4 DEF InTurn
  <2>. QED
    BY <2>5, <2>6, <2>7 DEF InTurn
<1>3. \A g \in H : g < h => handle[r][g].phase = "ended"
  <2>1. CASE handle[r][h].phase # "queued"
    BY <1>1, <2>1 DEF InTurn
  <2>2. CASE handle[r][h].phase = "queued" /\ h # 1
    <3>1. h - 1 \in H /\ handle[r][h - 1].phase = "ended"
      BY <1>1, <2>2 DEF InTurn, PrevDone
    <3>. QED
      BY <1>1, <3>1 DEF InTurn
  <2>. QED
    BY <2>1, <2>2
<1>4. InTurn(r)'
  BY <1>1, <1>3 DEF InTurn
<1>5. ForgetInv'
  BY <1>1 DEF ForgetInv, InTurn
<1>. QED
  BY <1>2, <1>4, <1>5 DEF TurnInv

\* No watcher of the repository moves, but new ones may queue, which have no
\* mutex yet.
OnlyQueues(r) ==
    \A h \in H : \/ /\ handle'[r][h].phase = handle[r][h].phase
                    /\ handle'[r][h].lock = handle[r][h].lock
                 \/ handle[r][h].phase = "off" /\ handle'[r][h].phase = "queued"

\* The watcher a repository was last added with: none of the ones before, or as
\* it was if it was watched all along.
OnRecord(r) ==
    /\ epoch'[r] = epoch[r]
    /\ made'[r] \in Nat /\ made'[r] >= made[r]
    /\ watchers'[r] # 0 => \/ watchers[r] # 0 /\ since'[r] = since[r]
                           \/ since'[r] \in H /\ since'[r] > made[r] /\ since'[r] <= made'[r]

\* What stopping and starting mean for one repository.
Started(stop, start, r) ==
    /\ r \in start => /\ watchers'[r] \in H
                      /\ handle'[r][watchers'[r]].paused <=> entry[r].known /\ entry[r].paused
    /\ r \in stop /\ r \notin start => watchers'[r] = 0
    /\ r \notin stop /\ r \notin start => watchers'[r] = watchers[r]
    /\ r \notin start => /\ made'[r] = made[r]
                         /\ \A h \in H : /\ handle'[r][h].phase = handle[r][h].phase
                                         /\ handle'[r][h].paused = handle[r][h].paused
    /\ OnlyQueues(r)
    /\ UNCHANGED epoch => OnRecord(r)

LEMMA StartAndStopEffect ==
    ASSUME TypeOK, CommandsInv, TurnInv, NEW stop \in SUBSET Watched, NEW start \in SUBSET Repos,
           start \cap Watched \subseteq stop, StartAndStop(stop, start)
    PROVE  \A r \in Repos : Started(stop, start, r)
<1>. TAKE r \in Repos
<1>1. /\ plan.handles \in 0..MaxHandles /\ made[r] \in 0..MaxHandles
      /\ \A h \in H : handle[r][h] \in Handle
  BY DEF CommandsInv, TypeOK
<1>2. r \in start => made[r] < plan.handles
  BY DEF StartAndStop
<1>3. r \in start => made[r] + 1 \in H /\ watchers'[r] = made[r] + 1
  BY <1>1, <1>2 DEF StartAndStop
<1>4. \A p : /\ NewHandle(r, p).phase = "queued" /\ NewHandle(r, p).lock = 0
             /\ NewHandle(r, p).paused <=> entry[r].known /\ entry[r].paused
  BY DEF NewHandle, NoHandle
<1>5. \A h \in H : /\ [handle[r][h] EXCEPT !.cancelled = TRUE].phase = handle[r][h].phase
                   /\ [handle[r][h] EXCEPT !.cancelled = TRUE].paused = handle[r][h].paused
                   /\ [handle[r][h] EXCEPT !.cancelled = TRUE].lock = handle[r][h].lock
  BY <1>1 DEF Handle
<1>6. r \in start => (handle'[r][watchers'[r]].paused <=> entry[r].known /\ entry[r].paused)
  BY <1>3, <1>4 DEF StartAndStop
<1>7. OnlyQueues(r)
  <2>1. r \in start => handle[r][made[r] + 1].phase = "off"
    BY <1>1, <1>3 DEF TurnInv, InTurn
  <2>. QED
    BY <1>3, <1>4, <1>5, <2>1 DEF StartAndStop, OnlyQueues
<1>8. r \notin start => /\ made'[r] = made[r]
                        /\ \A h \in H : /\ handle'[r][h].phase = handle[r][h].phase
                                        /\ handle'[r][h].paused = handle[r][h].paused
  BY <1>5 DEF StartAndStop
<1>9. /\ r \in stop /\ r \notin start => watchers'[r] = 0
      /\ r \notin stop /\ r \notin start => watchers'[r] = watchers[r]
  BY DEF StartAndStop
<1>10. ASSUME UNCHANGED epoch PROVE OnRecord(r)
  <2>1. CASE r \in start /\ r \notin stop
    BY <1>1, <1>3, <1>10, <2>1 DEF StartAndStop, OnRecord
  <2>2. CASE r \in stop
    <3>1. watchers[r] # 0 /\ since'[r] = since[r]
      BY <2>2 DEF StartAndStop, Watched
    <3>2. made'[r] \in Nat /\ made'[r] >= made[r]
      BY <1>1 DEF StartAndStop
    <3>. QED
      BY <1>10, <3>1, <3>2 DEF OnRecord
  <2>3. CASE r \notin start /\ r \notin stop
    BY <1>1, <1>10, <2>3 DEF StartAndStop, OnRecord
  <2>. QED
    BY <2>1, <2>2, <2>3
<1>. QED
  BY <1>3, <1>6, <1>7, <1>8, <1>9, <1>10 DEF Started

\* The same for reconcileWatchers and startWatchers: what is in the
\* configuration is watched, the rest is stopped and waited for.
LEMMA ReconcileEffect ==
    ASSUME TypeOK, CommandsInv, TurnInv, NEW c \in Config, ReconcileWatchers(c), NEW r \in Repos
    PROVE  /\ watchers'[r] # 0 <=> r \in c.repos
           /\ forgets[r] \subseteq forgets'[r]
           /\ r \in Watched /\ r \notin c.repos
                => made'[r] \in forgets'[r] /\ ~entry'[r].known /\ ~entry'[r].paused
           /\ r \notin Watched \/ r \in c.repos
                => forgets'[r] = forgets[r] /\ entry'[r].paused = entry[r].paused
           /\ r \in c.repos =>
                \/ handle'[r][watchers'[r]].paused <=> entry[r].known /\ entry[r].paused
                \/ /\ r \in Watched /\ watchers'[r] = watchers[r]
                   /\ handle'[r][watchers[r]].paused = handle[r][watchers[r]].paused
           /\ r \in c.repos => entry'[r].known \/ watchers[r] # 0
           /\ r \in Watched \cap c.repos => entry'[r] \in {entry[r], Ensured(entry[r])}
           /\ r \notin Watched /\ r \notin c.repos => entry'[r] = entry[r]
           /\ r \notin c.repos => /\ made'[r] = made[r]
                                  /\ \A h \in H : handle'[r][h].phase = handle[r][h].phase
           /\ OnlyQueues(r) /\ OnRecord(r)
<1>. DEFINE gone == Watched \ c.repos
            restart == IF envs # c.envs THEN Watched \cap c.repos ELSE {}
            stop == gone \cup restart
            start == restart \cup (c.repos \ Watched)
<1>0. c.repos \subseteq Repos /\ Watched \subseteq Repos
  BY DEF Config, Watched
<1>1. /\ stop \in SUBSET Watched /\ start \in SUBSET Repos /\ start \cap Watched \subseteq stop
  BY <1>0
<1>2. /\ StartAndStop(stop, start)
      /\ forgets' = [s \in Repos |-> forgets[s] \cup (IF s \in gone THEN {watchers[s]} ELSE {})]
      /\ entry' = [s \in Repos |-> IF s \in gone THEN NoEntry
                                   ELSE IF s \in start THEN Ensured(entry[s]) ELSE entry[s]]
  BY DEF ReconcileWatchers
<1>3. Started(stop, start, r)
  <2>. HIDE DEF stop, start
  <2>. QED
    BY <1>1, <1>2, StartAndStopEffect
<1>4. watchers'[r] # 0 <=> r \in c.repos
  BY <1>3 DEF Watched, Started
<1>5. forgets[r] \subseteq forgets'[r] /\ (r \in gone => watchers[r] \in forgets'[r])
  BY <1>2 DEF TypeOK
<1>6. r \in gone => watchers[r] = made[r] /\ made'[r] = made[r]
  BY <1>3 DEF Watched, TurnInv, InTurn, Started
<1>7. /\ ~NoEntry.known /\ ~NoEntry.paused /\ Ensured(entry[r]).known
      /\ Ensured(entry[r]).paused = entry[r].paused
  BY EntryTypes DEF NoEntry, TypeOK
<1>8. /\ r \in gone => ~entry'[r].known /\ ~entry'[r].paused
      /\ r \in start => entry'[r] = Ensured(entry[r])
      /\ r \notin gone /\ r \notin start => entry'[r] = entry[r]
  BY <1>2, <1>7
<1>9. /\ r \in c.repos => entry'[r].known \/ watchers[r] # 0
      /\ r \in Watched \cap c.repos => entry'[r] \in {entry[r], Ensured(entry[r])}
      /\ r \notin Watched /\ r \notin c.repos => entry'[r] = entry[r]
  BY <1>7, <1>8 DEF Watched
<1>10. r \notin gone => forgets'[r] = forgets[r] /\ entry'[r].paused = entry[r].paused
  BY <1>2, <1>7, <1>8
<1>11. r \in c.repos =>
         \/ handle'[r][watchers'[r]].paused <=> entry[r].known /\ entry[r].paused
         \/ /\ r \in Watched /\ watchers'[r] = watchers[r]
            /\ handle'[r][watchers[r]].paused = handle[r][watchers[r]].paused
  <2>1. CASE r \in start
    BY <1>3, <2>1 DEF Started
  <2>2. CASE r \in c.repos /\ r \notin start
    <3>1. r \in Watched /\ r \notin stop
      BY <2>2
    <3>2. watchers[r] \in H
      BY <3>1 DEF Watched, TypeOK
    <3>. QED
      BY <1>3, <2>2, <3>1, <3>2 DEF Started
  <2>. QED
    BY <2>1, <2>2
<1>12. UNCHANGED epoch
  BY DEF ReconcileWatchers
<1>. QED
  BY <1>3, <1>4, <1>5, <1>6, <1>8, <1>9, <1>10, <1>11, <1>12 DEF Started

\* Boot starts the watchers of its configuration that nobody has started.
LEMMA BootEffect ==
    ASSUME TypeOK, CommandsInv, TurnInv, Boot, NEW r \in Repos
    PROVE  /\ watchers[r] # 0 => watchers'[r] = watchers[r]
           /\ watchers'[r] # 0 => watchers[r] # 0 \/ r \in cmd["main"].snap.repos
           /\ watchers[r] = 0 /\ watchers'[r] # 0 =>
                /\ watchers'[r] \in H /\ entry'[r] = Ensured(entry[r])
                /\ (handle'[r][watchers'[r]].paused <=> entry[r].known /\ entry[r].paused)
           /\ watchers'[r] = watchers[r] =>
                /\ entry'[r] = entry[r] /\ made'[r] = made[r]
                /\ \A h \in H : /\ handle'[r][h].phase = handle[r][h].phase
                                /\ handle'[r][h].paused = handle[r][h].paused
           /\ OnlyQueues(r) /\ OnRecord(r)
           /\ TurnInv' /\ UNCHANGED <<forgets, epoch, restarts>>
<1>. DEFINE c == cmd["main"].snap
            start == c.repos \ Watched
<1>0. "main" \in Actors /\ watchers \in [Repos -> 0..MaxHandles]
  BY DEF TypeOK
<1>1. CASE UNCHANGED <<unchangedWatchers, entry>>
  <2>1. UNCHANGED <<watchers, stopping, made, since, handle, forgets, epoch, restarts, entry>>
    BY <1>1 DEF unchangedWatchers
  <2>2. TurnInv' /\ OnlyQueues(r) /\ OnRecord(r)
    BY <2>1 DEF TurnInv, InTurn, OnlyQueues, OnRecord, TypeOK
  <2>. QED
    BY <1>0, <2>1, <2>2
<1>2. CASE ~UNCHANGED <<unchangedWatchers, entry>>
  <2>1. c.repos \subseteq Repos
    BY <1>0, CommandTypes DEF Config
  <2>2. /\ StartAndStop({}, start)
        /\ entry' = [s \in Repos |-> IF s \in start THEN Ensured(entry[s]) ELSE entry[s]]
        /\ UNCHANGED <<epoch, forgets, restarts>>
    BY <1>2 DEF Boot
  <2>3. {} \in SUBSET Watched /\ start \in SUBSET Repos /\ start \cap Watched \subseteq {}
    BY <2>1
  <2>4. r \in start => r \in c.repos /\ watchers[r] = 0
    BY DEF Watched
  <2>5. entry'[r] = IF r \in start THEN Ensured(entry[r]) ELSE entry[r]
    BY <2>2
  <2>. HIDE DEF start
  <2>6. TurnInv'
    BY <2>2, <2>3, StartAndStopTurns
  <2>7. Started({}, start, r)
    BY <2>2, <2>3, StartAndStopEffect
  <2>. QED
    BY <1>0, <2>2, <2>4, <2>5, <2>6, <2>7 DEF Started
<1>. QED
  BY <1>1, <1>2

LEMMA RestartEffect ==
    ASSUME TypeOK, CommandsInv, TurnInv, NEW r \in Watched, StartAndStop({r}, {r})
    PROVE  TurnInv' /\ \A s \in Repos : Started({r}, {r}, s)
<1>1. {r} \in SUBSET Watched /\ {r} \in SUBSET Repos /\ {r} \cap Watched \subseteq {r}
  BY DEF Watched
<1>. QED
  BY <1>1, StartAndStopTurns, StartAndStopEffect

\* The steps of a watcher's goroutine, as the lemmas above see them.
LEMMA WatcherMoves ==
    ASSUME TypeOK, NEW r \in Repos, NEW h \in H,
           Begin(r, h) \/ Open(r, h) \/ OpenFails(r, h) \/ Exit(r, h) \/ SyncBegins(r, h)
             \/ SyncEnds(r, h)
    PROVE  /\ UNCHANGED <<config, ctxDone, stopped, envs, watchers, stopping, made, since, epoch,
                          forgets, restarts, cmd>>
           /\ \A s \in Repos, g \in H :
                /\ handle'[s][g].prev = handle[s][g].prev
                /\ handle'[s][g].paused = handle[s][g].paused
                /\ s # r \/ g # h => /\ handle'[s][g].phase = handle[s][g].phase
                                     /\ handle'[s][g].lock = handle[s][g].lock
           /\ handle'[r][h].phase \notin {"off", "queued"}
           /\ handle[r][h].phase \notin {"off", "ended"}
           /\ handle[r][h].phase = "queued" => PrevDone(r, h)
           /\ handle'[r][h].phase \in {"watching", "syncing"} =>
                \/ handle'[r][h].lock = epoch[r]
                \/ /\ handle[r][h].phase \in {"watching", "syncing"}
                   /\ handle'[r][h].lock = handle[r][h].lock
           /\ handle'[r][h].phase = "syncing" => LockFree(r, handle'[r][h].lock)
           /\ handle'[r][h].phase \in Active => handle[r][h].phase \in Active \/ ~ctxDone
           /\ entry' # entry => entry' = Updated(r) /\ handle[r][h].phase \in Active
<1>1. \A s \in Repos, g \in H : handle[s][g] \in Handle
  <2>1. handle \in [Repos -> [H -> Handle]]
    BY DEF TypeOK
  <2>. QED
    BY <2>1
<1>2. ASSUME NEW to, Moves(r, h, to)
      PROVE  /\ UNCHANGED <<config, ctxDone, stopped, envs, watchers, stopping, made, since,
                            epoch, forgets, restarts, cmd>>
             /\ \A s \in Repos, g \in H :
                  /\ handle'[s][g].prev = handle[s][g].prev
                  /\ handle'[s][g].paused = handle[s][g].paused
                  /\ s # r \/ g # h => /\ handle'[s][g].phase = handle[s][g].phase
                                       /\ handle'[s][g].lock = handle[s][g].lock
             /\ handle'[r][h].phase = to /\ handle'[r][h].lock = handle[r][h].lock
  <2>. DEFINE moved == [handle[r][h] EXCEPT !.phase = to]
  <2>1. \A s \in Repos, g \in H :
          handle'[s][g] = IF s = r /\ g = h THEN moved ELSE handle[s][g]
    BY <1>2 DEF Moves, TypeOK
  <2>2. /\ moved.phase = to /\ moved.prev = handle[r][h].prev
        /\ moved.paused = handle[r][h].paused /\ moved.lock = handle[r][h].lock
    BY <1>1 DEF Handle
  <2>3. UNCHANGED <<config, ctxDone, stopped, envs, watchers, stopping, made, since, epoch,
                    forgets, restarts, cmd>>
    BY <1>2 DEF Moves
  <2>. HIDE DEF moved
  <2>. QED
    BY <2>1, <2>2, <2>3
<1>3. CASE Begin(r, h)
  BY <1>2, <1>3 DEF Begin, Active, Cancelled
<1>4. CASE Open(r, h)
  <2>1. UNCHANGED <<config, ctxDone, stopped, envs, watchers, stopping, made, since, epoch,
                    forgets, restarts, cmd>>
    BY <1>4 DEF Open
  <2>. DEFINE opened == [handle[r][h] EXCEPT !.phase = "watching", !.lock = epoch[r]]
  <2>2. \A s \in Repos, g \in H :
          handle'[s][g] = IF s = r /\ g = h THEN opened ELSE handle[s][g]
    <3>1. handle' = [handle EXCEPT ![r] = [@ EXCEPT ![h] = opened]]
      BY <1>1, <1>4 DEF Open, TypeOK
    <3>. QED
      BY <3>1 DEF TypeOK
  <2>3. /\ opened.phase = "watching"
        /\ opened.prev = handle[r][h].prev /\ opened.paused = handle[r][h].paused
        /\ opened.lock = epoch[r]
    BY <1>1 DEF Handle
  <2>. HIDE DEF opened
  <2>4. \A s \in Repos, g \in H :
          /\ handle'[s][g].prev = handle[s][g].prev
          /\ handle'[s][g].paused = handle[s][g].paused
          /\ s # r \/ g # h => /\ handle'[s][g].phase = handle[s][g].phase
                               /\ handle'[s][g].lock = handle[s][g].lock
    BY <2>2, <2>3
  <2>5. handle'[r][h].phase = "watching" /\ handle'[r][h].lock = epoch[r]
    BY <2>2, <2>3
  <2>. QED
    BY <1>4, <2>1, <2>4, <2>5 DEF Open, Active
<1>5. CASE OpenFails(r, h)
  BY <1>2, <1>5 DEF OpenFails, Active
<1>6. CASE Exit(r, h)
  BY <1>2, <1>6 DEF Exit, Active
<1>7. CASE SyncBegins(r, h)
  BY <1>2, <1>7 DEF SyncBegins, Active
<1>8. CASE SyncEnds(r, h)
  BY <1>2, <1>8 DEF SyncEnds, Active
<1>. QED
  BY <1>3, <1>4, <1>5, <1>6, <1>7, <1>8

\* SetPaused changes nothing but the flag of the watcher on record.
LEMMA PauseEffect ==
    ASSUME TypeOK, NEW c \in Actors, NEW r \in Repos, NEW on \in BOOLEAN, SetPaused(c, r, on)
    PROVE  /\ UNCHANGED <<config, ctxDone, stopped, envs, watchers, stopping, made, since, epoch,
                          forgets, restarts, entry>>
           /\ \A s \in Repos, g \in H :
                /\ handle'[s][g].prev = handle[s][g].prev
                /\ handle'[s][g].phase = handle[s][g].phase
                /\ handle'[s][g].lock = handle[s][g].lock
                /\ s # r => handle'[s][g].paused = handle[s][g].paused
           /\ r \in Watched /\ handle'[r][watchers[r]].paused = on
<1>1. \A s \in Repos, g \in H : handle[s][g] \in Handle
  BY DEF TypeOK
<1>2. watchers[r] \in H /\ r \in Watched
  BY DEF SetPaused, Watched, TypeOK
<1>. DEFINE set == [handle[r][watchers[r]] EXCEPT !.paused = on]
<1>3. \A s \in Repos, g \in H :
        handle'[s][g] = IF s = r /\ g = watchers[r] THEN set ELSE handle[s][g]
  BY <1>2 DEF SetPaused, TypeOK
<1>4. /\ set.paused = on
      /\ set.prev = handle[r][watchers[r]].prev /\ set.phase = handle[r][watchers[r]].phase
      /\ set.lock = handle[r][watchers[r]].lock
  BY <1>1, <1>2 DEF Handle
<1>. HIDE DEF set
<1>. QED
  BY <1>2, <1>3, <1>4 DEF SetPaused

LEMMA StepTurns ==
    ASSUME TypeOK, CommandsInv, TurnInv, ForgetInv, Next, UNCHANGED plan
    PROVE  TurnInv' /\ ForgetInv'
<1>0. plan.clients \subseteq Actors /\ "main" \in Actors
  BY DEF CommandsInv
<1>1. CASE UNCHANGED unchangedWatchers
  BY <1>1, RestTurns DEF unchangedWatchers
<1>2. ASSUME Boot PROVE TurnInv' /\ ForgetInv'
  <2>. SUFFICES ASSUME NEW r \in Repos
                PROVE  /\ InTurn(r)'
                       /\ watchers'[r] = 0 /\ made'[r] # 0 /\ handle'[r][made'[r]].phase # "ended"
                            => made'[r] \in forgets'[r]
    BY DEF TurnInv, ForgetInv
  <2>1. InTurn(r)'
    BY <1>2, BootEffect DEF TurnInv
  <2>2. made[r] \in 0..MaxHandles /\ watchers[r] \in 0..MaxHandles
    BY DEF TypeOK
  <2>3. ASSUME watchers'[r] = 0, made'[r] # 0, handle'[r][made'[r]].phase # "ended"
        PROVE  made'[r] \in forgets'[r]
    <3>1. watchers[r] = 0 /\ made'[r] = made[r] /\ forgets'[r] = forgets[r]
      BY <1>2, <2>3, BootEffect
    <3>2. made[r] \in H /\ handle'[r][made[r]].phase = handle[r][made[r]].phase
      BY <1>2, <2>2, <2>3, <3>1, BootEffect
    <3>. QED
      BY <2>3, <3>1, <3>2 DEF ForgetInv
  <2>. QED
    BY <2>1, <2>3
<1>3. ASSUME NEW a \in Actors, Reconcile(a) PROVE TurnInv' /\ ForgetInv'
  <2>1. cmd[a].snap \in Config /\ ReconcileWatchers(cmd[a].snap)
    BY <1>3, CommandTypes DEF Reconcile
  <2>2. TurnInv'
    BY <2>1, ReconcileTypes
  <2>3. ForgetInv'
    <3>. SUFFICES ASSUME NEW r \in Repos, watchers'[r] = 0, made'[r] # 0,
                         handle'[r][made'[r]].phase # "ended"
                  PROVE  made'[r] \in forgets'[r]
      BY DEF ForgetInv
    <3>1. made[r] \in 0..MaxHandles
      BY DEF TypeOK
    <3>. QED
      BY <2>1, <3>1, ReconcileEffect DEF ForgetInv, Watched
  <2>. QED
    BY <2>2, <2>3
<1>4. ASSUME NEW a \in Actors, NEW r \in Repos, NEW on \in BOOLEAN, SetPaused(a, r, on)
      PROVE  TurnInv' /\ ForgetInv'
  BY <1>4, PauseEffect, RestTurns
<1>5. ASSUME NEW a \in Actors, NEW r \in Repos, SetSettings(a, r) PROVE TurnInv' /\ ForgetInv'
  BY <1>5, RestTurns DEF SetSettings
<1>6. ASSUME NEW r \in Repos, RestartWatcher(r) PROVE TurnInv' /\ ForgetInv'
  <2>1. CASE ctxDone \/ r \notin Watched
    BY <1>6, <2>1, RestTurns DEF RestartWatcher
  <2>2. CASE ~(ctxDone \/ r \notin Watched)
    <3>1. r \in Watched /\ StartAndStop({r}, {r}) /\ UNCHANGED forgets
      BY <1>6, <2>2 DEF RestartWatcher
    <3>2. TurnInv' /\ \A s \in Repos : Started({r}, {r}, s)
      BY <3>1, RestartEffect
    <3>3. ForgetInv'
      <4>. SUFFICES ASSUME NEW s \in Repos, watchers'[s] = 0, made'[s] # 0,
                           handle'[s][made'[s]].phase # "ended"
                    PROVE  made'[s] \in forgets'[s]
        BY DEF ForgetInv
      <4>1. Started({r}, {r}, s) /\ made[s] \in 0..MaxHandles
        BY <3>2 DEF TypeOK
      <4>2. s # r /\ watchers[s] = 0 /\ made'[s] = made[s]
        BY <4>1 DEF Started
      <4>3. made[s] \in H /\ handle'[s][made[s]].phase = handle[s][made[s]].phase
        BY <4>1, <4>2 DEF Started
      <4>. QED
        BY <3>1, <4>2, <4>3 DEF ForgetInv
    <3>. QED
      BY <3>2, <3>3
  <2>. QED
    BY <2>1, <2>2
<1>7. ASSUME NEW r \in Repos, ClearStopping(r) PROVE TurnInv' /\ ForgetInv'
  <2>1. UNCHANGED <<watchers, made, handle, forgets>>
    BY <1>7 DEF ClearStopping
  <2>2. ForgetInv'
    BY <2>1 DEF ForgetInv
  <2>3. ASSUME NEW s \in Repos PROVE InTurn(s)'
    <3>1. InTurn(s) /\ made[s] \in 0..MaxHandles
      BY DEF TurnInv, TypeOK
    <3>2. \/ stopping'[s] = stopping[s]
          \/ stopping'[s] = 0 /\ (made[s] # 0 => handle[s][made[s]].phase = "ended")
      BY <1>7, <3>1 DEF ClearStopping, TypeOK, InTurn
    <3>. QED
      BY <2>1, <3>1, <3>2 DEF InTurn
  <2>. QED
    BY <2>2, <2>3 DEF TurnInv
<1>8. ASSUME NEW r \in Repos, NEW h \in H, Watcher(r, h) PROVE TurnInv' /\ ForgetInv'
  <2>1. CASE FindsNoFolder(r, h)
    BY <1>1, <2>1 DEF FindsNoFolder
  <2>2. CASE ForgetWhenStopped(r, h)
    <3>1. TurnInv'
      BY <2>2 DEF ForgetWhenStopped, TurnInv, InTurn
    <3>. QED
      BY <2>2, <3>1 DEF ForgetWhenStopped, ForgetInv, TypeOK
  <2>3. CASE Begin(r, h) \/ Open(r, h) \/ OpenFails(r, h) \/ Exit(r, h) \/ SyncBegins(r, h)
               \/ SyncEnds(r, h)
    BY <2>3, WatcherMoves, PhaseTurns
  <2>. QED
    BY <1>8, <2>1, <2>2, <2>3 DEF Watcher
<1>. QED
  BY <1>0, <1>1, <1>2, <1>3, <1>4, <1>5, <1>6, <1>7, <1>8
     DEF Next, Client, ReloadConfig, Check, AddRepo, RemoveRepo, WriteConfig, WriteConfigFails,
         StorePaused, AbortRebase, AbortFindsLock, AbortBegins, AbortEnds, EditReads, EditWrites,
         Stop, StopReturns

-----------------------------------------------------------------------------
(* What is watched has an entry, and nothing works after a clean Stop. *)

\* Update makes an entry and unmakes none.
LEMMA UpdatedKnown ==
    ASSUME TypeOK, NEW r, NEW s \in Repos
    PROVE  /\ entry[s].known => Updated(r)[s].known
           /\ s # r => Updated(r)[s] = entry[s]
           /\ s = r => Updated(r)[s].known
           /\ Updated(r)[s].paused = entry[s].paused
<1>1. entry[s] \in Entry /\ Ensured(entry[s]).known /\ Ensured(entry[s]).paused = entry[s].paused
  BY EntryTypes DEF TypeOK
<1>2. Updated(r)[s] = IF s = r THEN Ensured(entry[s]) ELSE entry[s]
  BY DEF Updated, TypeOK
<1>. QED
  BY <1>1, <1>2

\* Steps that start no watcher, forget nothing and let no watcher begin.
LEMMA RestKnown ==
    ASSUME TypeOK, WatchedIsKnown, UNCHANGED watchers,
           entry' = entry \/ \E r : entry' = Updated(r)
    PROVE  WatchedIsKnown'
BY UpdatedKnown DEF WatchedIsKnown, Watched

LEMMA RestStop ==
    ASSUME StopInv, UNCHANGED <<ctxDone, stopped>>,
           \A r \in Repos, h \in H :
               handle'[r][h].phase \in Active => handle[r][h].phase \in Active \/ ~ctxDone
    PROVE  StopInv'
BY DEF StopInv, StoppedMeansQuiet

LEMMA StepKnown ==
    ASSUME TypeOK, CommandsInv, TurnInv, WatchedIsKnown, StopInv, Next, UNCHANGED plan
    PROVE  WatchedIsKnown' /\ StopInv'
<1>0. plan.clients \subseteq Actors /\ "main" \in Actors
  BY DEF CommandsInv
<1>1. CASE UNCHANGED <<unchangedWatchers, ctxDone, stopped, entry>>
  BY <1>1, RestKnown, RestStop DEF unchangedWatchers
<1>2. ASSUME Boot PROVE WatchedIsKnown' /\ StopInv'
  <2>1. WatchedIsKnown'
    <3>. SUFFICES ASSUME NEW r \in Repos, watchers'[r] # 0 PROVE entry'[r].known
      BY DEF WatchedIsKnown, Watched
    <3>1. entry[r] \in Entry
      BY DEF TypeOK
    <3>. QED
      BY <1>2, <3>1, BootEffect, EntryTypes DEF WatchedIsKnown, Watched
  <2>2. StopInv'
    BY <1>2, BootEffect, RestStop DEF Boot, Active, OnlyQueues
  <2>. QED
    BY <2>1, <2>2
<1>3. ASSUME NEW a \in Actors, Reconcile(a) PROVE WatchedIsKnown' /\ StopInv'
  <2>1. cmd[a].snap \in Config /\ ReconcileWatchers(cmd[a].snap) /\ UNCHANGED <<ctxDone, stopped>>
    BY <1>3, CommandTypes DEF Reconcile
  <2>2. WatchedIsKnown'
    <3>. SUFFICES ASSUME NEW r \in Repos, watchers'[r] # 0 PROVE entry'[r].known
      BY DEF WatchedIsKnown, Watched
    <3>1. entry[r] \in Entry
      BY DEF TypeOK
    <3>2. r \in cmd[a].snap.repos
      BY <2>1, ReconcileEffect
    <3>. QED
      BY <2>1, <3>1, <3>2, ReconcileEffect, EntryTypes DEF WatchedIsKnown, Watched
  <2>3. StopInv'
    BY <2>1, ReconcileEffect, RestStop DEF Active, OnlyQueues
  <2>. QED
    BY <2>2, <2>3
<1>4. ASSUME NEW a \in Actors, NEW r \in Repos, NEW on \in BOOLEAN, SetPaused(a, r, on)
      PROVE  WatchedIsKnown' /\ StopInv'
  <2>1. WatchedIsKnown'
    BY <1>4, PauseEffect, RestKnown
  <2>. QED
    BY <1>4, <2>1, PauseEffect, RestStop
<1>5. ASSUME NEW a \in Actors, StorePaused(a) PROVE WatchedIsKnown' /\ StopInv'
  <2>1. \A s \in Repos : entry'[s].known \/ entry'[s] = entry[s]
    BY <1>5 DEF StorePaused, TypeOK
  <2>2. WatchedIsKnown'
    BY <1>5, <2>1 DEF StorePaused, unchangedWatchers, WatchedIsKnown, Watched
  <2>. QED
    BY <1>5, <2>2, RestStop DEF StorePaused, unchangedWatchers
<1>6. ASSUME NEW r \in Repos, RestartWatcher(r) PROVE WatchedIsKnown' /\ StopInv'
  <2>1. CASE ctxDone \/ r \notin Watched
    BY <1>6, <2>1, RestKnown, RestStop DEF RestartWatcher
  <2>2. CASE ~(ctxDone \/ r \notin Watched)
    <3>1. r \in Watched /\ StartAndStop({r}, {r}) /\ entry' = Updated(r)
      BY <1>6, <2>2 DEF RestartWatcher
    <3>2. \A s \in Repos : Started({r}, {r}, s)
      BY <3>1, RestartEffect
    <3>3. \A s \in Repos : watchers'[s] # 0 => s \in Watched
      BY <3>1, <3>2 DEF Started, Watched
    <3>4. WatchedIsKnown'
      BY <3>1, <3>3, UpdatedKnown DEF WatchedIsKnown, Watched
    <3>. QED
      BY <1>6, <3>2, <3>4, RestStop
         DEF RestartWatcher, Started, OnlyQueues, Active
  <2>. QED
    BY <2>1, <2>2
<1>7. ASSUME NEW r \in Repos, NEW h \in H, Watcher(r, h) PROVE WatchedIsKnown' /\ StopInv'
  <2>1. CASE FindsNoFolder(r, h)
    BY <2>1, RestKnown, RestStop DEF FindsNoFolder, unchangedWatchers
  <2>2. CASE ForgetWhenStopped(r, h)
    <3>1. \A s \in Repos : watchers[s] # 0 => entry'[s] = entry[s]
      BY <2>2 DEF ForgetWhenStopped, TypeOK
    <3>2. WatchedIsKnown'
      BY <2>2, <3>1 DEF ForgetWhenStopped, WatchedIsKnown, Watched
    <3>. QED
      BY <2>2, <3>2, RestStop DEF ForgetWhenStopped
  <2>3. CASE Begin(r, h) \/ Open(r, h) \/ OpenFails(r, h) \/ Exit(r, h) \/ SyncBegins(r, h)
               \/ SyncEnds(r, h)
    <3>1. WatchedIsKnown'
      BY <2>3, WatcherMoves, RestKnown
    <3>. QED
      BY <2>3, <3>1, WatcherMoves, RestStop
  <2>. QED
    BY <1>7, <2>1, <2>2, <2>3 DEF Watcher
<1>8. ASSUME Stop \/ StopReturns PROVE WatchedIsKnown' /\ StopInv'
  <2>1. WatchedIsKnown'
    BY <1>8, RestKnown DEF Stop, StopReturns, unchangedWatchers
  <2>. QED
    BY <1>8, <2>1 DEF Stop, StopReturns, unchangedWatchers, StopInv, StoppedMeansQuiet, Active
<1>9. ASSUME NEW a \in Actors, WriteConfig(a) \/ AbortEnds(a) PROVE WatchedIsKnown' /\ StopInv'
  <2>1. UNCHANGED <<watchers, handle, ctxDone, stopped>> /\ (entry' = entry \/ \E r : entry' = Updated(r))
    BY <1>9 DEF WriteConfig, AbortEnds, unchangedWatchers
  <2>2. WatchedIsKnown'
    BY <2>1, RestKnown
  <2>. QED
    BY <2>1, <2>2, RestStop
<1>10. ASSUME NEW r \in Repos, ClearStopping(r) \/ \E c : SetSettings(c, r)
       PROVE  WatchedIsKnown' /\ StopInv'
  BY <1>10, RestKnown, RestStop DEF ClearStopping, SetSettings
<1>. QED
  BY <1>0, <1>1, <1>2, <1>3, <1>4, <1>5, <1>6, <1>7, <1>8, <1>9, <1>10
     DEF Next, Client, ReloadConfig, Check, AddRepo, RemoveRepo, WriteConfigFails,
         AbortRebase, AbortFindsLock, AbortBegins, EditReads, EditWrites

-----------------------------------------------------------------------------
(* What was removed is forgotten. *)

\* The command of an AddRepo that has still to start the watcher.
Adding(c, r) ==
    cmd[c].pc \in {"check", "reconcile"} /\ cmd[c].repo = r /\ r \in cmd[c].snap.repos

\* A watcher at work without being on record is one that is waited for.
LEMMA WorkingIsKept ==
    ASSUME TypeOK, TurnInv, ForgetInv, NEW r \in Repos, NEW h \in H,
           handle[r][h].phase \in Active, r \notin Watched
    PROVE  forgets[r] # {}
<1>1. watchers[r] = 0 /\ made[r] \in 0..MaxHandles /\ InTurn(r)
  BY DEF TypeOK, TurnInv, Watched
<1>2. handle[r][h].phase # "off" /\ handle[r][h].phase # "ended" /\ h <= made[r]
  BY <1>1 DEF InTurn, Active
<1>3. made[r] \in H /\ handle[r][made[r]].phase # "ended"
  BY <1>1, <1>2 DEF InTurn
<1>. QED
  BY <1>1, <1>3 DEF ForgetInv

\* Steps that leave no more to be forgotten than there was.
LEMMA RestRemoved ==
    ASSUME RemovedInv, UNCHANGED plan,
           \A a \in Actors : \/ cmd'[a].pc = cmd[a].pc
                             \/ cmd'[a].pc \notin {"store", "abort", "locking", "aborting"},
           \A r \in Repos : ~ctxDone' /\ watchers'[r] = 0 /\ entry'[r].known =>
               /\ ~ctxDone /\ watchers[r] = 0 /\ entry[r].known
               /\ forgets[r] # {} => forgets'[r] # {}
               /\ \A c \in Clients : Adding(c, r) => Adding(c, r)'
    PROVE  RemovedInv'
BY DEF RemovedInv, Watched, Adding, Commands

\* The same, with the entry of a repository made while its forgetting is
\* still waited for.
LEMMA KeptRemoved ==
    ASSUME RemovedInv, UNCHANGED <<plan, cmd, ctxDone, watchers, forgets>>,
           \A r \in Repos : entry'[r] = entry[r] \/ forgets[r] # {} \/ r \in Watched
    PROVE  RemovedInv'
BY DEF RemovedInv, Watched, Commands

LEMMA StepRemoved ==
    ASSUME TypeOK, CommandsInv, TurnInv, ForgetInv, RemovedInv, Next, UNCHANGED plan
    PROVE  RemovedInv'
<1>. SUFFICES ASSUME Commands \cap {"pause", "abort"} = {} PROVE RemovedInv'
  BY DEF RemovedInv, Commands
<1>0. /\ plan.clients \subseteq Clients /\ Clients \subseteq Actors
      /\ "main" \in Actors /\ "cli" \in Actors
      /\ cmd \in [Actors -> Command] /\ NoCommand.pc = "idle"
      /\ \A a \in Actors : cmd[a].pc \notin {"store", "abort", "locking", "aborting"}
  BY DEF CommandsInv, TypeOK, NoCommand, RemovedInv
<1>1. CASE UNCHANGED <<cmd, ctxDone, watchers, forgets, entry>>
  BY <1>1, KeptRemoved
<1>2. ASSUME Boot PROVE RemovedInv'
  <2>1. /\ UNCHANGED ctxDone
        /\ \A a \in Actors : IF a = "main" THEN cmd'[a].pc = "idle" ELSE cmd'[a] = cmd[a]
    BY <1>0, <1>2 DEF Boot, Idle
  <2>2. \A c \in Clients : cmd'[c] = cmd[c]
    BY <1>0, <2>1
  <2>3. \A r \in Repos : watchers'[r] = 0 =>
           /\ watchers[r] = 0 /\ entry'[r] = entry[r] /\ forgets'[r] = forgets[r]
    BY <1>2, BootEffect
  <2>. QED
    BY <2>1, <2>2, <2>3, RestRemoved DEF Adding
<1>3. ASSUME ReloadConfig PROVE RemovedInv'
  <2>1. /\ UNCHANGED <<ctxDone, watchers, forgets, entry>>
        /\ cmd'["main"].pc = "check" /\ \A a \in Actors : a # "main" => cmd'[a] = cmd[a]
    <3>1. cmd["main"] \in Command
      BY <1>0
    <3>. QED
      BY <1>0, <1>3, <3>1 DEF ReloadConfig, unchangedWatchers, Command
  <2>. QED
    BY <1>0, <2>1, RestRemoved DEF Adding
<1>4. ASSUME NEW a \in Actors, Check(a) PROVE RemovedInv'
  <2>1. /\ UNCHANGED <<ctxDone, watchers, forgets, entry>>
        /\ \A b \in Actors : b # a => cmd'[b] = cmd[b]
        /\ cmd'[a].pc \in {"idle", "reconcile"}
        /\ ~ctxDone => /\ cmd'[a].pc = "reconcile" /\ cmd'[a].repo = cmd[a].repo
                       /\ cmd'[a].snap = cmd[a].snap
    <3>1. cmd[a] \in Command
      BY <1>0
    <3>. QED
      BY <1>0, <1>4, <3>1 DEF Check, unchangedWatchers, Command, Idle
  <2>. QED
    BY <1>0, <2>1, RestRemoved DEF Adding
<1>5. ASSUME NEW a \in Actors, Reconcile(a) PROVE RemovedInv'
  <2>1. /\ cmd[a].snap \in Config /\ ReconcileWatchers(cmd[a].snap) /\ UNCHANGED ctxDone
        /\ \A b \in Actors : IF b = a THEN cmd'[b].pc = "idle" ELSE cmd'[b] = cmd[b]
    BY <1>0, <1>5, CommandTypes DEF Reconcile, Idle
  <2>2. \A r \in Repos : watchers'[r] = 0 /\ entry'[r].known =>
           /\ r \notin cmd[a].snap.repos /\ watchers[r] = 0 /\ entry'[r] = entry[r]
           /\ forgets[r] # {} => forgets'[r] # {}
    BY <2>1, ReconcileEffect DEF Watched
  <2>3. \A r \in Repos : watchers'[r] = 0 /\ entry'[r].known =>
           \A c \in Clients : Adding(c, r) => Adding(c, r)'
    BY <1>0, <2>1, <2>2 DEF Adding
  <2>. QED
    BY <2>1, <2>2, <2>3, RestRemoved
<1>6. ASSUME NEW a \in Clients, NEW r \in Repos, AddRepo(a, r) \/ RemoveRepo(a, r)
      PROVE  RemovedInv'
  <2>1. /\ UNCHANGED <<ctxDone, watchers, forgets, entry>> /\ cmd[a].pc = "idle"
        /\ \A b \in Actors : b # a => cmd'[b] = cmd[b]
        /\ cmd'[a].pc \in {"check", "write"}
    <3>1. cmd[a] \in Command
      BY <1>0
    <3>2. \A p, s, t : [cmd[a] EXCEPT !.pc = p, !.repo = s, !.snap = t].pc = p
      BY <3>1 DEF Command
    <3>3. CASE AddRepo(a, r)
      BY <1>0, <3>2, <3>3 DEF AddRepo, unchangedWatchers
    <3>4. CASE RemoveRepo(a, r)
      BY <1>0, <3>2, <3>4 DEF RemoveRepo, unchangedWatchers
    <3>. QED
      BY <1>6, <3>3, <3>4
  <2>. QED
    BY <1>0, <2>1, RestRemoved DEF Adding
<1>7. ASSUME NEW a \in Clients, WriteConfig(a) PROVE RemovedInv'
  <2>1. /\ UNCHANGED <<ctxDone, watchers, forgets>> /\ cmd[a].pc = "write"
        /\ \A b \in Actors : b # a => cmd'[b] = cmd[b]
        /\ cmd'[a].pc = "check" /\ cmd'[a].repo = cmd[a].repo /\ cmd'[a].snap = cmd[a].snap
        /\ entry' = IF cmd[a].repo \in cmd[a].snap.repos THEN Updated(cmd[a].repo) ELSE entry
    <3>1. cmd[a] \in Command
      BY <1>0
    <3>. QED
      BY <1>0, <1>7, <3>1 DEF WriteConfig, unchangedWatchers, Command
  <2>2. \A r \in Repos : entry'[r] = entry[r] \/ Adding(a, r)'
    BY <2>1, UpdatedKnown DEF Adding
  <2>3. \A r \in Repos, c \in Clients : Adding(c, r) => Adding(c, r)'
    BY <1>0, <2>1 DEF Adding
  <2>. QED
    BY <1>0, <2>1, <2>2, <2>3 DEF RemovedInv, Watched, Commands, Adding
<1>8. ASSUME NEW a \in Clients, WriteConfigFails(a) PROVE RemovedInv'
  <2>1. /\ UNCHANGED <<ctxDone, watchers, forgets, entry>> /\ cmd[a].pc = "write"
        /\ \A b \in Actors : IF b = a THEN cmd'[b].pc = "idle" ELSE cmd'[b] = cmd[b]
    BY <1>0, <1>8 DEF WriteConfigFails, unchangedWatchers, Idle
  <2>. QED
    BY <1>0, <2>1, RestRemoved DEF Adding
<1>9. ASSUME EditReads \/ EditWrites PROVE RemovedInv'
  <2>1. /\ UNCHANGED <<ctxDone, watchers, forgets, entry>>
        /\ \A a \in Actors : a # "cli" => cmd'[a] = cmd[a]
        /\ cmd'["cli"].pc \in {"edit", "idle"}
    <3>1. cmd["cli"] \in Command
      BY <1>0
    <3>. QED
      BY <1>0, <1>9, <3>1 DEF EditReads, EditWrites, unchangedWatchers, Idle, Command
  <2>. QED
    BY <1>0, <2>1, RestRemoved DEF Adding
<1>10. ASSUME NEW r \in Repos, RestartWatcher(r) PROVE RemovedInv'
  <2>1. CASE ctxDone \/ r \notin Watched
    BY <1>1, <1>10, <2>1 DEF RestartWatcher
  <2>2. CASE ~(ctxDone \/ r \notin Watched)
    <3>1. r \in Watched /\ StartAndStop({r}, {r}) /\ entry' = Updated(r)
             /\ UNCHANGED <<cmd, ctxDone, forgets>>
      BY <1>10, <2>2 DEF RestartWatcher
    <3>2. \A s \in Repos : Started({r}, {r}, s)
      BY <3>1, RestartEffect
    <3>3. \A s \in Repos : watchers'[s] = 0 => watchers[s] = 0 /\ entry'[s] = entry[s]
      BY <3>1, <3>2, UpdatedKnown DEF Started
    <3>. QED
      BY <3>1, <3>3, RestRemoved DEF Adding
  <2>. QED
    BY <2>1, <2>2
<1>11. ASSUME NEW r \in Repos, NEW h \in H, Watcher(r, h) PROVE RemovedInv'
  <2>1. CASE FindsNoFolder(r, h)
    <3>1. /\ UNCHANGED <<cmd, ctxDone, watchers, forgets>> /\ entry' = Updated(r)
          /\ handle[r][h].phase \in Active
      BY <2>1 DEF FindsNoFolder, unchangedWatchers, Active
    <3>. QED
      BY <3>1, UpdatedKnown, WorkingIsKept, KeptRemoved
  <2>2. CASE ForgetWhenStopped(r, h)
    <3>1. \A s \in Repos : watchers'[s] = 0 /\ entry'[s].known
             => watchers[s] = 0 /\ entry'[s] = entry[s] /\ forgets'[s] = forgets[s]
      BY <2>2 DEF ForgetWhenStopped, TypeOK, NoEntry
    <3>. QED
      BY <2>2, <3>1, RestRemoved DEF ForgetWhenStopped, Adding
  <2>3. CASE Begin(r, h) \/ Open(r, h) \/ OpenFails(r, h) \/ Exit(r, h) \/ SyncBegins(r, h)
               \/ SyncEnds(r, h)
    <3>1. /\ UNCHANGED <<cmd, ctxDone, watchers, forgets>>
          /\ entry' # entry => entry' = Updated(r) /\ handle[r][h].phase \in Active
      BY <2>3, WatcherMoves
    <3>. QED
      BY <3>1, UpdatedKnown, WorkingIsKept, KeptRemoved
  <2>. QED
    BY <1>11, <2>1, <2>2, <2>3 DEF Watcher
<1>12. ASSUME Stop PROVE RemovedInv'
  BY <1>12 DEF Stop, RemovedInv, Commands
<1>13. ASSUME NEW c \in Clients, Client(c) PROVE RemovedInv'
  <2>1. CASE WriteConfig(c) \/ WriteConfigFails(c) \/ Check(c) \/ Reconcile(c)
    BY <1>0, <1>4, <1>5, <1>7, <1>8, <2>1
  <2>2. ASSUME NEW r \in Repos, AddRepo(c, r) \/ RemoveRepo(c, r) PROVE RemovedInv'
    BY <1>6, <2>2
  <2>3. ASSUME NEW r \in Repos, SetSettings(c, r) PROVE RemovedInv'
    BY <1>1, <2>3 DEF SetSettings
  <2>4. ~(StorePaused(c) \/ AbortFindsLock(c) \/ AbortBegins(c) \/ AbortEnds(c))
    BY <1>0 DEF StorePaused, AbortFindsLock, AbortBegins, AbortEnds
  <2>5. \A r \in Repos : ~AbortRebase(c, r) /\ \A on \in BOOLEAN : ~SetPaused(c, r, on)
    BY DEF AbortRebase, SetPaused
  <2>. QED
    BY <1>13, <2>1, <2>2, <2>3, <2>4, <2>5 DEF Client
<1>14. ASSUME StopReturns \/ \E r \in Repos : ClearStopping(r) PROVE RemovedInv'
  BY <1>1, <1>14 DEF StopReturns, unchangedWatchers, ClearStopping
<1>. QED
  BY <1>0, <1>2, <1>3, <1>4, <1>5, <1>9, <1>10, <1>11, <1>12, <1>13, <1>14 DEF Next

-----------------------------------------------------------------------------
(* The theorem. *)

LEMMA NextInv == Inv /\ [Next /\ UNCHANGED plan]_<<vars, plan>> => Inv'
<1>. SUFFICES ASSUME Inv, [Next /\ UNCHANGED plan]_<<vars, plan>> PROVE Inv'
  OBVIOUS
<1>. USE DEF Inv
<1>1. CASE Next /\ UNCHANGED plan
  BY <1>1, StepTypes, StepTurns, StepKnown, StepRemoved
<1>2. CASE UNCHANGED <<vars, plan>>
  <2>1. UNCHANGED <<config, ctxDone, stopped, envs, watchers, stopping, made, handle, epoch,
                    forgets, restarts, entry, cmd, since, plan>>
    BY <1>2 DEF vars
  <2>2. TypeOK'
    BY <2>1 DEF TypeOK
  <2>3. CommandsInv' /\ TurnInv' /\ ForgetInv'
    BY <2>1 DEF CommandsInv, TurnInv, InTurn, ForgetInv
  <2>4. WatchedIsKnown' /\ RemovedInv' /\ StopInv'
    BY <2>1 DEF WatchedIsKnown, Watched, RemovedInv, Commands, StopInv, StoppedMeansQuiet
  <2>. QED
    BY <2>2, <2>3, <2>4
<1>. QED
  BY <1>1, <1>2

LEMMA InvHolds == Spec => []Inv
BY InitInv, NextInv, PTL DEF Spec

\* However commands, reloads and the ends of earlier watchers interleave, for
\* any number of repositories, clients and restarts: a repository never has
\* two watchers at work, what is watched has an entry, what was removed is
\* forgotten, and nothing works after a clean Stop (startWatcherLocked,
\* stopWatcherLocked, forgetWhenStopped, Stop).
THEOREM WatchersInvHolds == Spec => []WatchersInv
BY InvHolds, InvImplies, PTL

-----------------------------------------------------------------------------
(* The watchers implement the taking of turns. *)

\* Of the steps of a client only a reconcile starts and stops watchers, and only
\* a pause touches the handle of another.
LEMMA ClientLeaves ==
    ASSUME NEW c, Client(c)
    PROVE  /\ UNCHANGED ctxDone
           /\ Reconcile(c) \/ UNCHANGED <<watchers, made, since, epoch>>
           /\ \/ Reconcile(c) \/ UNCHANGED handle
              \/ \E r \in Repos : \E on \in BOOLEAN : SetPaused(c, r, on)
<1>1. CASE WriteConfig(c) \/ WriteConfigFails(c) \/ Check(c)
  BY <1>1 DEF WriteConfig, WriteConfigFails, Check, unchangedWatchers
<1>2. CASE Reconcile(c)
  BY <1>2 DEF Reconcile
<1>3. CASE StorePaused(c) \/ AbortFindsLock(c) \/ AbortBegins(c) \/ AbortEnds(c)
  BY <1>3 DEF StorePaused, AbortFindsLock, AbortBegins, AbortEnds, unchangedWatchers
<1>4. ASSUME NEW r \in Repos, AddRepo(c, r) \/ RemoveRepo(c, r)
      PROVE  UNCHANGED <<ctxDone, watchers, made, since, epoch, handle>>
  BY <1>4 DEF AddRepo, RemoveRepo, unchangedWatchers
<1>5. ASSUME NEW r \in Repos, SetSettings(c, r) \/ AbortRebase(c, r)
      PROVE  UNCHANGED <<ctxDone, watchers, made, since, epoch, handle>>
  BY <1>5 DEF SetSettings, AbortRebase, unchangedWatchers
<1>6. ASSUME NEW r \in Repos, NEW on \in BOOLEAN, SetPaused(c, r, on)
      PROVE  UNCHANGED <<ctxDone, watchers, made, since, epoch>>
  BY <1>6 DEF SetPaused
<1>. QED
  BY <1>1, <1>2, <1>3, <1>4, <1>5, <1>6 DEF Client

\* A step lets watchers queue, moves one on, or forgets a repository.
LEMMA StepMoves ==
    ASSUME Inv, Next, UNCHANGED plan
    PROVE  \/ \A r \in Repos : OnlyQueues(r) /\ OnRecord(r)
           \/ \E r \in Repos, h \in H :
                \/ Begin(r, h) \/ Open(r, h) \/ OpenFails(r, h) \/ Exit(r, h) \/ SyncBegins(r, h)
                \/ SyncEnds(r, h) \/ ForgetWhenStopped(r, h)
<1>. USE DEF Inv
<1>0. plan.clients \subseteq Actors /\ "main" \in Actors
  BY DEF CommandsInv
<1>1. CASE UNCHANGED <<watchers, made, since, epoch>> /\ \A r \in Repos : OnlyQueues(r)
  BY <1>1 DEF OnRecord, TypeOK
<1>2. CASE UNCHANGED <<watchers, made, since, epoch, handle>>
  BY <1>1, <1>2 DEF OnlyQueues
<1>3. ASSUME Boot PROVE \A r \in Repos : OnlyQueues(r) /\ OnRecord(r)
  BY <1>3, BootEffect
<1>4. ASSUME NEW a \in Actors, Reconcile(a) PROVE \A r \in Repos : OnlyQueues(r) /\ OnRecord(r)
  <2>1. cmd[a].snap \in Config /\ ReconcileWatchers(cmd[a].snap)
    BY <1>4, CommandTypes DEF Reconcile
  <2>. QED
    BY <2>1, ReconcileEffect
<1>5. CASE \E r \in Repos : RestartWatcher(r)
  <2>. PICK r \in Repos : RestartWatcher(r)
    BY <1>5
  <2>1. CASE ctxDone \/ r \notin Watched
    BY <1>2, <2>1 DEF RestartWatcher
  <2>2. CASE ~(ctxDone \/ r \notin Watched)
    BY <2>2, RestartEffect DEF RestartWatcher, Started
  <2>. QED
    BY <2>1, <2>2
<1>6. CASE \E c \in plan.clients : Client(c)
  <2>. PICK c \in plan.clients : Client(c)
    BY <1>6
  <2>1. c \in Actors
    BY <1>0
  <2>2. CASE Reconcile(c)
    BY <1>4, <2>1, <2>2
  <2>3. CASE UNCHANGED <<watchers, made, since, epoch, handle>>
    BY <1>2, <2>3
  <2>4. CASE \E r \in Repos : \E on \in BOOLEAN : SetPaused(c, r, on)
    <3>1. UNCHANGED <<watchers, made, since, epoch>> /\ \A r \in Repos : OnlyQueues(r)
      BY <2>1, <2>4, PauseEffect DEF OnlyQueues
    <3>. QED
      BY <1>1, <3>1
  <2>. QED
    BY <2>2, <2>3, <2>4, ClientLeaves
<1>7. ASSUME NEW r \in Repos, NEW h \in H, Watcher(r, h)
      PROVE  \/ UNCHANGED <<watchers, made, since, epoch, handle>>
             \/ Begin(r, h) \/ Open(r, h) \/ OpenFails(r, h) \/ Exit(r, h) \/ SyncBegins(r, h)
             \/ SyncEnds(r, h) \/ ForgetWhenStopped(r, h)
  BY <1>7 DEF Watcher, FindsNoFolder, unchangedWatchers
<1>8. ReloadConfig \/ Check("main") \/ EditReads \/ EditWrites \/ Stop \/ StopReturns
        => UNCHANGED <<watchers, made, since, epoch, handle>>
  BY DEF ReloadConfig, Check, EditReads, EditWrites, Stop, StopReturns, unchangedWatchers
<1>9. \A r \in Repos : ClearStopping(r) => UNCHANGED <<watchers, made, since, epoch, handle>>
  BY DEF ClearStopping
<1>. QED
  BY <1>0, <1>2, <1>3, <1>4, <1>5, <1>6, <1>7, <1>8, <1>9 DEF Next

\* The owner is the watcher at work, before a step and after it.
LEMMA OwnerIs ==
    ASSUME NeverTwoWatchers, NEW r \in Repos
    PROVE  /\ \A h \in H : handle[r][h].phase \in Active => Owner[r] = h
           /\ (\A h \in H : handle[r][h].phase \notin Active) => Owner[r] = 0
BY DEF NeverTwoWatchers, Owner

LEMMA OwnerIsNext ==
    ASSUME NeverTwoWatchers', NEW r \in Repos
    PROVE  /\ \A h \in H : handle'[r][h].phase \in Active => Owner'[r] = h
           /\ (\A h \in H : handle'[r][h].phase \notin Active) => Owner'[r] = 0
BY DEF NeverTwoWatchers, Owner, Active

\* Nothing changes for a repository none of whose watchers moves.
LEMMA OwnerStays ==
    ASSUME NeverTwoWatchers, NeverTwoWatchers', NEW r \in Repos,
           \A h \in H : /\ handle'[r][h].phase \in Active <=> handle[r][h].phase \in Active
                        /\ handle'[r][h].phase \in {"off", "queued"}
                             <=> handle[r][h].phase \in {"off", "queued"}
    PROVE  Owner'[r] = Owner[r] /\ Had'[r] = Had[r]
<1>1. Owner'[r] = Owner[r]
  <2>1. CASE \E h \in H : handle[r][h].phase \in Active
    BY <2>1, OwnerIs, OwnerIsNext
  <2>2. CASE \A h \in H : handle[r][h].phase \notin Active
    BY <2>2, OwnerIs, OwnerIsNext
  <2>. QED
    BY <2>1, <2>2
<1>2. Had'[r] = Had[r]
  BY DEF Had
<1>. QED
  BY <1>1, <1>2

LEMMA OwnerTypes ==
    /\ Owner = [r \in Repos |-> Owner[r]] /\ Owner' = [r \in Repos |-> Owner'[r]]
    /\ Had = [r \in Repos |-> Had[r]] /\ Had' = [r \in Repos |-> Had'[r]]
BY DEF Owner, Had

LEMMA TurnsInit == Init => Turns!Init
<1>. SUFFICES ASSUME Init PROVE Turns!Init
  OBVIOUS
<1>1. \A r \in Repos, h \in H : handle[r][h].phase = "off"
  BY DEF Init, NoHandle
<1>2. Owner = [r \in Repos |-> 0]
  BY <1>1 DEF Owner, Active
<1>3. Had = [r \in Repos |-> {}]
  BY <1>1 DEF Had
<1>. QED
  BY <1>2, <1>3 DEF Turns!Init

LEMMA InvImpliesNext == Inv' => WatchersInv'
BY InvImplies, PTL

LEMMA TurnsNext ==
    ASSUME Inv, Inv', [Next /\ UNCHANGED plan]_<<vars, plan>>
    PROVE  [Turns!Next]_<<Owner, Had>>
<1>0. NeverTwoWatchers /\ NeverTwoWatchers'
  BY InvImplies, InvImpliesNext DEF WatchersInv
<1>1. CASE \A r \in Repos : OnlyQueues(r)
  <2>1. \A r \in Repos : Owner'[r] = Owner[r] /\ Had'[r] = Had[r]
    BY <1>0, <1>1, OwnerStays DEF OnlyQueues, Active
  <2>. QED
    BY <2>1, OwnerTypes
<1>2. ASSUME NEW r \in Repos, NEW h \in H,
             Begin(r, h) \/ Open(r, h) \/ OpenFails(r, h) \/ Exit(r, h) \/ SyncBegins(r, h)
               \/ SyncEnds(r, h)
      PROVE  Turns!Next \/ UNCHANGED <<Owner, Had>>
  <2>1. /\ \A s \in Repos, g \in H : s # r \/ g # h => handle'[s][g].phase = handle[s][g].phase
        /\ handle'[r][h].phase \notin {"off", "queued"}
        /\ handle[r][h].phase \notin {"off", "ended"}
        /\ TurnInv
    BY <1>2, WatcherMoves DEF Inv
  <2>2. \A s \in Repos : s # r => Owner'[s] = Owner[s] /\ Had'[s] = Had[s]
    BY <1>0, <2>1, OwnerStays
  <2>3. CASE handle[r][h].phase = "queued"
    <3>1. \A g \in H : g < h => handle[r][g].phase = "ended"
      <4>1. handle'[r][h].phase \notin {"off", "queued"} /\ InTurn(r)'
        BY <2>1 DEF Inv, TurnInv
      <4>. QED
        BY <2>1, <4>1 DEF InTurn
    <3>2. \A g \in H : g > h => handle[r][g].phase \in {"off", "queued"}
      BY <2>1, <2>3 DEF TurnInv, InTurn
    <3>3. Owner[r] = 0
      BY <1>0, <2>3, <3>1, <3>2, OwnerIs DEF Active
    <3>4. \A g \in Had[r] : g < h
      BY <2>3, <3>2 DEF Had
    <3>5. Had' = [Had EXCEPT ![r] = @ \cup {h}]
      <4>1. Had'[r] = Had[r] \cup {h}
        BY <2>1 DEF Had
      <4>. QED
        BY <2>2, <4>1, OwnerTypes
    <3>6. Owner' \in {Owner, [Owner EXCEPT ![r] = h]}
      <4>1. Owner'[r] \in {0, h}
        BY <1>0, <2>1, <3>1, <3>2, OwnerIsNext DEF Active
      <4>. QED
        BY <2>2, <3>3, <4>1, OwnerTypes
    <3>. QED
      BY <3>3, <3>4, <3>5, <3>6 DEF Turns!Next, Turns!Turn
  <2>4. CASE handle[r][h].phase # "queued"
    <3>1. handle[r][h].phase \in Active
      BY <1>2, <2>4 DEF Begin, Open, OpenFails, Exit, SyncBegins, SyncEnds, Active
    <3>2. Had' = Had
      <4>1. Had'[r] = Had[r]
        BY <2>1, <3>1 DEF Had, Active
      <4>. QED
        BY <2>2, <4>1, OwnerTypes
    <3>3. Owner[r] = h
      BY <1>0, <3>1, OwnerIs
    <3>4. CASE handle'[r][h].phase \in Active
      <4>1. Owner'[r] = h
        BY <1>0, <3>4, OwnerIsNext
      <4>. QED
        BY <2>2, <3>2, <3>3, <4>1, OwnerTypes
    <3>5. CASE handle'[r][h].phase \notin Active
      <4>1. \A g \in H : handle'[r][g].phase \notin Active
        BY <1>0, <2>1, <3>1, <3>5 DEF NeverTwoWatchers
      <4>2. Owner'[r] = 0
        BY <1>0, <4>1, OwnerIsNext
      <4>3. Owner' = [Owner EXCEPT ![r] = 0]
        BY <2>2, <4>2, OwnerTypes
      <4>4. Owner[r] # 0
        BY <3>3
      <4>5. Turns!Return(r)
        BY <3>2, <4>3, <4>4 DEF Turns!Return
      <4>. QED
        BY <4>5 DEF Turns!Next
    <3>. QED
      BY <3>4, <3>5
  <2>. QED
    BY <2>3, <2>4
<1>3. CASE UNCHANGED handle
  BY <1>1, <1>3 DEF OnlyQueues
<1>4. UNCHANGED <<vars, plan>> \/ (\E r \in Repos, h \in H : ForgetWhenStopped(r, h))
        => UNCHANGED handle
  BY DEF vars, ForgetWhenStopped
<1>. QED
  BY <1>1, <1>2, <1>3, <1>4, StepMoves

\* startWatcherLocked and the goroutine it starts implement module
\* WatcherTurns: the watchers of a repository have it one at a time and in the
\* order in which they were started.
THEOREM WatchersTakeTurns == Spec => TakesTurns
BY InvHolds, TurnsInit, TurnsNext, PTL DEF Spec, TakesTurns, Turns!Spec

-----------------------------------------------------------------------------
(* What the steps of a command do to it. *)

\* The command of a ends, or goes on to p; the other commands stay as they are.
Ends(a) == cmd'[a] = NoCommand /\ \A b \in Actors : b # a => cmd'[b] = cmd[b]
GoesTo(a, p) == cmd'[a].pc = p /\ \A b \in Actors : b # a => cmd'[b] = cmd[b]
Keeps(a) == /\ cmd'[a].repo = cmd[a].repo /\ cmd'[a].snap = cmd[a].snap
            /\ cmd'[a].on = cmd[a].on /\ cmd'[a].lock = cmd[a].lock
            /\ cmd'[a].found = cmd[a].found

LEMMA CommandEnds ==
    ASSUME TypeOK, NEW a \in Actors,
           \/ a = "main" /\ Boot
           \/ a = "cli" /\ EditWrites
           \/ Check(a) /\ ctxDone
           \/ Reconcile(a) \/ WriteConfigFails(a) \/ StorePaused(a) \/ AbortEnds(a)
    PROVE  Ends(a)
<1>1. cmd' = Idle(a) /\ cmd \in [Actors -> Command]
  BY DEF Boot, EditWrites, Check, Reconcile, WriteConfigFails, StorePaused, AbortEnds, TypeOK
<1>. QED
  BY <1>1 DEF Idle, Ends

LEMMA CommandGoesOn ==
    ASSUME TypeOK, NEW a \in Actors
    PROVE  /\ Check(a) /\ ~ctxDone => GoesTo(a, "reconcile") /\ Keeps(a)
           /\ WriteConfig(a) => GoesTo(a, "check") /\ Keeps(a)
           /\ AbortBegins(a) => GoesTo(a, "aborting") /\ Keeps(a)
           /\ AbortFindsLock(a) => /\ GoesTo(a, "locking") /\ cmd'[a].repo = cmd[a].repo
                                   /\ cmd'[a].found = cmd[a].found
                                   /\ cmd'[a].lock = epoch[cmd[a].repo]
<1>1. cmd[a] \in Command /\ cmd \in [Actors -> Command]
  BY DEF TypeOK
<1>2. ASSUME NEW p, cmd' = [cmd EXCEPT ![a] = [@ EXCEPT !.pc = p]] PROVE GoesTo(a, p) /\ Keeps(a)
  <2>1. cmd'[a] = [cmd[a] EXCEPT !.pc = p] /\ \A b \in Actors : b # a => cmd'[b] = cmd[b]
    BY <1>1, <1>2
  <2>. QED
    BY <1>1, <2>1 DEF GoesTo, Keeps, Command
<1>3. \A p : [cmd EXCEPT ![a].pc = p] = [cmd EXCEPT ![a] = [@ EXCEPT !.pc = p]]
  OBVIOUS
<1>4. ASSUME AbortFindsLock(a)
      PROVE  /\ GoesTo(a, "locking") /\ cmd'[a].repo = cmd[a].repo
             /\ cmd'[a].found = cmd[a].found
             /\ cmd'[a].lock = epoch[cmd[a].repo]
  <2>1. /\ cmd'[a] = [cmd[a] EXCEPT !.pc = "locking", !.lock = epoch[cmd[a].repo]]
        /\ \A b \in Actors : b # a => cmd'[b] = cmd[b]
    BY <1>1, <1>4 DEF AbortFindsLock
  <2>. QED
    BY <1>1, <2>1 DEF GoesTo, Command
<1>. QED
  BY <1>2, <1>3, <1>4 DEF Check, WriteConfig, AbortBegins

LEMMA CommandBegins ==
    ASSUME TypeOK, NEW a \in Actors, NEW r \in Repos
    PROVE  /\ AddRepo(a, r) =>
                /\ GoesTo(a, IF r \in config.repos THEN "check" ELSE "write")
                /\ cmd'[a].snap.repos = config.repos \cup {r}
           /\ RemoveRepo(a, r) =>
                /\ GoesTo(a, "write")
                /\ cmd'[a].snap.repos = config.repos \ {r}
           /\ AbortRebase(a, r) =>
                GoesTo(a, "abort") /\ cmd'[a].repo = r /\ cmd'[a].found = watchers[r]
           /\ \A on \in BOOLEAN : SetPaused(a, r, on) =>
                /\ GoesTo(a, "store")
                /\ cmd'[a].repo = r /\ cmd'[a].on = on
<1>1. cmd[a] \in Command /\ cmd \in [Actors -> Command] /\ config \in Config
  BY DEF TypeOK
<1>2. ASSUME NEW k, cmd' = [cmd EXCEPT ![a] = k]
      PROVE  cmd'[a] = k /\ GoesTo(a, k.pc)
  BY <1>1, <1>2 DEF GoesTo
<1>3. ASSUME NEW p, NEW s
      PROVE  LET k == [cmd[a] EXCEPT !.pc = p, !.repo = r, !.snap = s]
             IN  k.pc = p /\ k.snap = s
  BY <1>1 DEF Command
<1>4. ASSUME AddRepo(a, r)
      PROVE  /\ GoesTo(a, IF r \in config.repos THEN "check" ELSE "write")
             /\ cmd'[a].snap.repos = config.repos \cup {r}
  <2>. DEFINE p == IF r \in config.repos THEN "check" ELSE "write"
              s == [config EXCEPT !.repos = @ \cup {r}]
              k == [cmd[a] EXCEPT !.pc = p, !.repo = r, !.snap = s]
  <2>1. cmd' = [cmd EXCEPT ![a] = k]
    BY <1>1, <1>4 DEF AddRepo
  <2>2. k.pc = p /\ k.snap = s
    <3>. HIDE DEF p, s
    <3>. QED
      BY <1>3
  <2>3. s.repos = config.repos \cup {r}
    BY <1>1 DEF Config
  <2>. HIDE DEF k, s
  <2>. QED
    BY <1>2, <2>1, <2>2, <2>3
<1>5. ASSUME RemoveRepo(a, r)
      PROVE  /\ GoesTo(a, "write")
             /\ cmd'[a].snap.repos = config.repos \ {r}
  <2>. DEFINE s == [config EXCEPT !.repos = @ \ {r}]
              k == [cmd[a] EXCEPT !.pc = "write", !.repo = r, !.snap = s]
  <2>1. cmd' = [cmd EXCEPT ![a] = k]
    BY <1>1, <1>5 DEF RemoveRepo
  <2>2. k.pc = "write" /\ k.snap = s
    <3>. HIDE DEF s
    <3>. QED
      BY <1>3
  <2>3. s.repos = config.repos \ {r}
    BY <1>1 DEF Config
  <2>. HIDE DEF k, s
  <2>. QED
    BY <1>2, <2>1, <2>2, <2>3
<1>6. ASSUME AbortRebase(a, r)
      PROVE  GoesTo(a, "abort") /\ cmd'[a].repo = r /\ cmd'[a].found = watchers[r]
  <2>. DEFINE k == [cmd[a] EXCEPT !.pc = "abort", !.repo = r, !.found = watchers[r]]
  <2>1. cmd' = [cmd EXCEPT ![a] = k]
    BY <1>1, <1>6 DEF AbortRebase
  <2>2. k.pc = "abort" /\ k.repo = r /\ k.found = watchers[r]
    BY <1>1 DEF Command
  <2>. HIDE DEF k
  <2>. QED
    BY <1>2, <2>1, <2>2
<1>7. ASSUME NEW on \in BOOLEAN, SetPaused(a, r, on)
      PROVE  /\ GoesTo(a, "store")
             /\ cmd'[a].repo = r /\ cmd'[a].on = on
  <2>. DEFINE k == [cmd[a] EXCEPT !.pc = "store", !.repo = r, !.on = on]
  <2>1. cmd' = [cmd EXCEPT ![a] = k]
    BY <1>1, <1>7 DEF SetPaused
  <2>2. k.pc = "store" /\ k.repo = r /\ k.on = on
    BY <1>1 DEF Command
  <2>. HIDE DEF k
  <2>. QED
    BY <1>2, <2>1, <2>2
<1>. QED
  BY <1>4, <1>5, <1>6, <1>7

-----------------------------------------------------------------------------
(* The configuration is changed under cfgMu. *)

\* Only the clients of the plan send commands.
PlannedInv == \A c \in Clients : cmd[c].pc # "idle" => c \in plan.clients

HoldsCfgMu(c) == cmd[c].pc \in {"write", "check", "reconcile"}

\* Where nothing but the commands changes the configuration, one of them at a
\* time is between its reading and its reconciling, and what it reconciles with
\* is what the file holds.
CfgInv ==
    Commands \cap {"reload", "edit"} = {} =>
        /\ cmd["main"].pc \in {"boot", "idle"} /\ cmd["cli"].pc = "idle"
        /\ \A c, d \in Clients : HoldsCfgMu(c) /\ HoldsCfgMu(d) => c = d
        /\ \A c \in Clients : cmd[c].pc \in {"check", "reconcile"}
             => cmd[c].snap.repos = config.repos

\* The steps that leave commands and configuration alone.
LEMMA StepQuiet ==
    ASSUME Next
    PROVE  \/ UNCHANGED <<cmd, config>>
           \/ Boot \/ ReloadConfig \/ Check("main") \/ Reconcile("main") \/ EditReads \/ EditWrites
           \/ \E c \in plan.clients :
                \/ WriteConfig(c) \/ WriteConfigFails(c) \/ Check(c) \/ Reconcile(c)
                \/ StorePaused(c) \/ AbortFindsLock(c) \/ AbortBegins(c) \/ AbortEnds(c)
                \/ \E r \in Repos : AddRepo(c, r) \/ RemoveRepo(c, r) \/ AbortRebase(c, r)
                                      \/ \E on \in BOOLEAN : SetPaused(c, r, on)
<1>1. \A c, r : SetSettings(c, r) => UNCHANGED <<cmd, config>>
  BY DEF SetSettings
<1>2. Stop \/ StopReturns => UNCHANGED <<cmd, config>>
  BY DEF Stop, StopReturns
<1>3. \A r \in Repos : RestartWatcher(r) \/ ClearStopping(r) => UNCHANGED <<cmd, config>>
  BY DEF RestartWatcher, ClearStopping
<1>4. \A r \in Repos, h \in H : Watcher(r, h) => UNCHANGED <<cmd, config>>
  BY DEF Watcher, Begin, Open, FindsNoFolder, OpenFails, Exit, SyncBegins, SyncEnds,
         ForgetWhenStopped, Moves
<1>. QED
  BY <1>1, <1>2, <1>3, <1>4 DEF Next, Client

LEMMA StepPlanned ==
    ASSUME TypeOK, CommandsInv, PlannedInv, Next, UNCHANGED plan
    PROVE  PlannedInv'
<1>0. /\ plan.clients \subseteq Clients /\ Clients \subseteq Actors
      /\ "main" \in Actors /\ "cli" \in Actors /\ cmd \in [Actors -> Command]
  BY DEF CommandsInv, TypeOK
<1>. SUFFICES ASSUME NEW c \in Clients, c \notin plan.clients PROVE cmd'[c] = cmd[c]
  BY DEF PlannedInv
<1>1. CASE Boot \/ ReloadConfig \/ Check("main") \/ Reconcile("main") \/ EditReads \/ EditWrites
  BY <1>0, <1>1 DEF Boot, ReloadConfig, Check, Reconcile, EditReads, EditWrites, Idle
<1>2. CASE \E d \in plan.clients : Client(d)
  <2>. PICK d \in plan.clients : Client(d)
    BY <1>2
  <2>1. d # c /\ d \in Actors
    BY <1>0
  <2>2. \/ WriteConfig(d) \/ WriteConfigFails(d) \/ Check(d) \/ Reconcile(d)
        \/ StorePaused(d) \/ AbortFindsLock(d) \/ AbortBegins(d) \/ AbortEnds(d)
        => cmd'[c] = cmd[c]
    BY <1>0, <2>1, CommandEnds, CommandGoesOn DEF Ends, GoesTo
  <2>3. ASSUME NEW r \in Repos
        PROVE  \/ AddRepo(d, r) \/ RemoveRepo(d, r) \/ AbortRebase(d, r) \/ SetSettings(d, r)
               \/ \E on \in BOOLEAN : SetPaused(d, r, on)
               => cmd'[c] = cmd[c]
    BY <1>0, <2>1, CommandBegins DEF GoesTo, SetSettings
  <2>. QED
    BY <2>2, <2>3 DEF Client
<1>. QED
  BY <1>1, <1>2, StepQuiet DEF Client

LEMMA StepCfg ==
    ASSUME TypeOK, CommandsInv, CfgInv, Next, UNCHANGED plan
    PROVE  CfgInv'
<1>. SUFFICES ASSUME Commands \cap {"reload", "edit"} = {} PROVE CfgInv'
  BY DEF CfgInv, Commands
<1>0. /\ plan.clients \subseteq Clients /\ Clients \subseteq Actors
      /\ "main" \in Actors \ Clients /\ "cli" \in Actors \ Clients /\ "main" # "cli"
      /\ NoCommand.pc = "idle"
  BY DEF CommandsInv, NoCommand
<1>1. /\ cmd["main"].pc \in {"boot", "idle"} /\ cmd["cli"].pc = "idle"
      /\ \A c, d \in Clients : HoldsCfgMu(c) /\ HoldsCfgMu(d) => c = d
      /\ \A c \in Clients : cmd[c].pc \in {"check", "reconcile"} => cmd[c].snap.repos = config.repos
  BY DEF CfgInv
<1>2. ASSUME NEW a \in Actors, Ends(a), UNCHANGED config PROVE CfgInv'
  BY <1>0, <1>1, <1>2 DEF Ends, CfgInv, HoldsCfgMu
<1>3. ASSUME NEW a \in Clients, UNCHANGED config,
             \/ GoesTo(a, "store") \/ GoesTo(a, "abort") \/ GoesTo(a, "locking")
             \/ GoesTo(a, "aborting")
      PROVE  CfgInv'
  BY <1>0, <1>1, <1>3 DEF GoesTo, CfgInv, HoldsCfgMu
<1>4. CASE UNCHANGED <<cmd, config>>
  BY <1>1, <1>4 DEF CfgInv, HoldsCfgMu
<1>5. CASE Boot \/ ReloadConfig \/ Check("main") \/ Reconcile("main") \/ EditReads \/ EditWrites
  <2>1. Boot
    BY <1>1, <1>5 DEF ReloadConfig, Check, Reconcile, EditReads, EditWrites
  <2>. QED
    BY <1>0, <1>2, <2>1, CommandEnds DEF Boot
<1>6. ASSUME NEW c \in Clients, WriteConfig(c) PROVE CfgInv'
  <2>1. /\ cmd[c].pc = "write" /\ config' = cmd[c].snap
        /\ GoesTo(c, "check") /\ cmd'[c].snap = cmd[c].snap
    BY <1>0, <1>6, CommandGoesOn DEF WriteConfig, Keeps
  <2>2. \A d \in Clients : d # c => cmd'[d].pc \notin {"write", "check", "reconcile"}
    BY <1>0, <1>1, <2>1 DEF GoesTo, HoldsCfgMu
  <2>. QED
    BY <1>0, <1>1, <2>1, <2>2 DEF CfgInv, GoesTo, HoldsCfgMu
<1>7. ASSUME NEW c \in Clients, Check(c) PROVE CfgInv'
  <2>1. CASE ctxDone
    BY <1>0, <1>2, <1>7, <2>1, CommandEnds DEF Check
  <2>2. CASE ~ctxDone
    <3>1. /\ cmd[c].pc = "check" /\ UNCHANGED config
          /\ GoesTo(c, "reconcile") /\ cmd'[c].snap = cmd[c].snap
      BY <1>0, <1>7, <2>2, CommandGoesOn DEF Check, Keeps
    <3>. QED
      BY <1>0, <1>1, <3>1 DEF CfgInv, GoesTo, HoldsCfgMu
  <2>. QED
    BY <2>1, <2>2
<1>8. ASSUME NEW c \in Clients, NEW r \in Repos, AddRepo(c, r) \/ RemoveRepo(c, r) PROVE CfgInv'
  <2>1. \A d \in Clients : cmd[d].pc \notin {"write", "check", "reconcile"}
    BY <1>8 DEF AddRepo, RemoveRepo, CfgMuFree
  <2>2. /\ UNCHANGED config
        /\ \/ GoesTo(c, "write")
           \/ GoesTo(c, "check") /\ cmd'[c].snap.repos = config.repos
    <3>1. CASE AddRepo(c, r)
      <4>1. UNCHANGED config
        BY <3>1 DEF AddRepo
      <4>2. /\ GoesTo(c, IF r \in config.repos THEN "check" ELSE "write")
            /\ cmd'[c].snap.repos = config.repos \cup {r}
        BY <1>0, <3>1, CommandBegins
      <4>3. CASE r \in config.repos
        BY <4>1, <4>2, <4>3
      <4>4. CASE r \notin config.repos
        BY <4>1, <4>2, <4>4
      <4>. QED
        BY <4>3, <4>4
    <3>2. CASE RemoveRepo(c, r)
      BY <1>0, <3>2, CommandBegins DEF RemoveRepo
    <3>. QED
      BY <1>8, <3>1, <3>2
  <2>. QED
    BY <1>0, <1>1, <2>1, <2>2 DEF CfgInv, GoesTo, HoldsCfgMu
<1>9. ASSUME NEW c \in Clients,
             Reconcile(c) \/ WriteConfigFails(c) \/ StorePaused(c) \/ AbortEnds(c)
      PROVE  CfgInv'
  <2>1. Ends(c) /\ UNCHANGED config
    BY <1>0, <1>9, CommandEnds DEF Reconcile, WriteConfigFails, StorePaused, AbortEnds
  <2>. QED
    BY <1>0, <1>2, <2>1
<1>10. ASSUME NEW c \in Clients, AbortFindsLock(c) \/ AbortBegins(c) PROVE CfgInv'
  BY <1>0, <1>3, <1>10, CommandGoesOn DEF AbortFindsLock, AbortBegins
<1>11. ASSUME NEW c \in Clients, NEW r \in Repos,
              AbortRebase(c, r) \/ \E on \in BOOLEAN : SetPaused(c, r, on)
       PROVE  CfgInv'
  <2>1. UNCHANGED config
    BY <1>11 DEF AbortRebase, SetPaused
  <2>2. GoesTo(c, "abort") \/ GoesTo(c, "store")
    BY <1>0, <1>11, CommandBegins
  <2>. QED
    BY <1>3, <2>1, <2>2
<1>. QED
  BY <1>0, <1>4, <1>5, <1>6, <1>7, <1>8, <1>9, <1>10, <1>11, StepQuiet

\* Until a command has written the file the watchers are those of the file, and
\* they are again when it has reconciled them with it.
FollowInv ==
    plan.configured = {} /\ Commands \cap {"reload", "edit"} = {} =>
        /\ cmd["main"].pc = "boot" => cmd["main"].snap.repos = {}
        /\ ~ctxDone /\ (\A c \in Clients : cmd[c].pc \notin {"check", "reconcile"})
             => Watched = config.repos

\* What a step does to the set of watched repositories.
LEMMA StepWatched ==
    ASSUME TypeOK, CommandsInv, TurnInv, Next
    PROVE  \/ Boot \/ \E a \in Actors : Reconcile(a)
           \/ Watched' = Watched
<1>1. ASSUME NEW r \in Repos, RestartWatcher(r) PROVE Watched' = Watched
  <2>1. CASE ctxDone \/ r \notin Watched
    BY <1>1, <2>1 DEF RestartWatcher, Watched
  <2>2. CASE ~(ctxDone \/ r \notin Watched)
    <3>1. r \in Watched /\ \A s \in Repos : Started({r}, {r}, s)
      BY <1>1, <2>2, RestartEffect DEF RestartWatcher
    <3>. QED
      BY <3>1 DEF Started, Watched
  <2>. QED
    BY <2>1, <2>2
<1>2. UNCHANGED watchers => Watched' = Watched
  BY DEF Watched
<1>3. \A r \in Repos, h \in H : Watcher(r, h) => UNCHANGED watchers
  BY DEF Watcher, Begin, Open, FindsNoFolder, OpenFails, Exit, SyncBegins, SyncEnds,
         ForgetWhenStopped, Moves, unchangedWatchers
<1>4. \A c \in plan.clients : Client(c) => Reconcile(c) \/ UNCHANGED watchers
  BY ClientLeaves
<1>5. plan.clients \subseteq Actors /\ "main" \in Actors
  BY DEF CommandsInv
<1>6. ReloadConfig \/ Check("main") \/ EditReads \/ EditWrites \/ Stop \/ StopReturns
        => UNCHANGED watchers
  BY DEF ReloadConfig, Check, EditReads, EditWrites, Stop, StopReturns, unchangedWatchers
<1>7. \A r \in Repos : ClearStopping(r) => UNCHANGED watchers
  BY DEF ClearStopping
<1>. QED
  BY <1>1, <1>2, <1>3, <1>4, <1>5, <1>6, <1>7 DEF Next

\* Cancelling the context is for ever.
LEMMA StepCtx ==
    ASSUME Next
    PROVE  UNCHANGED ctxDone \/ ctxDone'
<1>1. \A r \in Repos, h \in H : Watcher(r, h) => UNCHANGED ctxDone
  BY DEF Watcher, Begin, Open, FindsNoFolder, OpenFails, Exit, SyncBegins, SyncEnds,
         ForgetWhenStopped, Moves
<1>2. \A c \in plan.clients : Client(c) => UNCHANGED ctxDone
  BY ClientLeaves
<1>. QED
  BY <1>1, <1>2 DEF Next, Boot, ReloadConfig, Check, Reconcile, EditReads, EditWrites, Stop,
                    StopReturns, RestartWatcher, ClearStopping

LEMMA StepFollow ==
    ASSUME TypeOK, CommandsInv, TurnInv, CfgInv, FollowInv, Next, UNCHANGED plan
    PROVE  FollowInv'
<1>. SUFFICES ASSUME plan.configured = {}, Commands \cap {"reload", "edit"} = {} PROVE FollowInv'
  BY DEF FollowInv, Commands
<1>. DEFINE Settled == \A c \in Clients : cmd[c].pc \notin {"check", "reconcile"}
<1>0. /\ plan.clients \subseteq Clients /\ Clients \subseteq Actors
      /\ "main" \in Actors \ Clients /\ "cli" \in Actors \ Clients
      /\ NoCommand.pc = "idle"
  BY DEF CommandsInv, NoCommand
<1>1. /\ cmd["main"].pc = "boot" => cmd["main"].snap.repos = {}
      /\ ~ctxDone /\ Settled => Watched = config.repos
      /\ cmd["main"].pc \in {"boot", "idle"} /\ cmd["cli"].pc = "idle"
      /\ \A c, d \in Clients : HoldsCfgMu(c) /\ HoldsCfgMu(d) => c = d
      /\ \A c \in Clients : cmd[c].pc \in {"check", "reconcile"} => cmd[c].snap.repos = config.repos
  BY DEF FollowInv, CfgInv
<1>2. ~ctxDone' => ~ctxDone
  BY StepCtx
<1>3. ASSUME cmd'["main"] = cmd["main"] \/ cmd'["main"] = NoCommand,
             Watched' = Watched, UNCHANGED config, ~ctxDone' /\ Settled' => Settled
      PROVE  FollowInv'
  <2>1. cmd'["main"].pc = "boot" => cmd'["main"].snap.repos = {}
    BY <1>0, <1>1, <1>3
  <2>2. ~ctxDone' /\ Settled' => Watched' = config'.repos
    BY <1>1, <1>2, <1>3
  <2>. QED
    BY <2>1, <2>2 DEF FollowInv
<1>4. CASE UNCHANGED <<cmd, config>> /\ Watched' = Watched
  BY <1>3, <1>4
<1>5. CASE Boot
  <2>1. Ends("main") /\ UNCHANGED config
    BY <1>0, <1>5, CommandEnds DEF Boot
  <2>2. \A r \in Repos : watchers'[r] # 0 <=> watchers[r] # 0
    BY <1>1, <1>5, BootEffect DEF Boot
  <2>3. Watched' = Watched
    BY <2>2 DEF Watched
  <2>. QED
    BY <1>0, <1>3, <2>1, <2>3 DEF Ends
<1>6. ASSUME NEW c \in Clients, Reconcile(c) PROVE FollowInv'
  <2>1. /\ cmd[c].snap \in Config /\ ReconcileWatchers(cmd[c].snap) /\ UNCHANGED config
        /\ cmd[c].pc = "reconcile" /\ Ends(c)
    BY <1>0, <1>6, CommandTypes, CommandEnds DEF Reconcile
  <2>2. cmd[c].snap.repos = config.repos /\ config.repos \subseteq Repos
    BY <1>1, <2>1 DEF Config
  <2>3. \A r \in Repos : watchers'[r] # 0 <=> r \in cmd[c].snap.repos
    BY <2>1, ReconcileEffect
  <2>4. Watched' = config'.repos
    BY <2>1, <2>2, <2>3 DEF Watched
  <2>5. cmd'["main"] = cmd["main"]
    BY <1>0, <2>1 DEF Ends
  <2>. QED
    BY <1>1, <2>4, <2>5 DEF FollowInv
<1>7. ASSUME NEW c \in Clients, Watched' = Watched, cmd'["main"] = cmd["main"],
             cmd'[c].pc \in {"check", "reconcile"}
      PROVE  FollowInv'
  BY <1>1, <1>7 DEF FollowInv
<1>8. ASSUME NEW c \in Clients, WriteConfig(c) \/ Check(c), Watched' = Watched PROVE FollowInv'
  <2>1. CASE WriteConfig(c) \/ (Check(c) /\ ~ctxDone)
    BY <1>0, <1>7, <1>8, <2>1, CommandGoesOn DEF GoesTo
  <2>2. CASE Check(c) /\ ctxDone
    <3>1. UNCHANGED <<ctxDone, config>> /\ Ends(c)
      BY <1>0, <2>2, CommandEnds DEF Check
    <3>. QED
      BY <1>0, <1>3, <1>8, <2>2, <3>1 DEF Ends
  <2>. QED
    BY <1>8, <2>1, <2>2
<1>9. ASSUME NEW c \in Clients, Watched' = Watched, UNCHANGED config,
             cmd[c].pc \notin {"check", "reconcile"},
             \A b \in Actors : b # c => cmd'[b] = cmd[b]
      PROVE  FollowInv'
  BY <1>0, <1>3, <1>9
<1>10. ASSUME NEW c \in Clients, Watched' = Watched,
              \/ WriteConfigFails(c) \/ StorePaused(c) \/ AbortEnds(c)
              \/ AbortFindsLock(c) \/ AbortBegins(c)
       PROVE  FollowInv'
  <2>1. UNCHANGED config /\ cmd[c].pc \notin {"check", "reconcile"}
    BY <1>10 DEF WriteConfigFails, StorePaused, AbortEnds, AbortFindsLock, AbortBegins
  <2>2. \A b \in Actors : b # c => cmd'[b] = cmd[b]
    BY <1>0, <1>10, CommandEnds, CommandGoesOn DEF Ends, GoesTo
  <2>. QED
    BY <1>9, <1>10, <2>1, <2>2
<1>11. ASSUME NEW c \in Clients, NEW r \in Repos, Watched' = Watched,
              \/ AddRepo(c, r) \/ RemoveRepo(c, r) \/ AbortRebase(c, r)
              \/ \E on \in BOOLEAN : SetPaused(c, r, on)
       PROVE  FollowInv'
  <2>1. UNCHANGED config /\ cmd[c].pc \notin {"check", "reconcile"}
    BY <1>11 DEF AddRepo, RemoveRepo, AbortRebase, SetPaused
  <2>2. \A b \in Actors : b # c => cmd'[b] = cmd[b]
    BY <1>0, <1>11, CommandBegins DEF GoesTo
  <2>. QED
    BY <1>9, <1>11, <2>1, <2>2
<1>12. ~(ReloadConfig \/ Check("main") \/ Reconcile("main") \/ EditReads \/ EditWrites)
  BY <1>1 DEF ReloadConfig, Check, Reconcile, EditReads, EditWrites
<1>13. CASE \E c \in Clients : Reconcile(c)
  BY <1>6, <1>13
<1>14. CASE Watched' = Watched
  BY <1>0, <1>4, <1>5, <1>8, <1>10, <1>11, <1>12, <1>13, <1>14, StepQuiet
<1>15. (\E a \in Actors : Reconcile(a)) => \E c \in Clients : Reconcile(c)
  BY <1>1 DEF Reconcile
<1>. QED
  BY <1>5, <1>13, <1>14, <1>15, StepWatched

-----------------------------------------------------------------------------
(* git works on one thing at a time in a repository.                       *)

\* The command of c is an abort in r that has its mutex, which it holds or
\* waits for.
HasLock(c, r) == cmd[c].pc \in {"locking", "aborting"} /\ cmd[c].repo = r

\* Whoever works in a repository that is on record, for a watcher started since
\* it was last added, was given the mutex Daemon.syncLocks holds now.
SameLock(r) ==
    /\ since[r] # 0 /\ since[r] <= made[r]
    /\ \A h \in H : h >= since[r] /\ handle[r][h].phase \in {"watching", "syncing"}
         => handle[r][h].lock = epoch[r]
    /\ \A c \in Clients : HasLock(c, r) /\ cmd[c].found >= since[r] => cmd[c].lock = epoch[r]

\* Nobody works with the mutex that an abort holds.
Excluded(c) ==
    \A r \in Repos, h \in H :
        handle[r][h].phase = "syncing" /\ cmd[c].pc = "aborting" /\ cmd[c].repo = r
            => handle[r][h].lock # cmd[c].lock

GitInv ==
    /\ \A r \in Watched : SameLock(r)
    /\ \A c \in Clients : Excluded(c)
    /\ \A c \in Clients : cmd[c].pc \in {"abort", "locking", "aborting"}
                            => cmd[c].found <= made[cmd[c].repo]

\* The command of c begins no abort and goes on with none.
Holds(c) ==
    cmd'[c].pc \in {"abort", "locking", "aborting"} =>
        /\ cmd'[c].pc = cmd[c].pc /\ cmd'[c].repo = cmd[c].repo
        /\ cmd'[c].found = cmd[c].found /\ cmd'[c].lock = cmd[c].lock

LEMMA StepHolds ==
    ASSUME TypeOK, CommandsInv, Next, UNCHANGED plan
    PROVE  \/ \A c \in Clients : Holds(c)
           \/ \E c \in Clients :
                \/ AbortFindsLock(c) \/ AbortBegins(c)
                \/ \E r \in Repos : AbortRebase(c, r)
<1>0. /\ plan.clients \subseteq Clients /\ Clients \subseteq Actors
      /\ "main" \in Actors \ Clients /\ "cli" \in Actors \ Clients
      /\ NoCommand.pc = "idle"
  BY DEF CommandsInv, NoCommand
<1>1. ASSUME NEW a \in Actors, \A b \in Actors : b # a => cmd'[b] = cmd[b],
             a \in Clients => cmd'[a].pc \notin {"abort", "locking", "aborting"}
      PROVE  \A c \in Clients : Holds(c)
  BY <1>0, <1>1 DEF Holds
<1>2. ASSUME NEW a \in Actors, Ends(a) PROVE \A c \in Clients : Holds(c)
  BY <1>0, <1>1, <1>2 DEF Ends
<1>3. ASSUME NEW a \in Actors, NEW p \in {"write", "check", "reconcile", "store"}, GoesTo(a, p)
      PROVE  \A c \in Clients : Holds(c)
  BY <1>1, <1>3 DEF GoesTo
<1>4. CASE UNCHANGED cmd
  BY <1>4 DEF Holds
<1>5. CASE Boot \/ Reconcile("main") \/ EditWrites
  BY <1>0, <1>2, <1>5, CommandEnds
<1>6. CASE ReloadConfig \/ EditReads
  <2>1. cmd \in [Actors -> Command]
    BY DEF TypeOK
  <2>2. \/ \A b \in Actors : b # "main" => cmd'[b] = cmd[b]
        \/ \A b \in Actors : b # "cli" => cmd'[b] = cmd[b]
    BY <1>0, <1>6, <2>1 DEF ReloadConfig, EditReads
  <2>. QED
    BY <1>0, <1>1, <2>2
<1>7. ASSUME NEW a \in Actors, Check(a) PROVE \A c \in Clients : Holds(c)
  BY <1>2, <1>3, <1>7, CommandEnds, CommandGoesOn
<1>8. ASSUME NEW c \in Clients,
             \/ WriteConfig(c) \/ WriteConfigFails(c) \/ Reconcile(c)
             \/ StorePaused(c) \/ AbortEnds(c)
      PROVE  \A d \in Clients : Holds(d)
  BY <1>0, <1>2, <1>3, <1>8, CommandEnds, CommandGoesOn
<1>9. ASSUME NEW c \in Clients, NEW r \in Repos,
             AddRepo(c, r) \/ RemoveRepo(c, r) \/ \E on \in BOOLEAN : SetPaused(c, r, on)
      PROVE  \A d \in Clients : Holds(d)
  BY <1>0, <1>3, <1>9, CommandBegins
<1>. QED
  BY <1>0, <1>4, <1>5, <1>6, <1>7, <1>8, <1>9, StepQuiet

\* Steps that begin and continue no abort, and let watchers only queue: a new
\* watcher has no mutex yet, and no abort has found it.
LEMMA QueuedGit ==
    ASSUME Inv, GitInv, \A r \in Repos : OnlyQueues(r) /\ OnRecord(r),
           \A c \in Clients : Holds(c)
    PROVE  GitInv'
<1>1. /\ TypeOK /\ CommandsInv /\ Clients \subseteq Actors
      /\ \A r \in Repos : made[r] \in Nat /\ since[r] \in Nat /\ InTurn(r)
      /\ \A c \in Clients : cmd[c].found \in Nat
  <2>1. /\ TypeOK /\ CommandsInv /\ Clients \subseteq Actors
        /\ \A r \in Repos : made[r] \in Nat /\ since[r] \in Nat /\ InTurn(r)
    BY DEF Inv, TypeOK, TurnInv
  <2>2. \A c \in Clients : cmd[c] \in Command
    BY <2>1 DEF TypeOK
  <2>. QED
    BY <2>1, <2>2 DEF Command
<1>2. ASSUME NEW c \in Clients, cmd'[c].pc \in {"abort", "locking", "aborting"}
      PROVE  /\ cmd'[c].pc = cmd[c].pc /\ cmd'[c].repo = cmd[c].repo
             /\ cmd'[c].found = cmd[c].found /\ cmd'[c].lock = cmd[c].lock
             /\ cmd[c].repo \in Repos /\ cmd[c].found <= made[cmd[c].repo]
  BY <1>1, <1>2 DEF Holds, GitInv, CommandsInv
<1>3. ASSUME NEW r \in Repos, watchers'[r] # 0 PROVE SameLock(r)'
  <2>1. /\ epoch'[r] = epoch[r] /\ made'[r] \in Nat /\ made'[r] >= made[r]
        /\ \A h \in H : handle'[r][h].phase \in {"watching", "syncing"} =>
             handle'[r][h].phase = handle[r][h].phase /\ handle'[r][h].lock = handle[r][h].lock
    BY DEF OnRecord, OnlyQueues
  <2>2. CASE watchers[r] # 0 /\ since'[r] = since[r]
    <3>1. SameLock(r)
      BY <2>2 DEF GitInv, Watched
    <3>2. since'[r] # 0 /\ since'[r] <= made'[r]
      BY <1>1, <2>1, <2>2, <3>1 DEF SameLock
    <3>3. \A h \in H : h >= since'[r] /\ handle'[r][h].phase \in {"watching", "syncing"}
            => handle'[r][h].lock = epoch'[r]
      BY <2>1, <2>2, <3>1 DEF SameLock
    <3>4. \A c \in Clients : HasLock(c, r)' /\ cmd'[c].found >= since'[r]
            => cmd'[c].lock = epoch'[r]
      BY <1>2, <2>1, <2>2, <3>1 DEF SameLock, HasLock
    <3>. QED
      BY <3>2, <3>3, <3>4 DEF SameLock
  <2>3. CASE since'[r] \in H /\ since'[r] > made[r] /\ since'[r] <= made'[r]
    <3>1. since'[r] # 0 /\ since'[r] <= made'[r]
      BY <2>3
    <3>2. ASSUME NEW h \in H, h >= since'[r] PROVE handle'[r][h].phase \notin {"watching", "syncing"}
      <4>1. h > made[r]
        BY <1>1, <2>3, <3>2
      <4>2. handle[r][h].phase = "off"
        BY <1>1, <4>1 DEF InTurn
      <4>. QED
        BY <2>1, <4>2
    <3>3. ASSUME NEW c \in Clients, HasLock(c, r)' PROVE ~(cmd'[c].found >= since'[r])
      <4>1. cmd'[c].found <= made[r] /\ cmd'[c].found \in Nat
        BY <1>1, <1>2, <3>3 DEF HasLock
      <4>. QED
        BY ONLY <1>1, <2>3, <4>1
    <3>. QED
      BY <3>1, <3>2, <3>3 DEF SameLock
  <2>. QED
    BY <1>3, <2>2, <2>3 DEF OnRecord
<1>4. ASSUME NEW c \in Clients PROVE Excluded(c)'
  BY <1>2 DEF Excluded, OnlyQueues, GitInv
<1>5. ASSUME NEW c \in Clients, cmd'[c].pc \in {"abort", "locking", "aborting"}
      PROVE  cmd'[c].found <= made'[cmd'[c].repo]
  <2>1. /\ cmd'[c].found <= made[cmd[c].repo] /\ cmd'[c].found \in Nat
        /\ cmd'[c].repo = cmd[c].repo /\ cmd[c].repo \in Repos
    BY <1>1, <1>2, <1>5
  <2>2. /\ made[cmd[c].repo] \in Nat /\ made'[cmd[c].repo] \in Nat
        /\ made'[cmd[c].repo] >= made[cmd[c].repo]
    BY <1>1, <2>1 DEF OnRecord
  <2>3. cmd'[c].found <= made'[cmd[c].repo]
    BY ONLY <2>1, <2>2
  <2>. QED
    BY <2>1, <2>3
<1>. QED
  BY <1>3, <1>4, <1>5 DEF GitInv, Watched

\* The three steps of an abort up to its holding the mutex: what it finds is the
\* watcher on record, and what it looks up is the mutex of the moment.
LEMMA AbortGit ==
    ASSUME Inv, GitInv, NEW c \in Clients, UNCHANGED unchangedWatchers,
           \/ AbortFindsLock(c) \/ AbortBegins(c) \/ \E r \in Repos : AbortRebase(c, r)
    PROVE  GitInv'
<1>1. /\ c \in Actors /\ Clients \subseteq Actors /\ TypeOK /\ CommandsInv
      /\ \A b \in Clients : b # c => cmd'[b] = cmd[b]
      /\ UNCHANGED <<watchers, made, since, handle, epoch>>
  BY CommandGoesOn, CommandBegins DEF Inv, GoesTo, unchangedWatchers
<1>2. ASSUME NEW r \in Watched,
             HasLock(c, r)' /\ cmd'[c].found >= since[r] => cmd'[c].lock = epoch[r]
      PROVE  SameLock(r)'
  BY <1>1, <1>2 DEF GitInv, SameLock, HasLock
<1>3. ASSUME NEW b \in Clients, b # c PROVE Excluded(b)'
  BY <1>1, <1>3 DEF GitInv, Excluded
<1>4. ASSUME NEW b \in Clients, b # c, cmd'[b].pc \in {"abort", "locking", "aborting"}
      PROVE  cmd'[b].found <= made'[cmd'[b].repo]
  BY <1>1, <1>4 DEF GitInv
<1>5. ASSUME \A r \in Watched : HasLock(c, r)' /\ cmd'[c].found >= since[r]
                                  => cmd'[c].lock = epoch[r],
             Excluded(c)', cmd'[c].found <= made[cmd'[c].repo]
      PROVE  GitInv'
  <2>1. \A r \in Watched' : SameLock(r)'
    BY <1>1, <1>2, <1>5 DEF Watched
  <2>2. \A b \in Clients : Excluded(b)'
    BY <1>3, <1>5
  <2>3. \A b \in Clients : cmd'[b].pc \in {"abort", "locking", "aborting"}
                             => cmd'[b].found <= made'[cmd'[b].repo]
    BY <1>1, <1>4, <1>5
  <2>. QED
    BY <2>1, <2>2, <2>3 DEF GitInv
<1>6. ASSUME NEW r \in Repos, AbortRebase(c, r) PROVE GitInv'
  <2>1. cmd'[c].pc = "abort" /\ cmd'[c].repo = r /\ cmd'[c].found = watchers[r]
    BY <1>1, <1>6, CommandBegins DEF GoesTo
  <2>2. watchers[r] <= made[r]
    <3>1. InTurn(r) /\ made[r] \in 0..MaxHandles
      BY DEF Inv, TypeOK, TurnInv
    <3>2. watchers[r] \in {0, made[r]}
      BY <3>1 DEF InTurn
    <3>. QED
      BY ONLY <3>1, <3>2, BoundAssumption
  <2>3. Excluded(c)'
    BY <2>1 DEF Excluded
  <2>. QED
    BY <1>5, <2>1, <2>2, <2>3 DEF HasLock
<1>7. ASSUME AbortFindsLock(c) PROVE GitInv'
  <2>1. /\ cmd'[c].pc = "locking" /\ cmd'[c].repo = cmd[c].repo /\ cmd'[c].found = cmd[c].found
        /\ cmd'[c].lock = epoch[cmd[c].repo] /\ cmd[c].pc = "abort"
    BY <1>1, <1>7, CommandGoesOn DEF GoesTo, AbortFindsLock
  <2>2. Excluded(c)'
    BY <2>1 DEF Excluded
  <2>. QED
    BY <1>5, <2>1, <2>2 DEF HasLock, GitInv
<1>8. ASSUME AbortBegins(c) PROVE GitInv'
  <2>1. /\ cmd'[c].pc = "aborting" /\ cmd'[c].repo = cmd[c].repo /\ cmd'[c].found = cmd[c].found
        /\ cmd'[c].lock = cmd[c].lock /\ cmd[c].pc = "locking"
        /\ LockFree(cmd[c].repo, cmd[c].lock)
    BY <1>1, <1>8, CommandGoesOn DEF GoesTo, Keeps, AbortBegins
  <2>2. Excluded(c)'
    BY <1>1, <2>1 DEF Excluded, LockFree
  <2>3. \A r \in Watched : HasLock(c, r)' /\ cmd'[c].found >= since[r] => cmd'[c].lock = epoch[r]
    BY <2>1 DEF GitInv, SameLock, HasLock
  <2>. QED
    BY <1>5, <2>1, <2>2, <2>3 DEF GitInv
<1>. QED
  BY <1>6, <1>7, <1>8

\* The steps of a watcher: it is given the mutex of the moment when it opens,
\* and begins a run only when that mutex is free.
LEMMA WatcherGit ==
    ASSUME Inv, GitInv, NEW r \in Repos, NEW h \in H,
           Begin(r, h) \/ Open(r, h) \/ OpenFails(r, h) \/ Exit(r, h) \/ SyncBegins(r, h)
             \/ SyncEnds(r, h)
    PROVE  GitInv'
<1>1. /\ UNCHANGED <<watchers, made, since, epoch, cmd>>
      /\ \A s \in Repos, g \in H :
           s # r \/ g # h => /\ handle'[s][g].phase = handle[s][g].phase
                             /\ handle'[s][g].lock = handle[s][g].lock
      /\ handle'[r][h].phase \in {"watching", "syncing"} =>
           \/ handle'[r][h].lock = epoch[r]
           \/ /\ handle[r][h].phase \in {"watching", "syncing"}
              /\ handle'[r][h].lock = handle[r][h].lock
      /\ handle'[r][h].phase = "syncing" => LockFree(r, handle'[r][h].lock)
  BY WatcherMoves DEF Inv
<1>2. ASSUME NEW s \in Watched PROVE SameLock(s)'
  BY <1>1 DEF GitInv, SameLock, HasLock, Watched
<1>3. ASSUME NEW c \in Clients PROVE Excluded(c)'
  BY <1>1 DEF GitInv, Excluded, LockFree
<1>. QED
  BY <1>1, <1>2, <1>3 DEF GitInv, Watched

\* A mutex is deleted only when its repository is not back.
LEMMA ForgetGit ==
    ASSUME Inv, GitInv, NEW r \in Repos, NEW h \in H, ForgetWhenStopped(r, h)
    PROVE  GitInv'
<1>1. /\ UNCHANGED <<watchers, made, since, handle, cmd>>
      /\ \A s \in Repos : watchers[s] # 0 => epoch'[s] = epoch[s]
  BY DEF ForgetWhenStopped, Inv, TypeOK
<1>2. ASSUME NEW s \in Watched PROVE SameLock(s)'
  BY <1>1 DEF GitInv, SameLock, HasLock, Watched
<1>. QED
  BY <1>1, <1>2 DEF GitInv, Excluded, Watched

LEMMA StepGit ==
    ASSUME Inv, GitInv, Next, UNCHANGED plan
    PROVE  GitInv'
<1>1. CASE \E c \in Clients :
             \/ AbortFindsLock(c) \/ AbortBegins(c) \/ \E r \in Repos : AbortRebase(c, r)
  <2>1. \A c, r : AbortFindsLock(c) \/ AbortBegins(c) \/ AbortRebase(c, r)
                    => UNCHANGED unchangedWatchers
    BY DEF AbortFindsLock, AbortBegins, AbortRebase
  <2>. QED
    BY <1>1, <2>1, AbortGit
<1>2. CASE (\A c \in Clients : Holds(c)) /\ \A r \in Repos : OnlyQueues(r) /\ OnRecord(r)
  BY <1>2, QueuedGit
<1>. QED
  BY <1>1, <1>2, StepHolds, StepMoves, WatcherGit, ForgetGit DEF Inv

-----------------------------------------------------------------------------
(* The flag a watcher obeys is the one the state shows. *)

\* The command of c is between the two flags of r.
Storing(c, r) == cmd[c].pc = "store" /\ cmd[c].repo = r

\* A repository nobody knows is not paused.
UnknownUnpaused == \A r \in Repos : ~entry[r].known => ~entry[r].paused

PauseInv ==
    Commands \cap {"settings", "reload"} = {} /\ (\A c, d \in plan.clients : c = d) =>
        /\ restarts = {} /\ cmd["main"].pc \in {"boot", "idle"}
        /\ \A c \in Clients, r \in Repos : Storing(c, r)
             => r \in Watched /\ handle[r][watchers[r]].paused = cmd[c].on
        /\ \A r \in Watched : (\A c \in Clients : ~Storing(c, r))
             => handle[r][watchers[r]].paused = entry[r].paused

LEMMA StepUnpaused ==
    ASSUME Inv, UnknownUnpaused, Next, UNCHANGED plan
    PROVE  UnknownUnpaused'
<1>. SUFFICES ASSUME NEW r \in Repos, ~entry'[r].known PROVE ~entry'[r].paused
  BY DEF UnknownUnpaused
<1>0. /\ TypeOK /\ CommandsInv /\ TurnInv /\ plan.clients \subseteq Actors /\ "main" \in Actors
      /\ entry[r] \in Entry
      /\ ~entry[r].known => ~entry[r].paused
      /\ Ensured(entry[r]).known /\ ~NoEntry.paused
  BY EntryTypes DEF Inv, TypeOK, CommandsInv, UnknownUnpaused, NoEntry
<1>1. CASE entry'[r] = entry[r] \/ \E s : entry' = Updated(s)
  <2>1. CASE entry'[r] = entry[r]
    BY <1>0, <2>1
  <2>2. ASSUME NEW s, entry' = Updated(s) PROVE ~entry'[r].paused
    <3>1. ~entry[r].known /\ entry'[r].paused = entry[r].paused
      BY <1>0, <2>2, UpdatedKnown
    <3>. QED
      BY <1>0, <3>1
  <2>. QED
    BY <1>1, <2>1, <2>2
<1>2. CASE Boot
  BY <1>0, <1>1, <1>2, BootEffect
<1>3. ASSUME NEW a \in Actors, Reconcile(a) PROVE ~entry'[r].paused
  <2>1. cmd[a].snap \in Config /\ ReconcileWatchers(cmd[a].snap)
    BY <1>0, <1>3, CommandTypes DEF Reconcile
  <2>2. CASE r \in Watched /\ r \notin cmd[a].snap.repos
    BY <1>0, <2>1, <2>2, ReconcileEffect
  <2>3. CASE r \notin Watched \/ r \in cmd[a].snap.repos
    <3>1. entry'[r].paused = entry[r].paused
      BY <1>0, <2>1, <2>3, ReconcileEffect
    <3>2. entry'[r] \in {entry[r], Ensured(entry[r])}
      BY <2>1, <2>3 DEF ReconcileWatchers
    <3>. QED
      BY <1>0, <3>1, <3>2
  <2>. QED
    BY <2>2, <2>3
<1>4. ASSUME NEW a \in Actors, StorePaused(a) PROVE ~entry'[r].paused
  <2>1. entry'[r] = entry[r] \/ entry'[r] = [known |-> TRUE, paused |-> cmd[a].on]
    BY <1>0, <1>4 DEF StorePaused, TypeOK
  <2>. QED
    BY <1>0, <2>1
<1>5. ASSUME NEW s \in Repos, RestartWatcher(s) PROVE ~entry'[r].paused
  BY <1>1, <1>5 DEF RestartWatcher
<1>6. ASSUME NEW s \in Repos, NEW h \in H, Watcher(s, h) PROVE ~entry'[r].paused
  <2>1. CASE ForgetWhenStopped(s, h)
    <3>1. entry'[r] = entry[r] \/ entry'[r] = NoEntry
      BY <1>0, <2>1 DEF ForgetWhenStopped, TypeOK
    <3>. QED
      BY <1>0, <3>1
  <2>2. CASE FindsNoFolder(s, h)
    BY <1>1, <2>2 DEF FindsNoFolder
  <2>3. CASE Begin(s, h) \/ Open(s, h) \/ OpenFails(s, h) \/ Exit(s, h) \/ SyncBegins(s, h)
               \/ SyncEnds(s, h)
    BY <1>0, <1>1, <2>3, WatcherMoves
  <2>. QED
    BY <1>6, <2>1, <2>2, <2>3 DEF Watcher
<1>7. ASSUME NEW c \in plan.clients, Client(c) PROVE ~entry'[r].paused
  <2>1. CASE Reconcile(c) \/ StorePaused(c)
    BY <1>0, <1>3, <1>4, <2>1
  <2>2. CASE WriteConfig(c) \/ AbortEnds(c)
    BY <1>1, <2>2 DEF WriteConfig, AbortEnds
  <2>3. CASE WriteConfigFails(c) \/ Check(c) \/ AbortFindsLock(c) \/ AbortBegins(c)
    BY <1>1, <2>3 DEF WriteConfigFails, Check, AbortFindsLock, AbortBegins
  <2>4. ASSUME NEW s \in Repos,
               \/ AddRepo(c, s) \/ RemoveRepo(c, s) \/ SetSettings(c, s) \/ AbortRebase(c, s)
               \/ \E on \in BOOLEAN : SetPaused(c, s, on)
        PROVE  ~entry'[r].paused
    BY <1>1, <2>4 DEF AddRepo, RemoveRepo, SetSettings, AbortRebase, SetPaused
  <2>. QED
    BY <1>7, <2>1, <2>2, <2>3, <2>4 DEF Client
<1>8. CASE ReloadConfig \/ Check("main") \/ EditReads \/ EditWrites \/ Stop \/ StopReturns
  BY <1>1, <1>8 DEF ReloadConfig, Check, EditReads, EditWrites, Stop, StopReturns
<1>9. CASE \E s \in Repos : ClearStopping(s)
  BY <1>1, <1>9 DEF ClearStopping
<1>. QED
  BY <1>0, <1>2, <1>3, <1>5, <1>6, <1>7, <1>8, <1>9 DEF Next

LEMMA StepPause ==
    ASSUME Inv, PlannedInv, UnknownUnpaused, PauseInv, Next, UNCHANGED plan
    PROVE  PauseInv'
<1>. SUFFICES ASSUME Commands \cap {"settings", "reload"} = {}, \A c, d \in plan.clients : c = d
              PROVE  PauseInv'
  BY DEF PauseInv, Commands
<1>. DEFINE Flag(r) == handle[r][watchers[r]].paused
<1>0. /\ plan.clients \subseteq Clients /\ Clients \subseteq Actors
      /\ "main" \in Actors \ Clients /\ "cli" \in Actors \ Clients
      /\ NoCommand.pc = "idle"
      /\ TypeOK /\ CommandsInv /\ TurnInv
  BY DEF CommandsInv, NoCommand, Inv
<1>1. /\ restarts = {} /\ cmd["main"].pc \in {"boot", "idle"}
      /\ \A c \in Clients, r \in Repos : Storing(c, r) => r \in Watched /\ Flag(r) = cmd[c].on
      /\ \A r \in Watched : (\A c \in Clients : ~Storing(c, r)) => Flag(r) = entry[r].paused
      /\ \A c \in Clients : cmd[c].pc # "idle" => c \in plan.clients
      /\ \A r \in Repos : /\ ~entry[r].known => ~entry[r].paused
                          /\ entry[r].known \in BOOLEAN /\ entry[r].paused \in BOOLEAN
                          /\ \A h \in H : handle[r][h].paused \in BOOLEAN
                          /\ r \in Watched => watchers[r] \in H
  <2>1. \A r \in Repos : entry[r].known \in BOOLEAN /\ entry[r].paused \in BOOLEAN
    <3>1. \A r \in Repos : entry[r] \in Entry
      BY <1>0 DEF TypeOK
    <3>. QED
      BY <3>1 DEF Entry
  <2>2. \A r \in Repos, h \in H : handle[r][h].paused \in BOOLEAN
    <3>1. \A r \in Repos, h \in H : handle[r][h] \in Handle
      BY <1>0 DEF TypeOK
    <3>. QED
      BY <3>1 DEF Handle
  <2>3. \A r \in Repos : r \in Watched => watchers[r] \in H
    BY <1>0 DEF Watched, TypeOK
  <2>. QED
    BY <2>1, <2>2, <2>3 DEF PauseInv, PlannedInv, UnknownUnpaused
\* Steps after which the same watchers have the same flags, and the same
\* commands are between the two flags.
<1>2. ASSUME UNCHANGED <<watchers, restarts>>,
             cmd'["main"] = cmd["main"] \/ cmd'["main"] = NoCommand,
             \A r \in Watched : /\ Flag(r)' = Flag(r)
                                /\ entry'[r].paused = entry[r].paused,
             \A c \in Clients : \/ cmd'[c] = cmd[c]
                                \/ cmd[c].pc # "store" /\ cmd'[c].pc # "store"
      PROVE  PauseInv'
  <2>1. Watched' = Watched
    BY <1>2 DEF Watched
  <2>2. \A c \in Clients, r \in Repos : /\ Storing(c, r)' <=> Storing(c, r)
                                        /\ Storing(c, r) => cmd'[c].on = cmd[c].on
    BY <1>2 DEF Storing
  <2>3. \A r \in Watched : r \in Repos
    BY DEF Watched
  <2>4. \A c \in Clients, r \in Repos : Storing(c, r)' => r \in Watched' /\ Flag(r)' = cmd'[c].on
    BY <1>1, <1>2, <2>1, <2>2
  <2>5. \A r \in Watched' : (\A c \in Clients : ~Storing(c, r)') => Flag(r)' = entry'[r].paused
    BY <1>1, <1>2, <2>1, <2>2, <2>3
  <2>6. restarts' = {} /\ cmd'["main"].pc \in {"boot", "idle"}
    BY <1>0, <1>1, <1>2
  <2>. QED
    BY <2>4, <2>5, <2>6 DEF PauseInv
<1>3. ASSUME UNCHANGED <<watchers, restarts, handle>>,
             cmd'["main"] = cmd["main"] \/ cmd'["main"] = NoCommand,
             entry' = entry \/ \E r : entry' = Updated(r),
             \A c \in Clients : \/ cmd'[c] = cmd[c]
                                \/ cmd[c].pc # "store" /\ cmd'[c].pc # "store"
      PROVE  PauseInv'
  <2>1. \A r \in Watched : Flag(r)' = Flag(r) /\ entry'[r].paused = entry[r].paused
    BY <1>0, <1>3, UpdatedKnown DEF Watched
  <2>. QED
    BY <1>2, <1>3, <2>1
<1>4. ASSUME NEW r \in Repos, watchers'[r] # 0,
             handle'[r][watchers'[r]].paused <=> entry[r].known /\ entry[r].paused,
             handle'[r][watchers'[r]].paused \in BOOLEAN, entry'[r].paused = entry[r].paused
      PROVE  Flag(r)' = entry'[r].paused
  BY <1>1, <1>4
<1>5. \A r \in Repos, h \in H : handle'[r][h].paused \in BOOLEAN
  <2>1. TypeOK'
    BY <1>0, StepTypes
  <2>2. \A r \in Repos, h \in H : handle'[r][h] \in Handle
    <3>1. handle' \in [Repos -> [H -> Handle]]
      BY <2>1 DEF TypeOK
    <3>. QED
      BY <3>1
  <2>. QED
    BY <2>2 DEF Handle
<1>6. CASE Boot
  <2>1. Ends("main") /\ UNCHANGED restarts
    BY <1>0, <1>6, CommandEnds DEF Boot, unchangedWatchers
  <2>2. \A c \in Clients : cmd'[c] = cmd[c]
    BY <1>0, <2>1 DEF Ends
  <2>3. ASSUME NEW r \in Watched
        PROVE  r \in Watched' /\ Flag(r)' = Flag(r) /\ entry'[r] = entry[r]
    <3>1. r \in Repos /\ watchers[r] # 0 /\ watchers[r] \in H
      BY <1>1 DEF Watched
    <3>. QED
      BY <1>0, <1>6, <3>1, BootEffect DEF Watched
  <2>4. ASSUME NEW r \in Repos, watchers[r] = 0, watchers'[r] # 0
        PROVE  Flag(r)' = entry'[r].paused
    <3>1. /\ watchers'[r] \in H /\ entry'[r] = Ensured(entry[r])
          /\ (handle'[r][watchers'[r]].paused <=> entry[r].known /\ entry[r].paused)
      BY <1>0, <1>6, <2>4, BootEffect
    <3>2. Ensured(entry[r]).paused = entry[r].paused
      BY <1>0, EntryTypes DEF TypeOK
    <3>. QED
      BY <1>4, <1>5, <2>4, <3>1, <3>2
  <2>5. \A c \in Clients, r \in Repos : Storing(c, r)' => r \in Watched' /\ Flag(r)' = cmd'[c].on
    BY <1>1, <2>2, <2>3 DEF Storing
  <2>6. \A r \in Watched' : (\A c \in Clients : ~Storing(c, r)') => Flag(r)' = entry'[r].paused
    BY <1>1, <2>2, <2>3, <2>4 DEF Storing, Watched
  <2>. QED
    BY <1>0, <1>1, <2>1, <2>5, <2>6 DEF PauseInv, Ends
<1>7. ASSUME NEW c \in plan.clients, Reconcile(c) PROVE PauseInv'
  <2>1. /\ cmd[c].snap \in Config /\ ReconcileWatchers(cmd[c].snap) /\ UNCHANGED restarts
        /\ cmd[c].pc = "reconcile" /\ Ends(c)
    BY <1>0, <1>7, CommandTypes, CommandEnds DEF Reconcile, ReconcileWatchers
  <2>2. \A d \in Clients, r \in Repos : ~Storing(d, r) /\ ~Storing(d, r)'
    BY <1>0, <1>1, <2>1 DEF Storing, Ends
  <2>3. ASSUME NEW r \in Repos, watchers'[r] # 0 PROVE Flag(r)' = entry'[r].paused
    <3>1. /\ r \in cmd[c].snap.repos /\ entry'[r].paused = entry[r].paused
          /\ \/ handle'[r][watchers'[r]].paused <=> entry[r].known /\ entry[r].paused
             \/ /\ r \in Watched /\ watchers'[r] = watchers[r]
                /\ handle'[r][watchers[r]].paused = handle[r][watchers[r]].paused
      BY <1>0, <2>1, <2>3, ReconcileEffect
    <3>2. CASE handle'[r][watchers'[r]].paused <=> entry[r].known /\ entry[r].paused
      <4>1. watchers'[r] \in H
        BY <1>0, <2>1, <2>3, ReconcileTypes
      <4>. QED
        BY <1>4, <1>5, <2>3, <3>1, <3>2, <4>1
    <3>3. CASE /\ r \in Watched /\ watchers'[r] = watchers[r]
               /\ handle'[r][watchers[r]].paused = handle[r][watchers[r]].paused
      BY <1>1, <2>2, <3>1, <3>3
    <3>. QED
      BY <3>1, <3>2, <3>3
  <2>. QED
    BY <1>0, <1>1, <2>1, <2>2, <2>3 DEF PauseInv, Watched, Ends
<1>8. ASSUME NEW c \in plan.clients, NEW r \in Repos, NEW on \in BOOLEAN, SetPaused(c, r, on)
      PROVE  PauseInv'
  <2>1. /\ GoesTo(c, "store") /\ cmd'[c].repo = r /\ cmd'[c].on = on
        /\ cmd[c].pc = "idle" /\ r \in Watched /\ UNCHANGED restarts
        /\ handle'[r][watchers[r]].paused = on /\ UNCHANGED <<watchers, entry>>
        /\ \A s \in Repos, g \in H : s # r => handle'[s][g].paused = handle[s][g].paused
    <3>1. c \in Actors /\ cmd[c].pc = "idle"
      BY <1>0, <1>8 DEF SetPaused
    <3>2. GoesTo(c, "store") /\ cmd'[c].repo = r /\ cmd'[c].on = on
      BY <1>0, <1>8, <3>1, CommandBegins
    <3>. QED
      BY <1>0, <1>8, <3>1, <3>2, PauseEffect
  <2>2. \A d \in Clients : d # c => cmd[d].pc = "idle" /\ cmd'[d] = cmd[d]
    BY <1>0, <1>1, <2>1 DEF GoesTo
  <2>3. /\ \A d \in Clients, s \in Repos : ~Storing(d, s)
        /\ \A d \in Clients, s \in Repos : Storing(d, s)' <=> d = c /\ s = r
    BY <1>0, <2>1, <2>2 DEF Storing, GoesTo
  <2>4. \A d \in Clients, s \in Repos : Storing(d, s)' => s \in Watched' /\ Flag(s)' = cmd'[d].on
    BY <2>1, <2>3 DEF Watched
  <2>5. ASSUME NEW s \in Watched', \A d \in Clients : ~Storing(d, s)'
        PROVE  Flag(s)' = entry'[s].paused
    <3>1. s \in Repos /\ s \in Watched /\ s # r
      BY <1>0, <2>1, <2>3, <2>5 DEF Watched
    <3>. QED
      BY <1>1, <2>1, <2>3, <3>1
  <2>. QED
    BY <1>0, <1>1, <2>1, <2>4, <2>5 DEF PauseInv, GoesTo
<1>9. ASSUME NEW c \in plan.clients, StorePaused(c) PROVE PauseInv'
  <2>. DEFINE r == cmd[c].repo
  <2>1. /\ Ends(c) /\ cmd[c].pc = "store" /\ r \in Repos
        /\ UNCHANGED <<restarts, watchers, handle>>
        /\ entry' = [entry EXCEPT ![r] = [known |-> TRUE, paused |-> cmd[c].on]]
    BY <1>0, <1>9, CommandEnds DEF StorePaused, unchangedWatchers, CommandsInv
  <2>2. Storing(c, r) /\ r \in Watched /\ Flag(r) = cmd[c].on
    BY <1>0, <1>1, <2>1 DEF Storing
  <2>3. entry'[r].paused = cmd[c].on /\ \A s \in Repos : s # r => entry'[s] = entry[s]
    BY <1>0, <2>1 DEF TypeOK
  <2>4. \A d \in Clients, s \in Repos : /\ ~Storing(d, s)'
                                        /\ Storing(d, s) => s = r
    BY <1>0, <1>1, <2>1 DEF Storing, Ends
  <2>5. ASSUME NEW s \in Watched' PROVE Flag(s)' = entry'[s].paused
    <3>1. s \in Repos /\ s \in Watched /\ Flag(s)' = Flag(s)
      BY <2>1 DEF Watched
    <3>2. CASE s = r
      BY <2>2, <2>3, <3>1, <3>2
    <3>3. CASE s # r
      BY <1>1, <2>3, <2>4, <3>1, <3>3
    <3>. QED
      BY <3>2, <3>3
  <2>6. restarts' = {} /\ cmd'["main"] = cmd["main"]
    BY <1>0, <1>1, <2>1 DEF Ends
  <2>. QED
    BY <1>1, <2>4, <2>5, <2>6 DEF PauseInv
<1>10. ASSUME NEW c \in plan.clients,
              \/ WriteConfigFails(c) \/ AbortEnds(c) \/ Check(c) \/ WriteConfig(c)
              \/ AbortFindsLock(c) \/ AbortBegins(c)
       PROVE  PauseInv'
  <2>1. /\ UNCHANGED <<watchers, restarts, handle>> /\ cmd[c].pc # "store"
        /\ entry' = entry \/ \E r : entry' = Updated(r)
    BY <1>10 DEF WriteConfigFails, AbortEnds, Check, WriteConfig, AbortFindsLock, AbortBegins,
                 unchangedWatchers
  <2>2. /\ cmd'[c].pc # "store"
        /\ \A b \in Actors : b # c => cmd'[b] = cmd[b]
    BY <1>0, <1>10, CommandEnds, CommandGoesOn DEF Ends, GoesTo
  <2>. QED
    BY <1>0, <1>3, <2>1, <2>2
<1>11. ASSUME NEW c \in plan.clients, NEW r \in Repos,
              AddRepo(c, r) \/ RemoveRepo(c, r) \/ AbortRebase(c, r)
       PROVE  PauseInv'
  <2>1. UNCHANGED <<watchers, restarts, handle, entry>> /\ cmd[c].pc # "store"
    BY <1>11 DEF AddRepo, RemoveRepo, AbortRebase, unchangedWatchers
  <2>2. /\ cmd'[c].pc # "store"
        /\ \A b \in Actors : b # c => cmd'[b] = cmd[b]
    BY <1>0, <1>11, CommandBegins DEF GoesTo
  <2>. QED
    BY <1>0, <1>3, <2>1, <2>2
<1>12. CASE EditReads \/ EditWrites \/ Stop \/ StopReturns \/ \E r \in Repos : ClearStopping(r)
  <2>1. UNCHANGED <<watchers, restarts, handle, entry>>
    BY <1>12 DEF EditReads, EditWrites, Stop, StopReturns, ClearStopping, unchangedWatchers
  <2>2. \A a \in Actors : a # "cli" => cmd'[a] = cmd[a]
    BY <1>0, <1>12 DEF EditReads, EditWrites, Stop, StopReturns, ClearStopping, Idle, TypeOK
  <2>. QED
    BY <1>0, <1>3, <2>1, <2>2
<1>13. ASSUME NEW r \in Repos, NEW h \in H, Watcher(r, h) PROVE PauseInv'
  <2>1. CASE FindsNoFolder(r, h)
    BY <1>3, <2>1 DEF FindsNoFolder, unchangedWatchers
  <2>2. CASE ForgetWhenStopped(r, h)
    <3>1. \A s \in Watched : entry'[s] = entry[s]
      BY <1>0, <2>2 DEF ForgetWhenStopped, Watched, TypeOK
    <3>. QED
      BY <1>2, <2>2, <3>1 DEF ForgetWhenStopped
  <2>3. CASE Begin(r, h) \/ Open(r, h) \/ OpenFails(r, h) \/ Exit(r, h) \/ SyncBegins(r, h)
               \/ SyncEnds(r, h)
    <3>1. /\ UNCHANGED <<watchers, restarts, cmd>>
          /\ \A s \in Repos, g \in H : handle'[s][g].paused = handle[s][g].paused
          /\ entry' # entry => entry' = Updated(r)
      BY <1>0, <2>3, WatcherMoves
    <3>2. \A s \in Watched : Flag(s)' = Flag(s) /\ entry'[s].paused = entry[s].paused
      BY <1>0, <1>1, <3>1, UpdatedKnown DEF Watched
    <3>. QED
      BY <1>2, <3>1, <3>2
  <2>. QED
    BY <1>13, <2>1, <2>2, <2>3 DEF Watcher
<1>14. ~(ReloadConfig \/ Check("main") \/ Reconcile("main"))
  BY <1>1 DEF ReloadConfig, Check, Reconcile
<1>15. \A r \in Repos : ~RestartWatcher(r) /\ \A c : ~SetSettings(c, r)
  BY <1>1 DEF RestartWatcher, SetSettings
<1>16. ASSUME NEW c \in plan.clients, Client(c) PROVE PauseInv'
  BY <1>7, <1>8, <1>9, <1>10, <1>11, <1>15, <1>16 DEF Client
<1>. QED
  BY <1>6, <1>12, <1>13, <1>14, <1>15, <1>16 DEF Next

-----------------------------------------------------------------------------
(* The theorems about commands. *)

CommandInv == PlannedInv /\ CfgInv /\ FollowInv /\ GitInv /\ UnknownUnpaused /\ PauseInv

LEMMA InitCommandInv == Init => CommandInv
<1>. SUFFICES ASSUME Init PROVE CommandInv
  OBVIOUS
<1>1. /\ \A c \in Clients : cmd[c] = NoCommand
      /\ cmd["main"].pc = "boot" /\ cmd["main"].snap = config /\ cmd["cli"] = NoCommand
      /\ config.repos = plan.configured
  BY DEF Init, NoCommand
<1>2. NoCommand.pc = "idle" /\ Watched = {}
  BY DEF NoCommand, Init, Watched
<1>3. PlannedInv /\ CfgInv
  BY <1>1, <1>2 DEF PlannedInv, CfgInv, HoldsCfgMu
<1>4. FollowInv
  BY <1>1, <1>2 DEF FollowInv
<1>5. GitInv
  BY <1>1, <1>2 DEF GitInv, Excluded
<1>6. UnknownUnpaused
  BY DEF Init, UnknownUnpaused, NoEntry
<1>7. PauseInv
  BY <1>1, <1>2 DEF PauseInv, Storing, Init
<1>. QED
  BY <1>3, <1>4, <1>5, <1>6, <1>7 DEF CommandInv

LEMMA NextCommandInv ==
    ASSUME Inv, CommandInv, [Next /\ UNCHANGED plan]_<<vars, plan>>
    PROVE  CommandInv'
<1>1. CASE Next /\ UNCHANGED plan
  BY <1>1, StepPlanned, StepCfg, StepFollow, StepGit, StepUnpaused, StepPause DEF CommandInv, Inv
<1>2. CASE UNCHANGED <<vars, plan>>
  <2>1. UNCHANGED <<config, ctxDone, watchers, made, since, handle, epoch, forgets, restarts,
                    entry, cmd, plan>>
    BY <1>2 DEF vars
  <2>2. PlannedInv' /\ CfgInv' /\ FollowInv'
    BY <2>1 DEF CommandInv, PlannedInv, CfgInv, HoldsCfgMu, FollowInv, Commands, Watched
  <2>3. GitInv'
    BY <2>1 DEF CommandInv, GitInv, SameLock, HasLock, Excluded, Watched
  <2>4. UnknownUnpaused' /\ PauseInv'
    BY <2>1 DEF CommandInv, UnknownUnpaused, PauseInv, Storing, Commands, Watched
  <2>. QED
    BY <2>2, <2>3, <2>4 DEF CommandInv
<1>. QED
  BY <1>1, <1>2

LEMMA CommandInvHolds == Spec => []CommandInv
BY InvHolds, InitCommandInv, NextCommandInv, PTL DEF Spec

LEMMA CommandInvImplies ==
    ASSUME CommandInv
    PROVE  PauseAgrees /\ GitSerialized /\ ConfigFollowed
<1>1. PauseAgrees
  BY DEF CommandInv, PauseInv, PauseAgrees, CommandOn, Storing
<1>2. GitSerialized
  <2>. SUFFICES ASSUME NEW r \in Watched, NEW h \in H, NEW c \in Clients,
                       h >= since[r], cmd[c].found >= since[r],
                       handle[r][h].phase = "syncing", cmd[c].pc = "aborting", cmd[c].repo = r
                PROVE  FALSE
    BY DEF GitSerialized
  <2>1. handle[r][h].lock = epoch[r] /\ cmd[c].lock = epoch[r]
    BY DEF CommandInv, GitInv, SameLock, HasLock
  <2>2. handle[r][h].lock # cmd[c].lock
    BY DEF CommandInv, GitInv, Excluded, Watched
  <2>. QED
    BY <2>1, <2>2
<1>3. ConfigFollowed
  BY DEF CommandInv, FollowInv, ConfigFollowed
<1>. QED
  BY <1>1, <1>2, <1>3

\* The watcher's own pause flag and the one RepoStateStore shows agree between
\* the commands of a client (SetPaused), through removals, additions and the
\* restarts that a changed environment causes.
THEOREM PauseAgreesHolds == Spec => []PauseAgrees
BY CommandInvHolds, CommandInvImplies, PTL

\* A run and an AbortRebase that belong to a watcher started since the
\* repository was last added never work at the same time, whatever is removed,
\* added and restarted around them: both are given the mutex Daemon.syncLocks
\* holds, and forgetWhenStopped deletes none of a repository that is back.
THEOREM GitSerializedHolds == Spec => []GitSerialized
BY CommandInvHolds, CommandInvImplies, PTL

\* Between commands the watchers are those of config.json: cfgMu keeps AddRepo
\* and RemoveRepo apart from their reading of the file to the end of
\* reconcileWatchers.
THEOREM ConfigFollowedHolds == Spec => []ConfigFollowed
BY CommandInvHolds, CommandInvImplies, PTL
=============================================================================
