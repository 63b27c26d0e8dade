------------------------------ MODULE AppRepos ------------------------------
(***************************************************************************)
(* What the menu bar app shows of the repositories and when it notifies    *)
(* (AppState.swift), fed by the subscription DaemonClient.swift keeps up:  *)
(* hello with a snapshot, then a frame for every change, in order, until   *)
(* the connection is lost.  Commands travel on connections of their own,   *)
(* so the answer to "status" may arrive before or after frames that the    *)
(* daemon sent later.  Only an update of a repository's state is a frame:  *)
(* that one was added or removed, perhaps by another client, is not said,  *)
(* and a watcher that ends after its removal still updates its state.      *)
(***************************************************************************)
EXTENDS Naturals, Sequences, Functions

CONSTANTS
    Repos,
    Conditions,     \* what a frame may say of a repository: status and code
    Idle,           \* the condition of a repository just added
    ReposPlans,     \* what behaviours may have, by name: see reposPlan
    MaxLinks        \* bound: connections of the subscriber

ASSUME ConditionsAssumption ==
    /\ Idle \in Conditions /\ Idle.status = "idle" /\ Idle.code = ""
    /\ Conditions \subseteq [status : STRING, code : STRING]
    /\ \A c \in Conditions : c.status # "absent"
ASSUME ReposPlansAssumption ==
    /\ \A p \in Range(ReposPlans) : /\ p.repos \subseteq Repos /\ p.conditions \subseteq Conditions
                                   /\ p.late \in BOOLEAN /\ p.changes \in Nat
    /\ MaxLinks \in Nat

VARIABLES
    daemon,         \* the daemon's states, with the problem each is in
    watched,        \* the repositories the daemon watches
    ending,         \* of each, the watchers stopped by a removal that have not ended
    unsaid,         \* history: the repositories that came to the daemon's states or
                    \* left them, of which the subscriber was sent nothing since
    changes, links,
    link,           \* the subscriber has its connection
    stream,         \* DaemonClient.messages
    ask,            \* a refreshStatus is under way
    answer,         \* an answer that came outside the order of the stream
    overtaken,      \* such an answer was handled since the connection
    connection, hasSnapshot,
    app,            \* repos, problemKeys and the notifications, by repository
    reposPlan       \* chosen at the start: names the repositories there are, what may be
                    \* said of them, whether some are added and removed,
                    \* whether answers come late or in the order of the stream, and
                    \* how many changes there are (a bound)

statesVars == <<daemon, watched, ending, unsaid, changes>>
reposVars == <<statesVars, links, link, stream, ask, answer, overtaken, connection,
          hasSnapshot, app>>

Plan == ReposPlans[reposPlan]
Late == Plan.late
Commands == Plan.commands      \* of "add" and "remove"
MaxChanges == Plan.changes

unchangedApp == <<overtaken, connection, hasSnapshot, app>>

Absent == [status |-> "absent", code |-> ""]
NoKey == [kind |-> "", code |-> ""]
NoFrame == [kind |-> "none"]

\* problemKey
ProblemKey(c) ==
    IF c.status = "conflict" THEN [kind |-> "conflict", code |-> ""]
    ELSE IF c.status = "preflight" THEN [kind |-> "preflight", code |-> c.code]
    ELSE IF \/ c.status = "error" /\ c.code \notin {"network", "timeout"}
            \/ c.status # "error" /\ c.code \in {"xcode_license", "auth"}
    THEN [kind |-> "error", code |-> c.code]
    ELSE NoKey

IsTransient(c) ==
    \/ c.status \in {"syncing", "unknown", "idle", "paused", "offline"}
    \/ c.status = "error" /\ c.code \in {"network", "timeout"}

IsSameProblem(a, b) ==
    \/ a = b
    \/ a # NoKey /\ b # NoKey /\ a.kind = b.kind /\ "" \in {a.code, b.code}

\* The state of a repository in the daemon: spell counts the problems it has
\* had, key is the one it is in or, while its status is transient, was in,
\* with its code if one was given since it began.
Report == [cond : Conditions \cup {Absent}, spell : 0..MaxChanges,
           key : {NoKey} \cup {ProblemKey(c) : c \in Conditions}]

Becomes(d, c) ==
    LET key == ProblemKey(c)
        same == IsSameProblem(d.key, key)
    IN IF key = NoKey /\ IsTransient(c) THEN [d EXCEPT !.cond = c]
       ELSE [cond |-> c, key |-> IF same /\ key.code = "" THEN d.key ELSE key,
             spell |-> IF key = NoKey \/ same THEN d.spell ELSE d.spell + 1]

\* What the app keeps of a repository: what it shows, the problem it knows
\* of and whether it kept quiet about it, the notification that is up and
\* whether a snapshot without the repository left it up, and the problems it
\* ever notified.
NotShown == [shown |-> Absent, problem |-> NoKey, quiet |-> FALSE, notice |-> "none",
             stray |-> FALSE, told |-> <<>>]

ReposInit ==
    /\ reposPlan \in DOMAIN ReposPlans
    /\ daemon = [r \in Repos |-> [cond |-> IF r \in Plan.repos THEN Idle ELSE Absent,
                                 spell |-> 0, key |-> NoKey]]
    /\ watched = Plan.repos /\ ending = [r \in Repos |-> 0] /\ unsaid = {}
    /\ changes = 0 /\ links = 0 /\ link = FALSE /\ stream = <<>>
    /\ ask = FALSE /\ answer = NoFrame /\ overtaken = FALSE
    /\ connection = "connecting" /\ hasSnapshot = FALSE
    /\ app = [r \in Repos |-> NotShown]

-----------------------------------------------------------------------------
(* AppState *)

\* Mutant: a transient status ends the problem.
TrackTransitionForgetful(a, d, notify) ==
    LET key == ProblemKey(d.cond)
        kept == [a EXCEPT !.problem = key, !.quiet = key # NoKey /\ ~notify]
    IN IF key # NoKey /\ notify /\ ~IsSameProblem(a.problem, key)
       THEN [kept EXCEPT !.notice = "problem", !.told = Append(@, d.spell)]
       ELSE IF key = NoKey /\ notify /\ a.problem # NoKey
       THEN [kept EXCEPT !.notice = "none"]
       ELSE kept

\* trackTransition: a transient status leaves things as they are.
TrackTransition(a, d, notify) ==
    LET key == ProblemKey(d.cond)
        kept == [a EXCEPT !.problem = key,
                          !.quiet = key # NoKey /\ (IF notify THEN @ ELSE TRUE)]
    IN IF key = NoKey /\ IsTransient(d.cond) THEN a
       ELSE IF ~notify THEN kept
       ELSE IF key # NoKey
       THEN IF IsSameProblem(a.problem, key) THEN kept
            ELSE [kept EXCEPT !.notice = "problem", !.quiet = FALSE, !.stray = FALSE,
                              !.told = Append(@, d.spell)]
       ELSE IF a.problem = NoKey THEN kept
       ELSE [kept EXCEPT !.notice = IF a.problem.kind = "conflict" THEN "resolved" ELSE "none",
                         !.stray = FALSE]

Shown(a, d, notify) == [TrackTransition(a, d, notify) EXCEPT !.shown = d.cond]

\* Mutant: repositories missing from the snapshot stay.
ApplySnapshotOnlyAdds(snap) ==
    /\ app' = [r \in Repos |-> IF snap[r].cond = Absent THEN app[r]
                               ELSE Shown(app[r], snap[r], hasSnapshot)]
    /\ hasSnapshot' = TRUE

\* applySnapshot: the first one is not news.  A repository that is gone is
\* dropped; its notification stays.
ApplySnapshot(snap) ==
    /\ app' = [r \in Repos |->
          IF snap[r].cond = Absent
          THEN [app[r] EXCEPT !.shown = Absent, !.problem = NoKey, !.quiet = FALSE,
                              !.stray = app[r].notice = "problem"]
          ELSE Shown(app[r], snap[r], hasSnapshot)]
    /\ hasSnapshot' = TRUE

Upsert(r, d) ==
    /\ app' = [app EXCEPT ![r] = Shown(@, d, hasSnapshot)]
    /\ UNCHANGED hasSnapshot

ForgetRepo(r) ==
    /\ app' = [app EXCEPT ![r] = [NotShown EXCEPT !.told = app[r].told]]
    /\ UNCHANGED hasSnapshot

\* handle, for what comes over the subscription, and the ends of removeRepo
\* and refreshStatus, for the answers to commands.
Handle(f) ==
    /\ \/ f.kind \in {"hello", "status"} /\ ApplySnapshot(f.snap)
       \/ f.kind = "state" /\ Upsert(f.repo, f.report)
       \/ f.kind = "removed" /\ ForgetRepo(f.repo)
       \/ /\ f.kind \in {"disconnected", "unavailable", "incompatible"}
          /\ UNCHANGED <<app, hasSnapshot>>
    /\ connection' = CASE f.kind = "hello" -> "connected"
                       [] f.kind = "disconnected" -> "connecting"
                       [] f.kind = "unavailable" -> "notRunning"
                       [] f.kind = "incompatible" -> "incompatible"
                       [] OTHER -> connection
    /\ ask' = (ask \/ f.kind = "removed")
    /\ UNCHANGED <<statesVars, links, link>>

HandleMessage ==
    /\ stream # <<>>
    /\ Handle(Head(stream))
    /\ stream' = Tail(stream)
    /\ UNCHANGED <<answer, overtaken>>

HandleAnswer ==
    /\ answer # NoFrame
    /\ Handle(answer)
    /\ answer' = NoFrame /\ overtaken' = TRUE
    /\ UNCHANGED stream

-----------------------------------------------------------------------------
(* The daemon and the subscriber. *)

Sent(f) == IF link THEN Append(stream, f) ELSE stream

Answers(f) ==
    IF Late THEN answer = NoFrame /\ answer' = f ELSE UNCHANGED answer

\* Update, by a watcher that runs or is ending: the state changes, made anew
\* if it was removed, and its frame is sent.
Change(r, c) ==
    /\ changes < MaxChanges
    /\ r \in watched \/ ending[r] > 0
    /\ daemon[r].cond # c
    /\ daemon' = [daemon EXCEPT ![r] = Becomes(@, c)]
    /\ changes' = changes + 1
    /\ unsaid' = unsaid \ {r}
    /\ stream' = Sent([kind |-> "state", repo |-> r, report |-> daemon'[r]])
    /\ UNCHANGED <<watched, ending, links, link, ask, answer, unchangedApp>>

\* What a daemon that adds the repository, or removes it, does to its states
\* (Ensure and Remove).
Ensured(r) ==
    [daemon EXCEPT ![r] = IF @.cond = Absent THEN [Becomes(@, Idle) EXCEPT !.key = NoKey] ELSE @]
Without(r) == [daemon EXCEPT ![r].cond = Absent, ![r].key = NoKey]

\* forgetWhenStopped, for one of the watchers that a removal stopped.
Forgotten(r) ==
    /\ ending[r] > 0
    /\ ending' = [ending EXCEPT ![r] = @ - 1]
    /\ daemon' = IF r \in watched THEN daemon ELSE Without(r)
    /\ unsaid' = IF daemon'[r].cond = daemon[r].cond THEN unsaid ELSE unsaid \cup {r}
    /\ UNCHANGED <<watched, changes, links, link, stream, ask, answer, unchangedApp>>

\* runSession: hello carries the states as they are when the subscriber is
\* registered.
Connect ==
    /\ ~link /\ links < MaxLinks
    /\ link' = TRUE /\ links' = links + 1 /\ overtaken' = FALSE
    /\ stream' = Append(stream, [kind |-> "hello", snap |-> daemon])
    /\ unsaid' = {}
    /\ UNCHANGED <<daemon, watched, ending, changes, ask, answer, connection, hasSnapshot, app>>

\* There is no daemon, or one of another protocol.
ConnectFails ==
    /\ ~link /\ stream = <<>>
    /\ \E kind \in {"unavailable", "incompatible"} : stream' = <<[kind |-> kind]>>
    /\ UNCHANGED <<statesVars, links, link, ask, answer, unchangedApp>>

Disconnect ==
    /\ link
    /\ link' = FALSE
    /\ stream' = Append(stream, [kind |-> "disconnected"])
    /\ UNCHANGED <<statesVars, links, ask, answer, unchangedApp>>

\* AppState.perform: a daemon of another protocol answers a command.
Incompatible ==
    /\ ~link
    /\ connection' = "incompatible"
    /\ UNCHANGED <<statesVars, links, link, stream, ask, answer, overtaken, hasSnapshot, app>>

\* AddRepo in the daemon: the state it makes is no frame.
Adds(r) ==
    /\ "add" \in Commands /\ changes < MaxChanges
    /\ changes' = changes + 1
    /\ watched' = watched \cup {r}
    /\ daemon' = IF r \in watched THEN daemon ELSE Ensured(r)
    /\ unsaid' = IF daemon'[r].cond = daemon[r].cond THEN unsaid ELSE unsaid \cup {r}
    /\ UNCHANGED <<ending, links, link, stream, answer, unchangedApp>>

\* addRepos: the app asks for the status once the daemon answered that it has
\* the repository.
AddRepo(r) == ~ask /\ answer = NoFrame /\ Adds(r) /\ ask' = TRUE

\* The command line or an edited file adds it, or the answer to the app is
\* lost.
AddedUnheard(r) == r \notin watched /\ Adds(r) /\ UNCHANGED ask

\* reconcileWatchers: the watcher is told to stop and the state is removed,
\* and no frame says so.
Removes(r) ==
    /\ "remove" \in Commands /\ changes < MaxChanges
    /\ changes' = changes + 1
    /\ watched' = watched \ {r}
    /\ ending' = IF r \in watched THEN [ending EXCEPT ![r] = @ + 1] ELSE ending
    /\ daemon' = IF r \in watched THEN Without(r) ELSE daemon
    /\ UNCHANGED <<links, link, ask, unchangedApp>>

\* removeRepo: the daemon answers that the repository is removed, or was not
\* there, though a watcher that is ending may have made its state anew.
RemoveRepo(r) ==
    /\ ~ask /\ answer = NoFrame /\ app[r].shown # Absent
    /\ Removes(r)
    /\ unsaid' = IF daemon'[r].cond = Absent THEN unsaid \ {r} ELSE unsaid \cup {r}
    /\ Answers([kind |-> "removed", repo |-> r])
    /\ stream' = IF Late THEN stream ELSE Append(stream, [kind |-> "removed", repo |-> r])

\* The command line or an edited file removes it, or the answer to the app is
\* lost or late: removeRepo then forgets nothing.
RemovedUnheard(r) ==
    /\ r \in watched /\ Removes(r)
    /\ unsaid' = IF daemon[r].cond = Absent THEN unsaid ELSE unsaid \cup {r}
    /\ UNCHANGED <<stream, answer>>

\* refreshStatus: the daemon answers with the states as they are.
RefreshStatus ==
    /\ ask /\ ask' = FALSE
    /\ Answers([kind |-> "status", snap |-> daemon])
    /\ stream' = IF Late THEN stream ELSE Append(stream, [kind |-> "status", snap |-> daemon])
    /\ unsaid' = {}
    /\ UNCHANGED <<daemon, watched, ending, changes, links, link, unchangedApp>>

RefreshFails ==
    /\ ask /\ ask' = FALSE
    /\ UNCHANGED <<statesVars, links, link, stream, answer, unchangedApp>>

ReposNext ==
    \/ HandleMessage \/ HandleAnswer
    \/ Connect \/ ConnectFails \/ Disconnect
    \/ Incompatible \/ RefreshStatus \/ RefreshFails
    \/ \E r \in Plan.repos : \/ AddRepo(r) \/ AddedUnheard(r)
                             \/ RemoveRepo(r) \/ RemovedUnheard(r) \/ Forgotten(r)
                             \/ \E c \in Plan.conditions : Change(r, c)

ReposSpec == ReposInit /\ [][ReposNext /\ UNCHANGED reposPlan]_<<reposVars, reposPlan>>

-----------------------------------------------------------------------------
(* Properties. *)

ReposTypeOK ==
    /\ daemon \in [Repos -> Report]
    /\ watched \subseteq Repos /\ unsaid \subseteq Repos /\ ending \in [Repos -> Nat]
    /\ changes \in 0..MaxChanges /\ links \in 0..MaxLinks
    /\ link \in BOOLEAN /\ overtaken \in BOOLEAN /\ ask \in BOOLEAN /\ hasSnapshot \in BOOLEAN
    /\ connection \in {"connecting", "connected", "notRunning", "incompatible"}
    /\ \A r \in Repos :
         /\ app[r].shown \in Conditions \cup {Absent}
         /\ app[r].problem \in {NoKey} \cup {ProblemKey(c) : c \in Conditions}
         /\ app[r].shown = Absent => app[r].problem = NoKey
         /\ app[r].quiet => app[r].problem # NoKey
         /\ app[r].notice \in {"none", "problem", "resolved"}
         /\ app[r].stray => app[r].notice = "problem"

\* The app says it is connected and has handled all that was sent.
ReposSettled == connection = "connected" /\ stream = <<>> /\ ~ask /\ answer = NoFrame

\* What the app shows is what the daemon knows, after any number of lost
\* connections, once all that was sent is handled (hello, state frames and
\* refreshStatus through applySnapshot and upsert).  Two things the code lets
\* happen are excepted, each until the next hello.  A repository that came or
\* went unsaid (added or removed by another client, by a command whose answer
\* was lost or by a watcher that ended after its removal) is as it was last
\* said to be; its next state frame or a status puts it right.  And an answer
\* that comes late may be older than what the app has, and is taken for new.
ShowsTruth ==
    ReposSettled /\ ~overtaken =>
        link /\ \A r \in Repos \ unsaid : app[r].shown = daemon[r].cond

\* A problem is notified at most once, though its repository syncs, goes
\* offline or is paused in between, and the connection comes and goes.  One
\* that is removed and added again is a new one to the app.
ToldOnce == Commands = {} => \A r \in Repos : IsInjective(app[r].told)

\* A notification of a problem is up exactly while there is one, for the
\* problems that were not there when the app first connected, where the app
\* shows the truth.  One that a snapshot without its repository left up may
\* outlive its problem: applySnapshot drops the key that would clear it.
NoticeMatches ==
    ReposSettled /\ ~overtaken => \A r \in Repos \ unsaid :
        LET d == daemon[r]
        IN d.cond # Absent /\ ~app[r].quiet =>
               /\ ProblemKey(d.cond) # NoKey => app[r].notice = "problem"
               /\ ProblemKey(d.cond) = NoKey /\ ~IsTransient(d.cond) /\ ~app[r].stray =>
                      app[r].notice # "problem"

\* Through syncs, lost connections, removals and additions a problem is
\* notified once, and its notice is up while the problem is there
\* (trackTransition, applySnapshot, forgetRepo).
ReposInv == ReposTypeOK /\ ToldOnce /\ NoticeMatches
=============================================================================
