----------------------------- MODULE AppProofs -----------------------------
(***************************************************************************)
(* What the menu bar app shows is what the daemon knows, and a problem is  *)
(* notified once and while it lasts, for any repositories, conditions,     *)
(* lost connections, late answers, additions and removals.  Its timeline   *)
(* is ordered and never ahead of what it holds, and complete when nothing  *)
(* is interrupted, for any sizes and any numbers of events and launches.   *)
(***************************************************************************)
EXTENDS AppRepos, AppEvents, Iteration

-----------------------------------------------------------------------------
(* The inductive invariant.  What the app will have once it has handled    *)
(* what is on its way is read off the last frame that mentions a           *)
(* repository.                                                             *)

Keys == {NoKey} \cup {ProblemKey(c) : c \in Conditions}

Snapshots == [kind : {"hello", "status"}, snap : [Repos -> Report]]
StateReports == [cond : Conditions, spell : 0..MaxChanges, key : Keys]
StateFrames == [kind : {"state"}, repo : Repos, report : StateReports]
RemovedFrames == [kind : {"removed"}, repo : Repos]
LinkKinds == {"disconnected", "unavailable", "incompatible"}
LinkFrames == [kind : LinkKinds]
Frames == Snapshots \cup StateFrames \cup RemovedFrames \cup LinkFrames

AppEntries == [shown : Conditions \cup {Absent}, problem : Keys, quiet : BOOLEAN,
               notice : {"none", "problem", "resolved"}, stray : BOOLEAN, told : Seq(Nat)]

Connections == {"connecting", "connected", "notRunning", "incompatible"}
SetsOK == watched \subseteq Repos /\ unsaid \subseteq Repos /\ ending \in [Repos -> Nat]

FramesOK ==
    /\ reposPlan \in DOMAIN ReposPlans
    /\ stream \in Seq(Frames)
    /\ answer \in Frames \cup {NoFrame}
    /\ app \in [Repos -> AppEntries]
    /\ \A r \in Repos : daemon[r].spell <= changes

IsSnapshot(f) == f.kind \in {"hello", "status"}
Mentions(f, r) == IsSnapshot(f) \/ (f.kind \in {"state", "removed"} /\ f.repo = r)
ReportOf(f, r) == IF IsSnapshot(f) THEN f.snap[r] ELSE f.report
Says(f, r) == IF f.kind = "removed" THEN Absent ELSE ReportOf(f, r).cond

\* After the next n frames of s, an app that shows a of r shows v.
PendingIn(s, a, n, r, v) ==
    \/ \E k \in 1..n : /\ Mentions(s[k], r) /\ Says(s[k], r) = v
                       /\ \A j \in (k + 1)..n : ~Mentions(s[j], r)
    \/ a = v /\ \A j \in 1..n : ~Mentions(s[j], r)

PendingAt(n, r, v) == PendingIn(stream, app[r].shown, n, r, v)

\* While the connection is up, what is on its way makes the app right about
\* what was said.
PendingTrue ==
    link /\ ~overtaken /\ answer = NoFrame =>
        \A r \in Repos \ unsaid : PendingAt(Len(stream), r, daemon[r].cond)

\* While it is not, what is on its way tells the app so.
LinkTold(s, conn) ==
    \/ conn # "connected" /\ \A i \in 1..Len(s) : s[i].kind # "hello"
    \/ \E i \in 1..Len(s) : /\ s[i].kind \in LinkKinds
                            /\ \A j \in (i + 1)..Len(s) : s[j].kind # "hello"

PendingLink ==
    /\ ~link => LinkTold(stream, connection)
    /\ answer # NoFrame => answer.kind \in {"removed", "status"}

\* What the app keeps of a repository fits together.
EntryFits(a, had) ==
    /\ a.shown = Absent => a.problem = NoKey
    /\ a.quiet => a.problem # NoKey
    /\ ProblemKey(a.shown) # NoKey => a.problem = ProblemKey(a.shown)
    /\ ProblemKey(a.shown) = NoKey /\ ~IsTransient(a.shown) => a.problem = NoKey
    /\ ~had => a.notice = "none"
    /\ a.stray => a.notice = "problem"
AppFits == \A r \in Repos : EntryFits(app[r], hasSnapshot)

\* A notice is up with the problem it is of, or a snapshot left it up.
NoticeOfEntry(a) ==
    /\ a.problem # NoKey /\ ~a.quiet => a.notice = "problem"
    /\ a.problem = NoKey /\ a.notice = "problem" => a.stray
NoticeFits == \A r \in Repos : NoticeOfEntry(app[r])

\* A key that names a problem, perhaps without its code.
Names(k, l) == k # NoKey /\ l # NoKey /\ k.kind = l.kind /\ k.code \in {"", l.code}

\* A report fits the problem it is of.
ReportFits(d) ==
    /\ ProblemKey(d.cond) # NoKey => Names(ProblemKey(d.cond), d.key)
    /\ ProblemKey(d.cond) = NoKey /\ ~IsTransient(d.cond) => d.key = NoKey

\* A later report of the same problem has its key, or now has its code.
Follows(d, e) ==
    /\ d.spell <= e.spell
    /\ d.spell = e.spell /\ e.key # NoKey => Names(d.key, e.key)

\* Of the problem of a report to come nothing was told, or the app knows of
\* it.
Untold(a, e) ==
    \A i \in 1..Len(a.told) :
        /\ a.told[i] <= e.spell
        /\ a.told[i] = e.spell /\ e.key # NoKey => Names(a.problem, e.key)

Rising(told) == \A i, j \in 1..Len(told) : i < j => told[i] < told[j]

\* With frames s on their way to an app that has a of r, and d in the daemon.
ReportsRise(s, a, d, r) ==
    /\ ReportFits(d) /\ Untold(a, d) /\ Rising(a.told)
    /\ \A i \in 1..Len(s) : Mentions(s[i], r) =>
         LET e == ReportOf(s[i], r)
         IN /\ s[i].kind # "removed" /\ ReportFits(e) /\ Untold(a, e) /\ Follows(e, d)
            /\ \A j \in (i + 1)..Len(s) : Mentions(s[j], r) => Follows(e, ReportOf(s[j], r))

TellsOnce ==
    Commands = {} => /\ ~ask /\ answer = NoFrame
                     /\ \A r \in Repos : ReportsRise(stream, app[r], daemon[r], r)

Core == ReposTypeOK /\ FramesOK /\ AppFits
Flow == PendingTrue /\ PendingLink /\ NoticeFits

ReposIInv == Core /\ Flow /\ TellsOnce

-----------------------------------------------------------------------------
(* Operators. *)

LEMMA PlanFacts ==
    ASSUME reposPlan \in DOMAIN ReposPlans
    PROVE  /\ Plan.repos \subseteq Repos /\ Plan.conditions \subseteq Conditions
           /\ Late \in BOOLEAN /\ MaxChanges \in Nat
BY ReposPlansAssumption DEF Plan, Late, MaxChanges, Range

LEMMA KeyFacts ==
    /\ NoKey.kind = "" /\ NoKey.code = "" /\ NoKey \in Keys
    /\ \A c \in Conditions \cup {Absent} : ProblemKey(c) \in Keys
    /\ \A k \in Keys : k # NoKey => k.kind # ""
    /\ \A k, l \in Keys : k.kind = l.kind /\ k.code = l.code => k = l
    /\ ProblemKey(Absent) = NoKey /\ ~IsTransient(Absent) /\ Absent \notin Conditions
    /\ ProblemKey(Idle) = NoKey /\ IsTransient(Idle) /\ Idle \in Conditions
<1>. DEFINE Codes == {""} \cup {c.code : c \in Conditions}
            Kinds == {"conflict", "preflight", "error"}
<1>1. NoKey.kind = "" /\ NoKey.code = "" /\ NoKey = [kind |-> "", code |-> ""]
  BY DEF NoKey
<1>2. ASSUME NEW c \in Conditions
      PROVE  ProblemKey(c) = NoKey \/ ProblemKey(c) \in [kind : Kinds, code : Codes]
  <2>1. \/ ProblemKey(c) = [kind |-> "conflict", code |-> ""]
        \/ ProblemKey(c) = [kind |-> "preflight", code |-> c.code]
        \/ ProblemKey(c) = [kind |-> "error", code |-> c.code]
        \/ ProblemKey(c) = NoKey
    BY DEF ProblemKey
  <2>2. "" \in Codes /\ c.code \in Codes
    OBVIOUS
  <2>3. "conflict" \in Kinds /\ "preflight" \in Kinds /\ "error" \in Kinds
    OBVIOUS
  <2>. HIDE DEF Codes, Kinds
  <2>4. \A k \in Kinds, e \in Codes : [kind |-> k, code |-> e] \in [kind : Kinds, code : Codes]
    OBVIOUS
  <2>. QED BY <2>1, <2>2, <2>3, <2>4, Zenon
<1>3. ProblemKey(Absent) = NoKey /\ ~IsTransient(Absent)
  BY DEF ProblemKey, IsTransient, Absent
<1>4. Absent \notin Conditions
  BY ConditionsAssumption DEF Absent
<1>5. ProblemKey(Idle) = NoKey /\ IsTransient(Idle) /\ Idle \in Conditions
  BY ConditionsAssumption DEF ProblemKey, IsTransient
<1>6. \A k \in Keys : k = NoKey \/ k \in [kind : Kinds, code : Codes]
  BY <1>2 DEF Keys
<1>7. \A k \in Keys : k # NoKey => k.kind # ""
  <2>. HIDE DEF Codes
  <2>. QED BY <1>6
<1>8. \A k, l \in Keys : k.kind = l.kind /\ k.code = l.code => k = l
  <2>1. \A k \in Keys : k = [kind |-> k.kind, code |-> k.code]
    <3>1. \A k \in [kind : Kinds, code : Codes] : k = [kind |-> k.kind, code |-> k.code]
      <4>. HIDE DEF Codes, Kinds
      <4>. QED OBVIOUS
    <3>2. NoKey = [kind |-> NoKey.kind, code |-> NoKey.code]
      BY <1>1
    <3>. HIDE DEF Codes, Kinds
    <3>. QED BY <1>6, <3>1, <3>2, Zenon
  <2>. QED BY <2>1
<1>9. NoKey \in Keys /\ \A c \in Conditions : ProblemKey(c) \in Keys
  BY DEF Keys
<1>. QED
  BY <1>1, <1>3, <1>4, <1>5, <1>7, <1>8, <1>9

\* trackTransition, by cases.
LEMMA TransientShown ==
    ASSUME NEW a \in AppEntries, NEW d, NEW notify \in BOOLEAN, d.cond \in Conditions, d.spell \in Nat,
           ProblemKey(d.cond) = NoKey, IsTransient(d.cond)
    PROVE  LET b == Shown(a, d, notify)
           IN /\ b \in AppEntries /\ b.shown = d.cond
              /\ b.problem = a.problem /\ b.notice = a.notice /\ b.told = a.told
              /\ b.quiet <=> a.quiet
              /\ b.stray <=> a.stray
BY DEF AppEntries, Shown, TrackTransition

LEMMA QuietShown ==
    ASSUME NEW a \in AppEntries, NEW d, NEW notify \in BOOLEAN, d.cond \in Conditions, d.spell \in Nat,
           ~(ProblemKey(d.cond) = NoKey /\ IsTransient(d.cond)), ~notify
    PROVE  LET b == Shown(a, d, notify)
           IN /\ b \in AppEntries /\ b.shown = d.cond
              /\ b.problem = ProblemKey(d.cond) /\ b.notice = a.notice /\ b.told = a.told
              /\ b.quiet <=> ProblemKey(d.cond) # NoKey
              /\ b.stray <=> a.stray
BY KeyFacts DEF AppEntries, Shown, TrackTransition

LEMMA SameShown ==
    ASSUME NEW a \in AppEntries, NEW d, NEW notify \in BOOLEAN, d.cond \in Conditions, d.spell \in Nat,
           notify, ProblemKey(d.cond) # NoKey, IsSameProblem(a.problem, ProblemKey(d.cond))
    PROVE  LET b == Shown(a, d, notify)
           IN /\ b \in AppEntries /\ b.shown = d.cond
              /\ b.problem = ProblemKey(d.cond) /\ b.notice = a.notice /\ b.told = a.told
              /\ b.quiet <=> a.quiet
              /\ b.stray <=> a.stray
BY KeyFacts DEF AppEntries, Shown, TrackTransition

LEMMA NewShown ==
    ASSUME NEW a \in AppEntries, NEW d, NEW notify \in BOOLEAN, d.cond \in Conditions, d.spell \in Nat,
           notify, ProblemKey(d.cond) # NoKey, ~IsSameProblem(a.problem, ProblemKey(d.cond))
    PROVE  LET b == Shown(a, d, notify)
           IN /\ b \in AppEntries /\ b.shown = d.cond
              /\ b.problem = ProblemKey(d.cond) /\ b.notice = "problem"
              /\ b.told = Append(a.told, d.spell) /\ ~b.quiet /\ ~b.stray
<1>1. Append(a.told, d.spell) \in Seq(Nat)
  BY DEF AppEntries
<1>. DEFINE q == ProblemKey(d.cond) # NoKey /\ (IF notify THEN a.quiet ELSE TRUE)
            kept == [a EXCEPT !.problem = ProblemKey(d.cond), !.quiet = q]
            new == [kept EXCEPT !.notice = "problem", !.quiet = FALSE, !.stray = FALSE,
                                !.told = Append(@, d.spell)]
<1>2. Shown(a, d, notify) = [new EXCEPT !.shown = d.cond]
  BY DEF Shown, TrackTransition
<1>3. /\ kept \in AppEntries /\ kept.told = a.told /\ kept.problem = ProblemKey(d.cond)
  <2>1. q \in BOOLEAN
    OBVIOUS
  <2>. HIDE DEF q
  <2>. QED BY <2>1, KeyFacts DEF AppEntries
<1>. HIDE DEF kept
<1>4. new \in AppEntries /\ new.told = Append(a.told, d.spell) /\ new.problem = ProblemKey(d.cond)
      /\ new.notice = "problem" /\ ~new.quiet /\ ~new.stray
  BY <1>1, <1>3 DEF AppEntries
<1>. HIDE DEF new
<1>. QED
  BY <1>2, <1>4 DEF AppEntries

LEMMA EndShown ==
    ASSUME NEW a \in AppEntries, NEW d, NEW notify \in BOOLEAN, d.cond \in Conditions, d.spell \in Nat,
           notify, ProblemKey(d.cond) = NoKey, ~IsTransient(d.cond)
    PROVE  LET b == Shown(a, d, notify)
           IN /\ b \in AppEntries /\ b.shown = d.cond
              /\ b.problem = NoKey /\ ~b.quiet /\ b.told = a.told
              /\ \/ b.notice # "problem" /\ ~b.stray
                 \/ a.problem = NoKey /\ b.notice = a.notice /\ (b.stray <=> a.stray)
BY KeyFacts DEF AppEntries, Shown, TrackTransition

\* What one frame does to what the app keeps of a repository.
LEMMA ShownFits ==
    ASSUME NEW a \in AppEntries, NEW d, NEW notify \in BOOLEAN, d.cond \in Conditions, d.spell \in Nat,
           EntryFits(a, notify)
    PROVE  LET b == Shown(a, d, notify)
           IN /\ b \in AppEntries /\ b.shown = d.cond
              /\ EntryFits(b, notify) /\ (NoticeOfEntry(a) => NoticeOfEntry(b))
<1>. DEFINE key == ProblemKey(d.cond)
            b == Shown(a, d, notify)
<1>. SUFFICES /\ b \in AppEntries /\ b.shown = d.cond
              /\ EntryFits(b, notify) /\ (NoticeOfEntry(a) => NoticeOfEntry(b))
  OBVIOUS
<1>0. d.cond # Absent /\ ProblemKey(Absent) = NoKey /\ ~IsTransient(Absent)
  BY KeyFacts
<1>1. CASE key = NoKey /\ IsTransient(d.cond)
  <2>1. /\ b \in AppEntries /\ b.shown = d.cond
        /\ b.problem = a.problem /\ b.notice = a.notice /\ (b.quiet <=> a.quiet)
        /\ b.stray <=> a.stray
    BY <1>1, TransientShown
  <2>. HIDE DEF b
  <2>. QED BY <1>0, <1>1, <2>1 DEF EntryFits, NoticeOfEntry
<1>2. CASE ~(key = NoKey /\ IsTransient(d.cond)) /\ ~notify
  <2>1. /\ b \in AppEntries /\ b.shown = d.cond
        /\ b.problem = key /\ b.notice = a.notice /\ (b.quiet <=> key # NoKey)
        /\ b.stray <=> a.stray
    BY <1>2, QuietShown
  <2>. HIDE DEF b
  <2>. QED BY <1>0, <1>2, <2>1 DEF EntryFits, NoticeOfEntry
<1>3. CASE notify /\ key # NoKey /\ IsSameProblem(a.problem, key)
  <2>1. /\ b \in AppEntries /\ b.shown = d.cond
        /\ b.problem = key /\ b.notice = a.notice /\ (b.quiet <=> a.quiet)
        /\ b.stray <=> a.stray
    BY <1>3, SameShown
  <2>2. a.problem # NoKey
    BY <1>3 DEF IsSameProblem
  <2>. HIDE DEF b
  <2>. QED BY <1>0, <1>3, <2>1, <2>2 DEF EntryFits, NoticeOfEntry
<1>4. CASE notify /\ key # NoKey /\ ~IsSameProblem(a.problem, key)
  <2>1. /\ b \in AppEntries /\ b.shown = d.cond
        /\ b.problem = key /\ b.notice = "problem" /\ ~b.quiet /\ ~b.stray
    BY <1>4, NewShown
  <2>. HIDE DEF b
  <2>. QED BY <1>0, <1>4, <2>1 DEF EntryFits, NoticeOfEntry
<1>5. CASE notify /\ key = NoKey /\ ~IsTransient(d.cond)
  <2>1. /\ b \in AppEntries /\ b.shown = d.cond
        /\ b.problem = NoKey /\ ~b.quiet
        /\ \/ b.notice # "problem" /\ ~b.stray
           \/ a.problem = NoKey /\ b.notice = a.notice /\ (b.stray <=> a.stray)
    BY <1>5, EndShown
  <2>. HIDE DEF b
  <2>. QED BY <1>0, <1>5, <2>1 DEF EntryFits, NoticeOfEntry
<1>. QED
  BY <1>1, <1>2, <1>3, <1>4, <1>5

Dropped(a) == [a EXCEPT !.shown = Absent, !.problem = NoKey, !.quiet = FALSE,
                        !.stray = a.notice = "problem"]
Forgets(a) == [NotShown EXCEPT !.told = a.told]

LEMMA DroppedFits ==
    ASSUME NEW a \in AppEntries, NEW had
    PROVE  LET b == Dropped(a)
           IN /\ b \in AppEntries /\ b.shown = Absent /\ b.problem = NoKey /\ b.told = a.told
              /\ EntryFits(a, had) => EntryFits(b, had)
              /\ NoticeOfEntry(b)
<1>. DEFINE b == Dropped(a)
<1>1. /\ b \in AppEntries /\ b.shown = Absent /\ b.problem = NoKey /\ ~b.quiet /\ b.notice = a.notice
      /\ b.told = a.told /\ (b.stray <=> b.notice = "problem")
  <2>. DEFINE n == a.notice = "problem"
  <2>1. n \in BOOLEAN
    OBVIOUS
  <2>2. b = [a EXCEPT !.shown = Absent, !.problem = NoKey, !.quiet = FALSE, !.stray = n]
    BY DEF Dropped
  <2>. HIDE DEF n, b
  <2>3. b \in AppEntries /\ b.shown = Absent /\ b.problem = NoKey /\ ~b.quiet /\ b.notice = a.notice
        /\ b.told = a.told /\ b.stray = n
    BY <2>1, <2>2, KeyFacts DEF AppEntries
  <2>. QED BY <2>3 DEF n
<1>. HIDE DEF b
<1>2. EntryFits(a, had) => EntryFits(b, had)
  BY <1>1, KeyFacts DEF EntryFits
<1>3. NoticeOfEntry(b)
  BY <1>1 DEF NoticeOfEntry
<1>. QED
  BY <1>1, <1>2, <1>3 DEF b

LEMMA ForgetsFits ==
    ASSUME NEW a \in AppEntries, NEW had
    PROVE  LET b == Forgets(a)
           IN /\ b \in AppEntries /\ b.shown = Absent /\ EntryFits(b, had) /\ NoticeOfEntry(b)
<1>. DEFINE b == Forgets(a)
<1>1. /\ b \in AppEntries /\ b.shown = Absent /\ b.problem = NoKey /\ ~b.quiet /\ b.notice = "none"
      /\ ~b.stray
  BY KeyFacts DEF Forgets, AppEntries, NotShown
<1>. HIDE DEF b
<1>2. EntryFits(b, had) /\ NoticeOfEntry(b)
  BY <1>1, KeyFacts DEF EntryFits, NoticeOfEntry
<1>. QED
  BY <1>1, <1>2 DEF b

-----------------------------------------------------------------------------
(* Frames. *)

LEMMA FrameFacts ==
    ASSUME reposPlan \in DOMAIN ReposPlans, NEW f \in Frames
    PROVE  /\ f.kind \in {"hello", "status", "state", "removed"} \cup LinkKinds
           /\ IsSnapshot(f) => f.snap \in [Repos -> Report]
           /\ f.kind = "state" => /\ f.repo \in Repos /\ f.report.cond \in Conditions
                                  /\ f.report.spell \in Nat /\ f.report.key \in Keys
           /\ f.kind = "removed" => f.repo \in Repos
<1>. DEFINE S == [Repos -> Report]
            T == StateReports
<1>1. MaxChanges \in Nat
  BY PlanFacts
<1>2. ASSUME NEW d \in T PROVE d.cond \in Conditions /\ d.spell \in Nat /\ d.key \in Keys
  <2>1. d.spell \in 0..MaxChanges /\ d.cond \in Conditions /\ d.key \in Keys
    BY DEF StateReports
  <2>. QED BY <1>1, <2>1
<1>3. Frames = [kind : {"hello", "status"}, snap : S] \cup [kind : {"state"}, repo : Repos, report : T]
               \cup [kind : {"removed"}, repo : Repos] \cup [kind : LinkKinds]
  BY DEF Frames, Snapshots, StateFrames, RemovedFrames, LinkFrames
<1>. HIDE DEF S, T
<1>4. CASE f \in [kind : {"hello", "status"}, snap : S]
  BY <1>4 DEF IsSnapshot, S
<1>5. CASE f \in [kind : {"state"}, repo : Repos, report : T]
  BY <1>5, <1>2 DEF IsSnapshot
<1>6. CASE f \in [kind : {"removed"}, repo : Repos]
  BY <1>6 DEF IsSnapshot
<1>7. CASE f \in [kind : LinkKinds]
  BY <1>7 DEF IsSnapshot, LinkKinds
<1>. QED
  BY <1>3, <1>4, <1>5, <1>6, <1>7

LEMMA ReportFacts ==
    ASSUME reposPlan \in DOMAIN ReposPlans, NEW d \in Report
    PROVE  d.cond \in Conditions \cup {Absent} /\ d.spell \in Nat /\ d.spell <= MaxChanges /\ d.key \in Keys
<1>. DEFINE C == Conditions \cup {Absent}
            N == 0..MaxChanges
<1>1. Report = [cond : C, spell : N, key : Keys]
  BY DEF Report, Keys
<1>. HIDE DEF C, N
<1>2. d.cond \in C /\ d.spell \in N /\ d.key \in Keys
  BY <1>1
<1>. QED
  BY <1>2, PlanFacts DEF C, N

LEMMA ReportOfFacts ==
    ASSUME reposPlan \in DOMAIN ReposPlans, NEW f \in Frames, NEW r \in Repos,
           Mentions(f, r), f.kind # "removed"
    PROVE  /\ ReportOf(f, r).cond \in Conditions \cup {Absent} /\ ReportOf(f, r).spell \in Nat
           /\ ReportOf(f, r).key \in Keys
           /\ Says(f, r) = ReportOf(f, r).cond
           /\ f.kind = "state" => Says(f, r) # Absent
<1>1. CASE IsSnapshot(f)
  <2>1. f.snap[r] \in Report /\ ReportOf(f, r) = f.snap[r] /\ f.kind # "state"
    BY <1>1, FrameFacts DEF ReportOf, IsSnapshot
  <2>. QED BY <2>1, ReportFacts DEF Says
<1>2. CASE ~IsSnapshot(f)
  <2>1. f.kind = "state" /\ ReportOf(f, r) = f.report
    BY <1>2 DEF Mentions, ReportOf
  <2>. QED BY <2>1, FrameFacts, KeyFacts DEF Says
<1>. QED BY <1>1, <1>2

\* handle, by repository.
LEMMA HandleEntries ==
    ASSUME FramesOK, hasSnapshot \in BOOLEAN, NEW f \in Frames, Handle(f)
    PROVE  /\ hasSnapshot' = (hasSnapshot \/ IsSnapshot(f))
           /\ DOMAIN app' = Repos /\ app' = [r \in Repos |-> app'[r]]
           /\ \A r \in Repos :
                /\ ~Mentions(f, r) => app'[r] = app[r]
                /\ Mentions(f, r) /\ f.kind # "removed" /\ Says(f, r) # Absent =>
                     app'[r] = Shown(app[r], ReportOf(f, r), hasSnapshot)
                /\ Mentions(f, r) /\ f.kind # "removed" /\ Says(f, r) = Absent =>
                     app'[r] = Dropped(app[r])
                /\ Mentions(f, r) /\ f.kind = "removed" => app'[r] = Forgets(app[r])
<1>0. /\ f.kind \in {"hello", "status", "state", "removed"} \cup LinkKinds
      /\ f.kind \in {"state", "removed"} => f.repo \in Repos
      /\ f.kind = "state" => f.report.cond # Absent
      /\ app = [r \in Repos |-> app[r]] /\ DOMAIN app = Repos
  <2>1. reposPlan \in DOMAIN ReposPlans /\ app \in [Repos -> AppEntries]
    BY DEF FramesOK
  <2>. QED BY <2>1, FrameFacts, KeyFacts
<1>1. CASE f.kind \in {"hello", "status"}
  <2>1. /\ app' = [r \in Repos |-> IF f.snap[r].cond = Absent THEN Dropped(app[r])
                                   ELSE Shown(app[r], f.snap[r], hasSnapshot)]
        /\ hasSnapshot' = TRUE
    BY <1>1 DEF Handle, ApplySnapshot, Dropped
  <2>2. IsSnapshot(f) /\ \A r \in Repos : /\ Mentions(f, r) /\ ReportOf(f, r) = f.snap[r]
                                          /\ Says(f, r) = f.snap[r].cond /\ f.kind # "removed"
    BY <1>1 DEF IsSnapshot, Mentions, ReportOf, Says
  <2>. QED BY <2>1, <2>2
<1>2. CASE f.kind = "state"
  <2>1. /\ app' = [app EXCEPT ![f.repo] = Shown(app[f.repo], f.report, hasSnapshot)]
        /\ hasSnapshot' = hasSnapshot
    BY <1>2 DEF Handle, Upsert
  <2>2. ~IsSnapshot(f) /\ \A r \in Repos : /\ Mentions(f, r) <=> r = f.repo
                                           /\ ReportOf(f, r) = f.report
                                           /\ Says(f, r) # Absent /\ f.kind # "removed"
    BY <1>0, <1>2 DEF IsSnapshot, Mentions, ReportOf, Says
  <2>. QED BY <1>0, <1>2, <2>1, <2>2
<1>3. CASE f.kind = "removed"
  <2>1. app' = [app EXCEPT ![f.repo] = Forgets(app[f.repo])] /\ hasSnapshot' = hasSnapshot
    BY <1>3 DEF Handle, ForgetRepo, Forgets
  <2>2. ~IsSnapshot(f) /\ \A r \in Repos : Mentions(f, r) <=> r = f.repo
    BY <1>0, <1>3 DEF IsSnapshot, Mentions
  <2>. QED BY <1>0, <1>3, <2>1, <2>2
<1>4. CASE f.kind \in LinkKinds
  <2>1. app' = app /\ hasSnapshot' = hasSnapshot
    BY <1>4 DEF Handle, LinkKinds
  <2>2. ~IsSnapshot(f) /\ \A r \in Repos : ~Mentions(f, r)
    BY <1>4 DEF IsSnapshot, Mentions, LinkKinds
  <2>. QED BY <1>0, <2>1, <2>2
<1>. QED
  BY <1>0, <1>1, <1>2, <1>3, <1>4

\* Hence what the app shows is what the frame says, and it fits together.
LEMMA HandleFits ==
    ASSUME FramesOK, hasSnapshot \in BOOLEAN, AppFits, NEW f \in Frames, Handle(f)
    PROVE  /\ hasSnapshot' \in BOOLEAN /\ app' \in [Repos -> AppEntries]
           /\ AppFits'
           /\ \A r \in Repos :
                /\ app'[r].shown = IF Mentions(f, r) THEN Says(f, r) ELSE app[r].shown
                /\ NoticeOfEntry(app[r]) => NoticeOfEntry(app'[r])
<1>0. reposPlan \in DOMAIN ReposPlans /\ app \in [Repos -> AppEntries]
  BY DEF FramesOK
<1>1. hasSnapshot' \in BOOLEAN /\ (hasSnapshot => hasSnapshot')
  BY HandleEntries, Zenon DEF IsSnapshot
<1>2. ASSUME NEW r \in Repos
      PROVE  /\ app'[r] \in AppEntries
             /\ app'[r].shown = IF Mentions(f, r) THEN Says(f, r) ELSE app[r].shown
             /\ EntryFits(app'[r], hasSnapshot)
             /\ NoticeOfEntry(app[r]) => NoticeOfEntry(app'[r])
  <2>0. app[r] \in AppEntries /\ EntryFits(app[r], hasSnapshot)
    BY <1>0 DEF AppFits
  <2>1. CASE ~Mentions(f, r)
    BY <2>0, <2>1, HandleEntries
  <2>2. CASE Mentions(f, r) /\ f.kind # "removed" /\ Says(f, r) # Absent
    <3>1. app'[r] = Shown(app[r], ReportOf(f, r), hasSnapshot)
      BY <2>2, HandleEntries
    <3>2. ReportOf(f, r).cond \in Conditions /\ ReportOf(f, r).spell \in Nat /\ Says(f, r) = ReportOf(f, r).cond
      BY <1>0, <2>2, ReportOfFacts
    <3>. QED BY <2>0, <2>2, <3>1, <3>2, ShownFits
  <2>3. CASE Mentions(f, r) /\ f.kind # "removed" /\ Says(f, r) = Absent
    <3>1. app'[r] = Dropped(app[r])
      BY <2>3, HandleEntries
    <3>. QED BY <2>0, <2>3, <3>1, DroppedFits
  <2>4. CASE Mentions(f, r) /\ f.kind = "removed"
    <3>1. app'[r] = Forgets(app[r]) /\ Says(f, r) = Absent
      BY <2>4, HandleEntries DEF Says
    <3>. QED BY <2>0, <2>4, <3>1, ForgetsFits
  <2>. QED BY <2>1, <2>2, <2>3, <2>4
<1>3. app' \in [Repos -> AppEntries]
  BY <1>2, HandleEntries
<1>4. AppFits'
  <2>1. \A r \in Repos : EntryFits(app'[r], hasSnapshot')
    BY <1>1, <1>2, Zenon DEF EntryFits
  <2>. QED BY <2>1 DEF AppFits
<1>. QED
  BY <1>1, <1>2, <1>3, <1>4

-----------------------------------------------------------------------------
(* Types. *)

LEMMA BecomesFacts ==
    ASSUME reposPlan \in DOMAIN ReposPlans, NEW d \in Report, NEW c \in Conditions,
           d.spell < MaxChanges
    PROVE  LET e == Becomes(d, c)
           IN /\ e \in StateReports /\ e \in Report /\ e.cond = c
              /\ e.spell = d.spell \/ e.spell = d.spell + 1
<1>. DEFINE C == Conditions \cup {Absent}
            N == 0..MaxChanges
            e == Becomes(d, c)
<1>1. Report = [cond : C, spell : N, key : Keys] /\ StateReports = [cond : Conditions, spell : N, key : Keys]
  BY DEF Report, Keys, StateReports
<1>2. /\ d.spell \in N /\ d.spell + 1 \in N /\ d.key \in Keys /\ c \in C
      /\ ProblemKey(c) \in Keys
  <2>1. MaxChanges \in Nat /\ d.spell \in Nat /\ d.key \in Keys
    BY PlanFacts, ReportFacts
  <2>2. c \in C /\ ProblemKey(c) \in Keys
    BY KeyFacts
  <2>. QED BY <2>1, <2>2
<1>3. SUFFICES e \in [cond : Conditions, spell : N, key : Keys] /\ e.cond = c
               /\ (e.spell = d.spell \/ e.spell = d.spell + 1)
  <2>1. Conditions \subseteq C
    OBVIOUS
  <2>. HIDE DEF C, N, e
  <2>2. e \in Report
    BY <1>1, <1>3, <2>1
  <2>. QED BY <1>1, <1>3, <2>2 DEF e
<1>. HIDE DEF C, N
<1>4. CASE ProblemKey(c) = NoKey /\ IsTransient(c)
  <2>1. e = [d EXCEPT !.cond = c]
    BY <1>4 DEF Becomes
  <2>. QED BY <1>1, <1>2, <2>1
<1>5. CASE ~(ProblemKey(c) = NoKey /\ IsTransient(c))
  <2>1. PICK k \in Keys, n \in N : /\ e = [cond |-> c, key |-> k, spell |-> n]
                                   /\ n = d.spell \/ n = d.spell + 1
    <3>. DEFINE same == IsSameProblem(d.key, ProblemKey(c))
                k == IF same /\ ProblemKey(c).code = "" THEN d.key ELSE ProblemKey(c)
                n == IF ProblemKey(c) = NoKey \/ same THEN d.spell ELSE d.spell + 1
    <3>1. e = [cond |-> c, key |-> k, spell |-> n]
      BY <1>5 DEF Becomes
    <3>2. k \in Keys /\ n \in N /\ (n = d.spell \/ n = d.spell + 1)
      BY <1>2
    <3>. QED BY <3>1, <3>2
  <2>. QED BY <2>1
<1>. QED
  BY <1>4, <1>5

LEMMA SamePlan ==
    ASSUME UNCHANGED reposPlan
    PROVE  /\ Frames' = Frames /\ Report' = Report /\ MaxChanges' = MaxChanges /\ Late' = Late
           /\ Commands' = Commands /\ StateReports' = StateReports
BY DEF Frames, Snapshots, StateFrames, RemovedFrames, LinkFrames, Report, StateReports, MaxChanges, Late,
       Commands, Plan

LEMMA NewFrames ==
    /\ \A d \in StateReports, r \in Repos : [kind |-> "state", repo |-> r, report |-> d] \in Frames
    /\ \A snap \in [Repos -> Report] : /\ [kind |-> "hello", snap |-> snap] \in Frames
                                       /\ [kind |-> "status", snap |-> snap] \in Frames
    /\ \A r \in Repos : [kind |-> "removed", repo |-> r] \in Frames
    /\ \A k \in LinkKinds : [kind |-> k] \in Frames
    /\ NoFrame \notin Frames
<1>1. \A d \in StateReports, r \in Repos : [kind |-> "state", repo |-> r, report |-> d] \in StateFrames
  BY DEF StateFrames
<1>2. \A snap \in [Repos -> Report] : /\ [kind |-> "hello", snap |-> snap] \in Snapshots
                                      /\ [kind |-> "status", snap |-> snap] \in Snapshots
  <2>. DEFINE S == [Repos -> Report]
  <2>. HIDE DEF S
  <2>. QED BY DEF Snapshots, S
<1>3. \A r \in Repos : [kind |-> "removed", repo |-> r] \in RemovedFrames
  BY DEF RemovedFrames
<1>4. \A k \in LinkKinds : [kind |-> k] \in LinkFrames
  BY DEF LinkFrames
<1>5. NoFrame \notin Snapshots /\ NoFrame \notin StateFrames /\ NoFrame \notin RemovedFrames
      /\ NoFrame \notin LinkFrames
  BY DEF Snapshots, StateFrames, RemovedFrames, LinkFrames, LinkKinds, NoFrame
<1>. QED
  BY <1>1, <1>2, <1>3, <1>4, <1>5 DEF Frames

Step == ReposNext /\ UNCHANGED reposPlan

\* ReposTypeOK follows from the parts of it that steps are shown to keep.
LEMMA CoreFrom ==
    ASSUME reposPlan \in DOMAIN ReposPlans, SetsOK,
           daemon \in [Repos -> Report], \A r \in Repos : daemon[r].spell <= changes,
           changes \in 0..MaxChanges, links \in 0..MaxLinks,
           link \in BOOLEAN, overtaken \in BOOLEAN, ask \in BOOLEAN, hasSnapshot \in BOOLEAN,
           connection \in Connections,
           stream \in Seq(Frames), answer \in Frames \cup {NoFrame},
           app \in [Repos -> AppEntries], AppFits
    PROVE  Core
<1>1. \A r \in Repos : /\ app[r].shown \in Conditions \cup {Absent} /\ app[r].problem \in Keys
                       /\ app[r].notice \in {"none", "problem", "resolved"}
                       /\ app[r].shown = Absent => app[r].problem = NoKey
                       /\ app[r].quiet => app[r].problem # NoKey
                       /\ app[r].stray => app[r].notice = "problem"
  BY DEF AppEntries, AppFits, EntryFits
<1>2. ReposTypeOK
  BY <1>1 DEF ReposTypeOK, Keys, SetsOK, Connections
<1>. QED
  BY <1>2 DEF Core, FramesOK

LEMMA CoreFromNext ==
    ASSUME UNCHANGED reposPlan, reposPlan \in DOMAIN ReposPlans, SetsOK',
           daemon' \in [Repos -> Report], \A r \in Repos : daemon'[r].spell <= changes',
           changes' \in 0..MaxChanges, links' \in 0..MaxLinks,
           link' \in BOOLEAN, overtaken' \in BOOLEAN, ask' \in BOOLEAN, hasSnapshot' \in BOOLEAN,
           connection' \in Connections,
           stream' \in Seq(Frames), answer' \in Frames \cup {NoFrame},
           app' \in [Repos -> AppEntries], AppFits'
    PROVE  Core'
<1>1. \A r \in Repos : /\ app'[r].shown \in Conditions \cup {Absent} /\ app'[r].problem \in Keys
                       /\ app'[r].notice \in {"none", "problem", "resolved"}
                       /\ app'[r].shown = Absent => app'[r].problem = NoKey
                       /\ app'[r].quiet => app'[r].problem # NoKey
                       /\ app'[r].stray => app'[r].notice = "problem"
  BY DEF AppEntries, AppFits, EntryFits
<1>2. ReposTypeOK'
  BY <1>1, SamePlan DEF ReposTypeOK, Keys, SetsOK, Connections
<1>. QED
  BY <1>2, SamePlan DEF Core, FramesOK

LEMMA CoreInit == ReposInit => Core
<1>. SUFFICES ASSUME ReposInit PROVE Core
  OBVIOUS
<1>0. reposPlan \in DOMAIN ReposPlans /\ MaxChanges \in Nat /\ MaxLinks \in Nat /\ Idle \in Conditions
  BY PlanFacts, ReposPlansAssumption, KeyFacts DEF ReposInit
<1>1. daemon \in [Repos -> Report] /\ \A r \in Repos : daemon[r].spell = 0
  <2>. DEFINE C == Conditions \cup {Absent}
              N == 0..MaxChanges
              D(r) == [cond |-> IF r \in Plan.repos THEN Idle ELSE Absent, spell |-> 0, key |-> NoKey]
  <2>1. Report = [cond : C, spell : N, key : Keys] /\ 0 \in N /\ NoKey \in Keys
    <3>1. Report = [cond : C, spell : N, key : Keys]
      BY DEF Report, Keys
    <3>2. 0 \in N
      BY <1>0
    <3>. QED BY <3>1, <3>2, KeyFacts
  <2>2. \A r \in Repos : (IF r \in Plan.repos THEN Idle ELSE Absent) \in C
    BY <1>0
  <2>. HIDE DEF C, N
  <2>3. \A r \in Repos : D(r) \in Report /\ D(r).spell = 0
    BY <2>1, <2>2
  <2>4. daemon = [r \in Repos |-> D(r)]
    BY DEF ReposInit
  <2>. HIDE DEF D
  <2>. QED BY <2>3, <2>4
<1>2. NotShown \in AppEntries /\ EntryFits(NotShown, FALSE)
  <2>1. /\ NotShown \in AppEntries /\ NotShown.shown = Absent /\ NotShown.problem = NoKey
        /\ ~NotShown.quiet /\ NotShown.notice = "none" /\ ~NotShown.stray
    <3>1. <<>> \in Seq(Nat)
      OBVIOUS
    <3>2. NoKey \in Keys
      BY KeyFacts
    <3>. QED BY <3>1, <3>2 DEF NotShown, AppEntries
  <2>. QED BY <2>1, KeyFacts DEF EntryFits
<1>3. app \in [Repos -> AppEntries] /\ AppFits
  BY <1>2 DEF ReposInit, AppFits
<1>. QED
  <2>1. /\ changes = 0 /\ links = 0 /\ link = FALSE /\ stream = <<>> /\ ask = FALSE /\ answer = NoFrame
        /\ overtaken = FALSE /\ connection = "connecting" /\ hasSnapshot = FALSE
    BY DEF ReposInit
  <2>2. /\ changes \in 0..MaxChanges /\ links \in 0..MaxLinks /\ stream \in Seq(Frames)
        /\ \A r \in Repos : daemon[r].spell <= changes
    BY <1>0, <1>1, <2>1
  <2>3. SetsOK
    BY <1>0, PlanFacts DEF ReposInit, SetsOK
  <2>4. connection \in Connections
    BY <2>1 DEF Connections
  <2>. QED BY <1>0, <1>1, <1>3, <2>1, <2>2, <2>3, <2>4, CoreFrom

LEMMA CoreFacts ==
    ASSUME Core
    PROVE  /\ SetsOK /\ reposPlan \in DOMAIN ReposPlans /\ MaxChanges \in Nat /\ MaxLinks \in Nat
           /\ daemon \in [Repos -> Report] /\ \A r \in Repos : daemon[r].spell <= changes
           /\ changes \in 0..MaxChanges /\ links \in 0..MaxLinks
           /\ link \in BOOLEAN /\ overtaken \in BOOLEAN /\ ask \in BOOLEAN /\ hasSnapshot \in BOOLEAN
           /\ connection \in Connections
           /\ stream \in Seq(Frames) /\ answer \in Frames \cup {NoFrame}
           /\ app \in [Repos -> AppEntries] /\ AppFits
BY PlanFacts, ReposPlansAssumption DEF Core, ReposTypeOK, FramesOK, SetsOK, Connections

\* A change of a repository's state, and the frame that tells of it.
LEMMA DaemonChange ==
    ASSUME Core, NEW r \in Repos, NEW c \in Conditions, changes < MaxChanges, changes' = changes + 1,
           NEW d \in StateReports, d.spell <= changes + 1,
           daemon' = [daemon EXCEPT ![r] = d],
           stream' = Sent([kind |-> "state", repo |-> r, report |-> daemon'[r]])
    PROVE  /\ daemon' \in [Repos -> Report] /\ \A x \in Repos : daemon'[x].spell <= changes'
           /\ changes' \in 0..MaxChanges /\ stream' \in Seq(Frames)
           /\ daemon'[r] = d
<1>0. /\ MaxChanges \in Nat /\ daemon \in [Repos -> Report] /\ changes \in 0..MaxChanges
      /\ stream \in Seq(Frames) /\ reposPlan \in DOMAIN ReposPlans
      /\ \A x \in Repos : daemon[x].spell <= changes
  BY CoreFacts
<1>1. d \in Report
  <2>. DEFINE C == Conditions \cup {Absent}
              N == 0..MaxChanges
  <2>1. Report = [cond : C, spell : N, key : Keys] /\ StateReports = [cond : Conditions, spell : N, key : Keys]
    BY DEF Report, Keys, StateReports
  <2>2. Conditions \subseteq C
    OBVIOUS
  <2>. HIDE DEF C, N
  <2>. QED BY <2>1, <2>2
<1>2. daemon' \in [Repos -> Report] /\ daemon'[r] = d /\ \A x \in Repos : x # r => daemon'[x] = daemon[x]
  BY <1>0, <1>1
<1>3. \A x \in Repos : daemon[x].spell \in Nat
  BY <1>0, ReportFacts
<1>4. \A x \in Repos : daemon'[x].spell <= changes'
  BY <1>0, <1>2, <1>3
<1>5. [kind |-> "state", repo |-> r, report |-> d] \in Frames
  BY NewFrames
<1>6. stream' \in Seq(Frames)
  <2>. DEFINE f == [kind |-> "state", repo |-> r, report |-> d]
  <2>1. stream' = IF link THEN Append(stream, f) ELSE stream
    BY <1>2 DEF Sent
  <2>2. f \in Frames
    BY <1>5
  <2>. HIDE DEF f
  <2>3. stream \in Seq(Frames)
    BY <1>0
  <2>4. Append(stream, f) \in Seq(Frames)
    BY ONLY <2>2, <2>3
  <2>. QED BY <2>1, <2>3, <2>4
<1>. QED
  BY <1>0, <1>2, <1>4, <1>6

\* What Change and AddRepo make of the state of a repository.
LEMMA Changed ==
    ASSUME Core, NEW r \in Repos, NEW c \in Conditions, changes < MaxChanges
    PROVE  /\ Becomes(daemon[r], c) \in StateReports
           /\ Becomes(daemon[r], c).cond = c
           /\ Becomes(daemon[r], c).spell <= changes + 1
<1>0. /\ MaxChanges \in Nat /\ daemon[r] \in Report /\ changes \in 0..MaxChanges
      /\ reposPlan \in DOMAIN ReposPlans /\ daemon[r].spell <= changes
  BY CoreFacts
<1>1. daemon[r].spell \in Nat
  BY <1>0, ReportFacts
<1>2. daemon[r].spell < MaxChanges
  BY <1>0, <1>1
<1>. QED
  BY <1>0, <1>1, <1>2, BecomesFacts

LEMMA Added ==
    ASSUME Core, NEW r \in Repos, changes < MaxChanges
    PROVE  LET e == [Becomes(daemon[r], Idle) EXCEPT !.key = NoKey]
           IN e \in StateReports /\ e.cond = Idle /\ e.spell <= changes + 1 /\ e.key = NoKey
              /\ e.spell = Becomes(daemon[r], Idle).spell
<1>1. /\ Becomes(daemon[r], Idle) \in StateReports
      /\ Becomes(daemon[r], Idle).cond = Idle
      /\ Becomes(daemon[r], Idle).spell <= changes + 1
  BY Changed, KeyFacts
<1>2. NoKey \in Keys
  BY KeyFacts
<1>3. \A d \in StateReports : LET e == [d EXCEPT !.key = NoKey]
                              IN e \in StateReports /\ e.cond = d.cond /\ e.spell = d.spell /\ e.key = NoKey
  <2>. DEFINE N == 0..MaxChanges
  <2>1. StateReports = [cond : Conditions, spell : N, key : Keys]
    BY DEF StateReports
  <2>. HIDE DEF N
  <2>. QED BY <1>2, <2>1
<1>. QED
  BY <1>1, <1>3

\* What the daemon's states are when one is taken away or made.
LEMMA TakenAway ==
    ASSUME Core, NEW r \in Repos
    PROVE  LET w == Without(r)
           IN /\ w \in [Repos -> Report] /\ w[r].cond = Absent /\ w[r].key = NoKey
              /\ \A x \in Repos : w[x].spell = daemon[x].spell
              /\ \A x \in Repos : x # r => w[x] = daemon[x]
<1>0. daemon \in [Repos -> Report]
  BY CoreFacts
<1>. DEFINE e == [daemon[r] EXCEPT !.cond = Absent, !.key = NoKey]
            w == Without(r)
<1>1. e \in Report /\ e.spell = daemon[r].spell /\ e.cond = Absent /\ e.key = NoKey
  <2>. DEFINE C == Conditions \cup {Absent}
              N == 0..MaxChanges
  <2>1. Report = [cond : C, spell : N, key : Keys] /\ Absent \in C
    BY DEF Report, Keys
  <2>2. NoKey \in Keys
    BY KeyFacts
  <2>3. daemon[r] \in Report
    BY <1>0
  <2>. HIDE DEF C, N
  <2>. QED BY <2>1, <2>2, <2>3
<1>2. w = [daemon EXCEPT ![r] = e]
  BY <1>0 DEF Without
<1>. HIDE DEF e, w
<1>3. w \in [Repos -> Report] /\ w[r] = e /\ \A x \in Repos : x # r => w[x] = daemon[x]
  BY <1>0, <1>1, <1>2
<1>. QED BY <1>1, <1>3 DEF w

LEMMA MadeAnew ==
    ASSUME Core, NEW r \in Repos, changes < MaxChanges
    PROVE  LET w == Ensured(r)
           IN /\ w \in [Repos -> Report]
              /\ \A x \in Repos : w[x].spell <= changes + 1
              /\ \A x \in Repos : x # r => w[x] = daemon[x]
<1>0. /\ daemon \in [Repos -> Report] /\ changes \in Nat /\ reposPlan \in DOMAIN ReposPlans
      /\ \A x \in Repos : daemon[x].spell <= changes
  BY CoreFacts
<1>. DEFINE a == [Becomes(daemon[r], Idle) EXCEPT !.key = NoKey]
            e == IF daemon[r].cond = Absent THEN a ELSE daemon[r]
            w == Ensured(r)
<1>1. a \in StateReports /\ a.spell <= changes + 1
  BY Added
<1>2. a \in Report
  <2>. DEFINE C == Conditions \cup {Absent}
              N == 0..MaxChanges
  <2>1. Report = [cond : C, spell : N, key : Keys] /\ StateReports = [cond : Conditions, spell : N, key : Keys]
    BY DEF Report, Keys, StateReports
  <2>2. Conditions \subseteq C
    OBVIOUS
  <2>. HIDE DEF C, N, a
  <2>. QED BY <1>1, <2>1, <2>2
<1>. HIDE DEF a
<1>3. \A x \in Repos : daemon[x].spell \in Nat /\ daemon[x].spell <= changes + 1
  <2>1. \A x \in Repos : daemon[x].spell \in Nat
    BY <1>0, ReportFacts
  <2>. QED BY <1>0, <2>1
<1>4. e \in Report /\ e.spell <= changes + 1
  BY <1>0, <1>1, <1>2, <1>3
<1>5. w = [daemon EXCEPT ![r] = e]
  BY <1>0 DEF Ensured, a
<1>. HIDE DEF e, w
<1>6. w \in [Repos -> Report] /\ w[r] = e /\ \A x \in Repos : x # r => w[x] = daemon[x]
  BY <1>0, <1>4, <1>5
<1>7. \A x \in Repos : w[x].spell <= changes + 1
  BY <1>3, <1>4, <1>6
<1>. QED BY <1>6, <1>7 DEF w

\* The steps of the daemon that no frame tells of, and those of a repository's
\* removal by the app.
Unheard(r) == AddRepo(r) \/ AddedUnheard(r) \/ RemovedUnheard(r) \/ Forgotten(r)

\* An added or removed repository leaves the types and the other states alone.
StatesFit(r) ==
    /\ SetsOK' /\ daemon' \in [Repos -> Report]
    /\ changes' \in 0..MaxChanges
    /\ \A x \in Repos : daemon'[x].spell <= changes'
    /\ \A x \in Repos : x # r => daemon'[x] = daemon[x]

LEMMA UnheardShape ==
    ASSUME Core, NEW r \in Repos, Unheard(r)
    PROVE  /\ StatesFit(r) /\ ask' \in BOOLEAN
           /\ UNCHANGED <<links, link, stream, answer, overtaken, connection, hasSnapshot, app>>
           /\ \A x \in Repos \ unsaid' : x \notin unsaid /\ daemon'[x].cond = daemon[x].cond
<1>0. /\ daemon \in [Repos -> Report] /\ changes \in Nat /\ MaxChanges \in Nat /\ changes <= MaxChanges
      /\ \A x \in Repos : daemon[x].spell <= changes
      /\ SetsOK /\ ask \in BOOLEAN /\ reposPlan \in DOMAIN ReposPlans
  BY CoreFacts
<1>1. watched \subseteq Repos /\ unsaid \subseteq Repos /\ ending \in [Repos -> Nat]
  BY <1>0 DEF SetsOK
<1>2. \A x \in Repos : daemon[x].spell \in Nat
  BY <1>0, ReportFacts
<1>. DEFINE same == \A x \in Repos : x # r => daemon'[x] = daemon[x]
            told == \A x \in Repos \ unsaid' : x \notin unsaid /\ daemon'[x].cond = daemon[x].cond
            after == IF daemon'[r].cond = daemon[r].cond THEN unsaid ELSE unsaid \cup {r}
<1>3. ASSUME same, unsaid' = after PROVE told /\ unsaid' \subseteq Repos
  <2>1. unsaid' = unsaid \/ unsaid' = unsaid \cup {r}
    BY <1>3
  <2>2. told
    <3>. SUFFICES ASSUME NEW x \in Repos, x \notin unsaid'
                  PROVE  x \notin unsaid /\ daemon'[x].cond = daemon[x].cond
      OBVIOUS
    <3>1. CASE daemon'[r].cond = daemon[r].cond
      BY <1>3, <3>1
    <3>2. CASE daemon'[r].cond # daemon[r].cond
      <4>1. unsaid' = unsaid \cup {r}
        BY <1>3, <3>2
      <4>2. x # r /\ x \notin unsaid
        BY <4>1
      <4>. QED BY <1>3, <4>2
    <3>. QED BY <3>1, <3>2
  <2>. QED BY <1>1, <2>1, <2>2
<1>4. ASSUME daemon' = daemon \/ daemon' = Without(r) PROVE same /\ daemon' \in [Repos -> Report]
                                                          /\ \A x \in Repos : daemon'[x].spell = daemon[x].spell
  <2>1. CASE daemon' = daemon
    BY <1>0, <2>1
  <2>2. CASE daemon' = Without(r)
    BY <2>2, TakenAway
  <2>. QED BY <1>4, <2>1, <2>2
<1>. HIDE DEF same
<1>5. ASSUME Adds(r)
      PROVE  /\ StatesFit(r) /\ told
             /\ UNCHANGED <<links, link, stream, answer, overtaken, connection, hasSnapshot, app>>
  <2>1. /\ changes < MaxChanges /\ changes' = changes + 1 /\ watched' = watched \cup {r} /\ ending' = ending
        /\ daemon' = daemon \/ daemon' = Ensured(r)
        /\ unsaid' = after
        /\ UNCHANGED <<links, link, stream, answer, overtaken, connection, hasSnapshot, app>>
    BY <1>5, Zenon DEF Adds, unchangedApp
  <2>2. /\ same /\ daemon' \in [Repos -> Report] /\ \A x \in Repos : daemon'[x].spell <= changes + 1
    <3>1. CASE daemon' = daemon
      <4>1. \A x \in Repos : daemon[x].spell <= changes + 1
        BY <1>0, <1>2
      <4>. QED BY <1>4, <3>1, <4>1
    <3>2. CASE daemon' = Ensured(r)
      BY <2>1, <3>2, MadeAnew DEF same
    <3>. QED BY <2>1, <3>1, <3>2
  <2>3. told /\ unsaid' \subseteq Repos
    BY <1>3, <2>1, <2>2
  <2>4. SetsOK'
    BY <1>1, <2>1, <2>3 DEF SetsOK
  <2>5. changes' \in 0..MaxChanges
    BY <1>0, <2>1
  <2>. QED BY <2>1, <2>2, <2>3, <2>4, <2>5 DEF StatesFit, same
<1>6. CASE AddRepo(r)
  <2>1. Adds(r) /\ ask' = TRUE
    BY <1>6 DEF AddRepo
  <2>. QED BY <1>5, <2>1
<1>7. CASE AddedUnheard(r)
  <2>1. Adds(r) /\ ask' = ask
    BY <1>7 DEF AddedUnheard
  <2>. QED BY <1>0, <1>5, <2>1
<1>8. CASE RemovedUnheard(r)
  <2>1. /\ r \in watched /\ Removes(r)
        /\ unsaid' = IF daemon[r].cond = Absent THEN unsaid ELSE unsaid \cup {r}
        /\ UNCHANGED <<stream, answer>>
    BY <1>8 DEF RemovedUnheard
  <2>2. /\ changes < MaxChanges /\ changes' = changes + 1 /\ watched' = watched \ {r}
        /\ ending' = [ending EXCEPT ![r] = @ + 1] /\ daemon' = Without(r)
        /\ UNCHANGED <<links, link, ask, overtaken, connection, hasSnapshot, app>>
    BY <2>1, Zenon DEF Removes, unchangedApp
  <2>3. ending' \in [Repos -> Nat]
    <3>1. ending[r] + 1 \in Nat
      BY <1>1
    <3>. QED BY <1>1, <2>2, <3>1
  <2>4. /\ same /\ daemon' \in [Repos -> Report]
        /\ \A x \in Repos : daemon'[x].spell = daemon[x].spell
        /\ daemon'[r].cond = Absent
    BY <1>4, <2>2, TakenAway
  <2>5. told /\ unsaid' \subseteq Repos
    <3>1. unsaid' = after
      BY <2>1, <2>4
    <3>. QED BY <1>3, <2>4, <3>1
  <2>6. changes' \in 0..MaxChanges /\ \A x \in Repos : daemon'[x].spell <= changes'
    BY <1>0, <1>2, <2>2, <2>4
  <2>7. SetsOK'
    BY <1>1, <2>2, <2>3, <2>5 DEF SetsOK
  <2>. QED BY <1>0, <2>1, <2>2, <2>4, <2>5, <2>6, <2>7 DEF StatesFit, same
<1>9. CASE Forgotten(r)
  <2>1. /\ ending[r] > 0 /\ ending' = [ending EXCEPT ![r] = @ - 1]
        /\ daemon' = daemon \/ daemon' = Without(r)
        /\ unsaid' = after
        /\ UNCHANGED <<watched, changes, ask>>
        /\ UNCHANGED <<links, link, stream, answer, overtaken, connection, hasSnapshot, app>>
    BY <1>9, Zenon DEF Forgotten, unchangedApp
  <2>2. ending' \in [Repos -> Nat]
    <3>1. ending[r] - 1 \in Nat
      BY <1>1, <2>1
    <3>. QED BY <1>1, <2>1, <3>1
  <2>3. /\ same /\ daemon' \in [Repos -> Report] /\ \A x \in Repos : daemon'[x].spell = daemon[x].spell
    BY <1>4, <2>1
  <2>4. told /\ unsaid' \subseteq Repos
    BY <1>3, <2>1, <2>3
  <2>5. changes' \in 0..MaxChanges /\ \A x \in Repos : daemon'[x].spell <= changes'
    BY <1>0, <1>2, <2>1, <2>3
  <2>6. SetsOK'
    BY <1>1, <2>1, <2>2, <2>4 DEF SetsOK
  <2>. QED BY <1>0, <2>1, <2>3, <2>4, <2>5, <2>6 DEF StatesFit, same
<1>. QED BY <1>6, <1>7, <1>8, <1>9 DEF Unheard

RemovedFrame(r) == [kind |-> "removed", repo |-> r]

LEMMA RemoveShape ==
    ASSUME Core, NEW r \in Repos, RemoveRepo(r)
    PROVE  /\ StatesFit(r)
           /\ RemovedFrame(r) \in Frames
           /\ stream' = IF Late THEN stream ELSE Append(stream, RemovedFrame(r))
           /\ IF Late THEN answer' = RemovedFrame(r) ELSE answer' = answer
           /\ UNCHANGED <<links, link, ask, overtaken, connection, hasSnapshot, app>>
           /\ r \notin unsaid' => daemon'[r].cond = Absent
           /\ \A x \in Repos : x # r => (x \in unsaid' <=> x \in unsaid)
<1>0. /\ daemon \in [Repos -> Report] /\ changes \in Nat /\ MaxChanges \in Nat
      /\ \A x \in Repos : daemon[x].spell <= changes
      /\ SetsOK /\ reposPlan \in DOMAIN ReposPlans
  BY CoreFacts
<1>1. watched \subseteq Repos /\ unsaid \subseteq Repos /\ ending \in [Repos -> Nat]
  BY <1>0 DEF SetsOK
<1>2. \A x \in Repos : daemon[x].spell \in Nat
  BY <1>0, ReportFacts
<1>3. /\ Removes(r)
      /\ unsaid' = IF daemon'[r].cond = Absent THEN unsaid \ {r} ELSE unsaid \cup {r}
      /\ stream' = IF Late THEN stream ELSE Append(stream, RemovedFrame(r))
      /\ IF Late THEN answer' = RemovedFrame(r) ELSE answer' = answer
  BY Zenon DEF RemoveRepo, Answers, RemovedFrame
<1>4. /\ changes < MaxChanges /\ changes' = changes + 1 /\ watched' = watched \ {r}
      /\ ending' = [ending EXCEPT ![r] = @ + 1] \/ ending' = ending
      /\ daemon' = Without(r) \/ daemon' = daemon
      /\ UNCHANGED <<links, link, ask, overtaken, connection, hasSnapshot, app>>
  BY <1>3, Zenon DEF Removes, unchangedApp
<1>5. ending' \in [Repos -> Nat]
  <2>1. ending[r] + 1 \in Nat
    BY <1>1
  <2>. QED BY <1>1, <1>4, <2>1
<1>6. /\ daemon' \in [Repos -> Report] /\ \A x \in Repos : daemon'[x].spell = daemon[x].spell
      /\ \A x \in Repos : x # r => daemon'[x] = daemon[x]
  <2>1. CASE daemon' = daemon
    BY <1>0, <2>1
  <2>2. CASE daemon' = Without(r)
    BY <2>2, TakenAway
  <2>. QED BY <1>4, <2>1, <2>2
<1>7. changes' \in 0..MaxChanges /\ \A x \in Repos : daemon'[x].spell <= changes'
  BY <1>0, <1>2, <1>4, <1>6
<1>8. /\ unsaid' \subseteq Repos
      /\ r \notin unsaid' => daemon'[r].cond = Absent
      /\ \A x \in Repos : x # r => (x \in unsaid' <=> x \in unsaid)
  BY <1>1, <1>3
<1>9. SetsOK'
  BY <1>1, <1>4, <1>5, <1>8 DEF SetsOK
<1>10. RemovedFrame(r) \in Frames
  BY NewFrames DEF RemovedFrame
<1>. QED BY <1>3, <1>4, <1>6, <1>7, <1>8, <1>9, <1>10 DEF StatesFit

LEMMA CoreStep ==
    ASSUME Core, Step
    PROVE  Core'
<1>0. /\ reposPlan \in DOMAIN ReposPlans /\ MaxChanges \in Nat /\ MaxLinks \in Nat
      /\ daemon \in [Repos -> Report] /\ \A r \in Repos : daemon[r].spell <= changes
      /\ changes \in 0..MaxChanges /\ links \in 0..MaxLinks
      /\ link \in BOOLEAN /\ overtaken \in BOOLEAN /\ ask \in BOOLEAN /\ hasSnapshot \in BOOLEAN
      /\ connection \in Connections
      /\ stream \in Seq(Frames) /\ answer \in Frames \cup {NoFrame}
      /\ app \in [Repos -> AppEntries] /\ AppFits /\ SetsOK
  BY CoreFacts
<1>00. UNCHANGED reposPlan
  BY DEF Step
<1>1. ASSUME NEW f \in Frames, Handle(f)
      PROVE  /\ hasSnapshot' \in BOOLEAN /\ app' \in [Repos -> AppEntries] /\ AppFits'
             /\ connection' \in Connections
             /\ ask' \in BOOLEAN
             /\ UNCHANGED <<daemon, changes, links, link>> /\ SetsOK'
  <2>1. FramesOK
    BY DEF Core
  <2>2. hasSnapshot' \in BOOLEAN /\ app' \in [Repos -> AppEntries] /\ AppFits'
    BY <1>0, <1>1, <2>1, HandleFits
  <2>3. connection' \in Connections
    BY <1>0, <1>1 DEF Handle, Connections
  <2>4. ask' \in BOOLEAN
    BY <1>0, <1>1, Zenon DEF Handle
  <2>5. UNCHANGED <<daemon, changes, links, link>> /\ SetsOK'
    BY <1>0, <1>1 DEF Handle, statesVars, SetsOK
  <2>. QED BY <2>2, <2>3, <2>4, <2>5
<1>2. CASE HandleMessage
  <2>1. Head(stream) \in Frames /\ Tail(stream) \in Seq(Frames) /\ Handle(Head(stream))
        /\ stream' = Tail(stream) /\ UNCHANGED <<answer, overtaken>>
    BY <1>0, <1>2 DEF HandleMessage
  <2>. QED BY <1>0, <1>00, <1>1, <2>1, CoreFromNext
<1>3. CASE HandleAnswer
  <2>1. answer \in Frames /\ Handle(answer) /\ answer' = NoFrame /\ overtaken' = TRUE /\ stream' = stream
    BY <1>0, <1>3 DEF HandleAnswer
  <2>. QED BY <1>0, <1>00, <1>1, <2>1, CoreFromNext
<1>4. ASSUME UNCHANGED <<connection, hasSnapshot, app>>
      PROVE  hasSnapshot' \in BOOLEAN /\ app' \in [Repos -> AppEntries] /\ AppFits'
             /\ connection' \in Connections
  BY <1>0, <1>4 DEF AppFits
<1>5. ASSUME NEW f \in Frames, NEW g, stream' = IF g THEN stream ELSE Append(stream, f)
      PROVE  stream' \in Seq(Frames)
  BY <1>0, <1>5
<1>6. CASE Connect
  <2>1. /\ link' = TRUE /\ links' = links + 1 /\ links < MaxLinks /\ overtaken' = FALSE
        /\ stream' = Append(stream, [kind |-> "hello", snap |-> daemon])
        /\ UNCHANGED <<daemon, changes, ask, answer, connection, hasSnapshot, app>>
        /\ unsaid' = {} /\ UNCHANGED <<watched, ending>>
    BY <1>6 DEF Connect
  <2>0. SetsOK'
    BY <1>0, <2>1 DEF SetsOK
  <2>2. [kind |-> "hello", snap |-> daemon] \in Frames
    BY <1>0, NewFrames
  <2>3. stream' \in Seq(Frames)
    BY <1>0, <2>1, <2>2
  <2>4. links' \in 0..MaxLinks
    BY <1>0, <2>1
  <2>. QED BY <1>0, <1>00, <1>4, <2>0, <2>1, <2>3, <2>4, CoreFromNext
<1>7. CASE ConnectFails
  <2>1. PICK k \in {"unavailable", "incompatible"} : stream' = <<[kind |-> k]>>
    BY <1>7 DEF ConnectFails
  <2>2. UNCHANGED <<statesVars, links, link, ask, answer, overtaken, connection, hasSnapshot, app>>
    BY <1>7 DEF ConnectFails, unchangedApp
  <2>3. stream' \in Seq(Frames)
    BY <2>1, NewFrames DEF LinkKinds
  <2>4. UNCHANGED <<daemon, changes>> /\ SetsOK'
    BY <1>0, <2>2 DEF statesVars, SetsOK
  <2>. QED BY <1>0, <1>00, <1>4, <2>2, <2>3, <2>4, CoreFromNext
<1>8. CASE Disconnect
  <2>1. /\ link' = FALSE /\ stream' = Append(stream, [kind |-> "disconnected"])
        /\ UNCHANGED <<statesVars, links, ask, answer, overtaken, connection, hasSnapshot, app>>
    BY <1>8 DEF Disconnect, unchangedApp
  <2>2. stream' \in Seq(Frames)
    BY <1>0, <2>1, NewFrames DEF LinkKinds
  <2>3. UNCHANGED <<daemon, changes>> /\ SetsOK'
    BY <1>0, <2>1 DEF statesVars, SetsOK
  <2>. QED BY <1>0, <1>00, <1>4, <2>1, <2>2, <2>3, CoreFromNext
<1>80. CASE Incompatible
  <2>1. /\ connection' = "incompatible"
        /\ UNCHANGED <<statesVars, links, link, stream, ask, answer, overtaken, hasSnapshot, app>>
    BY <1>80 DEF Incompatible
  <2>2. connection' \in Connections /\ AppFits'
    BY <1>0, <2>1 DEF Connections, AppFits
  <2>3. UNCHANGED <<daemon, changes>> /\ SetsOK'
    BY <1>0, <2>1 DEF statesVars, SetsOK
  <2>. QED BY <1>0, <1>00, <2>1, <2>2, <2>3, CoreFromNext
<1>9. CASE RefreshStatus
  <2>1. /\ ask' = FALSE
        /\ stream' = IF Late THEN stream ELSE Append(stream, [kind |-> "status", snap |-> daemon])
        /\ UNCHANGED <<daemon, changes, links, link, overtaken, connection, hasSnapshot, app>>
        /\ answer' = [kind |-> "status", snap |-> daemon] \/ answer' = answer
        /\ unsaid' = {} /\ UNCHANGED <<watched, ending>>
    BY <1>9 DEF RefreshStatus, Answers, unchangedApp
  <2>2. [kind |-> "status", snap |-> daemon] \in Frames
    BY <1>0, NewFrames
  <2>3. stream' \in Seq(Frames)
    BY <1>5, <2>1, <2>2
  <2>4. answer' \in Frames \cup {NoFrame}
    BY <1>0, <2>1, <2>2
  <2>5. SetsOK'
    BY <1>0, <2>1 DEF SetsOK
  <2>. QED BY <1>0, <1>00, <1>4, <2>1, <2>3, <2>4, <2>5, CoreFromNext
<1>10. CASE RefreshFails
  <2>1. /\ ask' = FALSE
        /\ UNCHANGED <<statesVars, links, link, stream, answer, overtaken, connection, hasSnapshot, app>>
    BY <1>10 DEF RefreshFails, unchangedApp
  <2>2. UNCHANGED <<daemon, changes>> /\ SetsOK'
    BY <1>0, <2>1 DEF statesVars, SetsOK
  <2>. QED BY <1>0, <1>00, <1>4, <2>1, <2>2, CoreFromNext
<1>11. ASSUME NEW r \in Repos, Unheard(r) PROVE Core'
  <2>1. /\ StatesFit(r) /\ ask' \in BOOLEAN
        /\ UNCHANGED <<links, link, stream, answer, overtaken, connection, hasSnapshot, app>>
    BY <1>11, UnheardShape
  <2>. QED BY <1>0, <1>00, <1>4, <2>1, CoreFromNext DEF StatesFit
<1>12. ASSUME NEW r \in Repos, NEW c \in Conditions, Change(r, c) PROVE Core'
  <2>. DEFINE e == Becomes(daemon[r], c)
  <2>1. /\ changes < MaxChanges /\ changes' = changes + 1 /\ daemon' = [daemon EXCEPT ![r] = e]
        /\ stream' = Sent([kind |-> "state", repo |-> r, report |-> daemon'[r]])
        /\ UNCHANGED <<links, link, ask, answer, overtaken, connection, hasSnapshot, app>>
        /\ unsaid' = unsaid \ {r} /\ UNCHANGED <<watched, ending>>
    BY <1>0, <1>12 DEF Change, unchangedApp
  <2>2. e \in StateReports /\ e.spell <= changes + 1
    BY <2>1, Changed
  <2>. HIDE DEF e
  <2>3. /\ daemon' \in [Repos -> Report] /\ \A x \in Repos : daemon'[x].spell <= changes'
        /\ changes' \in 0..MaxChanges /\ stream' \in Seq(Frames)
    BY <2>1, <2>2, DaemonChange
  <2>4. SetsOK'
    BY <1>0, <2>1 DEF SetsOK
  <2>. QED BY <1>0, <1>00, <1>4, <2>1, <2>3, <2>4, CoreFromNext
<1>13. ASSUME NEW r \in Repos, RemoveRepo(r) PROVE Core'
  <2>. DEFINE f == RemovedFrame(r)
  <2>1. /\ StatesFit(r) /\ f \in Frames
        /\ stream' = IF Late THEN stream ELSE Append(stream, f)
        /\ answer' = f \/ answer' = answer
        /\ UNCHANGED <<links, link, ask, overtaken, connection, hasSnapshot, app>>
    BY <1>13, RemoveShape
  <2>. HIDE DEF f
  <2>2. stream' \in Seq(Frames)
    BY <1>5, <2>1
  <2>3. answer' \in Frames \cup {NoFrame}
    BY <1>0, <2>1
  <2>. QED BY <1>0, <1>00, <1>4, <2>1, <2>2, <2>3, CoreFromNext DEF StatesFit
<1>14. Plan.repos \subseteq Repos /\ Plan.conditions \subseteq Conditions
  BY <1>0, PlanFacts
<1>. QED
  BY <1>2, <1>3, <1>6, <1>7, <1>8, <1>80, <1>9, <1>10, <1>11, <1>12, <1>13, <1>14
  DEF Step, ReposNext, Unheard

-----------------------------------------------------------------------------
(* What is on its way. *)

LEMMA PendingHandled ==
    ASSUME NEW F, NEW s \in Seq(F), s # <<>>, NEW a, NEW b, NEW r, NEW v, NEW n \in 1..Len(s),
           PendingIn(s, a, n, r, v),
           b = IF Mentions(Head(s), r) THEN Says(Head(s), r) ELSE a
    PROVE  PendingIn(Tail(s), b, n - 1, r, v)
<1>. DEFINE t == Tail(s)
<1>0. /\ Head(s) = s[1] /\ Len(s) \in Nat /\ Len(s) > 0
      /\ \A i \in 1..(n - 1) : t[i] = s[i + 1]
  OBVIOUS
<1>. HIDE DEF t
<1>1. SUFFICES PendingIn(t, b, n - 1, r, v)
  BY <1>1 DEF t
<1>2. CASE a = v /\ \A j \in 1..n : ~Mentions(s[j], r)
  <2>1. b = v /\ \A j \in 1..(n - 1) : ~Mentions(t[j], r)
    BY <1>0, <1>2
  <2>. QED BY <2>1 DEF PendingIn
<1>3. ASSUME NEW k \in 1..n, Mentions(s[k], r), Says(s[k], r) = v,
             \A j \in (k + 1)..n : ~Mentions(s[j], r)
      PROVE  PendingIn(t, b, n - 1, r, v)
  <2>1. CASE k = 1
    <3>1. b = v /\ \A j \in 1..(n - 1) : ~Mentions(t[j], r)
      BY <1>0, <1>3, <2>1
    <3>. QED BY <3>1 DEF PendingIn
  <2>2. CASE k # 1
    <3>1. /\ k - 1 \in 1..(n - 1) /\ Mentions(t[k - 1], r) /\ Says(t[k - 1], r) = v
          /\ \A j \in ((k - 1) + 1)..(n - 1) : ~Mentions(t[j], r)
      BY <1>0, <1>3, <2>2
    <3>. QED BY <3>1 DEF PendingIn
  <2>. QED BY <2>1, <2>2
<1>. QED
  BY <1>2, <1>3 DEF PendingIn

LEMMA PendingKept ==
    ASSUME NEW F, NEW s \in Seq(F), NEW f, NEW a, NEW r, NEW v, NEW n \in 0..Len(s),
           PendingIn(s, a, n, r, v)
    PROVE  PendingIn(Append(s, f), a, n, r, v)
<1>1. \A i \in 1..n : Append(s, f)[i] = s[i]
  OBVIOUS
<1>. QED
  BY <1>1 DEF PendingIn

LEMMA PendingSent ==
    ASSUME NEW F, NEW s \in Seq(F), NEW f \in F, NEW a, NEW r, NEW v,
           IF Mentions(f, r) THEN Says(f, r) = v ELSE PendingIn(s, a, Len(s), r, v)
    PROVE  PendingIn(Append(s, f), a, Len(Append(s, f)), r, v)
<1>. DEFINE t == Append(s, f)
            n == Len(s)
<1>0. n \in Nat /\ Len(t) = n + 1 /\ t[n + 1] = f /\ \A i \in 1..n : t[i] = s[i]
  OBVIOUS
<1>. HIDE DEF t, n
<1>1. SUFFICES PendingIn(t, a, n + 1, r, v)
  BY <1>0, <1>1 DEF t
<1>2. CASE Mentions(f, r)
  <2>1. /\ n + 1 \in 1..(n + 1) /\ Mentions(t[n + 1], r) /\ Says(t[n + 1], r) = v
        /\ \A j \in ((n + 1) + 1)..(n + 1) : ~Mentions(t[j], r)
    BY <1>0, <1>2
  <2>. QED BY <2>1 DEF PendingIn
<1>3. CASE ~Mentions(f, r)
  <2>0. PendingIn(s, a, n, r, v)
    BY <1>3 DEF n
  <2>1. CASE a = v /\ \A j \in 1..n : ~Mentions(s[j], r)
    <3>1. a = v /\ \A j \in 1..(n + 1) : ~Mentions(t[j], r)
      BY <1>0, <1>3, <2>1
    <3>. QED BY <3>1 DEF PendingIn
  <2>2. ASSUME NEW k \in 1..n, Mentions(s[k], r), Says(s[k], r) = v,
               \A j \in (k + 1)..n : ~Mentions(s[j], r)
        PROVE  PendingIn(t, a, n + 1, r, v)
    <3>1. /\ k \in 1..(n + 1) /\ Mentions(t[k], r) /\ Says(t[k], r) = v
          /\ \A j \in (k + 1)..(n + 1) : ~Mentions(t[j], r)
      BY <1>0, <1>3, <2>2
    <3>. QED BY <3>1 DEF PendingIn
  <2>. QED BY <2>0, <2>1, <2>2 DEF PendingIn
<1>. QED
  BY <1>2, <1>3

\* Once all is handled, what the app shows is what was pending.
LEMMA PendingNone ==
    ASSUME NEW s, NEW a, NEW r, NEW v, PendingIn(s, a, 0, r, v)
    PROVE  a = v
BY DEF PendingIn

LEMMA LinkToldHandled ==
    ASSUME NEW F, NEW s \in Seq(F), s # <<>>, NEW conn, NEW new, LinkTold(s, conn),
           new = CASE Head(s).kind = "hello" -> "connected"
                   [] Head(s).kind = "disconnected" -> "connecting"
                   [] Head(s).kind = "unavailable" -> "notRunning"
                   [] Head(s).kind = "incompatible" -> "incompatible"
                   [] OTHER -> conn
    PROVE  LinkTold(Tail(s), new)
<1>. DEFINE t == Tail(s)
<1>0. /\ Head(s) = s[1] /\ Len(s) \in Nat /\ Len(s) > 0 /\ Len(t) = Len(s) - 1
      /\ \A i \in 1..(Len(s) - 1) : t[i] = s[i + 1]
  OBVIOUS
<1>. HIDE DEF t
<1>1. SUFFICES LinkTold(t, new)
  BY <1>1 DEF t
<1>2. CASE conn # "connected" /\ \A i \in 1..Len(s) : s[i].kind # "hello"
  <2>1. s[1].kind # "hello"
    BY <1>0, <1>2
  <2>2. new # "connected"
    BY <1>0, <1>2, <2>1
  <2>3. \A i \in 1..Len(t) : t[i].kind # "hello"
    BY <1>0, <1>2
  <2>. QED BY <2>2, <2>3 DEF LinkTold
<1>3. ASSUME NEW k \in 1..Len(s), s[k].kind \in LinkKinds,
             \A j \in (k + 1)..Len(s) : s[j].kind # "hello"
      PROVE  LinkTold(t, new)
  <2>1. CASE k = 1
    <3>1. new # "connected"
      BY <1>0, <1>3, <2>1 DEF LinkKinds
    <3>2. \A i \in 1..Len(t) : t[i].kind # "hello"
      BY <1>0, <1>3, <2>1
    <3>. QED BY <3>1, <3>2 DEF LinkTold
  <2>2. CASE k # 1
    <3>1. k - 1 \in 1..Len(t) /\ t[k - 1] = s[k]
      BY <1>0, <2>2
    <3>2. \A j \in ((k - 1) + 1)..Len(t) : t[j].kind # "hello"
      BY <1>0, <1>3, <2>2
    <3>. QED BY <1>3, <3>1, <3>2 DEF LinkTold
  <2>. QED BY <2>1, <2>2
<1>. QED
  BY <1>2, <1>3 DEF LinkTold

LEMMA LinkToldSent ==
    ASSUME NEW F, NEW s \in Seq(F), NEW f \in F, NEW conn,
           \/ f.kind \in LinkKinds
           \/ LinkTold(s, conn) /\ f.kind # "hello"
    PROVE  LinkTold(Append(s, f), conn)
<1>. DEFINE t == Append(s, f)
            n == Len(s)
<1>0. n \in Nat /\ Len(t) = n + 1 /\ t[n + 1] = f /\ \A i \in 1..n : t[i] = s[i]
  OBVIOUS
<1>00. Len(s) = n
  OBVIOUS
<1>. HIDE DEF t, n
<1>1. SUFFICES LinkTold(t, conn)
  BY <1>1 DEF t
<1>2. CASE f.kind \in LinkKinds
  <2>1. /\ n + 1 \in 1..Len(t) /\ t[n + 1].kind \in LinkKinds
        /\ \A j \in ((n + 1) + 1)..Len(t) : t[j].kind # "hello"
    BY <1>0, <1>2
  <2>. QED BY <2>1 DEF LinkTold
<1>3. CASE LinkTold(s, conn) /\ f.kind # "hello"
  <2>1. CASE conn # "connected" /\ \A i \in 1..n : s[i].kind # "hello"
    <3>1. \A i \in 1..Len(t) : t[i].kind # "hello"
      BY <1>0, <1>3, <2>1
    <3>. QED BY <2>1, <3>1 DEF LinkTold
  <2>2. ASSUME NEW k \in 1..n, s[k].kind \in LinkKinds,
               \A j \in (k + 1)..n : s[j].kind # "hello"
        PROVE  LinkTold(t, conn)
    <3>1. /\ k \in 1..Len(t) /\ t[k].kind \in LinkKinds
          /\ \A j \in (k + 1)..Len(t) : t[j].kind # "hello"
      BY <1>0, <1>3, <2>2
    <3>. QED BY <3>1 DEF LinkTold
  <2>. QED BY <1>00, <1>3, <2>1, <2>2 DEF LinkTold
<1>. QED
  BY <1>2, <1>3

\* What the frames say.
LEMMA FramesSay ==
    /\ \A r, x, d : LET f == [kind |-> "state", repo |-> r, report |-> d]
                    IN /\ Mentions(f, x) <=> x = r
                       /\ Says(f, x) = d.cond /\ ~IsSnapshot(f) /\ ReportOf(f, x) = d
                       /\ f.kind = "state"
    /\ \A r, x : LET f == [kind |-> "removed", repo |-> r]
                 IN /\ Mentions(f, x) <=> x = r
                    /\ Says(f, x) = Absent /\ ~IsSnapshot(f) /\ f.kind = "removed"
    /\ \A k \in {"hello", "status"} : \A snap, x :
         LET f == [kind |-> k, snap |-> snap]
         IN /\ Mentions(f, x) /\ Says(f, x) = snap[x].cond /\ IsSnapshot(f) /\ f.snap = snap
            /\ ReportOf(f, x) = snap[x] /\ f.kind = k
    /\ \A k \in LinkKinds : \A x :
         LET f == [kind |-> k] IN ~Mentions(f, x) /\ ~IsSnapshot(f) /\ f.kind = k
BY DEF Mentions, Says, IsSnapshot, ReportOf, LinkKinds

\* The steps that are not the app's, by what they send.
StateFrame(r, d) == [kind |-> "state", repo |-> r, report |-> d]

LEMMA ChangeShape ==
    ASSUME Core, NEW r \in Repos, NEW c \in Conditions, Change(r, c)
    PROVE  \E d \in StateReports :
             /\ d.cond # Absent /\ daemon' = [daemon EXCEPT ![r] = d]
             /\ stream' = IF link THEN Append(stream, StateFrame(r, d)) ELSE stream
             /\ StateFrame(r, d) \in Frames
             /\ daemon' \in [Repos -> Report] /\ daemon'[r] = d
             /\ \A x \in Repos : x # r => daemon'[x] = daemon[x]
             /\ unsaid' = unsaid \ {r}
             /\ UNCHANGED <<link, answer, overtaken, connection, hasSnapshot, app>>
<1>0. daemon \in [Repos -> Report]
  BY CoreFacts
<1>. DEFINE d == Becomes(daemon[r], c)
<1>1. /\ changes < MaxChanges /\ changes' = changes + 1 /\ daemon' = [daemon EXCEPT ![r] = d]
      /\ stream' = Sent([kind |-> "state", repo |-> r, report |-> daemon'[r]])
      /\ unsaid' = unsaid \ {r}
      /\ UNCHANGED <<link, answer, overtaken, connection, hasSnapshot, app>>
  BY <1>0 DEF Change, unchangedApp
<1>2. d \in StateReports /\ d.spell <= changes + 1
  BY <1>1, Changed
<1>. HIDE DEF d
<1>3. daemon' \in [Repos -> Report] /\ daemon'[r] = d
  BY <1>1, <1>2, DaemonChange
<1>4. StateFrame(r, d) \in Frames
  BY <1>2, NewFrames DEF StateFrame
<1>5. stream' = IF link THEN Append(stream, StateFrame(r, d)) ELSE stream
  BY <1>1, <1>3 DEF Sent, StateFrame
<1>6. d.cond # Absent
  BY <1>2, KeyFacts DEF StateReports
<1>7. \A x \in Repos : x # r => daemon'[x] = daemon[x]
  BY <1>0, <1>1
<1>. QED BY <1>1, <1>2, <1>3, <1>4, <1>5, <1>6, <1>7

\* A step that sends a frame which tells what it changes.
LEMMA SendStep ==
    ASSUME Core, Flow, UNCHANGED <<app, connection, reposPlan>>,
           NEW f \in Frames, stream' = Append(stream, f), link' \in BOOLEAN, answer' = answer,
           overtaken' = overtaken \/ (overtaken' = FALSE /\ f.kind = "hello"),
           \A x \in Repos \ unsaid' :
              IF Mentions(f, x) THEN Says(f, x) = daemon'[x].cond
              ELSE x \notin unsaid /\ daemon'[x].cond = daemon[x].cond,
           link' => link \/ f.kind = "hello",
           ~link' => f.kind \in LinkKinds \/ (~link /\ f.kind # "hello")
    PROVE  Flow'
<1>0. /\ stream \in Seq(Frames) /\ app \in [Repos -> AppEntries] /\ Len(stream) \in Nat
      /\ overtaken \in BOOLEAN
  <2>1. stream \in Seq(Frames) /\ app \in [Repos -> AppEntries] /\ overtaken \in BOOLEAN
    BY CoreFacts
  <2>. QED BY <2>1
<1>1. UNCHANGED app /\ UNCHANGED connection
  OBVIOUS
<1>2. PendingTrue'
  <2>. SUFFICES ASSUME link', ~overtaken', answer' = NoFrame, NEW x \in Repos, x \notin unsaid'
                PROVE  PendingAt(Len(stream), x, daemon[x].cond)'
    BY DEF PendingTrue
  <2>1. IF Mentions(f, x) THEN Says(f, x) = daemon'[x].cond
        ELSE PendingIn(stream, app[x].shown, Len(stream), x, daemon'[x].cond)
    <3>1. CASE Mentions(f, x)
      BY <3>1
    <3>2. CASE ~Mentions(f, x)
      <4>1. f.kind # "hello"
        BY <3>2 DEF Mentions, IsSnapshot
      <4>2. link /\ ~overtaken /\ answer = NoFrame
        BY <4>1
      <4>3. x \notin unsaid /\ daemon'[x].cond = daemon[x].cond
        BY <3>2
      <4>. QED BY <3>2, <4>2, <4>3 DEF Flow, PendingTrue, PendingAt
    <3>. QED BY <3>1, <3>2
  <2>2. PendingIn(Append(stream, f), app[x].shown, Len(Append(stream, f)), x, daemon'[x].cond)
    BY <1>0, <2>1, PendingSent
  <2>. QED BY <1>1, <2>2 DEF PendingAt
<1>3. PendingLink'
  <2>1. ~link' => LinkTold(Append(stream, f), connection)
    BY <1>0, LinkToldSent DEF Flow, PendingLink
  <2>. QED BY <1>1, <2>1 DEF Flow, PendingLink
<1>4. NoticeFits'
  BY <1>1 DEF Flow, NoticeFits
<1>. QED
  BY <1>2, <1>3, <1>4 DEF Flow

\* A step that sends nothing: nobody listens, its answer comes late, or what
\* it changes goes unsaid.
LEMMA StillStep ==
    ASSUME Core, Flow, UNCHANGED <<app, stream, link, overtaken>>,
           connection' = connection \/ connection' = "incompatible",
           \/ answer' = answer
           \/ answer' # NoFrame /\ answer'.kind \in {"removed", "status"},
           \/ ~link
           \/ answer' # NoFrame
           \/ \A x \in Repos \ unsaid' : x \notin unsaid /\ daemon'[x].cond = daemon[x].cond
    PROVE  Flow'
<1>1. UNCHANGED <<app, stream, link, overtaken>>
  OBVIOUS
<1>2. PendingTrue'
  <2>. SUFFICES ASSUME link', ~overtaken', answer' = NoFrame, NEW x \in Repos, x \notin unsaid'
                PROVE  PendingAt(Len(stream), x, daemon[x].cond)'
    BY DEF PendingTrue
  <2>1. link /\ ~overtaken /\ answer = NoFrame
    BY <1>1
  <2>2. x \notin unsaid /\ daemon'[x].cond = daemon[x].cond
    BY <2>1
  <2>3. PendingAt(Len(stream), x, daemon[x].cond)
    BY <2>1, <2>2 DEF Flow, PendingTrue
  <2>. QED BY <1>1, <2>2, <2>3 DEF PendingAt
<1>3. PendingLink'
  <2>1. LinkTold(stream, connection) => LinkTold(stream, connection')
    <3>1. "incompatible" # "connected"
      OBVIOUS
    <3>. QED BY <3>1 DEF LinkTold
  <2>. QED BY <1>1, <2>1 DEF Flow, PendingLink
<1>4. NoticeFits'
  BY <1>1 DEF Flow, NoticeFits
<1>. QED
  BY <1>2, <1>3, <1>4 DEF Flow

\* The app takes the next frame.
LEMMA MessageStep ==
    ASSUME Core, Flow, HandleMessage, UNCHANGED reposPlan
    PROVE  Flow'
<1>. DEFINE f == Head(stream)
<1>0. /\ stream \in Seq(Frames) /\ hasSnapshot \in BOOLEAN /\ FramesOK /\ AppFits
      /\ stream # <<>> /\ Handle(f) /\ stream' = Tail(stream) /\ UNCHANGED <<answer, overtaken>>
  BY CoreFacts DEF HandleMessage, Core
<1>1. f \in Frames /\ f = stream[1] /\ Len(stream) \in Nat \ {0} /\ Len(stream') = Len(stream) - 1
      /\ \A i \in 1..Len(stream') : stream'[i] = stream[i + 1]
  BY <1>0
<1>3. \A r \in Repos :
        /\ app'[r].shown = IF Mentions(f, r) THEN Says(f, r) ELSE app[r].shown
        /\ NoticeOfEntry(app[r]) => NoticeOfEntry(app'[r])
  BY <1>0, <1>1, HandleFits
<1>4. UNCHANGED <<daemon, unsaid, link>>
  BY <1>0 DEF Handle, statesVars
<1>5. ASSUME NEW r \in Repos, NEW v, NEW n \in 1..Len(stream),
             PendingIn(stream, app[r].shown, n, r, v)
      PROVE  PendingIn(stream', app'[r].shown, n - 1, r, v)
  <2>1. app'[r].shown = IF Mentions(Head(stream), r) THEN Says(Head(stream), r) ELSE app[r].shown
    BY <1>3
  <2>. HIDE DEF f
  <2>. QED BY <1>0, <1>5, <2>1, PendingHandled
<1>. HIDE DEF f
<1>6. PendingTrue'
  <2>. SUFFICES ASSUME link', ~overtaken', answer' = NoFrame, NEW r \in Repos, r \notin unsaid'
                PROVE  PendingIn(stream', app'[r].shown, Len(stream'), r, daemon'[r].cond)
    BY DEF PendingTrue, PendingAt
  <2>1. PendingIn(stream, app[r].shown, Len(stream), r, daemon'[r].cond)
    BY <1>0, <1>4 DEF Flow, PendingTrue, PendingAt
  <2>2. Len(stream) \in 1..Len(stream)
    BY <1>1
  <2>. QED BY <1>1, <1>5, <2>1, <2>2
<1>7. PendingLink'
  <2>1. ASSUME ~link PROVE LinkTold(stream', connection')
    <3>1. LinkTold(stream, connection)
      BY <2>1 DEF Flow, PendingLink
    <3>2. connection' = CASE f.kind = "hello" -> "connected"
                          [] f.kind = "disconnected" -> "connecting"
                          [] f.kind = "unavailable" -> "notRunning"
                          [] f.kind = "incompatible" -> "incompatible"
                          [] OTHER -> connection
      BY <1>0 DEF Handle
    <3>. QED BY <1>0, <3>1, <3>2, LinkToldHandled DEF f
  <2>. QED BY <1>0, <1>4, <2>1 DEF Flow, PendingLink
<1>8. NoticeFits'
  BY <1>3 DEF Flow, NoticeFits
<1>. QED
  BY <1>6, <1>7, <1>8 DEF Flow

\* The app takes an answer that came late.
LEMMA AnswerStep ==
    ASSUME Core, Flow, HandleAnswer, UNCHANGED reposPlan
    PROVE  Flow'
<1>0. /\ answer \in Frames /\ answer # NoFrame /\ Handle(answer) /\ answer' = NoFrame /\ overtaken' = TRUE
      /\ stream' = stream
  BY CoreFacts DEF HandleAnswer
<1>1. FramesOK /\ hasSnapshot \in BOOLEAN /\ AppFits
  BY CoreFacts DEF Core
<1>2. PendingTrue'
  BY <1>0 DEF PendingTrue
<1>3. PendingLink'
  <2>1. answer.kind \in {"removed", "status"}
    BY <1>0 DEF Flow, PendingLink
  <2>2. connection' = connection /\ link' = link
    BY <1>0, <2>1 DEF Handle
  <2>. QED BY <1>0, <2>2 DEF Flow, PendingLink
<1>4. NoticeFits'
  BY <1>0, <1>1, HandleFits DEF Flow, NoticeFits
<1>. QED
  BY <1>2, <1>3, <1>4 DEF Flow

LEMMA FlowInit == ReposInit => Flow
<1>. SUFFICES ASSUME ReposInit PROVE Flow
  OBVIOUS
<1>0. /\ link = FALSE /\ stream = <<>> /\ answer = NoFrame /\ overtaken = FALSE
      /\ connection = "connecting" /\ \A r \in Repos : app[r] = NotShown
  BY DEF ReposInit
<1>1. Len(stream) = 0 /\ \A r \in Repos : PendingAt(0, r, Absent)
  BY <1>0 DEF PendingAt, PendingIn, NotShown
<1>2. PendingTrue
  BY <1>0 DEF PendingTrue
<1>3. PendingLink
  BY <1>0, <1>1 DEF PendingLink, LinkTold
<1>6. NoticeFits
  <2>1. NoticeOfEntry(NotShown)
    BY KeyFacts DEF NoticeOfEntry, NotShown
  <2>. QED BY <1>0, <2>1 DEF NoticeFits
<1>. QED
  BY <1>2, <1>3, <1>6 DEF Flow

LEMMA FlowStep ==
    ASSUME Core, Flow, Step
    PROVE  Flow'
<1>0. /\ daemon \in [Repos -> Report] /\ link \in BOOLEAN /\ overtaken \in BOOLEAN
      /\ reposPlan \in DOMAIN ReposPlans /\ stream \in Seq(Frames)
  BY CoreFacts
<1>00. UNCHANGED reposPlan
  BY DEF Step
<1>1. CASE HandleMessage
  BY <1>00, <1>1, MessageStep
<1>2. CASE HandleAnswer
  BY <1>00, <1>2, AnswerStep
<1>3. CASE Connect
  <2>. DEFINE f == [kind |-> "hello", snap |-> daemon]
  <2>1. /\ link' = TRUE /\ overtaken' = FALSE /\ stream' = Append(stream, f)
        /\ UNCHANGED <<daemon, answer, connection, app>>
    BY <1>3 DEF Connect
  <2>2. f \in Frames /\ f.kind = "hello" /\ f.snap = daemon /\ IsSnapshot(f)
        /\ \A x \in Repos : Mentions(f, x) /\ Says(f, x) = daemon[x].cond
    <3>1. f \in Frames
      BY <1>0, NewFrames
    <3>2. /\ f.kind \in {"hello", "status"} /\ f.snap = daemon
          /\ \A x \in Repos : Mentions(f, x) /\ Says(f, x) = daemon[x].cond
      BY DEF Mentions, Says, IsSnapshot, ReportOf
    <3>. QED BY <3>1, <3>2 DEF IsSnapshot
  <2>. HIDE DEF f
  <2>. QED BY <1>00, <2>1, <2>2, SendStep
<1>4. CASE ConnectFails
  <2>1. PICK k \in {"unavailable", "incompatible"} : stream' = <<[kind |-> k]>>
    BY <1>4 DEF ConnectFails
  <2>. DEFINE f == [kind |-> k]
  <2>2. /\ ~link /\ stream = <<>> /\ stream' = <<f>>
        /\ UNCHANGED <<daemon, unsaid, link, answer, overtaken, connection, app>>
    BY <1>4, <2>1 DEF ConnectFails, unchangedApp, statesVars
  <2>3. f \in Frames /\ f.kind \in LinkKinds /\ f.kind # "hello" /\ \A x \in Repos : ~Mentions(f, x)
    <3>1. k \in LinkKinds
      BY DEF LinkKinds
    <3>. QED BY <3>1, NewFrames, FramesSay DEF LinkKinds
  <2>. HIDE DEF f
  <2>4. stream' = Append(stream, f)
    BY <2>2
  <2>. QED BY <1>0, <1>00, <2>2, <2>3, <2>4, SendStep
<1>5. CASE Disconnect
  <2>. DEFINE f == [kind |-> "disconnected"]
  <2>1. /\ link' = FALSE /\ stream' = Append(stream, f)
        /\ UNCHANGED <<daemon, unsaid, answer, overtaken, connection, app>>
    BY <1>5 DEF Disconnect, unchangedApp, statesVars
  <2>2. f \in Frames /\ f.kind \in LinkKinds /\ f.kind # "hello" /\ \A x \in Repos : ~Mentions(f, x)
    <3>1. "disconnected" \in LinkKinds
      BY DEF LinkKinds
    <3>. QED BY <3>1, NewFrames, FramesSay
  <2>. HIDE DEF f
  <2>. QED BY <1>00, <2>1, <2>2, SendStep
<1>50. CASE Incompatible
  <2>1. /\ connection' = "incompatible"
        /\ UNCHANGED <<daemon, unsaid, link, stream, answer, overtaken, app>>
    BY <1>50 DEF Incompatible, statesVars
  <2>. QED BY <2>1, StillStep
<1>6. CASE RefreshStatus
  <2>. DEFINE f == [kind |-> "status", snap |-> daemon]
  <2>1. /\ stream' = IF Late THEN stream ELSE Append(stream, f)
        /\ IF Late THEN answer' = f ELSE answer' = answer
        /\ UNCHANGED <<daemon, link, overtaken, connection, app>>
    BY <1>6 DEF RefreshStatus, Answers, unchangedApp
  <2>2. f \in Frames /\ f.kind = "status" /\ f.snap = daemon /\ IsSnapshot(f)
        /\ \A x \in Repos : Mentions(f, x) /\ Says(f, x) = daemon[x].cond
    <3>1. f \in Frames
      BY <1>0, NewFrames
    <3>2. /\ f.kind \in {"hello", "status"} /\ f.snap = daemon
          /\ \A x \in Repos : Mentions(f, x) /\ Says(f, x) = daemon[x].cond
      BY DEF Mentions, Says, IsSnapshot, ReportOf
    <3>. QED BY <3>1, <3>2 DEF IsSnapshot
  <2>3. f # NoFrame
    BY <2>2, NewFrames
  <2>. HIDE DEF f
  <2>4. CASE Late
    BY <1>00, <2>1, <2>2, <2>3, <2>4, StillStep
  <2>5. CASE ~Late
    BY <1>0, <1>00, <2>1, <2>2, <2>5, SendStep
  <2>. QED BY <2>4, <2>5
<1>7. CASE RefreshFails
  <2>1. UNCHANGED <<daemon, unsaid, link, stream, answer, overtaken, connection, app>>
    BY <1>7 DEF RefreshFails, unchangedApp, statesVars
  <2>. QED BY <2>1, StillStep
<1>8. ASSUME NEW r \in Repos, NEW c \in Conditions, Change(r, c)
      PROVE  Flow'
  <2>1. PICK d \in StateReports :
             /\ d.cond # Absent /\ daemon' = [daemon EXCEPT ![r] = d]
             /\ stream' = IF link THEN Append(stream, StateFrame(r, d)) ELSE stream
             /\ StateFrame(r, d) \in Frames
             /\ daemon' \in [Repos -> Report] /\ daemon'[r] = d
             /\ \A x \in Repos : x # r => daemon'[x] = daemon[x]
             /\ unsaid' = unsaid \ {r}
             /\ UNCHANGED <<link, answer, overtaken, connection, hasSnapshot, app>>
    BY <1>8, ChangeShape
  <2>. DEFINE f == StateFrame(r, d)
  <2>2. f.kind = "state" /\ ~IsSnapshot(f)
        /\ \A x \in Repos : (Mentions(f, x) <=> x = r) /\ Says(f, x) = d.cond
    BY FramesSay DEF StateFrame
  <2>. HIDE DEF f
  <2>3. CASE link
    <3>1. stream' = Append(stream, f) /\ f \in Frames
      BY <2>1, <2>3 DEF f
    <3>2. \A x \in Repos \ unsaid' : IF Mentions(f, x) THEN Says(f, x) = daemon'[x].cond
                                      ELSE x \notin unsaid /\ daemon'[x].cond = daemon[x].cond
      BY <2>1, <2>2
    <3>. QED BY <1>0, <1>00, <2>1, <2>2, <2>3, <3>1, <3>2, SendStep
  <2>4. CASE ~link
    BY <2>1, <2>4, StillStep
  <2>. QED BY <1>0, <2>3, <2>4
<1>80. ASSUME NEW r \in Repos, Unheard(r) PROVE Flow'
  <2>1. /\ UNCHANGED <<links, link, stream, answer, overtaken, connection, hasSnapshot, app>>
        /\ \A x \in Repos \ unsaid' : x \notin unsaid /\ daemon'[x].cond = daemon[x].cond
    BY <1>80, UnheardShape
  <2>. QED BY <2>1, StillStep
<1>9. ASSUME NEW r \in Repos, RemoveRepo(r) PROVE Flow'
  <2>. DEFINE f == RemovedFrame(r)
  <2>1. /\ StatesFit(r) /\ f \in Frames
        /\ stream' = IF Late THEN stream ELSE Append(stream, f)
        /\ IF Late THEN answer' = f ELSE answer' = answer
        /\ UNCHANGED <<links, link, ask, overtaken, connection, hasSnapshot, app>>
        /\ r \notin unsaid' => daemon'[r].cond = Absent
        /\ \A x \in Repos : x # r => (x \in unsaid' <=> x \in unsaid)
    BY <1>9, RemoveShape
  <2>2. f.kind = "removed" /\ \A x \in Repos : (Mentions(f, x) <=> x = r) /\ Says(f, x) = Absent
    BY FramesSay DEF RemovedFrame
  <2>. HIDE DEF f
  <2>3. f # NoFrame
    BY <2>1, NewFrames
  <2>4. CASE Late
    BY <2>1, <2>2, <2>3, <2>4, StillStep
  <2>5. CASE ~Late
    <3>1. \A x \in Repos \ unsaid' : IF Mentions(f, x) THEN Says(f, x) = daemon'[x].cond
                                      ELSE x \notin unsaid /\ daemon'[x].cond = daemon[x].cond
      BY <2>1, <2>2 DEF StatesFit
    <3>2. /\ stream' = Append(stream, f) /\ answer' = answer
          /\ UNCHANGED <<link, overtaken, connection, app>>
      BY <2>1, <2>5
    <3>3. link' => link
      BY <3>2
    <3>4. ~link' => ~link /\ f.kind # "hello"
      BY <2>2, <3>2
    <3>. QED BY <1>0, <1>00, <2>1, <3>1, <3>2, <3>3, <3>4, SendStep
  <2>. QED BY <2>4, <2>5
<1>10. Plan.repos \subseteq Repos /\ Plan.conditions \subseteq Conditions
  BY <1>0, PlanFacts
<1>. QED
  BY <1>1, <1>2, <1>3, <1>4, <1>5, <1>50, <1>6, <1>7, <1>8, <1>80, <1>9, <1>10
  DEF Step, ReposNext, Unheard

-----------------------------------------------------------------------------
(* A problem is told of once. *)

LEMMA NamesTransitive ==
    ASSUME NEW k, NEW l, NEW m, Names(k, l), Names(l, m)
    PROVE  Names(k, m)
BY DEF Names

LEMMA NamesSame ==
    ASSUME NEW k \in Keys, NEW l \in Keys, NEW m \in Keys, Names(k, m), Names(l, m)
    PROVE  IsSameProblem(k, l)
<1>1. k # NoKey /\ l # NoKey /\ k.kind = l.kind
  BY DEF Names
<1>2. "" \in {k.code, l.code} \/ k.code = l.code
  BY DEF Names
<1>3. k.code = l.code => k = l
  BY <1>1, KeyFacts
<1>. QED
  BY <1>1, <1>2, <1>3 DEF IsSameProblem

LEMMA NamesItself ==
    ASSUME NEW k, k # NoKey
    PROVE  Names(k, k)
BY DEF Names

LEMMA FollowsTransitive ==
    ASSUME NEW d, NEW e, NEW f, d.spell \in Nat, e.spell \in Nat, f.spell \in Nat,
           Follows(d, e), Follows(e, f)
    PROVE  Follows(d, f)
<1>1. d.spell <= f.spell
  BY DEF Follows
<1>2. ASSUME d.spell = f.spell, f.key # NoKey PROVE Names(d.key, f.key)
  <2>1. d.spell = e.spell /\ e.spell = f.spell
    BY <1>2 DEF Follows
  <2>2. Names(e.key, f.key)
    BY <1>2, <2>1 DEF Follows
  <2>3. e.key # NoKey
    BY <2>2 DEF Names
  <2>4. Names(d.key, e.key)
    BY <2>1, <2>3 DEF Follows
  <2>. QED BY <2>2, <2>4, NamesTransitive
<1>. QED
  BY <1>1, <1>2 DEF Follows

\* A change keeps the problem or begins another one.
LEMMA BecomesFollows ==
    ASSUME reposPlan \in DOMAIN ReposPlans, NEW d \in Report, NEW c \in Conditions,
           d.spell < MaxChanges, ReportFits(d)
    PROVE  LET e == Becomes(d, c) IN Follows(d, e) /\ ReportFits(e)
<1>. DEFINE e == Becomes(d, c)
            key == ProblemKey(c)
            same == IsSameProblem(d.key, key)
<1>. SUFFICES Follows(d, e) /\ ReportFits(e)
  OBVIOUS
<1>0. d.spell \in Nat /\ d.key \in Keys /\ key \in Keys /\ e.cond = c /\ NoKey.code = ""
  BY ReportFacts, KeyFacts, BecomesFacts
<1>00. \A n \in Nat : n <= n /\ n <= n + 1 /\ n # n + 1
  OBVIOUS
<1>1. CASE key = NoKey /\ IsTransient(c)
  <2>1. e = [d EXCEPT !.cond = c]
    BY <1>1 DEF Becomes
  <2>2. e.key = d.key /\ e.spell = d.spell
    BY <2>1 DEF Report
  <2>. HIDE DEF e, key
  <2>3. Follows(d, e)
    BY <1>0, <1>00, <2>2, NamesItself, Zenon DEF Follows
  <2>4. ReportFits(e)
    BY <1>0, <1>1 DEF ReportFits, key
  <2>. QED BY <2>3, <2>4
<1>2. CASE ~(key = NoKey /\ IsTransient(c))
  <2>. DEFINE k == IF same /\ key.code = "" THEN d.key ELSE key
              n == IF key = NoKey \/ same THEN d.spell ELSE d.spell + 1
  <2>1. e = [cond |-> c, key |-> k, spell |-> n]
    BY <1>2 DEF Becomes
  <2>2. e.key = k /\ e.spell = n
    <3>. HIDE DEF k, n, e
    <3>. QED BY <2>1
  <2>. HIDE DEF e
  <2>3. CASE key = NoKey
    <3>1. e.key = NoKey /\ e.spell = d.spell
      BY <1>0, <2>2, <2>3 DEF IsSameProblem
    <3>. HIDE DEF k, n, key
    <3>2. Follows(d, e)
      BY <1>0, <1>00, <3>1, Zenon DEF Follows
    <3>3. ReportFits(e)
      BY <1>0, <2>3, <3>1 DEF ReportFits, key
    <3>. QED BY <3>2, <3>3
  <2>4. CASE key # NoKey /\ ~same
    <3>1. e.key = key /\ e.spell = d.spell + 1
      BY <2>2, <2>4
    <3>2. Names(key, key)
      BY <2>4, NamesItself
    <3>. HIDE DEF same, k, n
    <3>3. Follows(d, e)
      BY <1>0, <1>00, <3>1, Zenon DEF Follows
    <3>4. ReportFits(e)
      BY <1>0, <2>4, <3>1, <3>2 DEF ReportFits
    <3>. QED BY <3>3, <3>4
  <2>5. CASE key # NoKey /\ same
    <3>1. e.spell = d.spell /\ e.key = IF key.code = "" THEN d.key ELSE key
      BY <2>2, <2>5
    <3>2. d.key # NoKey /\ d.key.kind = key.kind /\ (d.key = key \/ "" \in {d.key.code, key.code})
      BY <2>5 DEF IsSameProblem
    <3>. HIDE DEF same, key, k, n
    <3>3. Names(d.key, e.key) /\ Names(key, e.key)
      BY <2>5, <3>1, <3>2 DEF Names
    <3>4. Follows(d, e)
      BY <1>0, <1>00, <3>1, <3>3, Zenon DEF Follows
    <3>5. ReportFits(e)
      BY <1>0, <2>5, <3>3 DEF ReportFits, key
    <3>. QED BY <3>4, <3>5
  <2>. QED BY <2>3, <2>4, <2>5
<1>. QED
  BY <1>1, <1>2

\* What was told of before a report is told of before those that follow it.
LEMMA UntoldFollows ==
    ASSUME NEW a \in AppEntries, NEW d, NEW e, d.spell \in Nat, e.spell \in Nat,
           Untold(a, d), Follows(d, e)
    PROVE  Untold(a, e)
<1>. SUFFICES ASSUME NEW i \in 1..Len(a.told)
              PROVE  /\ a.told[i] <= e.spell
                     /\ a.told[i] = e.spell /\ e.key # NoKey => Names(a.problem, e.key)
  BY DEF Untold
<1>1. a.told[i] \in Nat /\ a.told[i] <= d.spell /\ d.spell <= e.spell
  BY DEF AppEntries, Untold, Follows
<1>2. ASSUME a.told[i] = e.spell, e.key # NoKey PROVE Names(a.problem, e.key)
  <2>1. a.told[i] = d.spell /\ d.spell = e.spell
    BY <1>1, <1>2
  <2>2. Names(d.key, e.key)
    BY <1>2, <2>1 DEF Follows
  <2>3. d.key # NoKey
    BY <2>2 DEF Names
  <2>4. Names(a.problem, d.key)
    BY <2>1, <2>3 DEF Untold
  <2>. QED BY <2>2, <2>4, NamesTransitive
<1>. QED
  BY <1>1, <1>2

\* A report is handled: what comes after it is still untold.
LEMMA UntoldHandled ==
    ASSUME NEW a \in AppEntries, NEW d, NEW notify \in BOOLEAN, d.cond \in Conditions, d.spell \in Nat,
           d.key \in Keys, ReportFits(d), Untold(a, d), Rising(a.told)
    PROVE  LET b == Shown(a, d, notify)
           IN /\ Rising(b.told)
              /\ \A e : e.spell \in Nat /\ Follows(d, e) /\ Untold(a, e) => Untold(b, e)
<1>. DEFINE key == ProblemKey(d.cond)
            b == Shown(a, d, notify)
<1>. SUFFICES /\ Rising(b.told)
              /\ \A e : e.spell \in Nat /\ Follows(d, e) /\ Untold(a, e) => Untold(b, e)
  OBVIOUS
<1>0. a.told \in Seq(Nat) /\ key \in Keys
  BY KeyFacts DEF AppEntries
<1>1. CASE key = NoKey /\ IsTransient(d.cond)
  <2>1. b.problem = a.problem /\ b.told = a.told
    BY <1>1, TransientShown
  <2>. HIDE DEF b
  <2>. QED BY <2>1 DEF Untold
<1>2. ASSUME NEW e, e.spell \in Nat, Follows(d, e), d.spell = e.spell, e.key # NoKey,
             ~(key = NoKey /\ IsTransient(d.cond))
      PROVE  Names(key, e.key)
  <2>1. Names(d.key, e.key)
    BY <1>2 DEF Follows
  <2>2. d.key # NoKey
    BY <2>1 DEF Names
  <2>3. Names(key, d.key)
    BY <1>2, <2>2 DEF ReportFits
  <2>. QED BY <2>1, <2>3, NamesTransitive
<1>3. ASSUME ~(key = NoKey /\ IsTransient(d.cond)), b.problem = key, b.told = a.told
      PROVE  Rising(b.told) /\ \A e : e.spell \in Nat /\ Follows(d, e) /\ Untold(a, e) => Untold(b, e)
  <2>. HIDE DEF b, key
  <2>1. ASSUME NEW e, e.spell \in Nat, Follows(d, e), Untold(a, e), NEW i \in 1..Len(b.told)
        PROVE  /\ b.told[i] <= e.spell
               /\ b.told[i] = e.spell /\ e.key # NoKey => Names(b.problem, e.key)
    <3>1. a.told[i] \in Nat /\ a.told[i] <= d.spell /\ d.spell <= e.spell
      BY <1>0, <1>3, <2>1 DEF Untold, Follows
    <3>2. ASSUME a.told[i] = e.spell, e.key # NoKey PROVE Names(key, e.key)
      <4>1. d.spell = e.spell
        BY <2>1, <3>1, <3>2
      <4>. QED BY <1>2, <1>3, <2>1, <3>2, <4>1
    <3>. QED BY <1>3, <3>1, <3>2, <2>1
  <2>. QED BY <1>3, <2>1 DEF Untold
<1>4. CASE ~(key = NoKey /\ IsTransient(d.cond)) /\ ~notify
  BY <1>3, <1>4, QuietShown
<1>5. CASE notify /\ key # NoKey /\ IsSameProblem(a.problem, key)
  BY <1>3, <1>5, SameShown
<1>6. CASE notify /\ key = NoKey /\ ~IsTransient(d.cond)
  BY <1>3, <1>6, EndShown
<1>7. CASE notify /\ key # NoKey /\ ~IsSameProblem(a.problem, key)
  <2>1. b.problem = key /\ b.told = Append(a.told, d.spell)
    BY <1>7, NewShown
  <2>2. Len(b.told) = Len(a.told) + 1 /\ b.told[Len(a.told) + 1] = d.spell /\ Len(a.told) \in Nat
        /\ \A i \in 1..Len(a.told) : b.told[i] = a.told[i] /\ a.told[i] \in Nat
    BY <1>0, <2>1
  <2>. HIDE DEF b
  <2>3. \A i \in 1..Len(a.told) : a.told[i] < d.spell
    <3>. SUFFICES ASSUME NEW i \in 1..Len(a.told), a.told[i] = d.spell PROVE FALSE
      BY <2>2 DEF Untold
    <3>1. Names(key, d.key) /\ d.key # NoKey
      BY <1>7 DEF ReportFits, Names
    <3>2. Names(a.problem, d.key)
      BY <3>1 DEF Untold
    <3>3. a.problem \in Keys
      BY DEF AppEntries
    <3>. HIDE DEF key
    <3>. QED BY <1>0, <1>7, <3>1, <3>2, <3>3, NamesSame
  <2>4. Rising(b.told)
    BY <2>2, <2>3 DEF Rising
  <2>5. ASSUME NEW e, e.spell \in Nat, Follows(d, e), Untold(a, e), NEW i \in 1..Len(b.told)
        PROVE  /\ b.told[i] <= e.spell
               /\ b.told[i] = e.spell /\ e.key # NoKey => Names(b.problem, e.key)
    <3>1. b.told[i] \in Nat /\ b.told[i] <= d.spell /\ d.spell <= e.spell
      <4>1. i \in 1..Len(a.told) \/ i = Len(a.told) + 1
        BY <2>2, <2>5
      <4>2. d.spell <= e.spell
        BY <2>5 DEF Follows
      <4>. QED BY <2>2, <2>3, <2>5, <4>1, <4>2
    <3>2. ASSUME b.told[i] = e.spell, e.key # NoKey PROVE Names(key, e.key)
      <4>1. d.spell = e.spell
        BY <2>5, <3>1, <3>2
      <4>. HIDE DEF key
      <4>. QED BY <1>2, <1>7, <2>5, <3>2, <4>1
    <3>. QED BY <2>1, <2>5, <3>1, <3>2
  <2>. QED BY <2>4, <2>5 DEF Untold
<1>. QED
  BY <1>1, <1>4, <1>5, <1>6, <1>7

LEMMA UntoldDropped ==
    ASSUME NEW a \in AppEntries, NEW d, d.cond = Absent, d.spell \in Nat, ReportFits(d), Untold(a, d),
           Rising(a.told)
    PROVE  LET b == Dropped(a)
           IN /\ Rising(b.told)
              /\ \A e : e.spell \in Nat /\ Follows(d, e) /\ Untold(a, e) => Untold(b, e)
<1>. DEFINE b == Dropped(a)
<1>. SUFFICES /\ Rising(b.told)
              /\ \A e : e.spell \in Nat /\ Follows(d, e) /\ Untold(a, e) => Untold(b, e)
  OBVIOUS
<1>1. b.told = a.told
  BY DroppedFits
<1>2. d.key = NoKey
  BY KeyFacts DEF ReportFits
<1>3. a.told \in Seq(Nat)
  BY DEF AppEntries
<1>. HIDE DEF b
<1>4. ASSUME NEW e, e.spell \in Nat, Follows(d, e), Untold(a, e), NEW i \in 1..Len(b.told)
      PROVE  /\ b.told[i] <= e.spell
             /\ b.told[i] = e.spell /\ e.key # NoKey => Names(b.problem, e.key)
  <2>1. b.told[i] \in Nat /\ b.told[i] <= d.spell /\ d.spell <= e.spell
    BY <1>1, <1>3, <1>4 DEF Untold, Follows
  <2>2. ~(d.spell = e.spell /\ e.key # NoKey)
    BY <1>2, <1>4 DEF Follows, Names
  <2>. QED BY <1>4, <2>1, <2>2
<1>. QED
  BY <1>1, <1>4 DEF Untold

LEMMA RiseHandled ==
    ASSUME reposPlan \in DOMAIN ReposPlans, NEW s \in Seq(Frames), s # <<>>, NEW r \in Repos,
           NEW a \in AppEntries, NEW b, NEW d \in Report, NEW notify \in BOOLEAN,
           ReportsRise(s, a, d, r),
           ~Mentions(Head(s), r) => b = a,
           Mentions(Head(s), r) /\ Says(Head(s), r) # Absent => b = Shown(a, ReportOf(Head(s), r), notify),
           Mentions(Head(s), r) /\ Says(Head(s), r) = Absent => b = Dropped(a)
    PROVE  ReportsRise(Tail(s), b, d, r)
<1>. DEFINE t == Tail(s)
            f == Head(s)
            n == Len(s)
            e == ReportOf(f, r)
<1>0. /\ n \in Nat \ {0} /\ Len(t) = n - 1 /\ f = s[1] /\ f \in Frames
      /\ \A i \in 1..(n - 1) : t[i] = s[i + 1] /\ s[i + 1] \in Frames
  OBVIOUS
<1>1. d.spell \in Nat
  BY ReportFacts
<1>2. \A i \in 1..n : Mentions(s[i], r) =>
        /\ s[i].kind # "removed" /\ ReportFits(ReportOf(s[i], r)) /\ Untold(a, ReportOf(s[i], r))
        /\ Follows(ReportOf(s[i], r), d)
        /\ \A j \in (i + 1)..n : Mentions(s[j], r) => Follows(ReportOf(s[i], r), ReportOf(s[j], r))
  BY DEF ReportsRise
<1>3. ReportFits(d) /\ Untold(a, d) /\ Rising(a.told)
  BY DEF ReportsRise
<1>4. ASSUME Mentions(f, r)
      PROVE  /\ Rising(b.told)
             /\ \A x : x.spell \in Nat /\ Follows(e, x) /\ Untold(a, x) => Untold(b, x)
  <2>1. 1 \in 1..n
    BY <1>0
  <2>2. f.kind # "removed" /\ ReportFits(e) /\ Untold(a, e)
    BY <1>0, <1>2, <1>4, <2>1
  <2>3. e.cond \in Conditions \cup {Absent} /\ e.spell \in Nat /\ e.key \in Keys /\ Says(f, r) = e.cond
    BY <1>0, <1>4, <2>2, ReportOfFacts
  <2>4. CASE e.cond # Absent
    <3>1. b = Shown(a, e, notify) /\ e.cond \in Conditions
      BY <1>4, <2>3, <2>4
    <3>. HIDE DEF e, f
    <3>. QED BY <1>3, <2>2, <2>3, <3>1, UntoldHandled
  <2>5. CASE e.cond = Absent
    <3>1. b = Dropped(a)
      BY <1>4, <2>3, <2>5
    <3>. HIDE DEF e, f
    <3>. QED BY <1>3, <2>2, <2>3, <2>5, <3>1, UntoldDropped
  <2>. QED BY <2>4, <2>5
<1>. HIDE DEF e, t, n, f
<1>. SUFFICES ReportsRise(t, b, d, r)
  BY DEF t
<1>5. Rising(b.told) /\ Untold(b, d)
  <2>1. CASE ~Mentions(f, r)
    BY <1>3, <2>1 DEF f
  <2>2. CASE Mentions(f, r)
    <3>1. Follows(e, d)
      <4>1. 1 \in 1..n
        BY <1>0
      <4>. QED BY <1>0, <1>2, <2>2, <4>1 DEF e
    <3>. QED BY <1>1, <1>3, <1>4, <2>2, <3>1
  <2>. QED BY <2>1, <2>2
<1>6. ASSUME NEW i \in 1..Len(t), Mentions(t[i], r)
      PROVE  /\ t[i].kind # "removed" /\ ReportFits(ReportOf(t[i], r)) /\ Untold(b, ReportOf(t[i], r))
             /\ Follows(ReportOf(t[i], r), d)
             /\ \A j \in (i + 1)..Len(t) : Mentions(t[j], r) => Follows(ReportOf(t[i], r), ReportOf(t[j], r))
  <2>1. i + 1 \in 1..n /\ t[i] = s[i + 1] /\ t[i] \in Frames /\ i \in 1..(n - 1)
    BY <1>0
  <2>2. /\ t[i].kind # "removed" /\ ReportFits(ReportOf(t[i], r)) /\ Untold(a, ReportOf(t[i], r))
        /\ Follows(ReportOf(t[i], r), d)
    BY <1>2, <1>6, <2>1
  <2>3. ASSUME NEW j \in (i + 1)..Len(t), Mentions(t[j], r)
        PROVE  Follows(ReportOf(t[i], r), ReportOf(t[j], r))
    <3>1. j + 1 \in ((i + 1) + 1)..n /\ t[j] = s[j + 1]
      BY <1>0
    <3>. QED BY <1>2, <1>6, <2>1, <2>3, <3>1
  <2>4. Untold(b, ReportOf(t[i], r))
    <3>1. CASE ~Mentions(f, r)
      BY <2>2, <3>1 DEF f
    <3>2. CASE Mentions(f, r)
      <4>1. ReportOf(t[i], r).spell \in Nat
        BY <1>6, <2>1, <2>2, ReportOfFacts
      <4>2. Follows(e, ReportOf(t[i], r))
        <5>1. 1 \in 1..n /\ i + 1 \in (1 + 1)..n
          BY <1>0, <2>1
        <5>. QED BY <1>0, <1>2, <1>6, <2>1, <3>2, <5>1 DEF e
      <4>. QED BY <1>4, <2>2, <3>2, <4>1, <4>2
    <3>. QED BY <3>1, <3>2
  <2>. QED BY <2>2, <2>3, <2>4
<1>. QED
  BY <1>3, <1>5, <1>6 DEF ReportsRise

\* The daemon's state becomes e, and a frame may tell of it.
LEMMA RiseSent ==
    ASSUME reposPlan \in DOMAIN ReposPlans, NEW s \in Seq(Frames), NEW r \in Repos,
           NEW a \in AppEntries, NEW d \in Report, NEW e \in Report, NEW f \in Frames,
           ReportsRise(s, a, d, r), Follows(d, e), ReportFits(e),
           Mentions(f, r) => f.kind # "removed" /\ ReportOf(f, r) = e
    PROVE  ReportsRise(Append(s, f), a, e, r) /\ ReportsRise(s, a, e, r)
<1>. DEFINE t == Append(s, f)
            n == Len(s)
<1>0. n \in Nat /\ Len(t) = n + 1 /\ t[n + 1] = f /\ \A i \in 1..n : t[i] = s[i] /\ s[i] \in Frames
  OBVIOUS
<1>1. d.spell \in Nat /\ e.spell \in Nat
  BY ReportFacts
<1>2. \A i \in 1..n : Mentions(s[i], r) =>
        /\ s[i].kind # "removed" /\ ReportFits(ReportOf(s[i], r)) /\ Untold(a, ReportOf(s[i], r))
        /\ Follows(ReportOf(s[i], r), d)
        /\ \A j \in (i + 1)..n : Mentions(s[j], r) => Follows(ReportOf(s[i], r), ReportOf(s[j], r))
  BY DEF ReportsRise
<1>3. Untold(a, e) /\ Rising(a.told)
  BY <1>1, UntoldFollows DEF ReportsRise
<1>4. \A i \in 1..n : Mentions(s[i], r) => Follows(ReportOf(s[i], r), e)
  <2>. SUFFICES ASSUME NEW i \in 1..n, Mentions(s[i], r) PROVE Follows(ReportOf(s[i], r), e)
    OBVIOUS
  <2>1. s[i].kind # "removed" /\ Follows(ReportOf(s[i], r), d) /\ s[i] \in Frames
    BY <1>0, <1>2
  <2>2. ReportOf(s[i], r).spell \in Nat
    BY <2>1, ReportOfFacts
  <2>. HIDE DEF n
  <2>. QED BY <1>1, <2>1, <2>2, FollowsTransitive
<1>5. Follows(e, e)
  BY <1>1, NamesItself DEF Follows
<1>6. ReportsRise(s, a, e, r)
  BY <1>2, <1>3, <1>4 DEF ReportsRise
<1>. HIDE DEF t, n
<1>7. ASSUME NEW i \in 1..Len(t), Mentions(t[i], r)
      PROVE  /\ t[i].kind # "removed" /\ ReportFits(ReportOf(t[i], r)) /\ Untold(a, ReportOf(t[i], r))
             /\ Follows(ReportOf(t[i], r), e)
             /\ \A j \in (i + 1)..Len(t) : Mentions(t[j], r) => Follows(ReportOf(t[i], r), ReportOf(t[j], r))
  <2>1. CASE i \in 1..n
    <3>1. t[i] = s[i]
      BY <1>0, <2>1
    <3>2. /\ t[i].kind # "removed" /\ ReportFits(ReportOf(t[i], r)) /\ Untold(a, ReportOf(t[i], r))
          /\ Follows(ReportOf(t[i], r), e)
      BY <1>2, <1>4, <1>7, <2>1, <3>1
    <3>3. ASSUME NEW j \in (i + 1)..Len(t), Mentions(t[j], r)
          PROVE  Follows(ReportOf(t[i], r), ReportOf(t[j], r))
      <4>1. CASE j \in 1..n
        <5>1. t[j] = s[j] /\ j \in (i + 1)..n
          BY <1>0, <4>1
        <5>. QED BY <1>2, <1>7, <2>1, <3>1, <3>3, <5>1
      <4>2. CASE j = n + 1
        <5>1. t[j] = f
          BY <1>0, <4>2
        <5>. QED BY <3>2, <3>3, <5>1
      <4>. QED BY <1>0, <3>3, <4>1, <4>2
    <3>. QED BY <3>2, <3>3
  <2>2. CASE i = n + 1
    <3>1. t[i] = f /\ \A j \in (i + 1)..Len(t) : FALSE
      BY <1>0, <2>2
    <3>. QED BY <1>3, <1>5, <1>7, <3>1
  <2>. QED BY <1>0, <2>1, <2>2
<1>8. ReportsRise(t, a, e, r)
  BY <1>3, <1>7 DEF ReportsRise
<1>. QED
  BY <1>6, <1>8 DEF t

LEMMA TellsInit == ReposInit => TellsOnce
<1>. SUFFICES ASSUME ReposInit, NEW r \in Repos PROVE ReportsRise(stream, app[r], daemon[r], r)
  BY DEF TellsOnce, ReposInit
<1>1. /\ ask = FALSE /\ answer = NoFrame /\ stream = <<>> /\ app[r] = NotShown
      /\ daemon[r] = [cond |-> IF r \in Plan.repos THEN Idle ELSE Absent, spell |-> 0, key |-> NoKey]
  BY DEF ReposInit
<1>2. daemon[r].key = NoKey /\ daemon[r].cond \in {Idle, Absent}
  BY <1>1
<1>3. ReportFits(daemon[r])
  BY <1>2, KeyFacts DEF ReportFits
<1>4. Len(NotShown.told) = 0
  BY DEF NotShown
<1>5. Untold(app[r], daemon[r]) /\ Rising(app[r].told)
  BY <1>1, <1>4 DEF Untold, Rising
<1>6. Len(stream) = 0
  BY <1>1
<1>. QED
  BY <1>1, <1>3, <1>5, <1>6 DEF ReportsRise

LEMMA TellsStep ==
    ASSUME Core, TellsOnce, Step
    PROVE  TellsOnce'
<1>0. /\ daemon \in [Repos -> Report] /\ reposPlan \in DOMAIN ReposPlans /\ stream \in Seq(Frames)
      /\ app \in [Repos -> AppEntries] /\ hasSnapshot \in BOOLEAN /\ FramesOK
      /\ \A r \in Repos : daemon[r].spell \in Nat
  BY CoreFacts, ReportFacts DEF Core
<1>. SUFFICES ASSUME Commands = {}
              PROVE  ~ask' /\ answer' = NoFrame /\ \A r \in Repos : ReportsRise(stream', app'[r], daemon'[r], r)
  BY SamePlan DEF TellsOnce, Step
<1>00. ask = FALSE /\ answer = NoFrame /\ \A r \in Repos : ReportsRise(stream, app[r], daemon[r], r)
  BY CoreFacts DEF TellsOnce
<1>1. \A r \in Repos : Follows(daemon[r], daemon[r]) /\ ReportFits(daemon[r])
  BY <1>0, <1>00, NamesItself DEF Follows, ReportsRise
<1>2. CASE HandleMessage
  <2>. DEFINE f == Head(stream)
  <2>1. /\ stream # <<>> /\ Handle(f) /\ stream' = Tail(stream) /\ answer' = answer
        /\ f \in Frames /\ f = stream[1] /\ 1 \in 1..Len(stream)
    BY <1>0, <1>2 DEF HandleMessage
  <2>2. f.kind # "removed"
    <3>. SUFFICES ASSUME f.kind = "removed" PROVE FALSE
      OBVIOUS
    <3>1. f.repo \in Repos
      BY <1>0, <2>1, FrameFacts
    <3>2. Mentions(f, f.repo)
      BY DEF Mentions
    <3>. HIDE DEF f
    <3>. QED BY <1>00, <2>1, <3>1, <3>2 DEF ReportsRise
  <2>3. ~ask' /\ daemon' = daemon
    BY <1>00, <2>1, <2>2 DEF Handle, statesVars
  <2>. HIDE DEF f
  <2>4. ASSUME NEW r \in Repos PROVE ReportsRise(stream', app'[r], daemon'[r], r)
    <3>1. /\ ~Mentions(f, r) => app'[r] = app[r]
          /\ Mentions(f, r) /\ Says(f, r) # Absent => app'[r] = Shown(app[r], ReportOf(f, r), hasSnapshot)
          /\ Mentions(f, r) /\ Says(f, r) = Absent => app'[r] = Dropped(app[r])
      BY <1>0, <2>1, <2>2, HandleEntries
    <3>2. app[r] \in AppEntries /\ daemon[r] \in Report
      BY <1>0
    <3>. QED BY <1>0, <1>00, <2>1, <2>3, <3>1, <3>2, RiseHandled DEF f
  <2>. QED BY <1>00, <2>1, <2>3, <2>4
<1>3. CASE HandleAnswer
  BY <1>00, <1>3 DEF HandleAnswer
<1>4. ASSUME NEW f \in Frames, stream' = Append(stream, f) \/ stream' = stream,
             UNCHANGED <<ask, answer, app>>,
             \A r \in Repos : /\ daemon'[r] \in Report /\ Follows(daemon[r], daemon'[r]) /\ ReportFits(daemon'[r])
                              /\ Mentions(f, r) => f.kind # "removed" /\ ReportOf(f, r) = daemon'[r]
      PROVE  ~ask' /\ answer' = NoFrame /\ \A r \in Repos : ReportsRise(stream', app'[r], daemon'[r], r)
  <2>1. ASSUME NEW r \in Repos PROVE ReportsRise(stream', app'[r], daemon'[r], r)
    <3>1. app[r] \in AppEntries /\ daemon[r] \in Report
      BY <1>0
    <3>2. /\ ReportsRise(Append(stream, f), app[r], daemon'[r], r)
          /\ ReportsRise(stream, app[r], daemon'[r], r)
      BY <1>0, <1>00, <1>4, <3>1, RiseSent
    <3>. QED BY <1>4, <3>2
  <2>. QED BY <1>00, <1>4, <2>1
<1>5. CASE Connect
  <2>. DEFINE f == [kind |-> "hello", snap |-> daemon]
  <2>1. stream' = Append(stream, f) /\ UNCHANGED <<daemon, ask, answer, app>>
    BY <1>5 DEF Connect
  <2>2. f \in Frames /\ \A x \in Repos : f.kind # "removed" /\ ReportOf(f, x) = daemon[x]
    <3>1. f \in Frames
      BY <1>0, NewFrames
    <3>. QED BY <3>1 DEF ReportOf, IsSnapshot
  <2>. HIDE DEF f
  <2>. QED BY <1>0, <1>1, <1>4, <2>1, <2>2
<1>6. CASE ConnectFails
  <2>1. PICK k \in {"unavailable", "incompatible"} : stream' = <<[kind |-> k]>>
    BY <1>6 DEF ConnectFails
  <2>. DEFINE f == [kind |-> k]
  <2>2. stream = <<>> /\ stream' = <<f>> /\ UNCHANGED <<daemon, ask, answer, app>>
    BY <1>6, <2>1 DEF ConnectFails, unchangedApp, statesVars
  <2>3. f \in Frames /\ \A x \in Repos : ~Mentions(f, x)
    <3>1. k \in LinkKinds
      BY DEF LinkKinds
    <3>. QED BY <3>1, NewFrames, FramesSay
  <2>. HIDE DEF f
  <2>4. stream' = Append(stream, f)
    BY <2>2
  <2>. QED BY <1>0, <1>1, <1>4, <2>2, <2>3, <2>4
<1>7. CASE Disconnect
  <2>. DEFINE f == [kind |-> "disconnected"]
  <2>1. stream' = Append(stream, f) /\ UNCHANGED <<daemon, ask, answer, app>>
    BY <1>7 DEF Disconnect, unchangedApp, statesVars
  <2>2. f \in Frames /\ \A x \in Repos : ~Mentions(f, x)
    <3>1. "disconnected" \in LinkKinds
      BY DEF LinkKinds
    <3>. QED BY <3>1, NewFrames, FramesSay
  <2>. HIDE DEF f
  <2>. QED BY <1>0, <1>1, <1>4, <2>1, <2>2
<1>70. CASE Incompatible
  <2>1. UNCHANGED <<daemon, stream, ask, answer, app>>
    BY <1>70 DEF Incompatible, statesVars
  <2>. QED BY <1>00, <2>1
<1>8. CASE RefreshStatus \/ RefreshFails
  BY <1>00, <1>8 DEF RefreshStatus, RefreshFails
<1>9. ASSUME NEW r \in Repos, AddRepo(r) \/ AddedUnheard(r) \/ RemoveRepo(r) \/ RemovedUnheard(r) PROVE FALSE
  BY <1>9, Zenon DEF AddRepo, AddedUnheard, RemoveRepo, RemovedUnheard, Adds, Removes
<1>90. ASSUME NEW r \in Repos, Forgotten(r)
       PROVE  ~ask' /\ answer' = NoFrame /\ \A x \in Repos : ReportsRise(stream', app'[x], daemon'[x], x)
  <2>1. /\ daemon' = daemon \/ daemon' = Without(r)
        /\ UNCHANGED <<stream, ask, answer, app>>
    BY <1>90, Zenon DEF Forgotten, unchangedApp
  <2>2. PICK k \in LinkKinds : TRUE
    BY DEF LinkKinds
  <2>. DEFINE f == [kind |-> k]
  <2>3. f \in Frames /\ \A x \in Repos : ~Mentions(f, x)
    BY <2>2, NewFrames, FramesSay
  <2>. HIDE DEF f
  <2>4. ASSUME NEW x \in Repos
        PROVE  daemon'[x] \in Report /\ Follows(daemon[x], daemon'[x]) /\ ReportFits(daemon'[x])
    <3>1. CASE daemon'[x] = daemon[x]
      BY <1>0, <1>1, <3>1
    <3>2. CASE daemon'[x] # daemon[x]
      <4>1. daemon' = Without(r) /\ x = r
        BY <2>1, <3>2, TakenAway
      <4>2. daemon'[x] \in Report /\ daemon'[x].cond = Absent /\ daemon'[x].key = NoKey
            /\ daemon'[x].spell = daemon[x].spell
        BY <4>1, TakenAway
      <4>3. daemon[x].spell \in Nat
        BY <1>0
      <4>4. Follows(daemon[x], daemon'[x])
        BY <4>2, <4>3 DEF Follows
      <4>5. ReportFits(daemon'[x])
        BY <4>2, KeyFacts DEF ReportFits
      <4>. QED BY <4>2, <4>4, <4>5
    <3>. QED BY <3>1, <3>2
  <2>. QED BY <1>4, <2>1, <2>3, <2>4
<1>10. ASSUME NEW r \in Repos, NEW c \in Conditions, Change(r, c)
       PROVE  ~ask' /\ answer' = NoFrame /\ \A x \in Repos : ReportsRise(stream', app'[x], daemon'[x], x)
  <2>1. PICK d \in StateReports :
             /\ stream' = IF link THEN Append(stream, StateFrame(r, d)) ELSE stream
             /\ StateFrame(r, d) \in Frames
             /\ daemon' \in [Repos -> Report] /\ daemon'[r] = d
             /\ \A x \in Repos : x # r => daemon'[x] = daemon[x]
    BY <1>10, ChangeShape
  <2>2. daemon'[r] = Becomes(daemon[r], c) /\ changes < MaxChanges /\ UNCHANGED <<ask, answer, app>>
    BY <1>0, <1>10 DEF Change, unchangedApp
  <2>. DEFINE f == StateFrame(r, d)
  <2>3. f.kind = "state" /\ \A x \in Repos : (Mentions(f, x) <=> x = r) /\ ReportOf(f, x) = d
    BY FramesSay DEF StateFrame
  <2>. HIDE DEF f
  <2>4. Follows(daemon[r], daemon'[r]) /\ ReportFits(daemon'[r])
    <3>1. daemon[r] \in Report /\ daemon[r].spell < MaxChanges
      <4>1. daemon[r].spell <= changes /\ changes \in Nat /\ MaxChanges \in Nat
        BY CoreFacts
      <4>. QED BY <1>0, <2>2, <4>1
    <3>. QED BY <1>0, <1>1, <2>2, <3>1, BecomesFollows
  <2>5. stream' = Append(stream, f) \/ stream' = stream
    BY <2>1 DEF f
  <2>6. f \in Frames
    BY <2>1 DEF f
  <2>7. \A x \in Repos : /\ daemon'[x] \in Report /\ Follows(daemon[x], daemon'[x]) /\ ReportFits(daemon'[x])
                         /\ Mentions(f, x) => f.kind # "removed" /\ ReportOf(f, x) = daemon'[x]
    BY <1>1, <2>1, <2>3, <2>4
  <2>. QED BY <1>4, <2>2, <2>5, <2>6, <2>7
<1>11. Plan.repos \subseteq Repos /\ Plan.conditions \subseteq Conditions
  BY <1>0, PlanFacts
<1>. QED
  BY <1>2, <1>3, <1>5, <1>6, <1>7, <1>70, <1>8, <1>9, <1>90, <1>10, <1>11 DEF Step, ReposNext

-----------------------------------------------------------------------------
(* The theorems. *)

LEMMA ReposStill ==
    ASSUME ReposIInv, UNCHANGED <<reposVars, reposPlan>>
    PROVE  ReposIInv'
<1>0. /\ UNCHANGED <<daemon, watched, ending, unsaid, changes, links, link, stream, ask, answer, overtaken, connection,
                    hasSnapshot, app, reposPlan>>
      /\ reposPlan \in DOMAIN ReposPlans
  BY CoreFacts DEF ReposIInv, reposVars, statesVars
<1>1. UNCHANGED <<Plan, Late, Commands, MaxChanges, Report, Frames>>
  BY <1>0, SamePlan DEF Plan, Late, Commands, MaxChanges
<1>2. ReposTypeOK'
  BY <1>0, <1>1 DEF ReposIInv, Core, ReposTypeOK
<1>3. FramesOK'
  BY <1>0, <1>1 DEF ReposIInv, Core, FramesOK
<1>4. AppFits'
  BY <1>0 DEF ReposIInv, Core, AppFits
<1>5. Flow'
  BY <1>0, <1>1 DEF ReposIInv, Flow, PendingTrue, PendingLink, NoticeFits, PendingAt
<1>6. TellsOnce'
  BY <1>0, <1>1 DEF ReposIInv, TellsOnce
<1>. QED
  BY <1>2, <1>3, <1>4, <1>5, <1>6 DEF ReposIInv, Core

LEMMA ReposInductive == ReposSpec => []ReposIInv
<1>1. ReposInit => ReposIInv
  BY CoreInit, FlowInit, TellsInit DEF ReposIInv
<1>2. ASSUME ReposIInv, [ReposNext /\ UNCHANGED reposPlan]_<<reposVars, reposPlan>>
      PROVE  ReposIInv'
  <2>1. CASE Step
    BY <1>2, <2>1, CoreStep, FlowStep, TellsStep DEF ReposIInv
  <2>2. CASE UNCHANGED <<reposVars, reposPlan>>
    BY <1>2, <2>2, ReposStill
  <2>. QED BY <1>2, <2>1, <2>2 DEF Step
<1>. QED BY <1>1, <1>2, PTL DEF ReposSpec

\* With nothing left to handle, an app that says it is connected is right
\* about what was said.
LEMMA SettledIsTrue ==
    ASSUME ReposIInv, ReposSettled, ~overtaken
    PROVE  link /\ \A r \in Repos \ unsaid : app[r].shown = daemon[r].cond
<1>0. /\ stream = <<>> /\ Len(stream) = 0 /\ answer = NoFrame /\ connection = "connected"
      /\ link \in BOOLEAN
  BY CoreFacts DEF ReposIInv, ReposSettled
<1>1. link
  <2>1. ~LinkTold(stream, connection)
    BY <1>0 DEF LinkTold
  <2>. QED BY <2>1 DEF ReposIInv, Flow, PendingLink
<1>2. ASSUME NEW r \in Repos, r \notin unsaid PROVE app[r].shown = daemon[r].cond
  <2>1. PendingIn(stream, app[r].shown, 0, r, daemon[r].cond)
    BY <1>0, <1>1, <1>2 DEF ReposIInv, Flow, PendingTrue, PendingAt
  <2>. QED BY <2>1, PendingNone
<1>. QED
  BY <1>1, <1>2

LEMMA NoticeIsUp == ReposIInv => NoticeMatches
<1>. SUFFICES ASSUME ReposIInv, ReposSettled, ~overtaken, NEW r \in Repos, r \notin unsaid,
                     daemon[r].cond # Absent, ~app[r].quiet
              PROVE  /\ ProblemKey(daemon[r].cond) # NoKey => app[r].notice = "problem"
                     /\ ProblemKey(daemon[r].cond) = NoKey /\ ~IsTransient(daemon[r].cond) /\ ~app[r].stray
                           => app[r].notice # "problem"
  BY DEF NoticeMatches
<1>1. app[r].shown = daemon[r].cond
  BY SettledIsTrue
<1>2. EntryFits(app[r], hasSnapshot) /\ NoticeOfEntry(app[r])
  BY DEF ReposIInv, Core, AppFits, Flow, NoticeFits
<1>. QED
  BY <1>1, <1>2 DEF EntryFits, NoticeOfEntry

LEMMA RisesOnce == ReposIInv => ToldOnce
<1>. SUFFICES ASSUME ReposIInv, Commands = {}, NEW r \in Repos PROVE IsInjective(app[r].told)
  BY DEF ToldOnce
<1>1. Rising(app[r].told)
  BY DEF ReposIInv, TellsOnce, ReportsRise
<1>2. app[r].told \in Seq(Nat)
  BY CoreFacts DEF ReposIInv, AppEntries
<1>. DEFINE t == app[r].told
<1>3. ASSUME NEW i \in 1..Len(t), NEW j \in 1..Len(t), t[i] = t[j] PROVE i = j
  <2>1. t[i] \in Nat /\ t[j] \in Nat
    BY <1>2
  <2>2. ~(i < j) /\ ~(j < i)
    BY <1>1, <1>3, <2>1 DEF Rising
  <2>. QED BY <2>2
<1>4. DOMAIN t = 1..Len(t)
  BY <1>2
<1>. QED
  BY <1>3, <1>4 DEF IsInjective

\* However often the connection is lost and whatever is added, removed or
\* changed meanwhile, by whomever, an app that says it is connected and has
\* handled all that came shows what the daemon has of every repository that
\* did not come or go unsaid, unless a late answer overtook a frame since the
\* last hello (handle, applySnapshot, upsert, forgetRepo).
THEOREM AppShowsTruth == ReposSpec => []ShowsTruth
<1>1. ReposIInv => ShowsTruth
  BY SettledIsTrue DEF ShowsTruth
<1>. QED BY <1>1, ReposInductive, PTL

\* No problem is notified twice, through transient statuses and lost
\* connections, and where the app shows the truth a notice is up exactly while
\* its problem lasts, but for one that a snapshot without its repository left
\* up (trackTransition, applySnapshot, forgetRepo).
THEOREM AppNotifies == ReposSpec => []ReposInv
<1>1. ReposIInv => ReposInv
  BY NoticeIsUp, RisesOnce DEF ReposInv, ReposIInv, Core
<1>. QED BY <1>1, ReposInductive, PTL

-----------------------------------------------------------------------------
(* The timeline. *)

TimelineEvent == [id : Nat, log : Nat]

Ordered(s) == s \in Seq(TimelineEvent) /\ \A i, j \in 1..Len(s) : i < j => s[i].id < s[j].id
Timeline(s) == Ordered(s) /\ Len(s) <= MaxShown

Messages == [kind : {"hello"}, last : Nat] \cup [kind : {"event"}, event : TimelineEvent]

Tasks == {NoTask} \cup [stage : {"asked"}, since : Nat, limit : Nat \ {0}]
                  \cup [stage : {"answered"}, events : Seq(TimelineEvent)]

DaemonFits ==
    /\ lastID \in Nat /\ generation \in Nat
    /\ Ordered(log) /\ \A i \in 1..Len(log) : log[i].id <= lastID

HeldFits == Timeline(allEvents) /\ lastSeenEventID \in Nat /\ SeenIsHeld

SaveFits(save) == Timeline(save.events) /\ save.lastSeen \in Nat

StoreFits ==
    /\ Timeline(file) /\ saved \in Nat /\ SaveFits(pending)
    /\ \A w \in writes : w = [save |-> w.save, done |-> w.done] /\ SaveFits(w.save)

\* All that may become the timeline is one.
TimelineIInv ==
    /\ DaemonFits /\ HeldFits /\ StoreFits
    /\ eventStream \in Seq(Messages) /\ task \in Tasks

-----------------------------------------------------------------------------
(* Without faults. *)

\* The event with an identifier, as long as the daemon has kept its log.
Ev(k) == [id |-> k, log |-> 0]

Has(s, k) == \E i \in 1..Len(s) : s[i].id = k

\* The event is in the timeline, or was pushed out by newer ones.
Here(s, k) == Has(s, k) \/ (Len(s) = MaxShown /\ k < s[1].id)

\* The events are events of the log, of which there were n.
Genuine(s, n) == \A i \in 1..Len(s) : s[i].id \in 1..n /\ s[i] = Ev(s[i].id)

\* From b to t nothing the log holds is missing, and there is nothing before b.
Whole(s, b, t, n) ==
    /\ \A i \in 1..Len(s) : s[i].id >= b
    /\ \A k \in b..t : k > n - Capacity => Here(s, k)

SomeWhole(s, t, n) ==
    \E b \in 1..(t + 1) : (n > 0 => b <= n) /\ Whole(s, b, t, n)

\* The timeline is whole up to a and again from h on: a backfill was asked for
\* what is between.
Gap(s, b, a, h, t, n) ==
    /\ a \in Nat /\ a < h /\ h <= t /\ b <= a + 1
    /\ \A k \in b..a : k > n - Capacity => Here(s, k)
    /\ \A k \in (h + 1)..t : Here(s, k)
    /\ \A i \in 1..Len(s) : s[i].id > h \/ s[i].id \in b..a

SomeGap(s, a, t, n) == \E b \in 1..n, h \in 1..n : Gap(s, b, a, h, t, n)

\* The answer is the events from r to l, and if some before r are missing it
\* pushes out what is older.
AnswerIs(events, a, h, r, l, n) ==
    /\ a < r /\ r <= l /\ h <= l
    /\ events \in Seq(TimelineEvent) /\ Len(events) = l - r + 1
    /\ \A i \in 1..(l - r + 1) : events[i] = Ev(r + i - 1)
    /\ r = a + 1 \/ r <= n - Capacity + 1 \/ a = 0 \/ l - r + 1 = MaxShown

Answered(s, events, t, n) ==
    \E b \in 1..n, h \in 1..n, a \in 0..n, r \in 1..n, l \in 1..n :
        Gap(s, b, a, h, t, n) /\ AnswerIs(events, a, h, r, l, n)

EventOf(k) == [kind |-> "event", event |-> Ev(k)]
HelloOf(k) == [kind |-> "hello", last |-> k]

\* The messages on their way tell of the last events.
Telling(q, n) ==
    \A i \in 1..Len(q) : \/ q[i] = EventOf(n - Len(q) + i)
                         \/ i = 1 /\ q[i] = HelloOf(n - Len(q) + i)

HelloAhead == eventStream # <<>> /\ Head(eventStream).kind = "hello"

\* The last event the subscription has told of.
Told == lastID - Len(eventStream)

LogIs ==
    /\ generation = 0
    /\ Len(log) = (IF lastID <= Capacity THEN lastID ELSE Capacity)
    /\ \A i \in 1..Len(log) : log[i] = Ev(lastID - Len(log) + i)

StreamIs ==
    /\ Telling(eventStream, lastID)
    /\ ~eventLink => eventStream = <<>> /\ task = NoTask
    /\ ~running => ~eventLink
    /\ HelloAhead => task = NoTask /\ LastIdOf(allEvents) <= Told + 1
    /\ ~HelloAhead => Told >= 0

ShownIs == Genuine(allEvents, lastID) /\ lastSeenEventID = LastIdOf(allEvents)

\* A save that is under way is of what is shown, or one that is comes next.
SavingIs ==
    /\ pending.real => pending = Save(allEvents, lastSeenEventID)
    /\ ~pending.real =>
         /\ \A w \in writes : w.save = Save(allEvents, lastSeenEventID) /\ (w.done => file = allEvents)
         /\ writes = {} => file = allEvents /\ saved = lastSeenEventID

SavedIs ==
    /\ ~pending.real /\ writes = {} /\ allEvents = <<>>
    /\ Genuine(file, lastID) /\ saved = LastIdOf(file) /\ SomeWhole(file, LastIdOf(file), lastID)

StoreIs ==
    /\ \A v, w \in writes : v = w
    /\ running => SavingIs
    /\ ~running => SavedIs

Reach == IF eventLink /\ ~HelloAhead THEN Told ELSE LastIdOf(allEvents)

TaskIs ==
    /\ running /\ task = NoTask => SomeWhole(allEvents, Reach, lastID)
    /\ task.stage = "asked" =>
          /\ task.since > 0 => task.limit = MaxShown
          /\ SomeGap(allEvents, task.since, Told, lastID)
    /\ task.stage = "answered" => Answered(allEvents, task.events, Told, lastID)

FaultlessIs == LogIs /\ StreamIs /\ ShownIs /\ StoreIs /\ TaskIs

CaughtUpIInv == Faults = {} => FaultlessIs

-----------------------------------------------------------------------------
(* The operators. *)

LEMMA EventFits ==
    ASSUME NEW s, Ordered(s)
    PROVE  /\ s \in Seq(TimelineEvent) /\ Len(s) \in Nat
           /\ \A i \in 1..Len(s) : s[i] \in TimelineEvent /\ s[i].id \in Nat
           /\ \A i, j \in 1..Len(s) : i < j => s[i].id < s[j].id
<1>1. s \in Seq(TimelineEvent) /\ \A i, j \in 1..Len(s) : i < j => s[i].id < s[j].id
  BY DEF Ordered
<1>2. \A i \in 1..Len(s) : s[i] \in TimelineEvent
  BY <1>1
<1>3. \A i \in 1..Len(s) : s[i].id \in Nat
  BY <1>2 DEF TimelineEvent
<1>. QED
  BY <1>1, <1>2, <1>3

LEMMA FirstAfterFacts ==
    ASSUME NEW s, Ordered(s), NEW n \in Nat
    PROVE  /\ FirstAfter(s, n) \in 1..(Len(s) + 1)
           /\ \A i \in 1..Len(s) : i < FirstAfter(s, n) => s[i].id <= n
           /\ \A i \in 1..Len(s) : i >= FirstAfter(s, n) => s[i].id > n
<1>. DEFINE l == Len(s)
            S == {i \in 1..(l + 1) : i > l \/ s[i].id > n}
            p == FirstAfter(s, n)
<1>1. l \in Nat /\ \A i \in 1..l : s[i].id \in Nat
  BY EventFits
<1>2. S \in SUBSET Nat /\ l + 1 \in S
  BY <1>1
<1>3. \E x \in S : \A y \in S : x <= y
  <2>. HIDE DEF S
  <2>. QED BY <1>2, Least
<1>4. p \in S /\ \A y \in S : p <= y
  <2>1. p = Min(S)
    BY DEF FirstAfter
  <2>. HIDE DEF S, p
  <2>. QED BY <1>3, <2>1 DEF Min
<1>. HIDE DEF p
<1>5. p \in 1..(l + 1)
  BY <1>4
<1>6. ASSUME NEW i \in 1..l, i < p PROVE s[i].id <= n
  <2>1. i \notin S
    BY <1>4, <1>5, <1>6
  <2>. QED BY <1>1, <2>1
<1>7. ASSUME NEW i \in 1..l, i >= p PROVE s[i].id > n
  <2>1. p \in 1..l /\ s[p].id > n
    BY <1>1, <1>4, <1>5, <1>7
  <2>2. i = p \/ s[p].id < s[i].id
    <3>1. p < i => s[p].id < s[i].id
      BY <2>1, EventFits
    <3>2. i = p \/ p < i
      BY ONLY <2>1, i \in 1..l, l \in Nat, i >= p
    <3>. QED BY <3>1, <3>2
  <2>. QED BY <1>1, <2>1, <2>2
<1>. QED
  BY <1>5, <1>6, <1>7 DEF p

LEMMA Joined ==
    ASSUME NEW a \in Seq(TimelineEvent), NEW c \in Seq(TimelineEvent)
    PROVE  /\ a \o c \in Seq(TimelineEvent) /\ Len(a \o c) = Len(a) + Len(c)
           /\ \A i \in 1..Len(a) : (a \o c)[i] = a[i]
           /\ \A i \in 1..Len(c) : (a \o c)[Len(a) + i] = c[i]
<1>1. a \o c \in Seq(TimelineEvent) /\ Len(a \o c) = Len(a) + Len(c)
  OBVIOUS
<1>2. \A i \in 1..Len(a) : (a \o c)[i] = a[i]
  OBVIOUS
<1>3. ASSUME NEW i \in 1..Len(c) PROVE (a \o c)[Len(a) + i] = c[i]
  <2>1. Len(a) + i \in 1..(Len(a) + Len(c)) /\ ~(Len(a) + i <= Len(a)) /\ Len(a) + i - Len(a) = i
    OBVIOUS
  <2>. QED BY <2>1
<1>. QED
  BY <1>1, <1>2, <1>3

LEMMA InsertAtFacts ==
    ASSUME NEW s \in Seq(TimelineEvent), NEW p \in 1..(Len(s) + 1), NEW ev \in TimelineEvent
    PROVE  LET t == InsertAt(s, p, ev)
           IN /\ t \in Seq(TimelineEvent) /\ Len(t) = Len(s) + 1 /\ t[p] = ev
              /\ \A i \in 1..Len(s) : IF i < p THEN t[i] = s[i] ELSE t[i + 1] = s[i]
<1>. DEFINE l == Len(s)
            a == SubSeq(s, 1, p - 1)
            c == SubSeq(s, p, l)
            e == <<ev>>
            u == a \o e
            t == u \o c
<1>0. l \in Nat
  OBVIOUS
<1>1. a \in Seq(TimelineEvent) /\ Len(a) = p - 1 /\ \A i \in 1..(p - 1) : a[i] = s[i]
  <2>1. p - 1 \in Nat /\ p - 1 <= l
    BY <1>0
  <2>. QED BY <2>1
<1>2. c \in Seq(TimelineEvent) /\ Len(c) = l - p + 1 /\ \A i \in 1..(l - p + 1) : c[i] = s[p + i - 1]
  <2>1. l - p + 1 \in Nat
    BY <1>0
  <2>. QED BY <1>0, <2>1
<1>3. e \in Seq(TimelineEvent) /\ Len(e) = 1 /\ e[1] = ev
  OBVIOUS
<1>. HIDE DEF a, c, e
<1>4. u \in Seq(TimelineEvent) /\ Len(u) = p /\ u[p] = ev /\ \A i \in 1..(p - 1) : u[i] = s[i]
  <2>1. /\ u \in Seq(TimelineEvent) /\ Len(u) = Len(a) + Len(e)
        /\ \A i \in 1..Len(a) : u[i] = a[i]
        /\ \A i \in 1..Len(e) : u[Len(a) + i] = e[i]
    BY <1>1, <1>3, Joined
  <2>2. Len(u) = p /\ Len(a) + 1 = p /\ 1 \in 1..Len(e)
    BY <1>0, <1>1, <1>3, <2>1
  <2>3. u[Len(a) + 1] = e[1]
    BY <2>1, <2>2
  <2>. HIDE DEF u
  <2>. QED BY <1>1, <1>3, <2>1, <2>2, <2>3
<1>. HIDE DEF u
<1>5. /\ t \in Seq(TimelineEvent) /\ Len(t) = l + 1
      /\ \A i \in 1..p : t[i] = u[i]
      /\ \A i \in 1..(l - p + 1) : t[p + i] = c[i]
  <2>1. /\ t \in Seq(TimelineEvent) /\ Len(t) = Len(u) + Len(c)
        /\ \A i \in 1..Len(u) : t[i] = u[i]
        /\ \A i \in 1..Len(c) : t[Len(u) + i] = c[i]
    BY <1>2, <1>4, Joined
  <2>2. Len(u) + Len(c) = l + 1
    BY <1>0, <1>2, <1>4
  <2>. HIDE DEF t
  <2>. QED BY <1>2, <1>4, <2>1, <2>2
<1>. HIDE DEF t
<1>6. t[p] = ev /\ \A i \in 1..l : i < p => t[i] = s[i]
  <2>1. p \in 1..p /\ \A i \in 1..l : i < p => i \in 1..(p - 1) /\ i \in 1..p
    BY <1>0
  <2>. QED BY <1>4, <1>5, <2>1
<1>7. ASSUME NEW i \in 1..l, ~(i < p) PROVE t[i + 1] = s[i]
  <2>. DEFINE j == i - p + 1
  <2>1. j \in 1..(l - p + 1) /\ p + j = i + 1 /\ p + j - 1 = i
    BY <1>0, <1>7
  <2>. HIDE DEF j
  <2>. QED BY <1>2, <1>5, <2>1
<1>8. InsertAt(s, p, ev) = t
  BY DEF InsertAt, t, u, a, c, e
<1>. QED
  BY <1>5, <1>6, <1>7, <1>8

\* t is s with a fresh event in its place.
IsInserted(t, s, ev) ==
    /\ Ordered(t)
    /\ \A i \in 1..Len(s) : \E j \in 1..Len(t) : t[j] = s[i]
    /\ \A j \in 1..Len(t) : t[j] = ev \/ \E i \in 1..Len(s) : t[j] = s[i]
    /\ \E j \in 1..Len(t) : t[j].id = ev.id

LEMMA InsertedFacts ==
    ASSUME NEW s, Ordered(s), NEW ev \in TimelineEvent
    PROVE  IsInserted(Inserted(s, ev), s, ev)
<1>. DEFINE l == Len(s)
<1>1. /\ s \in Seq(TimelineEvent) /\ l \in Nat
      /\ \A i \in 1..l : s[i] \in TimelineEvent /\ s[i].id \in Nat
      /\ \A i, j \in 1..l : i < j => s[i].id < s[j].id
  BY EventFits
<1>2. ev.id \in Nat
  BY DEF TimelineEvent
<1>3. ev.id \in Ids(s) <=> \E i \in 1..l : s[i].id = ev.id
  <2>1. DOMAIN s = 1..l
    BY <1>1
  <2>. QED BY <2>1, Zenon DEF Ids
<1>4. CASE ev.id \in Ids(s)
  <2>1. Inserted(s, ev) = s
    BY <1>4 DEF Inserted
  <2>2. IsInserted(s, s, ev)
    BY <1>3, <1>4 DEF IsInserted
  <2>. QED BY <2>1, <2>2
<1>5. CASE ev.id \notin Ids(s)
  <2>. DEFINE p == FirstAfter(s, ev.id)
              t == InsertAt(s, p, ev)
  <2>1. Inserted(s, ev) = t
    BY <1>5 DEF Inserted
  <2>2. /\ p \in 1..(l + 1) /\ \A i \in 1..l : i < p => s[i].id <= ev.id
        /\ \A i \in 1..l : i >= p => s[i].id > ev.id
    BY <1>2, FirstAfterFacts
  <2>. HIDE DEF p
  <2>3. /\ t \in Seq(TimelineEvent) /\ Len(t) = l + 1 /\ t[p] = ev
        /\ \A i \in 1..l : IF i < p THEN t[i] = s[i] ELSE t[i + 1] = s[i]
    BY <1>1, <2>2, InsertAtFacts
  <2>. HIDE DEF t, l
  <2>4. \A i \in 1..l : i < p => s[i].id < ev.id
    BY <1>1, <1>2, <1>3, <1>5, <2>2
  <2>5. ASSUME NEW j \in 1..(l + 1)
        PROVE  \/ j = p
               \/ j < p /\ j \in 1..l /\ t[j] = s[j]
               \/ j > p /\ j - 1 \in 1..l /\ t[j] = s[j - 1]
    <3>1. CASE j < p
      BY <1>1, <2>2, <2>3, <3>1
    <3>2. CASE j > p
      <4>1. j - 1 \in 1..l /\ ~(j - 1 < p) /\ (j - 1) + 1 = j
        BY <1>1, <2>2, <3>2
      <4>. QED BY <2>3, <3>2, <4>1
    <3>. QED BY <1>1, <2>2, <3>1, <3>2
  <2>6. ASSUME NEW i \in 1..(l + 1), NEW j \in 1..(l + 1), i < j PROVE t[i].id < t[j].id
    <3>1. CASE i = p
      <4>1. j > p /\ ~(j < p) /\ j # p
        BY <2>2, <2>6, <3>1
      <4>2. t[j] = s[j - 1] /\ j - 1 \in 1..l /\ ~(j - 1 < p)
        BY <1>1, <2>2, <2>5, <4>1
      <4>. QED BY <1>1, <1>2, <2>2, <2>3, <3>1, <4>2
    <3>2. CASE j = p
      <4>1. i < p /\ ~(i > p) /\ i # p
        BY <2>2, <2>6, <3>2
      <4>2. t[i] = s[i] /\ i \in 1..l
        BY <2>5, <4>1
      <4>. QED BY <2>3, <2>4, <3>2, <4>1, <4>2
    <3>3. CASE j < p
      <4>1. i < p /\ ~(i > p) /\ i # p /\ ~(j > p) /\ j # p
        BY <2>2, <2>6, <3>3
      <4>2. t[i] = s[i] /\ i \in 1..l /\ t[j] = s[j] /\ j \in 1..l
        BY <2>5, <4>1
      <4>. QED BY <1>1, <2>6, <4>2
    <3>4. CASE i < p /\ j > p
      <4>0. ~(i > p) /\ i # p /\ ~(j < p) /\ j # p
        BY <2>2, <3>4
      <4>1. /\ t[i] = s[i] /\ i \in 1..l /\ t[j] = s[j - 1] /\ j - 1 \in 1..l
        BY <2>5, <4>0
      <4>3. i < j - 1
        BY <1>1, <2>2, <3>4
      <4>. QED BY <1>1, <4>1, <4>3
    <3>5. CASE i > p
      <4>1. /\ t[i] = s[i - 1] /\ i - 1 \in 1..l /\ t[j] = s[j - 1] /\ j - 1 \in 1..l /\ i - 1 < j - 1
        BY <1>1, <2>2, <2>5, <2>6, <3>5
      <4>. QED BY <1>1, <4>1
    <3>. QED BY <1>1, <2>2, <2>6, <3>1, <3>2, <3>3, <3>4, <3>5
  <2>7. Ordered(t)
    BY <2>3, <2>6 DEF Ordered
  <2>8. ASSUME NEW i \in 1..l PROVE \E j \in 1..(l + 1) : t[j] = s[i]
    <3>1. i \in 1..(l + 1) /\ i + 1 \in 1..(l + 1)
      BY <1>1
    <3>. QED BY <2>3, <3>1
  <2>9. p \in 1..(l + 1) /\ t[p].id = ev.id
    BY <2>2, <2>3
  <2>10. \A j \in 1..(l + 1) : t[j] = ev \/ \E i \in 1..l : t[j] = s[i]
    BY <2>3, <2>5
  <2>11. IsInserted(t, s, ev)
    BY <2>3, <2>7, <2>8, <2>9, <2>10 DEF l, IsInserted
  <2>. QED BY <2>1, <2>11
<1>. QED
  BY <1>4, <1>5

\* What is in a timeline twice is there once: positions follow identifiers.
LEMMA Positions ==
    ASSUME NEW m, Ordered(m), NEW i \in 1..Len(m), NEW j \in 1..Len(m)
    PROVE  /\ m[i].id < m[j].id => i < j
           /\ m[i].id <= m[j].id => i <= j
           /\ m[i].id = m[j].id => i = j
           /\ i <= j => m[i].id <= m[j].id
<1>1. /\ m[i].id \in Nat /\ m[j].id \in Nat
      /\ i < j => m[i].id < m[j].id
      /\ j < i => m[j].id < m[i].id
  BY EventFits
<1>2. i \in Nat /\ j \in Nat
  BY EventFits
<1>. QED
  BY <1>1, <1>2

\* Of n events in a timeline, the first is at least n from its end.
LEMMA SubTimeline ==
    ASSUME NEW m, Ordered(m), NEW s, Ordered(s), Len(s) >= 1,
           \A i \in 1..Len(s) : \E j \in 1..Len(m) : m[j].id = s[i].id
    PROVE  /\ Len(s) <= Len(m)
           /\ \A p \in 1..Len(m) : m[p].id = s[1].id => p + Len(s) - 1 <= Len(m)
<1>. DEFINE n == Len(s)
            l == Len(m)
            S == {i \in 0..(n - 1) : \A p \in 1..l : m[p].id = s[n - i].id => p <= l - i}
<1>1. n \in Nat /\ l \in Nat /\ n >= 1
  BY EventFits
<1>2. 0 \in S
  <2>1. 0 \in 0..(n - 1) /\ \A p \in 1..l : p <= l - 0
    BY <1>1
  <2>. QED BY <2>1
<1>3. ASSUME NEW i \in 1..(n - 1), i - 1 \in S PROVE i \in S
  <2>1. i \in 0..(n - 1) /\ n - i \in 1..n /\ n - (i - 1) \in 1..n /\ n - i < n - (i - 1)
    BY <1>1
  <2>. SUFFICES ASSUME NEW p \in 1..l, m[p].id = s[n - i].id PROVE p <= l - i
    BY <2>1
  <2>2. PICK q \in 1..l : m[q].id = s[n - (i - 1)].id
    BY <2>1
  <2>3. q <= l - (i - 1)
    BY <1>3, <2>2
  <2>4. s[n - i].id < s[n - (i - 1)].id
    BY <2>1, EventFits
  <2>5. m[p].id < m[q].id
    BY <2>2, <2>4
  <2>6. p < q
    BY <2>5, Positions
  <2>. QED BY <1>1, <2>3, <2>6
<1>. HIDE DEF S
<1>4. n - 1 \in S
  <2>1. n - 1 \in Nat /\ n - 1 \in 0..(n - 1)
    BY <1>1
  <2>2. \A i \in 0..(n - 1) : i \in S
    BY <1>2, <1>3, <2>1, Climb
  <2>. QED BY <2>1, <2>2
<1>5. \A p \in 1..l : m[p].id = s[1].id => p <= l - (n - 1)
  <2>1. n - (n - 1) = 1
    BY <1>1
  <2>. QED BY <1>4, <2>1 DEF S
<1>6. PICK p \in 1..l : m[p].id = s[1].id
  BY <1>1
<1>. QED
  BY <1>1, <1>5, <1>6

\* t is the last n of m, or all of them: m but for its first d.
IsEnd(t, m, n, d) ==
    /\ Ordered(t) /\ Len(m) = d + Len(t) /\ Len(t) <= n /\ (d > 0 => Len(t) = n)
    /\ \A j \in 1..Len(t) : d + j \in 1..Len(m) /\ t[j] = m[d + j]

LEMMA NewestFacts ==
    ASSUME NEW m, Ordered(m), NEW n \in Nat \ {0}
    PROVE  \E d \in Nat : IsEnd(Newest(m, n), m, n, d)
<1>. DEFINE l == Len(m)
<1>1. /\ m \in Seq(TimelineEvent) /\ l \in Nat
      /\ \A i, j \in 1..l : i < j => m[i].id < m[j].id
  BY EventFits
<1>2. CASE l > n
  <2>. DEFINE d == l - n
              t == SubSeq(m, l - n + 1, l)
  <2>1. Newest(m, n) = t
    BY <1>2 DEF Newest
  <2>2. d \in Nat /\ d > 0 /\ l = d + n
    BY <1>1, <1>2
  <2>3. t \in Seq(TimelineEvent) /\ Len(t) = n /\ \A j \in 1..n : t[j] = m[d + j]
    <3>1. t \in Seq(TimelineEvent) /\ Len(t) = n
      BY <1>1, <2>2
    <3>2. ASSUME NEW j \in 1..n PROVE t[j] = m[d + j]
      <4>1. t[j] = m[l - n + 1 + j - 1]
        BY <1>1, <2>2, <3>1
      <4>2. l - n + 1 + j - 1 = d + j
        BY <1>1
      <4>. QED BY <4>1, <4>2
    <3>. QED BY <3>1, <3>2
  <2>. HIDE DEF t, d
  <2>4. \A j \in 1..n : d + j \in 1..l
    BY <1>1, <2>2
  <2>5. Ordered(t)
    <3>1. ASSUME NEW i \in 1..n, NEW j \in 1..n, i < j PROVE t[i].id < t[j].id
      <4>1. d + i \in 1..l /\ d + j \in 1..l /\ d + i < d + j
        BY <2>2, <2>4, <3>1
      <4>. QED BY <1>1, <2>3, <4>1
    <3>. QED BY <2>3, <3>1 DEF Ordered
  <2>6. n <= n
    OBVIOUS
  <2>7. IsEnd(t, m, n, d)
    BY <2>2, <2>3, <2>4, <2>5, <2>6 DEF IsEnd
  <2>. QED BY <2>1, <2>2, <2>7
<1>3. CASE ~(l > n)
  <2>1. Newest(m, n) = m
    BY <1>3 DEF Newest
  <2>2. 0 \in Nat /\ l = 0 + l /\ l <= n /\ \A j \in 1..l : 0 + j \in 1..l /\ 0 + j = j
    BY <1>1, <1>3
  <2>3. \A j \in 1..l : m[j] = m[0 + j]
    BY <2>2
  <2>4. IsEnd(m, m, n, 0)
    BY <2>2, <2>3 DEF IsEnd
  <2>. QED BY <2>1, <2>4
<1>. QED
  BY <1>2, <1>3

Timelines == {s \in Seq(TimelineEvent) : Ordered(s)}

\* ingest takes the events of a batch one by one.
MergesInto(events, batch) ==
    \E f \in [0..Len(batch) -> Timelines] :
        /\ f[0] = events /\ \A i \in 1..Len(batch) : f[i] = Inserted(f[i - 1], batch[i])
        /\ Merged(events, batch) = Newest(f[Len(batch)], MaxShown)

LEMMA MergedUnfolds ==
    ASSUME NEW events, Ordered(events), NEW batch \in Seq(TimelineEvent)
    PROVE  MergesInto(events, batch)
<1>. DEFINE n == Len(batch)
            V == Timelines
            F(f) == [i \in 0..n |-> IF i = 0 THEN events ELSE Inserted(f[i - 1], batch[i])]
            merged == CHOOSE f : f = F(f)
            st == [i \in 1..n |-> [s \in V |-> Inserted(s, batch[i])]]
<1>0. n \in Nat
  OBVIOUS
<1>1. events \in V
  BY EventFits DEF Timelines
<1>2. st \in [1..n -> [V -> V]]
  <2>1. ASSUME NEW i \in 1..n, NEW s \in V PROVE Inserted(s, batch[i]) \in V
    <3>1. batch[i] \in TimelineEvent /\ Ordered(s)
      BY DEF Timelines
    <3>2. Ordered(Inserted(s, batch[i]))
      BY <3>1, InsertedFacts DEF IsInserted
    <3>. QED BY <3>2, EventFits DEF Timelines
  <2>. HIDE DEF V
  <2>. QED BY <2>1
<1>3. Iterates(n, V, events, st)
  <2>. HIDE DEF st, n, V
  <2>. QED BY <1>0, <1>1, <1>2, Iterated
<1>4. PICK f \in [0..n -> V] : f[0] = events /\ \A i \in 1..n : f[i] = st[i][f[i - 1]]
  BY <1>3 DEF Iterates
<1>. HIDE DEF V
<1>5. ASSUME NEW i \in 1..n PROVE f[i] = Inserted(f[i - 1], batch[i])
  <2>1. f[i - 1] \in V
    OBVIOUS
  <2>2. st[i] = [s \in V |-> Inserted(s, batch[i])]
    OBVIOUS
  <2>. HIDE DEF st
  <2>. QED BY <1>4, <2>1, <2>2
<1>6. ASSUME NEW g PROVE \A i \in 1..n : F(g)[i] = Inserted(g[i - 1], batch[i])
  OBVIOUS
<1>7. ASSUME NEW g PROVE F(g)[0] = events /\ DOMAIN F(g) = 0..n /\ F(g) = [i \in 0..n |-> F(g)[i]]
  OBVIOUS
<1>. HIDE DEF F, st
<1>8. f = F(f)
  <2>1. f = [i \in 0..n |-> f[i]]
    OBVIOUS
  <2>2. ASSUME NEW i \in 0..n PROVE f[i] = F(f)[i]
    <3>1. CASE i = 0
      BY <1>4, <1>7, <3>1
    <3>2. CASE i \in 1..n
      BY <1>5, <1>6, <3>2
    <3>. QED BY <1>0, <3>1, <3>2
  <2>3. F(f) = [i \in 0..n |-> F(f)[i]]
    BY <1>7
  <2>. QED BY <2>1, <2>2, <2>3
<1>9. merged = F(merged)
  BY <1>8
<1>10. Merged(events, batch) = Newest(merged[n], MaxShown)
  BY DEF Merged, merged, F
<1>. HIDE DEF merged
<1>11. merged[0] = events /\ \A i \in 1..n : merged[i] = Inserted(merged[i - 1], batch[i])
  BY <1>6, <1>7, <1>9
<1>12. \A i \in 0..n : merged[i] = f[i]
  <2>. DEFINE S == {i \in 0..n : merged[i] = f[i]}
  <2>1. 0 \in S
    BY <1>4, <1>11
  <2>2. \A i \in 1..n : i - 1 \in S => i \in S
    BY <1>5, <1>11
  <2>. HIDE DEF S
  <2>3. \A i \in 0..n : i \in S
    BY <1>0, <2>1, <2>2, Climb
  <2>. QED BY <2>3 DEF S
<1>13. Merged(events, batch) = Newest(f[n], MaxShown)
  BY <1>0, <1>10, <1>12
<1>. QED
  BY <1>4, <1>5, <1>13 DEF V, MergesInto

\* m has the events and, as far as they are fresh, the first k of the batch.
Joins(m, events, batch, k) ==
    /\ Ordered(m)
    /\ \A i \in 1..Len(events) : \E j \in 1..Len(m) : m[j] = events[i]
    /\ \A i \in 1..k : \E j \in 1..Len(m) : m[j].id = batch[i].id
    /\ \A j \in 1..Len(m) : \/ \E i \in 1..Len(events) : m[j] = events[i]
                            \/ \E i \in 1..k : m[j] = batch[i]

LEMMA JoinsOneMore ==
    ASSUME NEW events, NEW batch \in Seq(TimelineEvent), NEW k \in 1..Len(batch), NEW m,
           Joins(m, events, batch, k - 1)
    PROVE  Joins(Inserted(m, batch[k]), events, batch, k)
<1>. DEFINE ev == batch[k]
            t == Inserted(m, ev)
<1>0. ev \in TimelineEvent /\ k \in Nat
  OBVIOUS
<1>1. /\ Ordered(m)
      /\ \A i \in 1..Len(events) : \E j \in 1..Len(m) : m[j] = events[i]
      /\ \A i \in 1..(k - 1) : \E j \in 1..Len(m) : m[j].id = batch[i].id
      /\ \A j \in 1..Len(m) : \/ \E i \in 1..Len(events) : m[j] = events[i]
                              \/ \E i \in 1..(k - 1) : m[j] = batch[i]
  BY DEF Joins
<1>2. /\ Ordered(t)
      /\ \A i \in 1..Len(m) : \E j \in 1..Len(t) : t[j] = m[i]
      /\ \A j \in 1..Len(t) : t[j] = ev \/ \E i \in 1..Len(m) : t[j] = m[i]
      /\ \E j \in 1..Len(t) : t[j].id = ev.id
  <2>. HIDE DEF ev
  <2>1. IsInserted(t, m, ev)
    BY <1>0, <1>1, InsertedFacts
  <2>. HIDE DEF t
  <2>. QED BY <2>1 DEF IsInserted
<1>3. 1..(k - 1) \subseteq 1..k /\ k \in 1..k /\ \A i \in 1..k : i = k \/ i \in 1..(k - 1)
  BY <1>0
<1>. HIDE DEF t
<1>4. ASSUME NEW i \in 1..Len(events) PROVE \E j \in 1..Len(t) : t[j] = events[i]
  <2>1. PICK j \in 1..Len(m) : m[j] = events[i]
    BY <1>1
  <2>. QED BY <1>2, <2>1
<1>5. ASSUME NEW i \in 1..k PROVE \E j \in 1..Len(t) : t[j].id = batch[i].id
  <2>1. CASE i = k
    BY <1>2, <2>1
  <2>2. CASE i \in 1..(k - 1)
    <3>1. PICK j \in 1..Len(m) : m[j].id = batch[i].id
      BY <1>1, <2>2
    <3>2. PICK j2 \in 1..Len(t) : t[j2] = m[j]
      BY <1>2
    <3>. QED BY <3>1, <3>2
  <2>. QED BY <1>3, <2>1, <2>2
<1>6. ASSUME NEW j \in 1..Len(t)
      PROVE  \/ \E i \in 1..Len(events) : t[j] = events[i]
             \/ \E i \in 1..k : t[j] = batch[i]
  <2>1. CASE t[j] = ev
    BY <1>3, <2>1
  <2>2. CASE \E i \in 1..Len(m) : t[j] = m[i]
    <3>1. PICK i \in 1..Len(m) : t[j] = m[i]
      BY <2>2
    <3>2. CASE \E i2 \in 1..Len(events) : m[i] = events[i2]
      BY <3>1, <3>2
    <3>3. CASE \E i2 \in 1..(k - 1) : m[i] = batch[i2]
      BY <1>3, <3>1, <3>3
    <3>. QED BY <1>1, <3>2, <3>3
  <2>. QED BY <1>2, <2>1, <2>2
<1>. QED
  BY <1>2, <1>4, <1>5, <1>6 DEF Joins, t

\* t is the newest of all the events there are.
IsMerged(t, events, batch) ==
    \E m : /\ Joins(m, events, batch, Len(batch))
           /\ \E d \in Nat : IsEnd(t, m, MaxShown, d)

LEMMA MergedEnds ==
    ASSUME NEW events, Ordered(events), NEW batch \in Seq(TimelineEvent)
    PROVE  IsMerged(Merged(events, batch), events, batch)
<1>. DEFINE n == Len(batch)
<1>0. n \in Nat /\ n \in 0..n
  OBVIOUS
<1>1. PICK f \in [0..n -> Timelines] :
           /\ f[0] = events /\ \A i \in 1..n : f[i] = Inserted(f[i - 1], batch[i])
           /\ Merged(events, batch) = Newest(f[n], MaxShown)
  <2>1. MergesInto(events, batch)
    BY MergedUnfolds
  <2>. QED BY <2>1, Zenon DEF MergesInto
<1>. DEFINE S == {k \in 0..n : Joins(f[k], events, batch, k)}
<1>2. 0 \in S
  <2>1. Joins(events, events, batch, 0)
    BY DEF Joins
  <2>. QED BY <1>0, <1>1, <2>1
<1>3. ASSUME NEW k \in 1..n, k - 1 \in S PROVE k \in S
  <2>1. k \in 0..n /\ Joins(f[k - 1], events, batch, k - 1)
    BY <1>3
  <2>2. Joins(Inserted(f[k - 1], batch[k]), events, batch, k)
    BY <2>1, JoinsOneMore
  <2>. QED BY <1>1, <2>1, <2>2
<1>4. n \in S
  <2>. HIDE DEF S, n
  <2>. QED BY <1>0, <1>2, <1>3, Climb
<1>5. Joins(f[n], events, batch, n)
  BY <1>4
<1>6. \E d \in Nat : IsEnd(Newest(f[n], MaxShown), f[n], MaxShown, d)
  <2>1. Ordered(f[n]) /\ MaxShown \in Nat \ {0}
    BY <1>5, SizesAssumption DEF Joins
  <2>. QED BY <2>1, NewestFacts
<1>. QED
  BY <1>1, <1>5, <1>6 DEF IsMerged

\* What ingest leaves: nothing that it did not know, and whatever it drops is
\* older than all that it keeps, of which there are as many as it may.
LEMMA MergedFacts ==
    ASSUME NEW events, Ordered(events), NEW batch \in Seq(TimelineEvent),
           NEW t, IsMerged(t, events, batch)
    PROVE  /\ Timeline(t)
           /\ \A j \in 1..Len(t) : \/ \E i \in 1..Len(events) : t[j] = events[i]
                                   \/ \E i \in 1..Len(batch) : t[j] = batch[i]
           /\ \A i \in 1..Len(events) : Here(t, events[i].id)
           /\ \A i \in 1..Len(batch) : Here(t, batch[i].id)
<1>1. PICK m : /\ Joins(m, events, batch, Len(batch))
               /\ \E d \in Nat : IsEnd(t, m, MaxShown, d)
  BY DEF IsMerged
<1>2. PICK d \in Nat : IsEnd(t, m, MaxShown, d)
  BY <1>1
<1>3. /\ Ordered(t) /\ Len(m) = d + Len(t) /\ Len(t) <= MaxShown /\ (d > 0 => Len(t) = MaxShown)
      /\ \A j \in 1..Len(t) : d + j \in 1..Len(m) /\ t[j] = m[d + j]
  BY <1>2 DEF IsEnd
<1>4. /\ Ordered(m)
      /\ \A i \in 1..Len(events) : \E j \in 1..Len(m) : m[j] = events[i]
      /\ \A i \in 1..Len(batch) : \E j \in 1..Len(m) : m[j].id = batch[i].id
      /\ \A j \in 1..Len(m) : \/ \E i \in 1..Len(events) : m[j] = events[i]
                              \/ \E i \in 1..Len(batch) : m[j] = batch[i]
  BY <1>1 DEF Joins
<1>5. Timeline(t)
  BY <1>3 DEF Timeline
<1>6. Len(m) \in Nat /\ Len(t) \in Nat /\ MaxShown \in Nat \ {0}
  BY <1>3, <1>4, EventFits, SizesAssumption
<1>7. ASSUME NEW i \in 1..Len(m) PROVE Here(t, m[i].id)
  <2>1. CASE i > d
    <3>. DEFINE j == i - d
    <3>1. j \in 1..Len(t) /\ d + j = i
      BY <1>3, <1>6, <2>1
    <3>. HIDE DEF j
    <3>2. t[j] = m[i]
      BY <1>3, <3>1
    <3>. QED BY <3>1, <3>2 DEF Here, Has
  <2>2. CASE ~(i > d)
    <3>1. d > 0 /\ Len(t) = MaxShown /\ 1 \in 1..Len(t)
      BY <1>3, <1>6, <2>2
    <3>2. d + 1 \in 1..Len(m) /\ t[1] = m[d + 1] /\ i < d + 1
      BY <1>3, <1>6, <2>2, <3>1
    <3>3. m[i].id < m[d + 1].id
      BY <1>4, <3>2, EventFits
    <3>. QED BY <3>1, <3>2, <3>3 DEF Here
  <2>. QED BY <2>1, <2>2
<1>8. ASSUME NEW i \in 1..Len(events) PROVE Here(t, events[i].id)
  <2>1. PICK j \in 1..Len(m) : m[j] = events[i]
    BY <1>4
  <2>. QED BY <1>7, <2>1
<1>9. ASSUME NEW i \in 1..Len(batch) PROVE Here(t, batch[i].id)
  <2>1. PICK j \in 1..Len(m) : m[j].id = batch[i].id
    BY <1>4
  <2>2. Here(t, m[j].id)
    BY <1>7
  <2>. QED BY <2>1, <2>2, Zenon
<1>10. ASSUME NEW j \in 1..Len(t)
       PROVE  \/ \E i \in 1..Len(events) : t[j] = events[i]
              \/ \E i \in 1..Len(batch) : t[j] = batch[i]
  <2>. DEFINE q == d + j
  <2>1. q \in 1..Len(m) /\ t[j] = m[q]
    BY <1>3
  <2>. HIDE DEF q
  <2>2. \/ \E i \in 1..Len(events) : m[q] = events[i]
        \/ \E i \in 1..Len(batch) : m[q] = batch[i]
    BY <1>4, <2>1
  <2>. QED BY <2>1, <2>2, Zenon
<1>. QED
  BY <1>5, <1>8, <1>9, <1>10

\* A whole timeline's worth of events pushes out whatever is older.
LEMMA MergedPushes ==
    ASSUME NEW events, Ordered(events), NEW batch \in Seq(TimelineEvent),
           NEW t, IsMerged(t, events, batch), NEW s, Ordered(s), Len(s) = MaxShown,
           \A i \in 1..Len(s) : \/ \E j \in 1..Len(events) : events[j].id = s[i].id
                                \/ \E j \in 1..Len(batch) : batch[j].id = s[i].id
    PROVE  Len(t) = MaxShown /\ \A j \in 1..Len(t) : s[1].id <= t[j].id
<1>1. PICK m : /\ Joins(m, events, batch, Len(batch))
               /\ \E d \in Nat : IsEnd(t, m, MaxShown, d)
  BY DEF IsMerged
<1>2. PICK d \in Nat : IsEnd(t, m, MaxShown, d)
  BY <1>1
<1>3. /\ Ordered(t) /\ Len(m) = d + Len(t) /\ Len(t) <= MaxShown /\ (d > 0 => Len(t) = MaxShown)
      /\ \A j \in 1..Len(t) : d + j \in 1..Len(m) /\ t[j] = m[d + j]
  BY <1>2 DEF IsEnd
<1>4. /\ Ordered(m)
      /\ \A i \in 1..Len(events) : \E j \in 1..Len(m) : m[j] = events[i]
      /\ \A i \in 1..Len(batch) : \E j \in 1..Len(m) : m[j].id = batch[i].id
  BY <1>1 DEF Joins
<1>5. Len(m) \in Nat /\ Len(t) \in Nat /\ MaxShown \in Nat \ {0}
  BY <1>3, <1>4, EventFits, SizesAssumption
<1>6. ASSUME NEW i \in 1..Len(s) PROVE \E j \in 1..Len(m) : m[j].id = s[i].id
  <2>1. CASE \E j \in 1..Len(events) : events[j].id = s[i].id
    <3>1. PICK j \in 1..Len(events) : events[j].id = s[i].id
      BY <2>1
    <3>2. PICK j2 \in 1..Len(m) : m[j2] = events[j]
      BY <1>4
    <3>. QED BY <3>1, <3>2
  <2>2. CASE \E j \in 1..Len(batch) : batch[j].id = s[i].id
    <3>1. PICK j \in 1..Len(batch) : batch[j].id = s[i].id
      BY <2>2
    <3>2. PICK j2 \in 1..Len(m) : m[j2].id = batch[j].id
      BY <1>4
    <3>. QED BY <3>1, <3>2
  <2>. QED BY <2>1, <2>2
<1>7. /\ Len(s) <= Len(m)
      /\ \A p \in 1..Len(m) : m[p].id = s[1].id => p + Len(s) - 1 <= Len(m)
  <2>1. Len(s) >= 1
    BY <1>5
  <2>. QED BY <1>4, <1>6, <2>1, SubTimeline
<1>8. Len(t) = MaxShown
  BY <1>3, <1>5, <1>7
<1>9. PICK p \in 1..Len(m) : m[p].id = s[1].id
  <2>1. 1 \in 1..Len(s)
    BY <1>5
  <2>. QED BY <1>6, <2>1
<1>10. ASSUME NEW j \in 1..Len(t) PROVE s[1].id <= t[j].id
  <2>1. p + MaxShown - 1 <= Len(m)
    BY <1>7, <1>9
  <2>2. p <= d + j /\ d + j \in 1..Len(m) /\ t[j] = m[d + j]
    BY <1>3, <1>5, <1>8, <2>1
  <2>3. m[p].id <= m[d + j].id
    BY <1>4, <2>2, Positions
  <2>. QED BY <1>9, <2>2, <2>3
<1>. QED
  BY <1>8, <1>10

\* What is here or was pushed out stays so.
LEMMA MergedKeeps ==
    ASSUME NEW events, Ordered(events), NEW batch \in Seq(TimelineEvent),
           NEW t, IsMerged(t, events, batch), NEW k \in Nat, Here(events, k)
    PROVE  Here(t, k)
<1>1. CASE Has(events, k)
  <2>1. PICK i \in 1..Len(events) : events[i].id = k
    BY <1>1 DEF Has
  <2>2. Here(t, events[i].id)
    BY MergedFacts
  <2>. QED BY <2>1, <2>2
<1>2. CASE Len(events) = MaxShown /\ k < events[1].id
  <2>1. Len(t) = MaxShown /\ \A j \in 1..Len(t) : events[1].id <= t[j].id
    BY <1>2, MergedPushes
  <2>2. MaxShown \in Nat \ {0}
    BY SizesAssumption
  <2>3. Ordered(t)
    BY MergedFacts DEF Timeline
  <2>4. 1 \in 1..Len(t) /\ 1 \in 1..Len(events)
    BY <1>2, <2>1, <2>2
  <2>5. t[1].id \in Nat /\ events[1].id \in Nat
    BY <2>3, <2>4, EventFits
  <2>6. k < t[1].id
    BY <1>2, <2>1, <2>4, <2>5
  <2>. QED BY <2>1, <2>6 DEF Here
<1>. QED
  BY <1>1, <1>2 DEF Here

\* Nothing that is here is newer than the last event.
LEMMA HereLast ==
    ASSUME NEW s, Ordered(s), NEW k \in Nat, Here(s, k)
    PROVE  s # <<>> /\ Len(s) > 0 /\ k <= LastIdOf(s) /\ LastIdOf(s) = s[Len(s)].id
<1>1. Len(s) \in Nat /\ MaxShown \in Nat \ {0} /\ \A i \in 1..Len(s) : s[i].id \in Nat
  BY EventFits, SizesAssumption
<1>2. Len(s) > 0
  BY <1>1 DEF Here, Has
<1>3. s # <<>> /\ LastIdOf(s) = s[Len(s)].id
  <2>1. s # <<>>
    BY <1>1, <1>2
  <2>. QED BY <2>1 DEF LastIdOf, Last
<1>4. CASE Has(s, k)
  <2>1. PICK i \in 1..Len(s) : s[i].id = k
    BY <1>4 DEF Has
  <2>2. i <= Len(s) /\ Len(s) \in 1..Len(s)
    BY <1>1, <1>2
  <2>3. s[i].id <= s[Len(s)].id
    BY <2>2, Positions
  <2>. QED BY <1>2, <1>3, <2>1, <2>3
<1>5. CASE k < s[1].id
  <2>1. 1 <= Len(s) /\ Len(s) \in 1..Len(s) /\ 1 \in 1..Len(s)
    BY <1>1, <1>2
  <2>2. s[1].id <= s[Len(s)].id
    BY <2>1, Positions
  <2>3. k <= s[Len(s)].id
    BY <1>1, <1>5, <2>1, <2>2
  <2>. QED BY <1>2, <1>3, <2>3
<1>. QED
  BY <1>4, <1>5 DEF Here

\* A timeline that is restored comes back as it was.
LEMMA MergedSame ==
    ASSUME NEW s, Timeline(s)
    PROVE  Merged(<<>>, s) = s
<1>. DEFINE n == Len(s)
<1>0. /\ s \in Seq(TimelineEvent) /\ n \in Nat /\ n \in 0..n /\ Ordered(s) /\ n <= MaxShown
      /\ \A i \in 1..n : s[i] \in TimelineEvent /\ s[i].id \in Nat
      /\ \A i, j \in 1..n : i < j => s[i].id < s[j].id
  BY EventFits DEF Timeline
<1>1. Ordered(<<>>)
  BY DEF Ordered
<1>2. PICK f \in [0..n -> Timelines] :
           /\ f[0] = <<>> /\ \A i \in 1..n : f[i] = Inserted(f[i - 1], s[i])
           /\ Merged(<<>>, s) = Newest(f[n], MaxShown)
  <2>1. MergesInto(<<>>, s)
    BY <1>0, <1>1, MergedUnfolds
  <2>. QED BY <2>1, Zenon DEF MergesInto
<1>. DEFINE S == {k \in 0..n : Len(f[k]) = k /\ \A i \in 1..k : f[k][i] = s[i]}
<1>3. 0 \in S
  BY <1>0, <1>2
<1>4. ASSUME NEW k \in 1..n, k - 1 \in S PROVE k \in S
  <2>. DEFINE a == f[k - 1]
              ev == s[k]
              p == FirstAfter(a, ev.id)
              t == InsertAt(a, p, ev)
  <2>1. k - 1 \in 0..n /\ k \in 0..n /\ a \in Timelines /\ Len(a) = k - 1 /\ \A i \in 1..(k - 1) : a[i] = s[i]
    BY <1>0, <1>4
  <2>2. Ordered(a) /\ a \in Seq(TimelineEvent) /\ ev \in TimelineEvent /\ ev.id \in Nat
    BY <1>0, <2>1 DEF Timelines
  <2>3. f[k] = Inserted(a, ev)
    BY <1>2
  <2>. HIDE DEF a
  <2>4. \A i \in 1..(k - 1) : a[i].id < ev.id /\ a[i].id \in Nat
    <3>1. \A i \in 1..(k - 1) : i \in 1..n /\ i < k
      BY <1>0
    <3>. QED BY <1>0, <2>1, <3>1
  <2>. HIDE DEF ev
  <2>5. ev.id \notin Ids(a)
    <3>1. DOMAIN a = 1..(k - 1)
      BY <2>1, <2>2
    <3>. QED BY <2>2, <2>4, <3>1 DEF Ids
  <2>6. f[k] = t
    BY <2>3, <2>5 DEF Inserted
  <2>7. p \in 1..k /\ \A i \in 1..(k - 1) : i >= p => a[i].id > ev.id
    <3>1. p \in 1..(Len(a) + 1) /\ \A i \in 1..Len(a) : i >= p => a[i].id > ev.id
      BY <2>2, FirstAfterFacts
    <3>2. Len(a) + 1 = k
      BY <2>1
    <3>. HIDE DEF p
    <3>. QED BY <2>1, <3>1, <3>2
  <2>. HIDE DEF p
  <2>8. p = k
    <3>. SUFFICES ASSUME p # k PROVE FALSE
      OBVIOUS
    <3>1. p \in 1..(k - 1) /\ p >= p
      BY <2>7
    <3>2. a[p].id > ev.id /\ a[p].id < ev.id /\ a[p].id \in Nat
      BY <2>4, <2>7, <3>1
    <3>. QED BY <2>2, <3>2
  <2>9. /\ t \in Seq(TimelineEvent) /\ Len(t) = Len(a) + 1 /\ t[p] = ev
        /\ \A i \in 1..Len(a) : IF i < p THEN t[i] = a[i] ELSE t[i + 1] = a[i]
    <3>1. p \in 1..(Len(a) + 1)
      BY <2>1, <2>8
    <3>. QED BY <2>2, <3>1, InsertAtFacts
  <2>. HIDE DEF t
  <2>10. Len(t) = k /\ t[k] = ev /\ \A i \in 1..(k - 1) : t[i] = s[i]
    <3>1. Len(t) = k /\ t[k] = ev
      BY <2>1, <2>8, <2>9
    <3>2. ASSUME NEW i \in 1..(k - 1) PROVE t[i] = s[i]
      <4>1. i \in 1..Len(a) /\ i < p
        BY <2>1, <2>8
      <4>2. t[i] = a[i]
        BY <2>9, <4>1
      <4>. QED BY <2>1, <4>2
    <3>. QED BY <3>1, <3>2
  <2>11. \A i \in 1..k : t[i] = s[i]
    <3>1. \A i \in 1..k : i = k \/ i \in 1..(k - 1)
      BY <2>1
    <3>. QED BY <2>10, <3>1 DEF ev
  <2>. QED BY <2>1, <2>6, <2>10, <2>11
<1>5. n \in S
  <2>. HIDE DEF S, n
  <2>. QED BY <1>0, <1>3, <1>4, Climb
<1>6. f[n] = s
  <2>1. f[n] \in Seq(TimelineEvent) /\ Len(f[n]) = n /\ \A i \in 1..n : f[n][i] = s[i]
    BY <1>0, <1>5 DEF Timelines
  <2>. QED BY <1>0, <2>1
<1>7. Newest(s, MaxShown) = s
  <2>1. MaxShown \in Nat
    BY SizesAssumption
  <2>2. ~(n > MaxShown)
    BY <1>0, <2>1
  <2>. QED BY <2>2 DEF Newest
<1>. QED
  BY <1>2, <1>6, <1>7

-----------------------------------------------------------------------------
(* The timeline is in order and never claims more than it holds. *)

LEMMA NoTimeline == Timeline(<<>>) /\ LastIdOf(<<>>) = 0 /\ SaveFits(NoSave)
<1>1. Timeline(<<>>)
  BY SizesAssumption DEF Timeline, Ordered
<1>. QED
  BY <1>1 DEF LastIdOf, SaveFits, NoSave

LEMMA LastIdFits ==
    ASSUME NEW s, Ordered(s)
    PROVE  /\ LastIdOf(s) \in Nat /\ (s = <<>> <=> Len(s) = 0)
           /\ Len(s) > 0 => Len(s) \in 1..Len(s) /\ LastIdOf(s) = s[Len(s)].id
           /\ \A i \in 1..Len(s) : s[i].id <= LastIdOf(s)
<1>1. Len(s) \in Nat /\ s \in Seq(TimelineEvent) /\ \A i \in 1..Len(s) : s[i].id \in Nat
  BY EventFits
<1>2. s = <<>> <=> Len(s) = 0
  BY <1>1
<1>3. Len(s) > 0 => Len(s) \in 1..Len(s) /\ LastIdOf(s) = s[Len(s)].id
  BY <1>1, <1>2 DEF LastIdOf, Last
<1>4. LastIdOf(s) \in Nat
  <2>1. CASE s = <<>>
    BY <2>1 DEF LastIdOf
  <2>2. CASE s # <<>>
    BY <1>1, <1>2, <1>3, <2>2
  <2>. QED BY <2>1, <2>2
<1>5. ASSUME NEW i \in 1..Len(s) PROVE s[i].id <= LastIdOf(s)
  <2>1. Len(s) > 0 /\ i <= Len(s)
    BY <1>1
  <2>. QED BY <1>3, <2>1, Positions
<1>. QED
  BY <1>2, <1>3, <1>4, <1>5

LEMMA LargerIs == \A a, b \in Nat : Larger(a, b) \in Nat /\ (a <= b => Larger(a, b) = b)
BY DEF Larger

LEMMA SmallerIs == \A a, b \in Nat : Smaller(a, b) \in Nat /\ Smaller(a, b) <= b /\ (b <= a => Smaller(a, b) = b)
BY DEF Smaller

\* Merging never takes the last event back.
LEMMA MergedLast ==
    ASSUME NEW events, Ordered(events), NEW batch \in Seq(TimelineEvent)
    PROVE  /\ Timeline(Merged(events, batch)) /\ LastIdOf(events) <= LastIdOf(Merged(events, batch))
           /\ LastIdOf(events) \in Nat /\ LastIdOf(Merged(events, batch)) \in Nat
<1>. DEFINE t == Merged(events, batch)
<1>1. IsMerged(t, events, batch)
  BY MergedEnds
<1>. HIDE DEF t
<1>2. Timeline(t) /\ \A i \in 1..Len(events) : Here(t, events[i].id)
  BY <1>1, MergedFacts
<1>3. Ordered(t)
  BY <1>2 DEF Timeline
<1>4. LastIdOf(events) \in Nat /\ LastIdOf(t) \in Nat
  BY <1>3, LastIdFits
<1>5. LastIdOf(events) <= LastIdOf(t)
  <2>1. CASE events = <<>>
    BY <1>4, <2>1, NoTimeline
  <2>2. CASE events # <<>>
    <3>1. Len(events) \in 1..Len(events) /\ LastIdOf(events) = events[Len(events)].id
      BY <2>2, LastIdFits, EventFits
    <3>2. Here(t, LastIdOf(events))
      BY <1>2, <3>1
    <3>. QED BY <1>3, <1>4, <3>2, HereLast
  <2>. QED BY <2>1, <2>2
<1>. QED
  BY <1>2, <1>4, <1>5 DEF t

LEMMA SaveIs ==
    ASSUME NEW s, Timeline(s), NEW n \in Nat
    PROVE  SaveFits(Save(s, n))
BY DEF SaveFits, Save

LEMMA IngestFits ==
    ASSUME HeldFits, StoreFits, NEW batch \in Seq(TimelineEvent), Ingest(batch)
    PROVE  HeldFits' /\ StoreFits'
<1>1. Ordered(allEvents) /\ lastSeenEventID \in Nat /\ lastSeenEventID <= LastIdOf(allEvents)
  BY DEF HeldFits, Timeline, SeenIsHeld
<1>2. CASE \A i \in DOMAIN batch : batch[i].id \in Ids(allEvents)
  <2>1. UNCHANGED <<allEvents, lastSeenEventID, storeVars>>
    BY <1>2 DEF Ingest
  <2>. QED BY <2>1 DEF storeVars, HeldFits, StoreFits, SeenIsHeld
<1>3. CASE ~\A i \in DOMAIN batch : batch[i].id \in Ids(allEvents)
  <2>. DEFINE t == Merged(allEvents, batch)
  <2>1. /\ allEvents' = t /\ lastSeenEventID' = Larger(lastSeenEventID, LastIdOf(allEvents'))
        /\ pending' = Save(allEvents', lastSeenEventID') /\ UNCHANGED <<writes, file, saved>>
    BY <1>3 DEF Ingest, ScheduleSave
  <2>2. /\ Timeline(t) /\ LastIdOf(allEvents) <= LastIdOf(t)
        /\ LastIdOf(allEvents) \in Nat /\ LastIdOf(t) \in Nat
    BY <1>1, MergedLast
  <2>. HIDE DEF t
  <2>3. lastSeenEventID <= LastIdOf(t)
    BY <1>1, <2>2
  <2>4. lastSeenEventID' = LastIdOf(t)
    BY <1>1, <2>1, <2>2, <2>3, LargerIs
  <2>5. LastIdOf(t) <= LastIdOf(t)
    BY <2>2
  <2>6. HeldFits'
    BY <2>1, <2>2, <2>4, <2>5 DEF HeldFits, SeenIsHeld
  <2>7. SaveFits(pending')
    BY <2>1, <2>2, <2>4, SaveIs
  <2>. QED BY <2>1, <2>6, <2>7 DEF StoreFits
<1>. QED
  BY <1>2, <1>3

LEMMA TaskIn ==
    /\ NoTask \in Tasks
    /\ \A n \in Nat, l \in Nat \ {0} : [stage |-> "asked", since |-> n, limit |-> l] \in Tasks
    /\ \A s \in Seq(TimelineEvent) : [stage |-> "answered", events |-> s] \in Tasks
<1>1. NoTask \in Tasks
  BY DEF Tasks
<1>2. \A n \in Nat, l \in Nat \ {0} : [stage |-> "asked", since |-> n, limit |-> l] \in Tasks
  BY DEF Tasks
<1>3. \A s \in Seq(TimelineEvent) : [stage |-> "answered", events |-> s] \in Tasks
  BY DEF Tasks
<1>. QED
  BY <1>1, <1>2, <1>3

LEMMA TaskFacts ==
    ASSUME NEW t \in Tasks
    PROVE  /\ t.stage \in {"none", "asked", "answered"} /\ (t.stage = "none" <=> t = NoTask)
           /\ t.stage = "asked" => t.since \in Nat /\ t.limit \in Nat \ {0}
           /\ t.stage = "answered" => t.events \in Seq(TimelineEvent)
<1>1. CASE t = NoTask
  BY <1>1 DEF NoTask
<1>2. CASE t \in [stage : {"asked"}, since : Nat, limit : Nat \ {0}]
  BY <1>2 DEF NoTask
<1>3. CASE t \in [stage : {"answered"}, events : Seq(TimelineEvent)]
  BY <1>3 DEF NoTask
<1>. QED
  BY <1>1, <1>2, <1>3 DEF Tasks

LEMMA BackfillFits ==
    ASSUME HeldFits, StoreFits, task \in Tasks, NEW last \in Nat, Backfill(last)
    PROVE  HeldFits' /\ StoreFits' /\ task' \in Tasks
<1>. DEFINE seen == IF last < lastSeenEventID THEN 0 ELSE lastSeenEventID
            limit == IF seen > 0 THEN MaxShown ELSE InitialBackfill
<1>1. lastSeenEventID \in Nat
  BY DEF HeldFits
<1>2. seen \in Nat /\ limit \in Nat \ {0}
  BY <1>1, SizesAssumption
<1>3. task' \in {[stage |-> "asked", since |-> seen, limit |-> limit], NoTask, task}
  BY DEF Backfill
<1>. HIDE DEF seen, limit
<1>4. task' \in Tasks
  BY <1>2, <1>3, TaskIn
<1>5. CASE last < lastSeenEventID
  <2>1. /\ allEvents' = <<>> /\ lastSeenEventID' = 0 /\ pending' = Save(<<>>, 0)
        /\ UNCHANGED <<writes, file, saved>>
    BY <1>5 DEF Backfill, ScheduleSave
  <2>2. HeldFits'
    BY <2>1, NoTimeline DEF HeldFits, SeenIsHeld
  <2>3. SaveFits(pending')
    BY <2>1, NoTimeline, SaveIs
  <2>. QED BY <1>4, <2>1, <2>2, <2>3 DEF StoreFits
<1>6. CASE ~(last < lastSeenEventID)
  <2>1. UNCHANGED <<allEvents, lastSeenEventID, storeVars>>
    BY <1>6 DEF Backfill
  <2>. QED BY <1>4, <2>1 DEF storeVars, HeldFits, StoreFits, SeenIsHeld
<1>. QED
  BY <1>5, <1>6

LEMMA EventsInitFits == EventsInit => TimelineIInv
<1>. SUFFICES ASSUME EventsInit PROVE TimelineIInv
  OBVIOUS
<1>1. /\ log = <<>> /\ lastID = 0 /\ generation = 0 /\ eventStream = <<>> /\ task = NoTask
      /\ allEvents = <<>> /\ lastSeenEventID = 0
      /\ pending = NoSave /\ writes = {} /\ file = <<>> /\ saved = 0
  BY DEF EventsInit
<1>2. DaemonFits
  BY <1>1 DEF DaemonFits, Ordered
<1>3. HeldFits
  BY <1>1, NoTimeline DEF HeldFits, SeenIsHeld
<1>4. StoreFits
  BY <1>1, NoTimeline DEF StoreFits
<1>5. eventStream \in Seq(Messages) /\ task \in Tasks
  BY <1>1, TaskIn
<1>. QED
  BY <1>2, <1>3, <1>4, <1>5 DEF TimelineIInv

LEMMA DaemonStill == ASSUME DaemonFits, UNCHANGED daemonVars PROVE DaemonFits'
BY DEF daemonVars, DaemonFits

LEMMA ShownStill == ASSUME HeldFits, UNCHANGED <<allEvents, lastSeenEventID>> PROVE HeldFits'
BY DEF HeldFits, SeenIsHeld

LEMMA StoreStill == ASSUME StoreFits, UNCHANGED storeVars PROVE StoreFits'
BY DEF storeVars, StoreFits

\* What the subscriber reads.
LEMMA MessageFacts ==
    ASSUME eventStream \in Seq(Messages), eventStream # <<>>
    PROVE  /\ Tail(eventStream) \in Seq(Messages)
           /\ Head(eventStream).kind = "hello" => Head(eventStream).last \in Nat
           /\ Head(eventStream).kind = "event" => <<Head(eventStream).event>> \in Seq(TimelineEvent)
<1>1. Tail(eventStream) \in Seq(Messages) /\ Head(eventStream) \in Messages
  OBVIOUS
<1>2. Head(eventStream).kind = "hello" => Head(eventStream).last \in Nat
  BY <1>1 DEF Messages
<1>3. Head(eventStream).kind = "event" => Head(eventStream).event \in TimelineEvent
  BY <1>1 DEF Messages
<1>. QED
  BY <1>1, <1>2, <1>3

LEMMA HandleEventsFits ==
    ASSUME TimelineIInv, HandleEvents
    PROVE  TimelineIInv'
<1>. DEFINE m == Head(eventStream)
<1>0. DaemonFits /\ HeldFits /\ StoreFits /\ eventStream \in Seq(Messages) /\ task \in Tasks
  BY DEF TimelineIInv
<1>1. /\ eventStream # <<>> /\ eventStream' = Tail(eventStream) /\ UNCHANGED daemonVars
      /\ \/ m.kind = "hello" /\ Backfill(m.last)
         \/ m.kind = "event" /\ Ingest(<<m.event>>) /\ UNCHANGED task
  BY DEF HandleEvents
<1>2. eventStream' \in Seq(Messages)
  BY <1>0, <1>1, MessageFacts
<1>3. DaemonFits'
  BY <1>0, <1>1, DaemonStill
<1>4. CASE m.kind = "hello" /\ Backfill(m.last)
  <2>1. m.last \in Nat
    BY <1>0, <1>1, <1>4, MessageFacts
  <2>. HIDE DEF m
  <2>2. HeldFits' /\ StoreFits' /\ task' \in Tasks
    BY <1>0, <1>4, <2>1, BackfillFits
  <2>. QED BY <1>2, <1>3, <2>2 DEF TimelineIInv
<1>5. CASE m.kind = "event" /\ Ingest(<<m.event>>) /\ UNCHANGED task
  <2>1. <<m.event>> \in Seq(TimelineEvent)
    BY <1>0, <1>1, <1>5, MessageFacts
  <2>. HIDE DEF m
  <2>2. HeldFits' /\ StoreFits'
    BY <1>0, <1>5, <2>1, IngestFits
  <2>. QED BY <1>0, <1>2, <1>3, <1>5, <2>2 DEF TimelineIInv
<1>. QED
  BY <1>1, <1>4, <1>5

\* The events that answer a request are the last of the log.
LEMMA AnswerEnds ==
    ASSUME NEW n \in Nat, NEW limit \in Nat \ {0}, Ordered(log)
    PROVE  LET p == FirstAfter(log, n)
               after == SubSeq(log, p, Len(log))
           IN /\ Ordered(after) /\ Len(after) = Len(log) - p + 1 /\ p \in 1..(Len(log) + 1)
              /\ \A i \in 1..Len(after) : after[i] = log[p + i - 1]
              /\ \E d \in Nat : IsEnd(Newest(after, limit), after, limit, d)
<1>. DEFINE l == Len(log)
            p == FirstAfter(log, n)
            after == SubSeq(log, p, l)
<1>. SUFFICES /\ Ordered(after) /\ Len(after) = l - p + 1 /\ p \in 1..(l + 1)
              /\ \A i \in 1..Len(after) : after[i] = log[p + i - 1]
              /\ \E d \in Nat : IsEnd(Newest(after, limit), after, limit, d)
  OBVIOUS
<1>1. /\ log \in Seq(TimelineEvent) /\ l \in Nat
      /\ \A i, j \in 1..l : i < j => log[i].id < log[j].id
  BY EventFits
<1>2. p \in 1..(l + 1)
  BY FirstAfterFacts
<1>. HIDE DEF p
<1>3. /\ after \in Seq(TimelineEvent) /\ Len(after) = l - p + 1
      /\ \A i \in 1..Len(after) : after[i] = log[p + i - 1]
  <2>1. l - p + 1 \in Nat
    BY <1>1, <1>2
  <2>. QED BY <1>1, <1>2, <2>1
<1>. HIDE DEF after, l
<1>4. Ordered(after)
  <2>1. ASSUME NEW i \in 1..Len(after), NEW j \in 1..Len(after), i < j PROVE after[i].id < after[j].id
    <3>1. p + i - 1 \in 1..l /\ p + j - 1 \in 1..l /\ p + i - 1 < p + j - 1
      BY <1>1, <1>2, <1>3, <2>1
    <3>. QED BY <1>1, <1>3, <3>1
  <2>. QED BY <1>3, <2>1 DEF Ordered
<1>5. \E d \in Nat : IsEnd(Newest(after, limit), after, limit, d)
  BY <1>4, NewestFacts
<1>. QED
  BY <1>2, <1>3, <1>4, <1>5

LEMMA AnswerFits ==
    ASSUME TimelineIInv, Answer \/ AnswerFails
    PROVE  TimelineIInv'
<1>0. DaemonFits /\ HeldFits /\ StoreFits /\ eventStream \in Seq(Messages) /\ task \in Tasks
  BY DEF TimelineIInv
<1>1. task' \in Tasks
  <2>1. CASE Answer
    <3>1. task.stage = "asked" /\ task' = [stage |-> "answered",
              events |-> Newest(SubSeq(log, FirstAfter(log, task.since), Len(log)), task.limit)]
      BY <2>1 DEF Answer
    <3>2. task.since \in Nat /\ task.limit \in Nat \ {0} /\ Ordered(log)
      BY <1>0, <3>1, TaskFacts DEF DaemonFits
    <3>3. Newest(SubSeq(log, FirstAfter(log, task.since), Len(log)), task.limit) \in Seq(TimelineEvent)
      BY <3>2, AnswerEnds DEF IsEnd, Ordered
    <3>. QED BY <3>1, <3>3, TaskIn
  <2>2. CASE AnswerFails
    BY <2>2, TaskIn DEF AnswerFails
  <2>. QED BY <2>1, <2>2
<1>2. UNCHANGED <<daemonVars, allEvents, lastSeenEventID, storeVars, eventStream>>
  BY DEF Answer, AnswerFails, linkVars
<1>3. DaemonFits'
  BY <1>0, <1>2, DaemonStill
<1>4. HeldFits'
  BY <1>0, <1>2, ShownStill
<1>5. StoreFits'
  BY <1>0, <1>2, StoreStill
<1>. QED
  BY <1>0, <1>1, <1>2, <1>3, <1>4, <1>5 DEF TimelineIInv

LEMMA BackfilledFits ==
    ASSUME TimelineIInv, Backfilled
    PROVE  TimelineIInv'
<1>0. DaemonFits /\ HeldFits /\ StoreFits /\ eventStream \in Seq(Messages) /\ task \in Tasks
  BY DEF TimelineIInv
<1>1. /\ task.stage = "answered" /\ Ingest(task.events) /\ task' = NoTask
      /\ UNCHANGED <<daemonVars, eventStream>>
  BY DEF Backfilled, linkVars
<1>2. task.events \in Seq(TimelineEvent)
  BY <1>0, <1>1, TaskFacts
<1>3. HeldFits' /\ StoreFits'
  BY <1>0, <1>1, <1>2, IngestFits
<1>4. DaemonFits'
  BY <1>0, <1>1, DaemonStill
<1>. QED
  BY <1>0, <1>1, <1>3, <1>4, TaskIn DEF TimelineIInv

LEMMA SavingFits ==
    ASSUME TimelineIInv, Flush \/ \E w \in writes : Write(w) \/ WriteFails(w) \/ Record(w)
    PROVE  TimelineIInv'
<1>0. DaemonFits /\ HeldFits /\ StoreFits /\ eventStream \in Seq(Messages) /\ task \in Tasks
  BY DEF TimelineIInv
<1>1. UNCHANGED <<daemonVars, linkVars, appVars>>
  BY DEF Flush, Write, WriteFails, Record
<1>2. /\ Timeline(file) /\ saved \in Nat /\ SaveFits(pending)
      /\ \A w \in writes : w = [save |-> w.save, done |-> w.done] /\ SaveFits(w.save)
  BY <1>0 DEF StoreFits
<1>3. StoreFits'
  <2>1. CASE Flush
    <3>. DEFINE v == [save |-> pending, done |-> FALSE]
    <3>1. /\ writes' = (IF pending.real THEN writes \cup {v} ELSE writes) /\ pending' = NoSave
          /\ UNCHANGED <<file, saved>>
      BY <2>1 DEF Flush
    <3>2. v.save = pending /\ v = [save |-> v.save, done |-> v.done]
      OBVIOUS
    <3>. HIDE DEF v
    <3>3. \A w \in writes' : w \in writes \/ w = v
      BY <3>1
    <3>4. \A w \in writes' : w = [save |-> w.save, done |-> w.done] /\ SaveFits(w.save)
      BY <1>2, <3>2, <3>3
    <3>. QED BY <1>2, <3>1, <3>4, NoTimeline DEF StoreFits
  <2>2. ASSUME NEW w \in writes, Write(w) PROVE StoreFits'
    <3>. DEFINE v == [save |-> w.save, done |-> TRUE]
    <3>1. file' = w.save.events /\ writes' = (writes \ {w}) \cup {v} /\ UNCHANGED <<pending, saved>>
      BY <2>2 DEF Write
    <3>3. v.save = w.save /\ v = [save |-> v.save, done |-> v.done]
      OBVIOUS
    <3>. HIDE DEF v
    <3>4. \A u \in writes' : u \in writes \/ u = v
      BY <3>1
    <3>5. \A u \in writes' : u = [save |-> u.save, done |-> u.done] /\ SaveFits(u.save)
      BY <1>2, <3>3, <3>4
    <3>6. Timeline(w.save.events)
      BY <1>2 DEF SaveFits
    <3>. QED BY <1>2, <3>1, <3>5, <3>6 DEF StoreFits
  <2>3. ASSUME NEW w \in writes, WriteFails(w) PROVE StoreFits'
    BY <1>2, <2>3 DEF WriteFails, StoreFits
  <2>4. ASSUME NEW w \in writes, Record(w) PROVE StoreFits'
    <3>1. saved' = w.save.lastSeen /\ writes' = writes \ {w} /\ UNCHANGED <<pending, file>>
      BY <2>4 DEF Record
    <3>2. w.save.lastSeen \in Nat
      BY <1>2 DEF SaveFits
    <3>. QED BY <1>2, <3>1, <3>2 DEF StoreFits
  <2>. QED BY <2>1, <2>2, <2>3, <2>4
<1>4. DaemonFits'
  BY <1>0, <1>1, DaemonStill
<1>5. HeldFits'
  BY <1>0, <1>1, ShownStill DEF appVars
<1>. QED
  BY <1>0, <1>1, <1>3, <1>4, <1>5 DEF TimelineIInv, linkVars, appVars

LEMMA EndsFits ==
    ASSUME TimelineIInv, Quit \/ Kill
    PROVE  TimelineIInv'
<1>0. DaemonFits /\ HeldFits /\ StoreFits
  BY DEF TimelineIInv
<1>1. Ends /\ (UNCHANGED <<file, saved>> \/ (file' = pending.events /\ saved' = pending.lastSeen))
  BY DEF Quit, Kill
<1>2. /\ eventStream' = <<>> /\ allEvents' = <<>> /\ lastSeenEventID' = 0 /\ task' = NoTask
      /\ pending' = NoSave /\ writes' = {} /\ UNCHANGED daemonVars
  BY <1>1 DEF Ends
<1>3. DaemonFits'
  BY <1>0, <1>2, DaemonStill
<1>4. HeldFits'
  BY <1>2, NoTimeline DEF HeldFits, SeenIsHeld
<1>5. Timeline(file') /\ saved' \in Nat
  BY <1>0, <1>1 DEF StoreFits, SaveFits
<1>6. StoreFits'
  BY <1>2, <1>5, NoTimeline DEF StoreFits
<1>7. eventStream' \in Seq(Messages) /\ task' \in Tasks
  BY <1>2, TaskIn
<1>. QED
  BY <1>3, <1>4, <1>6, <1>7 DEF TimelineIInv

LEMMA LaunchFits ==
    ASSUME TimelineIInv, Launch
    PROVE  TimelineIInv'
<1>0. DaemonFits /\ StoreFits /\ eventStream \in Seq(Messages) /\ task \in Tasks
  BY DEF TimelineIInv
<1>1. /\ allEvents' = Merged(<<>>, file)
      /\ lastSeenEventID' = (IF file = <<>> THEN 0 ELSE Smaller(saved, LastIdOf(file)))
      /\ UNCHANGED <<daemonVars, linkVars, task, storeVars>>
  BY DEF Launch, Loaded
<1>2. Timeline(file) /\ saved \in Nat
  BY <1>0 DEF StoreFits
<1>3. allEvents' = file
  BY <1>1, <1>2, MergedSame
<1>4. LastIdOf(file) \in Nat
  BY <1>2, LastIdFits DEF Timeline
<1>5. lastSeenEventID' \in Nat /\ lastSeenEventID' <= LastIdOf(file)
  BY <1>1, <1>2, <1>4, SmallerIs
<1>6. HeldFits'
  BY <1>2, <1>3, <1>5 DEF HeldFits, SeenIsHeld
<1>7. DaemonFits'
  BY <1>0, <1>1, DaemonStill
<1>8. StoreFits'
  BY <1>0, <1>1, StoreStill
<1>. QED
  BY <1>0, <1>1, <1>6, <1>7, <1>8 DEF TimelineIInv, linkVars

\* One more event at the end of the log.
LEMMA OneMore ==
    ASSUME NEW s, Ordered(s), NEW e \in TimelineEvent, \A i \in 1..Len(s) : s[i].id < e.id
    PROVE  /\ Ordered(Append(s, e)) /\ Len(Append(s, e)) = Len(s) + 1
           /\ \A i \in 1..Len(s) : Append(s, e)[i] = s[i]
           /\ Append(s, e)[Len(s) + 1] = e
<1>. DEFINE t == Append(s, e)
<1>1. /\ s \in Seq(TimelineEvent) /\ Len(s) \in Nat
      /\ \A i \in 1..Len(s) : s[i].id \in Nat
      /\ \A i, j \in 1..Len(s) : i < j => s[i].id < s[j].id
  BY EventFits
<1>2. /\ t \in Seq(TimelineEvent) /\ Len(t) = Len(s) + 1
      /\ \A i \in 1..Len(s) : t[i] = s[i]
      /\ t[Len(s) + 1] = e
  BY <1>1
<1>3. \A i \in 1..Len(t) : i \in 1..Len(s) \/ i = Len(s) + 1
  BY <1>1, <1>2
<1>. HIDE DEF t
<1>4. \A i, j \in 1..Len(t) : i < j => t[i].id < t[j].id
  <2>. SUFFICES ASSUME NEW i \in 1..Len(t), NEW j \in 1..Len(t), i < j PROVE t[i].id < t[j].id
    OBVIOUS
  <2>1. i \in 1..Len(s)
    BY <1>1, <1>2
  <2>2. CASE j \in 1..Len(s)
    BY <1>1, <1>2, <2>1, <2>2
  <2>3. CASE j = Len(s) + 1
    BY <1>2, <2>1, <2>3
  <2>. QED BY <1>3, <2>2, <2>3
<1>. QED
  BY <1>2, <1>4 DEF t, Ordered

LEMMA EmitFits ==
    ASSUME TimelineIInv, Emit
    PROVE  TimelineIInv'
<1>. DEFINE e == [id |-> lastID + 1, log |-> generation]
            a == Append(log, e)
            msg == [kind |-> "event", event |-> e]
<1>0. DaemonFits /\ HeldFits /\ StoreFits /\ eventStream \in Seq(Messages) /\ task \in Tasks
  BY DEF TimelineIInv
<1>1. /\ log' = Newest(a, Capacity) /\ lastID' = lastID + 1
      /\ eventStream' = (IF eventLink THEN Append(eventStream, msg) ELSE eventStream)
      /\ UNCHANGED generation /\ UNCHANGED appVars /\ UNCHANGED storeVars
  BY DEF Emit
<1>2. lastID \in Nat /\ generation \in Nat /\ Ordered(log) /\ \A i \in 1..Len(log) : log[i].id <= lastID
  BY <1>0 DEF DaemonFits
<1>3. e \in TimelineEvent /\ e.id = lastID + 1
  BY <1>2 DEF TimelineEvent
<1>4. msg \in Messages
  BY <1>3 DEF Messages
<1>. HIDE DEF e, msg
<1>5. Len(log) \in Nat /\ \A i \in 1..Len(log) : log[i].id \in Nat
  BY <1>2, EventFits
<1>6. \A i \in 1..Len(log) : log[i].id < e.id
  BY <1>2, <1>3, <1>5
<1>7. /\ Ordered(a) /\ Len(a) = Len(log) + 1
      /\ \A i \in 1..Len(log) : a[i] = log[i]
      /\ a[Len(log) + 1] = e
  BY <1>2, <1>3, <1>6, OneMore
<1>. HIDE DEF a
<1>8. \A i \in 1..Len(a) : i \in 1..Len(log) \/ i = Len(log) + 1
  BY <1>5, <1>7
<1>9. \A i \in 1..Len(a) : a[i].id <= lastID + 1
  <2>. SUFFICES ASSUME NEW i \in 1..Len(a) PROVE a[i].id <= lastID + 1
    OBVIOUS
  <2>1. CASE i \in 1..Len(log)
    BY <1>2, <1>5, <1>7, <2>1
  <2>2. CASE i = Len(log) + 1
    BY <1>2, <1>3, <1>7, <2>2
  <2>. QED BY <1>8, <2>1, <2>2
<1>10. PICK d \in Nat : IsEnd(log', a, Capacity, d)
  BY <1>1, <1>7, NewestFacts, SizesAssumption
<1>11. Ordered(log') /\ \A j \in 1..Len(log') : log'[j].id <= lastID + 1
  BY <1>9, <1>10 DEF IsEnd
<1>12. DaemonFits'
  BY <1>1, <1>2, <1>11 DEF DaemonFits
<1>13. eventStream' \in Seq(Messages)
  BY <1>0, <1>1, <1>4
<1>14. HeldFits'
  BY <1>0, <1>1, ShownStill DEF appVars
<1>15. StoreFits'
  BY <1>0, <1>1, StoreStill
<1>. QED
  BY <1>0, <1>1, <1>12, <1>13, <1>14, <1>15 DEF TimelineIInv, appVars

LEMMA LinksFit ==
    ASSUME TimelineIInv, ConnectEvents \/ DisconnectEvents
    PROVE  TimelineIInv'
<1>. DEFINE hello == [kind |-> "hello", last |-> lastID]
<1>0. DaemonFits /\ HeldFits /\ StoreFits /\ eventStream \in Seq(Messages) /\ task \in Tasks
  BY DEF TimelineIInv
<1>1. /\ UNCHANGED daemonVars /\ UNCHANGED appVars /\ UNCHANGED storeVars
      /\ eventStream' = eventStream \/ eventStream' = Append(eventStream, hello)
  BY DEF ConnectEvents, DisconnectEvents
<1>2. hello \in Messages
  BY <1>0 DEF DaemonFits, Messages
<1>. HIDE DEF hello
<1>3. eventStream' \in Seq(Messages)
  BY <1>0, <1>1, <1>2
<1>4. DaemonFits' /\ HeldFits' /\ StoreFits'
  BY <1>0, <1>1, DaemonStill, ShownStill, StoreStill DEF appVars
<1>. QED
  BY <1>0, <1>1, <1>3, <1>4 DEF TimelineIInv, appVars

LEMMA LoseLogFits ==
    ASSUME TimelineIInv, LoseLog
    PROVE  TimelineIInv'
<1>0. HeldFits /\ StoreFits /\ eventStream \in Seq(Messages) /\ task \in Tasks
  BY DEF TimelineIInv
<1>1. /\ log' = <<>> /\ lastID' = 0 /\ generation' = 1
      /\ UNCHANGED appVars /\ UNCHANGED storeVars /\ UNCHANGED eventStream
  BY DEF LoseLog
<1>2. Ordered(<<>>)
  BY NoTimeline DEF Timeline
<1>3. DaemonFits'
  BY <1>1, <1>2 DEF DaemonFits
<1>4. HeldFits' /\ StoreFits'
  BY <1>0, <1>1, ShownStill, StoreStill DEF appVars
<1>. QED
  BY <1>0, <1>1, <1>3, <1>4 DEF TimelineIInv, appVars

LEMMA TimelineStill ==
    ASSUME TimelineIInv, UNCHANGED eventsVars
    PROVE  TimelineIInv'
<1>0. DaemonFits /\ HeldFits /\ StoreFits /\ eventStream \in Seq(Messages) /\ task \in Tasks
  BY DEF TimelineIInv
<1>1. UNCHANGED daemonVars /\ UNCHANGED linkVars /\ UNCHANGED appVars /\ UNCHANGED storeVars
  BY DEF eventsVars
<1>2. DaemonFits' /\ HeldFits' /\ StoreFits'
  BY <1>0, <1>1, DaemonStill, ShownStill, StoreStill DEF appVars
<1>. QED
  BY <1>0, <1>1, <1>2 DEF TimelineIInv, appVars, linkVars

LEMMA TimelineInductive ==
    TimelineIInv /\ [EventsNext /\ UNCHANGED eventsPlan]_<<eventsVars, eventsPlan>> => TimelineIInv'
<1>. SUFFICES ASSUME TimelineIInv, EventsNext \/ UNCHANGED eventsVars PROVE TimelineIInv'
  OBVIOUS
<1>1. CASE EventsNext
  <2>1. CASE HandleEvents                BY <2>1, HandleEventsFits
  <2>2. CASE Answer \/ AnswerFails       BY <2>2, AnswerFits
  <2>3. CASE Backfilled                  BY <2>3, BackfilledFits
  <2>4. CASE Flush \/ \E w \in writes : Write(w) \/ WriteFails(w) \/ Record(w)
    BY <2>4, SavingFits
  <2>5. CASE Quit \/ Kill                BY <2>5, EndsFits
  <2>6. CASE Launch                      BY <2>6, LaunchFits
  <2>7. CASE Emit                        BY <2>7, EmitFits
  <2>8. CASE ConnectEvents \/ DisconnectEvents BY <2>8, LinksFit
  <2>9. CASE LoseLog                     BY <2>9, LoseLogFits
  <2>. QED BY <1>1, <2>1, <2>2, <2>3, <2>4, <2>5, <2>6, <2>7, <2>8, <2>9 DEF EventsNext
<1>2. CASE UNCHANGED eventsVars
  BY <1>2, TimelineStill
<1>. QED BY <1>1, <1>2

LEMMA TimelineInvariant == EventsSpec => []TimelineIInv
<1>. QED BY EventsInitFits, TimelineInductive, PTL DEF EventsSpec

LEMMA TimelineImplied == TimelineIInv => TimelineInv
<1>. SUFFICES ASSUME TimelineIInv PROVE TimelineInv
  OBVIOUS
<1>1. Timeline(allEvents) /\ Timeline(file) /\ SeenIsHeld
  BY DEF TimelineIInv, HeldFits, StoreFits
<1>2. ASSUME NEW s, Timeline(s)
      PROVE  Len(s) <= MaxShown /\ \A i, j \in DOMAIN s : i < j => s[i].id < s[j].id
  <2>1. s \in Seq(TimelineEvent) /\ Len(s) <= MaxShown /\ \A i, j \in 1..Len(s) : i < j => s[i].id < s[j].id
    BY <1>2 DEF Timeline, Ordered
  <2>2. DOMAIN s = 1..Len(s)
    BY <2>1
  <2>. QED BY <2>1, <2>2
<1>3. TimelineOrdered
  BY <1>1, <1>2 DEF TimelineOrdered
<1>. QED BY <1>1, <1>3 DEF TimelineInv

\* The app's timeline and its copy on disk go up without doubles within their
\* limit, and the app never claims to have seen more than it holds, whichever
\* of the racing writes came last and whenever the app was ended (ingest,
\* backfill, flush, saveNow, load).
THEOREM AppTimeline == EventsSpec => []TimelineInv
<1>. QED BY TimelineInvariant, TimelineImplied, PTL

LEMMA HereLater ==
    ASSUME NEW events, Ordered(events), NEW batch \in Seq(TimelineEvent),
           NEW t, IsMerged(t, events, batch)
    PROVE  /\ Timeline(t)
           /\ \A k \in Nat : Here(events, k) => Here(t, k)
           /\ \A i \in 1..Len(batch) : Here(t, batch[i].id)
           /\ \A j \in 1..Len(t) : \/ \E i \in 1..Len(events) : t[j] = events[i]
                                   \/ \E i \in 1..Len(batch) : t[j] = batch[i]
<1>1. ASSUME NEW k \in Nat, Here(events, k) PROVE Here(t, k)
  BY <1>1, MergedKeeps
<1>. QED
  BY <1>1, MergedFacts

LEMMA GenuineMerges ==
    ASSUME NEW events, Ordered(events), NEW batch \in Seq(TimelineEvent),
           NEW t, IsMerged(t, events, batch), NEW n \in Nat,
           Genuine(events, n), Genuine(batch, n)
    PROVE  Genuine(t, n)
<1>1. \A j \in 1..Len(t) : \/ \E i \in 1..Len(events) : t[j] = events[i]
                           \/ \E i \in 1..Len(batch) : t[j] = batch[i]
  BY ONLY Ordered(events), batch \in Seq(TimelineEvent), IsMerged(t, events, batch), HereLater
<1>. QED
  BY <1>1 DEF Genuine

LEMMA GenuineGrows ==
    ASSUME NEW s, NEW n \in Nat, Genuine(s, n)
    PROVE  Genuine(s, n + 1)
<1>1. \A k \in 1..n : k \in 1..(n + 1)
  OBVIOUS
<1>. QED BY <1>1 DEF Genuine

LEMMA GenuineLast ==
    ASSUME NEW s, Ordered(s), NEW n \in Nat, Genuine(s, n)
    PROVE  LastIdOf(s) \in 0..n
<1>1. /\ LastIdOf(s) \in Nat /\ Len(s) \in Nat
      /\ s # <<>> => Len(s) \in 1..Len(s) /\ LastIdOf(s) = s[Len(s)].id
  BY LastIdFits, EventFits
<1>2. CASE s = <<>>
  BY <1>2 DEF LastIdOf
<1>3. CASE s # <<>>
  <2>1. s[Len(s)].id \in 1..n
    BY <1>1, <1>3 DEF Genuine
  <2>2. LastIdOf(s) \in 1..n
    BY <1>1, <1>3, <2>1
  <2>. QED BY <2>2
<1>. QED BY <1>2, <1>3

LEMMA WholeGrows ==
    ASSUME NEW s, NEW n \in Nat, NEW t \in 0..n, SomeWhole(s, t, n), NEW m \in Nat, m = n + 1
    PROVE  SomeWhole(s, t, m)
<1>1. PICK b \in 1..(t + 1) : (n > 0 => b <= n) /\ Whole(s, b, t, n)
  BY DEF SomeWhole
<1>2. b <= m
  BY <1>1
<1>3. \A k \in b..t : k > m - Capacity => k > n - Capacity
  BY <1>1, SizesAssumption
<1>4. Whole(s, b, t, m)
  <2>1. (\A i \in 1..Len(s) : s[i].id >= b) /\ \A k \in b..t : k > n - Capacity => Here(s, k)
    BY <1>1 DEF Whole
  <2>2. \A k \in b..t : k > m - Capacity => Here(s, k)
    BY <1>3, <2>1
  <2>. QED BY <2>1, <2>2 DEF Whole
<1>. QED
  BY <1>1, <1>2, <1>4 DEF SomeWhole

LEMMA OneGapGrows ==
    ASSUME NEW s, NEW n \in Nat, NEW t \in 0..n, NEW a, NEW b \in 1..n, NEW h \in 1..n, Gap(s, b, a, h, t, n),
           NEW m \in Nat, m = n + 1
    PROVE  Gap(s, b, a, h, t, m)
<1>0. a \in Nat
  BY DEF Gap
<1>1. \A k \in b..a : k > m - Capacity => k > n - Capacity
  BY <1>0, SizesAssumption
<1>2. \A k \in b..a : k > n - Capacity => Here(s, k)
  BY DEF Gap
<1>3. \A k \in b..a : k > m - Capacity => Here(s, k)
  BY <1>1, <1>2
<1>4. /\ a \in Nat /\ a < h /\ h <= t /\ b <= a + 1
      /\ \A k \in (h + 1)..t : Here(s, k)
      /\ \A i \in 1..Len(s) : s[i].id > h \/ s[i].id \in b..a
  BY DEF Gap
<1>. QED BY <1>3, <1>4 DEF Gap

LEMMA GapGrows ==
    ASSUME NEW s, NEW n \in Nat, NEW t \in 0..n, NEW a, SomeGap(s, a, t, n),
           NEW m \in Nat, m = n + 1
    PROVE  SomeGap(s, a, t, m)
<1>1. PICK b \in 1..n, h \in 1..n : Gap(s, b, a, h, t, n)
  BY DEF SomeGap
<1>2. b \in 1..m /\ h \in 1..m
  OBVIOUS
<1>3. Gap(s, b, a, h, t, m)
  BY <1>1, OneGapGrows
<1>. QED BY <1>2, <1>3 DEF SomeGap

LEMMA AnsweredGrows ==
    ASSUME NEW s, NEW n \in Nat, NEW t \in 0..n, NEW events, Answered(s, events, t, n),
           NEW m \in Nat, m = n + 1
    PROVE  Answered(s, events, t, m)
<1>1. PICK b \in 1..n, h \in 1..n, a \in 0..n, r \in 1..n, l \in 1..n :
        Gap(s, b, a, h, t, n) /\ AnswerIs(events, a, h, r, l, n)
  BY DEF Answered
<1>2. /\ b \in 1..m /\ h \in 1..m /\ a \in 0..m
      /\ r \in 1..m /\ l \in 1..m
  OBVIOUS
<1>3. Gap(s, b, a, h, t, m)
  BY <1>1, OneGapGrows
<1>4. r <= n - Capacity + 1 => r <= m - Capacity + 1
  BY SizesAssumption
<1>5. AnswerIs(events, a, h, r, l, m)
  <2>1. /\ a < r /\ r <= l /\ h <= l
        /\ events \in Seq(TimelineEvent) /\ Len(events) = l - r + 1
        /\ \A i \in 1..(l - r + 1) : events[i] = Ev(r + i - 1)
        /\ r = a + 1 \/ r <= n - Capacity + 1 \/ a = 0 \/ l - r + 1 = MaxShown
    BY <1>1 DEF AnswerIs
  <2>2. r = a + 1 \/ r <= m - Capacity + 1 \/ a = 0 \/ l - r + 1 = MaxShown
    BY <1>4, <2>1
  <2>. QED BY <2>1, <2>2 DEF AnswerIs
<1>. QED BY <1>2, <1>3, <1>5 DEF Answered

LEMMA EventIs ==
    ASSUME NEW k \in Nat
    PROVE  Ev(k) \in TimelineEvent /\ Ev(k).id = k /\ Ev(k).log = 0
BY DEF Ev, TimelineEvent

LEMMA GenuineEvent ==
    ASSUME NEW n \in Nat, NEW k \in 1..n
    PROVE  Genuine(<<Ev(k)>>, n) /\ <<Ev(k)>> \in Seq(TimelineEvent)
<1>1. Ev(k) \in TimelineEvent /\ Ev(k).id = k
  BY EventIs
<1>. QED BY <1>1 DEF Genuine

\* A live event comes.
LEMMA EventMerges ==
    ASSUME NEW s, Ordered(s), NEW k \in Nat, NEW e, IsMerged(e, s, <<Ev(k)>>)
    PROVE  /\ \A j \in Nat : Here(s, j) => Here(e, j)
           /\ Here(e, k)
           /\ \A j \in 1..Len(e) : e[j].id = k \/ \E i \in 1..Len(s) : e[j].id = s[i].id
<1>1. Ev(k) \in TimelineEvent /\ Ev(k).id = k
  BY EventIs
<1>. DEFINE q == <<Ev(k)>>
<1>2. q \in Seq(TimelineEvent) /\ Len(q) = 1 /\ q[1].id = k /\ 1 \in 1..Len(q) /\ \A i \in 1..Len(q) : i = 1
  BY <1>1
<1>. HIDE DEF q
<1>3. IsMerged(e, s, q)
  BY DEF q
<1>4. /\ \A j \in Nat : Here(s, j) => Here(e, j)
      /\ \A i \in 1..Len(q) : Here(e, q[i].id)
      /\ \A j \in 1..Len(e) : \/ \E i \in 1..Len(s) : e[j] = s[i]
                              \/ \E i \in 1..Len(q) : e[j] = q[i]
  BY <1>2, <1>3, HereLater
<1>. QED
  BY <1>2, <1>4

LEMMA WholeMerges ==
    ASSUME NEW s, Ordered(s), NEW n \in Nat, NEW t \in Nat, t + 1 <= n, SomeWhole(s, t, n),
           NEW e, Ordered(e), IsMerged(e, s, <<Ev(t + 1)>>)
    PROVE  SomeWhole(e, t + 1, n)
<1>1. PICK b \in 1..(t + 1) : (n > 0 => b <= n) /\ Whole(s, b, t, n)
  BY DEF SomeWhole
<1>2. /\ \A j \in Nat : Here(s, j) => Here(e, j)
      /\ Here(e, t + 1)
      /\ \A j \in 1..Len(e) : e[j].id = t + 1 \/ \E i \in 1..Len(s) : e[j].id = s[i].id
  BY EventMerges
<1>3. \A i \in 1..Len(e) : e[i].id >= b
  BY <1>1, <1>2 DEF Whole
<1>4. \A k \in b..(t + 1) : k > n - Capacity => Here(e, k)
  <2>. SUFFICES ASSUME NEW k \in b..(t + 1), k > n - Capacity PROVE Here(e, k)
    OBVIOUS
  <2>1. k \in Nat /\ (k \in b..t \/ k = t + 1)
    OBVIOUS
  <2>. QED BY <1>1, <1>2, <2>1 DEF Whole
<1>5. b \in 1..(t + 1 + 1)
  OBVIOUS
<1>. QED
  BY <1>1, <1>3, <1>4, <1>5 DEF SomeWhole, Whole

LEMMA OneGapMerges ==
    ASSUME NEW s, Ordered(s), NEW n \in Nat, NEW t \in Nat,
           NEW a, NEW b \in 1..n, NEW h \in 1..n, Gap(s, b, a, h, t, n),
           NEW e, IsMerged(e, s, <<Ev(t + 1)>>)
    PROVE  Gap(e, b, a, h, t + 1, n)
<1>1. /\ \A j \in Nat : Here(s, j) => Here(e, j)
      /\ Here(e, t + 1)
      /\ \A j \in 1..Len(e) : e[j].id = t + 1 \/ \E i \in 1..Len(s) : e[j].id = s[i].id
  BY EventMerges
<1>2. /\ a \in Nat /\ a < h /\ h <= t /\ b <= a + 1
      /\ \A k \in b..a : k > n - Capacity => Here(s, k)
      /\ \A k \in (h + 1)..t : Here(s, k)
      /\ \A i \in 1..Len(s) : s[i].id > h \/ s[i].id \in b..a
  BY DEF Gap
<1>3. h <= t + 1 /\ t + 1 > h /\ \A k \in b..a : k \in Nat
  BY <1>2
<1>4. \A k \in (h + 1)..(t + 1) : k \in Nat /\ (k \in (h + 1)..t \/ k = t + 1)
  OBVIOUS
<1>5. \A k \in (h + 1)..(t + 1) : Here(e, k)
  BY <1>1, <1>2, <1>4
<1>6. \A k \in b..a : k > n - Capacity => Here(e, k)
  BY <1>1, <1>2, <1>3
<1>7. \A i \in 1..Len(e) : e[i].id > h \/ e[i].id \in b..a
  BY <1>1, <1>2, <1>3
<1>. QED BY <1>2, <1>3, <1>5, <1>6, <1>7 DEF Gap

LEMMA GapMerges ==
    ASSUME NEW s, Ordered(s), NEW n \in Nat, NEW t \in Nat, NEW a, SomeGap(s, a, t, n),
           NEW e, IsMerged(e, s, <<Ev(t + 1)>>)
    PROVE  SomeGap(e, a, t + 1, n)
<1>1. PICK b \in 1..n, h \in 1..n : Gap(s, b, a, h, t, n)
  BY DEF SomeGap
<1>2. Gap(e, b, a, h, t + 1, n)
  BY <1>1, OneGapMerges
<1>. QED BY <1>2 DEF SomeGap

LEMMA AnsweredMerges ==
    ASSUME NEW s, Ordered(s), NEW n \in Nat, NEW t \in Nat, NEW events, Answered(s, events, t, n),
           NEW e, IsMerged(e, s, <<Ev(t + 1)>>)
    PROVE  Answered(e, events, t + 1, n)
<1>1. PICK b \in 1..n, h \in 1..n, a \in 0..n, r \in 1..n, l \in 1..n :
        Gap(s, b, a, h, t, n) /\ AnswerIs(events, a, h, r, l, n)
  BY DEF Answered
<1>2. Gap(e, b, a, h, t + 1, n)
  BY <1>1, OneGapMerges
<1>. QED BY <1>1, <1>2 DEF Answered

\* A hello comes with more than the app has seen.
LEMMA GapOpens ==
    ASSUME NEW s, Ordered(s), NEW n \in Nat, NEW last \in 1..n, LastIdOf(s) < last,
           SomeWhole(s, LastIdOf(s), n)
    PROVE  SomeGap(s, LastIdOf(s), last, n)
<1>. DEFINE a == LastIdOf(s)
<1>1. a \in Nat /\ \A i \in 1..Len(s) : s[i].id <= a /\ s[i].id \in Nat
  BY LastIdFits, EventFits
<1>2. PICK b \in 1..(a + 1) : (n > 0 => b <= n) /\ Whole(s, b, a, n)
  BY DEF SomeWhole
<1>3. a < last
  OBVIOUS
<1>. HIDE DEF a
<1>4. /\ \A i \in 1..Len(s) : s[i].id >= b
      /\ \A k \in b..a : k > n - Capacity => Here(s, k)
  BY <1>2 DEF Whole
<1>5. b \in 1..n /\ b <= a + 1 /\ \A k \in (last + 1)..last : FALSE
  BY <1>1, <1>2
<1>6. \A i \in 1..Len(s) : s[i].id \in b..a
  BY <1>1, <1>4
<1>7. Gap(s, b, a, last, last, n)
  BY <1>1, <1>3, <1>4, <1>5, <1>6 DEF Gap
<1>8. SomeGap(s, a, last, n)
  BY <1>5, <1>7 DEF SomeGap
<1>. QED BY <1>8 DEF a

\* What is whole up to the last event ends with it.
LEMMA WholeLast ==
    ASSUME NEW s, Ordered(s), NEW n \in Nat, Genuine(s, n), SomeWhole(s, n, n)
    PROVE  LastIdOf(s) = n
<1>1. LastIdOf(s) \in 0..n
  BY GenuineLast
<1>2. CASE n = 0
  BY <1>1, <1>2
<1>3. CASE n > 0
  <2>1. PICK b \in 1..(n + 1) : (n > 0 => b <= n) /\ Whole(s, b, n, n)
    BY DEF SomeWhole
  <2>2. n \in b..n /\ n > n - Capacity
    BY <1>3, <2>1, SizesAssumption
  <2>3. Here(s, n)
    BY <2>1, <2>2 DEF Whole
  <2>4. n <= LastIdOf(s)
    BY <2>3, HereLast
  <2>. QED BY <1>1, <2>4
<1>. QED BY <1>2, <1>3

\* The answer to a backfill fills the gap, or starts the timeline over.
LEMMA AnsweredWhole ==
    ASSUME NEW s, Ordered(s), NEW n \in Nat, NEW t \in 0..n, NEW events, Answered(s, events, t, n),
           NEW e, IsMerged(e, s, events)
    PROVE  SomeWhole(e, t, n) /\ Genuine(events, n)
<1>1. PICK b \in 1..n, h \in 1..n, a \in 0..n, r \in 1..n, l \in 1..n :
        Gap(s, b, a, h, t, n) /\ AnswerIs(events, a, h, r, l, n)
  BY DEF Answered
<1>2. /\ a < h /\ h <= t /\ b <= a + 1
      /\ \A k \in b..a : k > n - Capacity => Here(s, k)
      /\ \A k \in (h + 1)..t : Here(s, k)
      /\ \A i \in 1..Len(s) : s[i].id > h \/ s[i].id \in b..a
  BY <1>1 DEF Gap
<1>3. /\ a < r /\ r <= l /\ h <= l
      /\ events \in Seq(TimelineEvent) /\ Len(events) = l - r + 1
      /\ \A i \in 1..(l - r + 1) : events[i] = Ev(r + i - 1)
      /\ r = a + 1 \/ r <= n - Capacity + 1 \/ a = 0 \/ l - r + 1 = MaxShown
  BY <1>1 DEF AnswerIs
<1>4. \A i \in 1..Len(events) : r + i - 1 \in r..l /\ r + i - 1 \in 1..n /\ r + i - 1 \in Nat
  BY <1>3
<1>5. \A i \in 1..Len(events) : events[i].id = r + i - 1 /\ events[i] = Ev(r + i - 1)
  BY <1>3, <1>4, EventIs
<1>6. Genuine(events, n)
  BY <1>4, <1>5 DEF Genuine
<1>7. \A k \in r..l : k - r + 1 \in 1..Len(events) /\ r + (k - r + 1) - 1 = k
  BY <1>3
<1>8. \A k \in r..l : \E i \in 1..Len(events) : events[i].id = k
  BY <1>5, <1>7
<1>9. /\ Timeline(e)
      /\ \A k \in Nat : Here(s, k) => Here(e, k)
      /\ \A i \in 1..Len(events) : Here(e, events[i].id)
      /\ \A j \in 1..Len(e) : \/ \E i \in 1..Len(s) : e[j] = s[i]
                              \/ \E i \in 1..Len(events) : e[j] = events[i]
  <2>1. events \in Seq(TimelineEvent)
    BY <1>3
  <2>. QED BY ONLY <2>1, Ordered(s), IsMerged(e, s, events), HereLater
<1>10. \A k \in r..l : Here(e, k)
  BY <1>8, <1>9
<1>11. \A k \in (h + 1)..t : Here(e, k)
  <2>1. \A k \in (h + 1)..t : k \in Nat
    OBVIOUS
  <2>. QED BY <1>2, <1>9, <2>1
<1>12. \A j \in 1..Len(e) : e[j].id > h \/ e[j].id \in b..a \/ e[j].id \in r..l
  <2>1. \A i \in 1..Len(events) : events[i].id \in r..l
    BY <1>4, <1>5
  <2>2. \A i \in 1..Len(s) : s[i].id > h \/ s[i].id \in b..a
    BY <1>2
  <2>3. \A j \in 1..Len(e) : \/ \E i \in 1..Len(s) : e[j] = s[i]
                             \/ \E i \in 1..Len(events) : e[j] = events[i]
    BY <1>9
  <2>. QED BY ONLY <2>1, <2>2, <2>3
<1>13. CASE r = a + 1 \/ r <= n - Capacity + 1
  <2>1. \A i \in 1..Len(e) : e[i].id >= b
    <3>1. \A k : k \in r..l => k >= b
      BY <1>2, <1>3
    <3>2. \A k : k \in b..a => k >= b
      OBVIOUS
    <3>3. \A j \in 1..Len(e) : e[j].id \in Nat
      BY <1>9, EventFits DEF Timeline
    <3>4. \A k \in Nat : k > h => k >= b
      BY <1>2
    <3>. QED BY <1>12, <3>1, <3>2, <3>3, <3>4
  <2>2. \A k \in b..t : k > n - Capacity => Here(e, k)
    <3>. SUFFICES ASSUME NEW k \in b..t, k > n - Capacity PROVE Here(e, k)
      OBVIOUS
    <3>1. k \in Nat /\ (k \in b..a \/ k \in r..l \/ k \in (h + 1)..t)
      <4>1. k \in Nat /\ b <= k /\ k <= t
        OBVIOUS
      <4>2. h <= l
        BY <1>3
      <4>3. k <= a \/ r <= k
        BY <1>13, <4>1, SizesAssumption
      <4>. QED BY ONLY <4>1, <4>2, <4>3, h \in 1..n, a \in 0..n, r \in 1..n, l \in 1..n, b \in 1..n,
                       t \in 0..n, n \in Nat
    <3>2. CASE k \in b..a
      BY <1>2, <1>9, <3>1, <3>2
    <3>. QED BY <1>10, <1>11, <3>1, <3>2
  <2>3. b \in 1..(t + 1) /\ b <= n
    BY <1>2
  <2>. QED BY <1>6, <2>1, <2>2, <2>3 DEF SomeWhole, Whole
<1>14. CASE a = 0 \/ l - r + 1 = MaxShown
  <2>. DEFINE c == IF r <= h + 1 THEN r ELSE h + 1
  <2>1. c \in 1..(t + 1) /\ c <= r /\ c <= h + 1 /\ c <= n /\ c \in Nat /\ (c = r \/ c = h + 1)
    BY <1>2
  <2>. HIDE DEF c
  <2>2. \A i \in 1..Len(e) : e[i].id >= c
    <3>0. \A j \in 1..Len(e) : e[j].id \in Nat
      BY <1>9, EventFits DEF Timeline
    <3>1. CASE a = 0
      <4>1. \A k \in Nat : k > h => k >= c
        BY <2>1
      <4>2. \A k \in Nat : k \notin b..a
        BY <3>1
      <4>3. \A k \in Nat : k \in r..l => k >= c
        BY <2>1
      <4>. QED BY <1>12, <3>0, <4>1, <4>2, <4>3
    <3>2. CASE l - r + 1 = MaxShown
      <4>1. 1 \in 1..Len(events) /\ Len(events) = MaxShown /\ r + 1 - 1 = r
        BY <1>3, <3>2
      <4>2. events[1].id = r
        BY <1>5, <4>1
      <4>3. Ordered(events)
        BY <1>3, <1>5 DEF Ordered
      <4>4. \A j \in 1..Len(e) : events[1].id <= e[j].id
        BY <1>3, <4>1, <4>3, MergedPushes
      <4>. QED BY <2>1, <3>0, <4>2, <4>4
    <3>. QED BY <1>14, <3>1, <3>2
  <2>3. \A k \in c..t : k > n - Capacity => Here(e, k)
    <3>1. \A k \in c..t : k \in r..l \/ k \in (h + 1)..t
      BY <1>3, <2>1
    <3>. QED BY <1>10, <1>11, <3>1
  <2>. QED BY <1>6, <2>1, <2>2, <2>3 DEF SomeWhole, Whole
<1>. QED BY <1>3, <1>13, <1>14

\* The answer of the log to a backfill.
LEMMA GapAnswered ==
    ASSUME DaemonFits, LogIs, NEW a \in Nat, NEW limit \in Nat \ {0}, a > 0 => limit = MaxShown,
           NEW s, NEW t \in 0..lastID, SomeGap(s, a, t, lastID)
    PROVE  Answered(s, Newest(SubSeq(log, FirstAfter(log, a), Len(log)), limit), t, lastID)
<1>. DEFINE n == lastID
            len == Len(log)
            p == FirstAfter(log, a)
            after == SubSeq(log, p, len)
            events == Newest(after, limit)
<1>1. n \in Nat /\ Ordered(log)
  BY DEF DaemonFits
<1>2. len = (IF n <= Capacity THEN n ELSE Capacity) /\ \A i \in 1..len : log[i] = Ev(n - len + i)
  BY DEF LogIs
<1>3. /\ Ordered(after) /\ Len(after) = len - p + 1 /\ p \in 1..(len + 1)
      /\ \A i \in 1..Len(after) : after[i] = log[p + i - 1]
      /\ \E d \in Nat : IsEnd(events, after, limit, d)
  BY <1>1, AnswerEnds
<1>4. /\ \A i \in 1..len : i < p => log[i].id <= a
      /\ \A i \in 1..len : i >= p => log[i].id > a
  BY <1>1, FirstAfterFacts
<1>5. PICK b \in 1..n, h \in 1..n : Gap(s, b, a, h, t, n)
  BY DEF SomeGap
<1>6. a < h /\ h <= t
  BY <1>5 DEF Gap
<1>. HIDE DEF n, len, p, after, events
<1>7. len \in Nat /\ len <= n /\ len >= 1 /\ (len = n \/ len = Capacity)
  BY <1>1, <1>2, <1>5, SizesAssumption
<1>. DEFINE base == n - len
<1>8. base \in Nat /\ n = base + len /\ (base = 0 \/ base = n - Capacity)
  BY <1>1, <1>7, SizesAssumption
<1>9. \A i \in 1..len : log[i] = Ev(base + i)
  BY <1>2
<1>. HIDE DEF base
<1>10. \A i \in 1..len : base + i \in Nat
  BY <1>7, <1>8
<1>11. \A i \in 1..len : log[i].id = base + i
  BY <1>9, <1>10, EventIs
<1>12. p <= len
  <2>1. len \in 1..len /\ log[len].id = n /\ n > a
    BY <1>5, <1>6, <1>7, <1>8, <1>11
  <2>2. p \in 1..(len + 1)
    BY <1>3
  <2>3. ~(len < p)
    BY <1>1, <1>4, <2>1
  <2>. QED BY <1>7, <2>2, <2>3
<1>13. PICK d \in Nat : IsEnd(events, after, limit, d)
  BY <1>3
<1>14. /\ Ordered(events) /\ Len(after) = d + Len(events) /\ Len(events) <= limit /\ (d > 0 => Len(events) = limit)
       /\ \A j \in 1..Len(events) : d + j \in 1..Len(after) /\ events[j] = after[d + j]
  BY <1>13 DEF IsEnd
<1>15. Len(events) \in Nat /\ events \in Seq(TimelineEvent)
  BY <1>14, EventFits
<1>. DEFINE r == base + p + d
<1>16. Len(events) = n - r + 1 /\ Len(events) >= 1 /\ r \in 1..n
  BY <1>3, <1>7, <1>8, <1>12, <1>14, <1>15
<1>17. \A j \in 1..Len(events) : events[j] = Ev(r + j - 1)
  <2>. SUFFICES ASSUME NEW j \in 1..Len(events) PROVE events[j] = Ev(r + j - 1)
    OBVIOUS
  <2>1. events[j] = log[p + (d + j) - 1] /\ d + j \in 1..Len(after)
    BY <1>3, <1>14
  <2>2. p + (d + j) - 1 \in 1..len /\ base + (p + (d + j) - 1) = r + j - 1
    <3>1. p \in 1..(len + 1) /\ Len(after) = len - p + 1 /\ j \in Nat
      BY <1>3, <1>15
    <3>2. d + j \in 1..(len - p + 1)
      BY <2>1, <3>1
    <3>3. base \in Nat /\ len \in Nat /\ d \in Nat
      BY <1>7, <1>8
    <3>. QED BY <3>1, <3>2, <3>3
  <2>. QED BY <1>9, <2>1, <2>2
<1>18. p \in 1..len /\ a < base + p
  <2>1. p \in 1..len
    BY <1>3, <1>7, <1>12
  <2>. QED BY <1>4, <1>11, <2>1
<1>19. r = a + 1 \/ r <= n - Capacity + 1 \/ a = 0 \/ n - r + 1 = MaxShown
  <2>1. CASE d > 0
    BY <1>14, <1>16, <2>1
  <2>2. CASE d = 0 /\ p = 1
    BY <1>8, <1>18, <2>2
  <2>3. CASE d = 0 /\ p > 1
    <3>1. p - 1 \in 1..len /\ p - 1 < p
      BY <1>7, <1>18, <2>3
    <3>2. base + (p - 1) <= a
      BY <1>4, <1>11, <3>1
    <3>. QED BY <1>8, <1>18, <2>3, <3>2
  <2>. QED BY <1>18, <2>1, <2>2, <2>3
<1>20. a < r /\ r <= n /\ h <= n /\ n \in 1..n /\ a \in 0..n
  BY <1>5, <1>6, <1>8, <1>16, <1>18
<1>. HIDE DEF r
<1>21. AnswerIs(events, a, h, r, n, n)
  BY <1>15, <1>16, <1>17, <1>19, <1>20 DEF AnswerIs
<1>22. Answered(s, events, t, n)
  BY <1>5, <1>16, <1>20, <1>21 DEF Answered
<1>. QED BY <1>22 DEF n, len, p, after, events

LEMMA MessagesOf ==
    ASSUME NEW k
    PROVE  /\ EventOf(k).kind = "event" /\ EventOf(k).event = Ev(k)
           /\ HelloOf(k).kind = "hello" /\ HelloOf(k).last = k
BY DEF EventOf, HelloOf

\* The message ahead is taken.
LEMMA TellingTail ==
    ASSUME NEW q \in Seq(Messages), q # <<>>, NEW n \in Nat, Telling(q, n)
    PROVE  /\ Len(q) \in Nat /\ Len(q) >= 1 /\ Len(Tail(q)) = Len(q) - 1
           /\ Telling(Tail(q), n)
           /\ Tail(q) # <<>> => Head(Tail(q)).kind = "event"
           /\ Head(q) = EventOf(n - Len(q) + 1) \/ Head(q) = HelloOf(n - Len(q) + 1)
<1>. DEFINE l == Len(q)
            u == Tail(q)
<1>1. /\ l \in Nat /\ l >= 1 /\ Len(u) = l - 1 /\ u \in Seq(Messages) /\ Head(q) = q[1]
      /\ \A i \in 1..(l - 1) : u[i] = q[i + 1]
  OBVIOUS
<1>2. u # <<>> => Len(u) >= 1 /\ Head(u) = u[1]
  BY <1>1
<1>3. \A i \in 1..l : q[i] = EventOf(n - l + i) \/ (i = 1 /\ q[i] = HelloOf(n - l + i))
  BY DEF Telling
<1>. HIDE DEF l, u
<1>4. \A i \in 1..Len(u) : i + 1 \in 1..l /\ i + 1 # 1 /\ n - l + (i + 1) = n - Len(u) + i
  BY <1>1
<1>5. \A i \in 1..Len(u) : u[i] = EventOf(n - Len(u) + i)
  BY <1>1, <1>3, <1>4
<1>6. u # <<>> => Head(u).kind = "event"
  BY <1>1, <1>2, <1>5, MessagesOf
<1>7. Telling(u, n)
  BY <1>5 DEF Telling
<1>8. 1 \in 1..l
  BY <1>1
<1>. QED BY <1>1, <1>3, <1>6, <1>7, <1>8 DEF l, u

\* The daemon sends an event, or the hello that starts a subscription.
LEMMA TellingMore ==
    ASSUME NEW q \in Seq(Messages), NEW n \in Nat, Telling(q, n), NEW m \in Nat, m = n + 1
    PROVE  /\ Telling(Append(q, EventOf(m)), m) /\ Len(Append(q, EventOf(m))) = Len(q) + 1
           /\ Append(q, EventOf(m)) # <<>> /\ Len(q) \in Nat
           /\ q # <<>> => Head(Append(q, EventOf(m))) = Head(q)
           /\ q = <<>> => Head(Append(q, EventOf(m))).kind = "event"
<1>. DEFINE l == Len(q)
            e == EventOf(m)
            u == Append(q, e)
<1>1. /\ l \in Nat /\ Len(u) = l + 1 /\ u # <<>> /\ Head(u) = u[1]
      /\ \A i \in 1..l : u[i] = q[i]
      /\ u[l + 1] = e
  OBVIOUS
<1>2. q # <<>> => l >= 1 /\ Head(q) = q[1]
  OBVIOUS
<1>3. q = <<>> => l = 0
  OBVIOUS
<1>4. \A i \in 1..l : q[i] = EventOf(n - l + i) \/ (i = 1 /\ q[i] = HelloOf(n - l + i))
  BY DEF Telling
<1>. HIDE DEF l, u, e
<1>5. \A i \in 1..Len(u) : i \in 1..l \/ i = l + 1
  BY <1>1
<1>6. \A i \in 1..l : n - l + i = m - Len(u) + i
  BY <1>1
<1>7. m - Len(u) + (l + 1) = m
  BY <1>1
<1>8. \A i \in 1..Len(u) : u[i] = EventOf(m - Len(u) + i) \/ (i = 1 /\ u[i] = HelloOf(m - Len(u) + i))
  <2>. SUFFICES ASSUME NEW i \in 1..Len(u)
                PROVE  u[i] = EventOf(m - Len(u) + i) \/ (i = 1 /\ u[i] = HelloOf(m - Len(u) + i))
    OBVIOUS
  <2>1. CASE i \in 1..l
    BY <1>1, <1>4, <1>6, <2>1
  <2>2. CASE i = l + 1
    BY <1>1, <1>7, <2>2 DEF e
  <2>. QED BY <1>5, <2>1, <2>2
<1>9. Telling(u, m)
  BY <1>8 DEF Telling
<1>10. q # <<>> => Head(u) = Head(q)
  BY <1>1, <1>2
<1>11. q = <<>> => Head(u).kind = "event"
  BY <1>1, <1>3, MessagesOf DEF e
<1>. QED BY <1>1, <1>9, <1>10, <1>11 DEF l, u, e

LEMMA TellingNothing ==
    ASSUME NEW n \in Nat
    PROVE  /\ Telling(<<>>, n) /\ Len(<<>>) = 0
           /\ Telling(<<HelloOf(n)>>, n) /\ Len(<<HelloOf(n)>>) = 1
           /\ <<HelloOf(n)>> # <<>> /\ Head(<<HelloOf(n)>>) = HelloOf(n)
<1>1. n - 1 + 1 = n
  OBVIOUS
<1>. DEFINE e == HelloOf(n)
            q == <<e>>
<1>2. Len(q) = 1 /\ q[1] = e /\ \A i \in 1..Len(q) : i = 1
  OBVIOUS
<1>3. Telling(q, n)
  BY <1>1, <1>2 DEF Telling
<1>4. Telling(<<>>, n)
  BY DEF Telling
<1>. QED BY <1>3, <1>4

-----------------------------------------------------------------------------
(* The steps. *)

LEMMA IngestMerges ==
    ASSUME HeldFits, ShownIs, NEW batch \in Seq(TimelineEvent), Ingest(batch)
    PROVE  /\ IsMerged(allEvents', allEvents, batch) /\ lastSeenEventID' = LastIdOf(allEvents')
           /\ \/ UNCHANGED <<allEvents, lastSeenEventID, storeVars>>
              \/ pending' = Save(allEvents', lastSeenEventID') /\ UNCHANGED <<writes, file, saved>>
<1>1. Ordered(allEvents) /\ Len(allEvents) <= MaxShown /\ lastSeenEventID = LastIdOf(allEvents)
  BY DEF HeldFits, Timeline, ShownIs
<1>2. CASE \A i \in DOMAIN batch : batch[i].id \in Ids(allEvents)
  <2>1. UNCHANGED <<allEvents, lastSeenEventID, storeVars>>
    BY <1>2 DEF Ingest
  <2>2. Len(allEvents) \in Nat /\ DOMAIN allEvents = 1..Len(allEvents) /\ DOMAIN batch = 1..Len(batch)
    BY <1>1, EventFits
  <2>3. \A i \in 1..Len(batch) : \E j \in 1..Len(allEvents) : allEvents[j].id = batch[i].id
    BY <1>2, <2>2 DEF Ids
  <2>4. Joins(allEvents, allEvents, batch, Len(batch))
    BY <1>1, <2>3 DEF Joins
  <2>5. 0 \in Nat /\ IsEnd(allEvents, allEvents, MaxShown, 0)
    BY <1>1, <2>2 DEF IsEnd
  <2>6. IsMerged(allEvents, allEvents, batch)
    BY <2>4, <2>5 DEF IsMerged
  <2>. QED BY <1>1, <2>1, <2>6
<1>3. CASE ~ \A i \in DOMAIN batch : batch[i].id \in Ids(allEvents)
  <2>1. /\ allEvents' = Merged(allEvents, batch)
        /\ lastSeenEventID' = Larger(lastSeenEventID, LastIdOf(allEvents'))
        /\ ScheduleSave(allEvents', lastSeenEventID')
    BY <1>3 DEF Ingest
  <2>2. IsMerged(allEvents', allEvents, batch)
    BY <1>1, <2>1, MergedEnds
  <2>3. LastIdOf(allEvents) <= LastIdOf(allEvents') /\ LastIdOf(allEvents) \in Nat /\ LastIdOf(allEvents') \in Nat
    BY <1>1, <2>1, MergedLast
  <2>4. lastSeenEventID' = LastIdOf(allEvents')
    BY <1>1, <2>1, <2>3, LargerIs
  <2>. QED BY <2>1, <2>2, <2>4 DEF ScheduleSave
<1>. QED BY <1>2, <1>3

LEMMA Saves ==
    ASSUME StoreIs, running, running',
           \/ UNCHANGED <<allEvents, lastSeenEventID, storeVars>>
           \/ pending' = Save(allEvents', lastSeenEventID') /\ UNCHANGED <<writes, file, saved>>
    PROVE  StoreIs'
<1>1. (\A v, w \in writes : v = w) /\ SavingIs
  BY DEF StoreIs
<1>2. CASE UNCHANGED <<allEvents, lastSeenEventID, storeVars>>
  <2>1. UNCHANGED <<allEvents, lastSeenEventID, pending, writes, file, saved>>
    BY <1>2 DEF storeVars
  <2>2. SavingIs'
    BY <1>1, <2>1 DEF SavingIs
  <2>. QED BY <1>1, <2>1, <2>2 DEF StoreIs
<1>3. CASE pending' = Save(allEvents', lastSeenEventID') /\ UNCHANGED <<writes, file, saved>>
  <2>1. pending'.real
    BY <1>3 DEF Save
  <2>2. SavingIs'
    BY <1>3, <2>1 DEF SavingIs
  <2>. QED BY <1>1, <1>3, <2>2 DEF StoreIs
<1>. QED BY <1>2, <1>3

LEMMA TaskStages ==
    /\ NoTask.stage = "none"
    /\ \A n, l : LET t == [stage |-> "asked", since |-> n, limit |-> l]
                 IN t.stage = "asked" /\ t.since = n /\ t.limit = l /\ t # NoTask
    /\ \A s : LET t == [stage |-> "answered", events |-> s]
              IN t.stage = "answered" /\ t.events = s /\ t # NoTask
BY DEF NoTask

LEMMA LogStill ==
    ASSUME LogIs, UNCHANGED <<log, lastID, generation>>
    PROVE  LogIs'
BY DEF LogIs

\* What a message leaves of the stream.
LEMMA HandleStream ==
    ASSUME TimelineIInv, FaultlessIs, HandleEvents
    PROVE  /\ lastID \in Nat /\ lastID' = lastID /\ Told \in Int /\ Told + 1 <= lastID
           /\ Told' = Told + 1 /\ running /\ running' /\ eventLink /\ eventLink' /\ ~HelloAhead'
           /\ Telling(eventStream', lastID') /\ LogIs'
           /\ Head(eventStream) = EventOf(Told + 1) \/ Head(eventStream) = HelloOf(Told + 1)
           /\ Ordered(allEvents) /\ task \in Tasks
<1>1. /\ running /\ eventStream # <<>> /\ eventStream' = Tail(eventStream)
      /\ UNCHANGED <<daemonVars, eventLinks, eventLink, launches, running>>
  BY DEF HandleEvents
<1>2. lastID \in Nat /\ eventStream \in Seq(Messages) /\ Ordered(allEvents) /\ task \in Tasks
  BY DEF TimelineIInv, DaemonFits, HeldFits, Timeline
<1>3. Telling(eventStream, lastID) /\ (~eventLink => eventStream = <<>>) /\ LogIs
  BY DEF FaultlessIs, StreamIs
<1>4. /\ Len(eventStream) \in Nat /\ Len(eventStream) >= 1 /\ Len(Tail(eventStream)) = Len(eventStream) - 1
      /\ Telling(Tail(eventStream), lastID)
      /\ Tail(eventStream) # <<>> => Head(Tail(eventStream)).kind = "event"
      /\ \/ Head(eventStream) = EventOf(lastID - Len(eventStream) + 1)
         \/ Head(eventStream) = HelloOf(lastID - Len(eventStream) + 1)
  BY <1>1, <1>2, <1>3, TellingTail
<1>5. UNCHANGED <<log, lastID, generation>>
  BY <1>1 DEF daemonVars
<1>6. ~HelloAhead'
  BY <1>1, <1>4 DEF HelloAhead
<1>7. Told \in Int /\ Told + 1 <= lastID
  BY <1>2, <1>4 DEF Told
<1>8. Told' = Told + 1
  <2>1. Len(eventStream') = Len(eventStream) - 1 /\ lastID' = lastID
    BY <1>1, <1>4, <1>5
  <2>. QED BY <1>2, <1>4, <2>1 DEF Told
<1>9. LogIs'
  BY <1>3, <1>5, LogStill
<1>10. Telling(eventStream', lastID')
  BY <1>1, <1>4, <1>5
<1>11. Head(eventStream) = EventOf(Told + 1) \/ Head(eventStream) = HelloOf(Told + 1)
  BY <1>4 DEF Told
<1>. QED BY <1>1, <1>2, <1>3, <1>5, <1>6, <1>7, <1>8, <1>9, <1>10, <1>11

LEMMA HandleEvent ==
    ASSUME TimelineIInv, FaultlessIs, HandleEvents, Head(eventStream).kind = "event"
    PROVE  FaultlessIs'
<1>. DEFINE n == lastID
            t == Told
            e == allEvents'
            batch == <<Ev(t + 1)>>
<1>1. /\ n \in Nat /\ lastID' = n /\ t \in Int /\ t + 1 <= n
      /\ Told' = t + 1 /\ running /\ running' /\ eventLink /\ eventLink' /\ ~HelloAhead'
      /\ Telling(eventStream', lastID') /\ LogIs'
      /\ Head(eventStream) = EventOf(t + 1) \/ Head(eventStream) = HelloOf(t + 1)
      /\ Ordered(allEvents) /\ task \in Tasks
  BY HandleStream
<1>2. Head(eventStream) = EventOf(t + 1) /\ ~HelloAhead
  BY <1>1, MessagesOf DEF HelloAhead
<1>3. Head(eventStream).event = Ev(t + 1)
  BY <1>2, MessagesOf
<1>4. Ingest(batch) /\ UNCHANGED task
  BY <1>3 DEF HandleEvents
<1>5. StreamIs /\ ShownIs /\ StoreIs /\ TaskIs
  BY DEF FaultlessIs
<1>6. t >= 0
  BY <1>2, <1>5 DEF StreamIs
<1>7. t \in Nat /\ t + 1 \in 1..n
  BY <1>1, <1>6
<1>. HIDE DEF t, n
<1>8. Genuine(batch, n) /\ batch \in Seq(TimelineEvent)
  BY <1>1, <1>7, GenuineEvent
<1>9. HeldFits
  BY DEF TimelineIInv
<1>10. /\ IsMerged(e, allEvents, batch) /\ lastSeenEventID' = LastIdOf(e)
       /\ \/ UNCHANGED <<allEvents, lastSeenEventID, storeVars>>
          \/ pending' = Save(allEvents', lastSeenEventID') /\ UNCHANGED <<writes, file, saved>>
  BY <1>4, <1>5, <1>8, <1>9, IngestMerges
<1>11. StoreIs'
  BY <1>1, <1>5, <1>10, Saves
<1>12. Genuine(e, n)
  <2>1. Genuine(allEvents, n)
    BY <1>5 DEF ShownIs, n
  <2>. QED BY <1>1, <1>8, <1>10, <2>1, GenuineMerges
<1>13. ShownIs'
  BY <1>1, <1>10, <1>12 DEF ShownIs
<1>14. StreamIs'
  <2>1. Told' >= 0
    BY <1>1, <1>7
  <2>. QED BY <1>1, <2>1 DEF StreamIs
<1>15. Ordered(e)
  BY <1>1, <1>8, <1>10, HereLater DEF Timeline
<1>16. TaskIs'
  <2>1. ASSUME task' = NoTask PROVE SomeWhole(allEvents', Reach', lastID')
    <3>1. Reach = t /\ Reach' = t + 1
      BY <1>1, <1>2 DEF Reach, t
    <3>2. SomeWhole(allEvents, t, n)
      BY <1>1, <1>4, <1>5, <2>1, <3>1 DEF TaskIs, n
    <3>3. SomeWhole(e, t + 1, n)
      BY <1>1, <1>7, <1>10, <1>15, <3>2, WholeMerges
    <3>. QED BY <1>1, <3>1, <3>3
  <2>2. ASSUME task'.stage = "asked"
        PROVE  (task'.since > 0 => task'.limit = MaxShown) /\ SomeGap(allEvents', task'.since, Told', lastID')
    <3>1. (task.since > 0 => task.limit = MaxShown) /\ SomeGap(allEvents, task.since, t, n)
      BY <1>4, <1>5, <2>2 DEF TaskIs, n, t
    <3>2. SomeGap(e, task.since, t + 1, n)
      BY <1>1, <1>7, <1>10, <3>1, GapMerges
    <3>. QED BY <1>1, <1>4, <3>1, <3>2
  <2>3. ASSUME task'.stage = "answered"
        PROVE  Answered(allEvents', task'.events, Told', lastID')
    <3>1. Answered(allEvents, task.events, t, n)
      BY <1>4, <1>5, <2>3 DEF TaskIs, n, t
    <3>2. Answered(e, task.events, t + 1, n)
      BY <1>1, <1>7, <1>10, <3>1, AnsweredMerges
    <3>. QED BY <1>1, <1>4, <3>2
  <2>. QED BY <2>1, <2>2, <2>3 DEF TaskIs
<1>. QED BY <1>1, <1>11, <1>13, <1>14, <1>16 DEF FaultlessIs

LEMMA HandleHello ==
    ASSUME TimelineIInv, FaultlessIs, HandleEvents, Head(eventStream).kind = "hello"
    PROVE  FaultlessIs'
<1>. DEFINE n == lastID
            last == Told + 1
            a == lastSeenEventID
            limit == IF a > 0 THEN MaxShown ELSE InitialBackfill
            asked == [stage |-> "asked", since |-> a, limit |-> limit]
<1>1. /\ n \in Nat /\ lastID' = n /\ Told \in Int /\ last <= n
      /\ Told' = last /\ running /\ running' /\ eventLink /\ eventLink' /\ ~HelloAhead'
      /\ Telling(eventStream', lastID') /\ LogIs'
      /\ Head(eventStream) = EventOf(last) \/ Head(eventStream) = HelloOf(last)
      /\ Ordered(allEvents) /\ task \in Tasks
  BY HandleStream
<1>2. Head(eventStream).last = last /\ HelloAhead
  BY <1>1, MessagesOf DEF HelloAhead, HandleEvents
<1>3. Backfill(last)
  BY <1>2 DEF HandleEvents
<1>4. StreamIs /\ ShownIs /\ StoreIs /\ TaskIs
  BY DEF FaultlessIs
<1>5. task = NoTask /\ LastIdOf(allEvents) <= last
  BY <1>2, <1>4 DEF StreamIs
<1>6. a = LastIdOf(allEvents) /\ a \in Nat /\ Genuine(allEvents, n)
  BY <1>1, <1>4, LastIdFits DEF ShownIs
<1>. HIDE DEF n, last, a
<1>7. last \in Nat /\ ~(last < a)
  BY <1>1, <1>5, <1>6 DEF last
<1>8. /\ task' = (IF last > a THEN asked ELSE task)
      /\ UNCHANGED <<allEvents, lastSeenEventID, storeVars>>
  BY <1>3, <1>7 DEF Backfill, a
<1>9. StoreIs'
  BY <1>1, <1>4, <1>8, Saves
<1>10. ShownIs'
  BY <1>1, <1>4, <1>8 DEF ShownIs, n
<1>11. StreamIs'
  BY <1>1, <1>7 DEF StreamIs
<1>12. SomeWhole(allEvents, a, n)
  <2>1. Reach = a
    BY <1>2, <1>6 DEF Reach
  <2>. QED BY <1>1, <1>4, <1>5, <2>1 DEF TaskIs, n
<1>13. CASE last > a
  <2>1. last \in 1..n /\ a < last
    BY <1>1, <1>6, <1>7, <1>13
  <2>2. SomeGap(allEvents, a, last, n)
    BY <1>1, <1>6, <1>12, <2>1, GapOpens
  <2>3. task' = asked
    BY <1>8, <1>13
  <2>. HIDE DEF limit
  <2>4. asked.stage = "asked" /\ asked.since = a /\ asked.limit = limit /\ asked # NoTask
    BY TaskStages
  <2>. HIDE DEF asked
  <2>5. a > 0 => limit = MaxShown
    BY DEF limit
  <2>6. asked.stage # "answered"
    BY <2>4
  <2>7. allEvents' = allEvents
    BY <1>8
  <2>8. TaskIs'
    BY <1>1, <2>2, <2>3, <2>4, <2>5, <2>6, <2>7 DEF TaskIs
  <2>. QED BY <1>1, <1>9, <1>10, <1>11, <2>8 DEF FaultlessIs
<1>14. CASE ~(last > a)
  <2>1. last = a
    BY <1>6, <1>7, <1>14
  <2>2. task' = NoTask /\ allEvents' = allEvents
    BY <1>5, <1>8, <1>14
  <2>3. Reach' = a
    BY <1>1, <2>1 DEF Reach
  <2>4. task'.stage # "asked" /\ task'.stage # "answered"
    BY <2>2, TaskStages
  <2>5. TaskIs'
    BY <1>1, <1>12, <2>2, <2>3, <2>4 DEF TaskIs
  <2>. QED BY <1>1, <1>9, <1>10, <1>11, <2>5 DEF FaultlessIs
<1>. QED BY <1>13, <1>14

\* While a backfill is under way the app is connected, and past the hello.
LEMMA Asking ==
    ASSUME TimelineIInv, FaultlessIs, task.stage # "none"
    PROVE  /\ eventLink /\ running /\ ~HelloAhead /\ task # NoTask
           /\ lastID \in Nat /\ Told \in 0..lastID
<1>1. task # NoTask
  BY TaskStages
<1>2. eventLink /\ running /\ ~HelloAhead /\ Told >= 0
  BY <1>1 DEF FaultlessIs, StreamIs
<1>3. lastID \in Nat /\ Len(eventStream) \in Nat
  BY DEF TimelineIInv, DaemonFits
<1>4. Told \in 0..lastID
  BY <1>2, <1>3 DEF Told
<1>. QED BY <1>1, <1>2, <1>3, <1>4

\* The stream, the log and the link rest.
LEMMA LinkStill ==
    ASSUME UNCHANGED <<daemonVars, linkVars>>
    PROVE  /\ lastID' = lastID /\ log' = log /\ generation' = generation
           /\ eventLink' = eventLink /\ eventStream' = eventStream
           /\ Told' = Told /\ HelloAhead' = HelloAhead
BY DEF daemonVars, linkVars, Told, HelloAhead

LEMMA AnswerCatches ==
    ASSUME TimelineIInv, FaultlessIs, Answer
    PROVE  FaultlessIs'
<1>. DEFINE a == task.since
            limit == task.limit
            events == Newest(SubSeq(log, FirstAfter(log, a), Len(log)), limit)
            answered == [stage |-> "answered", events |-> events]
<1>1. /\ task.stage = "asked" /\ task' = answered
      /\ UNCHANGED <<daemonVars, linkVars>> /\ running' = running
      /\ UNCHANGED <<allEvents, lastSeenEventID, storeVars>>
  BY DEF Answer
<1>2. /\ eventLink /\ running /\ ~HelloAhead
      /\ lastID \in Nat /\ Told \in 0..lastID
  BY <1>1, Asking
<1>3. /\ lastID' = lastID /\ log' = log /\ generation' = generation
      /\ eventLink' = eventLink /\ eventStream' = eventStream
      /\ Told' = Told /\ HelloAhead' = HelloAhead
  BY <1>1, LinkStill
<1>4. LogIs /\ StreamIs /\ ShownIs /\ StoreIs /\ TaskIs /\ DaemonFits /\ task \in Tasks
  BY DEF FaultlessIs, TimelineIInv
<1>5. a \in Nat /\ limit \in Nat \ {0}
  BY <1>1, <1>4, TaskFacts
<1>6. (a > 0 => limit = MaxShown) /\ SomeGap(allEvents, a, Told, lastID)
  BY <1>1, <1>4 DEF TaskIs
<1>. HIDE DEF a, limit
<1>7. Answered(allEvents, events, Told, lastID)
  BY <1>2, <1>4, <1>5, <1>6, GapAnswered
<1>. HIDE DEF events
<1>8. answered.stage = "answered" /\ answered.events = events /\ answered # NoTask
  BY TaskStages
<1>9. answered.stage # "asked"
  BY <1>8
<1>. HIDE DEF answered
<1>10. LogIs'
  BY <1>3, <1>4, LogStill
<1>11. StoreIs'
  BY <1>1, <1>2, <1>4, Saves
<1>12. ShownIs'
  BY <1>1, <1>3, <1>4 DEF ShownIs
<1>13. StreamIs'
  BY <1>1, <1>2, <1>3, <1>4 DEF StreamIs
<1>14. allEvents' = allEvents
  BY <1>1
<1>15. TaskIs'
  BY <1>1, <1>3, <1>7, <1>8, <1>9, <1>14 DEF TaskIs
<1>. QED BY <1>10, <1>11, <1>12, <1>13, <1>15 DEF FaultlessIs

LEMMA BackfilledCatches ==
    ASSUME TimelineIInv, FaultlessIs, Backfilled
    PROVE  FaultlessIs'
<1>. DEFINE e == allEvents'
            events == task.events
<1>1. /\ task.stage = "answered" /\ Ingest(events) /\ task' = NoTask
      /\ UNCHANGED <<daemonVars, linkVars>> /\ running' = running
  BY DEF Backfilled
<1>2. /\ eventLink /\ running /\ ~HelloAhead
      /\ lastID \in Nat /\ Told \in 0..lastID
  BY <1>1, Asking
<1>3. /\ lastID' = lastID /\ log' = log /\ generation' = generation
      /\ eventLink' = eventLink /\ eventStream' = eventStream
      /\ Told' = Told /\ HelloAhead' = HelloAhead
  BY <1>1, LinkStill
<1>4. LogIs /\ StreamIs /\ ShownIs /\ StoreIs /\ TaskIs /\ HeldFits /\ task \in Tasks
  BY DEF FaultlessIs, TimelineIInv
<1>5. events \in Seq(TimelineEvent) /\ Ordered(allEvents)
  BY <1>1, <1>4, TaskFacts DEF HeldFits, Timeline
<1>6. Answered(allEvents, events, Told, lastID)
  BY <1>1, <1>4 DEF TaskIs
<1>. HIDE DEF events
<1>7. /\ IsMerged(e, allEvents, events) /\ lastSeenEventID' = LastIdOf(e)
      /\ \/ UNCHANGED <<allEvents, lastSeenEventID, storeVars>>
         \/ pending' = Save(allEvents', lastSeenEventID') /\ UNCHANGED <<writes, file, saved>>
  BY <1>1, <1>4, <1>5, IngestMerges
<1>8. SomeWhole(e, Told, lastID) /\ Genuine(events, lastID)
  BY <1>2, <1>5, <1>6, <1>7, AnsweredWhole
<1>9. Genuine(e, lastID)
  <2>1. Genuine(allEvents, lastID)
    BY <1>4 DEF ShownIs
  <2>. QED BY <1>2, <1>5, <1>7, <1>8, <2>1, GenuineMerges
<1>10. LogIs'
  BY <1>3, <1>4, LogStill
<1>11. StoreIs'
  BY <1>1, <1>2, <1>4, <1>7, Saves
<1>12. ShownIs'
  BY <1>3, <1>7, <1>9 DEF ShownIs
<1>13. StreamIs'
  BY <1>1, <1>2, <1>3, <1>4 DEF StreamIs
<1>14. task'.stage # "asked" /\ task'.stage # "answered"
  BY <1>1, TaskStages
<1>15. Reach' = Told
  BY <1>2, <1>3 DEF Reach
<1>16. TaskIs'
  BY <1>3, <1>8, <1>14, <1>15 DEF TaskIs
<1>. QED BY <1>10, <1>11, <1>12, <1>13, <1>16 DEF FaultlessIs

\* All but the store rests.
LEMMA OnlyStore ==
    ASSUME FaultlessIs, UNCHANGED <<daemonVars, linkVars, running, appVars>>
    PROVE  LogIs' /\ StreamIs' /\ ShownIs' /\ TaskIs'
<1>1. /\ lastID' = lastID /\ log' = log /\ generation' = generation
      /\ eventLink' = eventLink /\ eventStream' = eventStream
      /\ Told' = Told /\ HelloAhead' = HelloAhead
  BY LinkStill
<1>2. running' = running /\ allEvents' = allEvents /\ lastSeenEventID' = lastSeenEventID /\ task' = task
  BY DEF appVars
<1>3. LogIs /\ StreamIs /\ ShownIs /\ TaskIs
  BY DEF FaultlessIs
<1>4. LogIs'
  BY <1>1, <1>3, LogStill
<1>5. StreamIs'
  BY <1>1, <1>2, <1>3 DEF StreamIs
<1>6. ShownIs'
  BY <1>1, <1>2, <1>3 DEF ShownIs
<1>7. Reach' = Reach
  BY <1>1, <1>2 DEF Reach
<1>8. TaskIs'
  BY <1>1, <1>2, <1>3, <1>7 DEF TaskIs
<1>. QED BY <1>4, <1>5, <1>6, <1>8

LEMMA FlushCatches ==
    ASSUME FaultlessIs, Faults = {}, Flush
    PROVE  FaultlessIs'
<1>. DEFINE v == [save |-> pending, done |-> FALSE]
<1>1. /\ UNCHANGED <<daemonVars, linkVars, running, appVars>> /\ UNCHANGED <<file, saved>>
      /\ writes = {} /\ writes' = (IF pending.real THEN writes \cup {v} ELSE writes) /\ pending' = NoSave
  BY DEF Flush
<1>2. v.save = pending /\ ~v.done
  OBVIOUS
<1>. HIDE DEF v
<1>3. ~pending'.real
  BY <1>1 DEF NoSave
<1>4. StoreIs
  BY DEF FaultlessIs
<1>5. running' = running /\ allEvents' = allEvents /\ lastSeenEventID' = lastSeenEventID /\ lastID' = lastID
  BY <1>1 DEF appVars, daemonVars
<1>6. \A w \in writes' : w = v /\ pending.real
  BY <1>1
<1>7. ASSUME running PROVE SavingIs'
  <2>1. SavingIs
    BY <1>4, <1>7 DEF StoreIs
  <2>2. CASE pending.real
    <3>1. pending = Save(allEvents, lastSeenEventID) /\ writes' # {}
      BY <1>1, <2>1, <2>2 DEF SavingIs
    <3>. QED BY <1>2, <1>3, <1>5, <1>6, <3>1 DEF SavingIs
  <2>3. CASE ~pending.real
    <3>1. writes' = {} /\ file = allEvents /\ saved = lastSeenEventID
      BY <1>1, <2>1, <2>3 DEF SavingIs
    <3>. QED BY <1>1, <1>3, <1>5, <3>1 DEF SavingIs
  <2>. QED BY <2>2, <2>3
<1>8. ASSUME ~running PROVE SavedIs'
  <2>1. SavedIs
    BY <1>4, <1>8 DEF StoreIs
  <2>2. writes' = {}
    BY <1>1, <2>1 DEF SavedIs
  <2>. QED BY <1>1, <1>3, <1>5, <2>1, <2>2 DEF SavedIs
<1>9. StoreIs'
  BY <1>5, <1>6, <1>7, <1>8 DEF StoreIs
<1>. QED BY <1>1, <1>9, OnlyStore DEF FaultlessIs

\* A write means that the app runs.
LEMMA WriteRuns ==
    ASSUME StoreIs, NEW w \in writes
    PROVE  running /\ SavingIs /\ writes = {w}
BY DEF StoreIs, SavedIs

LEMMA WriteCatches ==
    ASSUME FaultlessIs, NEW w \in writes, Write(w)
    PROVE  FaultlessIs'
<1>. DEFINE v == [save |-> w.save, done |-> TRUE]
<1>1. /\ UNCHANGED <<daemonVars, linkVars, running, appVars>> /\ UNCHANGED <<pending, saved>>
      /\ file' = w.save.events /\ writes' = (writes \ {w}) \cup {v}
  BY DEF Write
<1>2. v.save = w.save
  OBVIOUS
<1>. HIDE DEF v
<1>3. running /\ SavingIs /\ writes = {w}
  BY WriteRuns DEF FaultlessIs
<1>4. writes' = {v}
  BY <1>1, <1>3
<1>5. running' = running /\ allEvents' = allEvents /\ lastSeenEventID' = lastSeenEventID
  BY <1>1 DEF appVars
<1>6. SavingIs'
  <2>1. CASE pending.real
    BY <1>1, <1>3, <1>5, <2>1 DEF SavingIs
  <2>2. CASE ~pending.real
    <3>1. w.save = Save(allEvents, lastSeenEventID)
      BY <1>3, <2>2 DEF SavingIs
    <3>2. file' = allEvents
      BY <1>1, <3>1 DEF Save
    <3>. QED BY <1>1, <1>2, <1>4, <1>5, <2>2, <3>1, <3>2 DEF SavingIs
  <2>. QED BY <2>1, <2>2
<1>7. StoreIs'
  BY <1>3, <1>4, <1>5, <1>6 DEF StoreIs
<1>. QED BY <1>1, <1>7, OnlyStore DEF FaultlessIs

LEMMA RecordCatches ==
    ASSUME FaultlessIs, NEW w \in writes, Record(w)
    PROVE  FaultlessIs'
<1>1. /\ UNCHANGED <<daemonVars, linkVars, running, appVars>> /\ UNCHANGED <<pending, file>>
      /\ w.done /\ saved' = w.save.lastSeen /\ writes' = writes \ {w}
  BY DEF Record
<1>2. running /\ SavingIs /\ writes = {w}
  BY WriteRuns DEF FaultlessIs
<1>3. writes' = {}
  BY <1>1, <1>2
<1>4. running' = running /\ allEvents' = allEvents /\ lastSeenEventID' = lastSeenEventID
  BY <1>1 DEF appVars
<1>5. SavingIs'
  <2>1. CASE pending.real
    BY <1>1, <1>2, <1>4, <2>1 DEF SavingIs
  <2>2. CASE ~pending.real
    <3>1. w.save = Save(allEvents, lastSeenEventID) /\ file = allEvents
      BY <1>1, <1>2, <2>2 DEF SavingIs
    <3>2. saved' = lastSeenEventID
      BY <1>1, <3>1 DEF Save
    <3>. QED BY <1>1, <1>3, <1>4, <2>2, <3>1, <3>2 DEF SavingIs
  <2>. QED BY <2>1, <2>2
<1>6. StoreIs'
  BY <1>2, <1>3, <1>4, <1>5 DEF StoreIs
<1>. QED BY <1>1, <1>6, OnlyStore DEF FaultlessIs

\* With nothing under way the timeline is whole up to its end.
LEMMA CalmWhole ==
    ASSUME TimelineIInv, FaultlessIs, running, eventStream = <<>>, task = NoTask
    PROVE  /\ SomeWhole(allEvents, LastIdOf(allEvents), lastID) /\ ~HelloAhead
           /\ Told = lastID /\ lastID \in Nat
           /\ eventLink => SomeWhole(allEvents, lastID, lastID) /\ LastIdOf(allEvents) = lastID
<1>1. lastID \in Nat /\ Ordered(allEvents)
  BY DEF TimelineIInv, DaemonFits, HeldFits, Timeline
<1>2. ~HelloAhead /\ Told = lastID
  BY <1>1 DEF HelloAhead, Told
<1>3. SomeWhole(allEvents, Reach, lastID) /\ Genuine(allEvents, lastID)
  BY DEF FaultlessIs, TaskIs, ShownIs
<1>4. CASE eventLink
  <2>1. SomeWhole(allEvents, lastID, lastID)
    BY <1>2, <1>3, <1>4 DEF Reach
  <2>2. LastIdOf(allEvents) = lastID
    BY <1>1, <1>3, <2>1, WholeLast
  <2>. QED BY <1>1, <1>2, <2>1, <2>2
<1>5. CASE ~eventLink
  <2>1. Reach = LastIdOf(allEvents)
    BY <1>5 DEF Reach
  <2>. QED BY <1>1, <1>2, <1>3, <1>5, <2>1
<1>. QED BY <1>4, <1>5

LEMMA QuitCatches ==
    ASSUME TimelineIInv, FaultlessIs, Faults = {}, Quit
    PROVE  FaultlessIs'
<1>1. running /\ eventStream = <<>> /\ task = NoTask /\ writes = {}
  BY DEF Quit, Calm
<1>2. SomeWhole(allEvents, LastIdOf(allEvents), lastID) /\ lastID \in Nat
  BY <1>1, CalmWhole
<1>3. /\ Genuine(allEvents, lastID) /\ lastSeenEventID = LastIdOf(allEvents)
      /\ SavingIs /\ LogIs
  BY <1>1 DEF FaultlessIs, ShownIs, StoreIs
<1>4. /\ eventStream' = <<>> /\ ~running' /\ ~eventLink' /\ allEvents' = <<>> /\ lastSeenEventID' = 0 /\ task' = NoTask
      /\ pending' = NoSave /\ writes' = {} /\ UNCHANGED daemonVars
  BY DEF Quit, Ends
<1>5. file' = allEvents /\ saved' = lastSeenEventID
  <2>1. CASE pending.real
    <3>1. pending = Save(allEvents, lastSeenEventID)
      BY <1>3, <2>1 DEF SavingIs
    <3>2. file' = pending.events /\ saved' = pending.lastSeen
      BY <2>1 DEF Quit
    <3>. QED BY <3>1, <3>2 DEF Save
  <2>2. CASE ~pending.real
    <3>1. UNCHANGED <<file, saved>>
      BY <2>2 DEF Quit
    <3>. QED BY <1>1, <1>3, <2>2, <3>1 DEF SavingIs
  <2>. QED BY <2>1, <2>2
<1>6. lastID' = lastID /\ log' = log /\ generation' = generation
  BY <1>4 DEF daemonVars
<1>7. LogIs'
  BY <1>3, <1>6, LogStill
<1>8. ~pending'.real
  BY <1>4 DEF NoSave
<1>9. SavedIs'
  BY <1>2, <1>3, <1>4, <1>5, <1>6, <1>8 DEF SavedIs
<1>10. StoreIs'
  BY <1>4, <1>9 DEF StoreIs
<1>11. ShownIs'
  <2>1. LastIdOf(<<>>) = 0
    BY NoTimeline
  <2>. QED BY <1>4, <2>1 DEF ShownIs, Genuine
<1>12. StreamIs'
  <2>1. Telling(<<>>, lastID)
    BY <1>2, TellingNothing
  <2>2. Len(<<>>) = 0
    OBVIOUS
  <2>3. Told' >= 0
    BY <1>2, <1>4, <1>6, <2>2 DEF Told
  <2>4. ~HelloAhead'
    BY <1>4 DEF HelloAhead
  <2>. QED BY <1>4, <1>6, <2>1, <2>3, <2>4 DEF StreamIs
<1>13. TaskIs'
  <2>1. task'.stage # "asked" /\ task'.stage # "answered"
    BY <1>4, TaskStages
  <2>. QED BY <1>4, <2>1 DEF TaskIs
<1>. QED BY <1>7, <1>10, <1>11, <1>12, <1>13 DEF FaultlessIs

LEMMA LaunchCatches ==
    ASSUME TimelineIInv, FaultlessIs, Launch
    PROVE  FaultlessIs'
<1>1. /\ ~running /\ running'
      /\ allEvents' = Merged(<<>>, file)
      /\ lastSeenEventID' = (IF file = <<>> THEN 0 ELSE Smaller(saved, LastIdOf(file)))
      /\ UNCHANGED <<daemonVars, linkVars>> /\ UNCHANGED task /\ UNCHANGED storeVars
  BY DEF Launch, Loaded
<1>2. SavedIs /\ StreamIs /\ LogIs /\ StoreIs /\ ~eventLink /\ eventStream = <<>> /\ task = NoTask
  BY <1>1 DEF FaultlessIs, StoreIs, StreamIs
<1>3. Timeline(file) /\ lastID \in Nat
  BY DEF TimelineIInv, StoreFits, DaemonFits
<1>4. allEvents' = file
  BY <1>1, <1>3, MergedSame
<1>5. /\ ~pending.real /\ writes = {} /\ Genuine(file, lastID)
      /\ saved = LastIdOf(file) /\ SomeWhole(file, LastIdOf(file), lastID)
  BY <1>2 DEF SavedIs
<1>6. LastIdOf(file) \in Nat /\ (file = <<>> => LastIdOf(file) = 0)
  BY <1>3, LastIdFits DEF Timeline, LastIdOf
<1>7. lastSeenEventID' = LastIdOf(file)
  BY <1>1, <1>5, <1>6, SmallerIs
<1>8. /\ lastID' = lastID /\ log' = log /\ generation' = generation
      /\ eventLink' = eventLink /\ eventStream' = eventStream
      /\ Told' = Told /\ HelloAhead' = HelloAhead
  BY <1>1, LinkStill
<1>9. pending' = pending /\ writes' = writes /\ file' = file /\ saved' = saved
  BY <1>1 DEF storeVars
<1>10. LogIs'
  BY <1>2, <1>8, LogStill
<1>11. ShownIs'
  BY <1>4, <1>5, <1>7, <1>8 DEF ShownIs
<1>12. SavingIs'
  BY <1>4, <1>5, <1>7, <1>9 DEF SavingIs
<1>13. StoreIs'
  BY <1>1, <1>5, <1>9, <1>12 DEF StoreIs
<1>14. ~HelloAhead
  BY <1>2 DEF HelloAhead
<1>15. StreamIs'
  BY <1>1, <1>2, <1>8, <1>14 DEF StreamIs
<1>16. Reach' = LastIdOf(file)
  BY <1>2, <1>4, <1>8 DEF Reach
<1>17. TaskIs'
  <2>1. task'.stage # "asked" /\ task'.stage # "answered"
    BY <1>1, <1>2, TaskStages
  <2>. QED BY <1>4, <1>5, <1>8, <1>16, <2>1 DEF TaskIs
<1>. QED BY <1>10, <1>11, <1>13, <1>15, <1>17 DEF FaultlessIs

LEMMA ConnectCatches ==
    ASSUME TimelineIInv, FaultlessIs, ConnectEvents
    PROVE  FaultlessIs'
<1>. DEFINE hello == HelloOf(lastID)
<1>1. /\ running /\ running' /\ ~eventLink /\ eventLink' /\ eventStream' = Append(eventStream, hello)
      /\ UNCHANGED daemonVars /\ UNCHANGED appVars /\ UNCHANGED storeVars
  BY DEF ConnectEvents, HelloOf
<1>2. LogIs /\ ShownIs /\ StoreIs /\ eventStream = <<>> /\ task = NoTask
  BY <1>1 DEF FaultlessIs, StreamIs
<1>3. SomeWhole(allEvents, LastIdOf(allEvents), lastID) /\ lastID \in Nat
  BY <1>1, <1>2, CalmWhole
<1>4. Ordered(allEvents)
  BY DEF TimelineIInv, HeldFits, Timeline
<1>5. /\ Telling(<<hello>>, lastID) /\ Len(<<hello>>) = 1
      /\ <<hello>> # <<>> /\ Head(<<hello>>) = hello /\ hello.kind = "hello"
  BY <1>3, TellingNothing, MessagesOf
<1>. HIDE DEF hello
<1>6. eventStream' = <<hello>>
  BY <1>1, <1>2
<1>7. lastID' = lastID /\ log' = log /\ generation' = generation
  BY <1>1 DEF daemonVars
<1>8. allEvents' = allEvents /\ lastSeenEventID' = lastSeenEventID /\ task' = task
  BY <1>1 DEF appVars
<1>9. HelloAhead'
  BY <1>5, <1>6 DEF HelloAhead
<1>10. Told' + 1 = lastID
  BY <1>3, <1>5, <1>6, <1>7 DEF Told
<1>11. LastIdOf(allEvents) <= lastID
  BY <1>2, <1>3, <1>4, GenuineLast DEF ShownIs
<1>12. LogIs'
  BY <1>2, <1>7, LogStill
<1>13. ShownIs'
  BY <1>2, <1>7, <1>8 DEF ShownIs
<1>14. StoreIs'
  BY <1>1, <1>2, <1>8, Saves
<1>15. StreamIs'
  BY <1>1, <1>2, <1>5, <1>6, <1>7, <1>8, <1>9, <1>10, <1>11 DEF StreamIs
<1>16. Reach' = LastIdOf(allEvents)
  BY <1>8, <1>9 DEF Reach
<1>17. TaskIs'
  <2>1. task'.stage # "asked" /\ task'.stage # "answered"
    BY <1>2, <1>8, TaskStages
  <2>. QED BY <1>3, <1>7, <1>8, <1>16, <2>1 DEF TaskIs
<1>. QED BY <1>12, <1>13, <1>14, <1>15, <1>17 DEF FaultlessIs

LEMMA DisconnectCatches ==
    ASSUME TimelineIInv, FaultlessIs, Faults = {}, DisconnectEvents
    PROVE  FaultlessIs'
<1>1. /\ eventLink /\ ~eventLink' /\ eventStream = <<>> /\ task = NoTask
      /\ eventStream' = eventStream /\ running' = running
      /\ UNCHANGED daemonVars /\ UNCHANGED appVars /\ UNCHANGED storeVars
  BY DEF DisconnectEvents, Calm
<1>2. LogIs /\ ShownIs /\ StoreIs /\ StreamIs /\ running
  BY <1>1 DEF FaultlessIs, StreamIs
<1>3. SomeWhole(allEvents, LastIdOf(allEvents), lastID) /\ lastID \in Nat /\ ~HelloAhead
  BY <1>1, <1>2, CalmWhole
<1>4. lastID' = lastID /\ log' = log /\ generation' = generation
  BY <1>1 DEF daemonVars
<1>5. allEvents' = allEvents /\ lastSeenEventID' = lastSeenEventID /\ task' = task
  BY <1>1 DEF appVars
<1>6. Told' = Told /\ HelloAhead' = HelloAhead
  BY <1>1, <1>4 DEF Told, HelloAhead
<1>7. LogIs'
  BY <1>2, <1>4, LogStill
<1>8. ShownIs'
  BY <1>2, <1>4, <1>5 DEF ShownIs
<1>9. StoreIs'
  BY <1>1, <1>2, <1>5, Saves
<1>10. StreamIs'
  BY <1>1, <1>2, <1>3, <1>4, <1>5, <1>6 DEF StreamIs
<1>11. Reach' = LastIdOf(allEvents)
  BY <1>1, <1>5 DEF Reach
<1>12. TaskIs'
  <2>1. task'.stage # "asked" /\ task'.stage # "answered"
    BY <1>1, <1>5, TaskStages
  <2>. QED BY <1>3, <1>4, <1>5, <1>11, <2>1 DEF TaskIs
<1>. QED BY <1>7, <1>8, <1>9, <1>10, <1>12 DEF FaultlessIs

LEMMA LogEmits ==
    ASSUME DaemonFits, LogIs, Emit
    PROVE  LogIs' /\ lastID \in Nat /\ lastID' = lastID + 1
<1>. DEFINE n == lastID
            m == n + 1
            len == Len(log)
            e == [id |-> lastID + 1, log |-> generation]
            a == Append(log, e)
            base == n - len
<1>1. /\ n \in Nat /\ Ordered(log) /\ generation = 0
      /\ len = (IF n <= Capacity THEN n ELSE Capacity)
      /\ \A i \in 1..len : log[i] = Ev(n - len + i)
  BY DEF DaemonFits, LogIs
<1>2. /\ log' = Newest(a, Capacity) /\ lastID' = m /\ generation' = generation
  BY DEF Emit
<1>3. e = Ev(m)
  BY <1>1 DEF Ev
<1>. HIDE DEF e, n, len
<1>4. n \in Nat /\ m \in Nat /\ Ev(m) \in TimelineEvent /\ Ev(m).id = m
  BY <1>1, EventIs
<1>5. len \in Nat /\ len <= n /\ base \in Nat /\ n = base + len
  BY <1>1, SizesAssumption
<1>6. \A i \in 1..len : base + i \in Nat /\ base + i <= n
  BY <1>5
<1>7. \A i \in 1..len : log[i] = Ev(base + i) /\ log[i].id = base + i
  BY <1>1, <1>6, EventIs
<1>. HIDE DEF base
<1>8. \A i \in 1..len : log[i].id < e.id
  BY <1>3, <1>4, <1>6, <1>7
<1>9. /\ Ordered(a) /\ Len(a) = len + 1
      /\ \A i \in 1..len : a[i] = log[i]
      /\ a[len + 1] = e
  BY <1>1, <1>3, <1>4, <1>8, OneMore DEF len
<1>. HIDE DEF a
<1>10. \A i \in 1..Len(a) : a[i] = Ev(base + i)
  <2>. SUFFICES ASSUME NEW i \in 1..Len(a) PROVE a[i] = Ev(base + i)
    OBVIOUS
  <2>1. i \in 1..len \/ (i = len + 1 /\ base + i = m)
    BY <1>5, <1>9
  <2>. QED BY <1>3, <1>7, <1>9, <2>1
<1>. DEFINE u == log'
<1>11. PICK d \in Nat : IsEnd(u, a, Capacity, d)
  BY <1>2, <1>9, NewestFacts, SizesAssumption
<1>12. /\ Ordered(u) /\ Len(a) = d + Len(u) /\ Len(u) <= Capacity /\ (d > 0 => Len(u) = Capacity)
       /\ \A j \in 1..Len(u) : d + j \in 1..Len(a) /\ u[j] = a[d + j]
  BY <1>11 DEF IsEnd
<1>. HIDE DEF u
<1>13. Len(u) \in Nat
  BY <1>12, EventFits
<1>14. Len(u) = (IF m <= Capacity THEN m ELSE Capacity)
  <2>1. len + 1 = d + Len(u) /\ Len(u) <= Capacity /\ (d > 0 => Len(u) = Capacity)
    BY <1>9, <1>12
  <2>2. len = (IF n <= Capacity THEN n ELSE Capacity) /\ Capacity \in Nat
    BY <1>1, SizesAssumption
  <2>. QED BY <1>4, <1>5, <1>13, <2>1, <2>2
<1>15. \A i \in 1..Len(u) : u[i] = Ev(m - Len(u) + i)
  <2>. SUFFICES ASSUME NEW i \in 1..Len(u) PROVE u[i] = Ev(m - Len(u) + i)
    OBVIOUS
  <2>1. u[i] = Ev(base + (d + i))
    BY <1>10, <1>12
  <2>2. len + 1 = d + Len(u) /\ i \in Nat
    <3>1. i \in Nat
      BY <1>13
    <3>. QED BY <1>9, <1>12, <3>1
  <2>3. base + (d + i) = m - Len(u) + i
    BY <1>4, <1>5, <1>13, <2>2
  <2>. QED BY <2>1, <2>3
<1>16. generation' = 0 /\ lastID' = m
  BY <1>1, <1>2
<1>. HIDE DEF m
<1>17. LogIs'
  BY <1>14, <1>15, <1>16 DEF LogIs, u
<1>. QED BY <1>4, <1>16, <1>17 DEF m, n

LEMMA EmitStream ==
    ASSUME TimelineIInv, FaultlessIs, Emit
    PROVE  /\ Telling(eventStream', lastID') /\ HelloAhead' = HelloAhead
           /\ eventLink => Told' = Told
           /\ ~eventLink => eventStream' = <<>> /\ Told' >= 0
<1>. DEFINE n == lastID
            m == lastID'
            q == eventStream
<1>1. /\ n \in Nat /\ q \in Seq(Messages) /\ Telling(q, n) /\ generation = 0
      /\ ~eventLink => q = <<>>
  BY DEF TimelineIInv, DaemonFits, FaultlessIs, StreamIs, LogIs
<1>2. /\ m = n + 1
      /\ eventStream' = (IF eventLink THEN Append(q, EventOf(m)) ELSE q)
  BY <1>1 DEF Emit, EventOf, Ev
<1>3. m \in Nat
  BY <1>1, <1>2
<1>4. Len(<<>>) = 0
  OBVIOUS
<1>. HIDE DEF n, m, q
<1>5. CASE eventLink
  <2>. DEFINE u == Append(q, EventOf(m))
  <2>1. /\ Telling(u, m) /\ Len(u) = Len(q) + 1 /\ u # <<>> /\ Len(q) \in Nat
        /\ q # <<>> => Head(u) = Head(q)
        /\ q = <<>> => Head(u).kind = "event"
    BY <1>1, <1>2, <1>3, TellingMore
  <2>2. eventStream' = u
    BY <1>2, <1>5
  <2>. HIDE DEF u
  <2>3. HelloAhead' <=> HelloAhead
    BY <2>1, <2>2 DEF HelloAhead, q
  <2>4. Told' = m - Len(u) /\ Told = n - Len(q)
    BY <2>2 DEF Told, m, n, q
  <2>5. Told' = Told
    BY <1>1, <1>2, <1>3, <2>1, <2>4
  <2>6. HelloAhead' = HelloAhead
    BY <2>3 DEF HelloAhead
  <2>7. Telling(eventStream', lastID')
    BY <2>1, <2>2 DEF m
  <2>. QED BY <1>5, <2>5, <2>6, <2>7
<1>6. CASE ~eventLink
  <2>1. q = <<>> /\ eventStream' = <<>>
    BY <1>1, <1>2, <1>6
  <2>2. Telling(<<>>, m)
    BY <1>3, TellingNothing
  <2>3. Told' = m - 0
    BY <1>4, <2>1 DEF Told, m
  <2>4. HelloAhead' = HelloAhead
    BY <2>1 DEF HelloAhead, q
  <2>5. Told' >= 0
    BY <1>3, <2>3
  <2>. QED BY <1>6, <2>1, <2>2, <2>4, <2>5 DEF m
<1>. QED BY <1>5, <1>6

LEMMA EmitCatches ==
    ASSUME TimelineIInv, FaultlessIs, Emit
    PROVE  FaultlessIs'
<1>. DEFINE n == lastID
            m == lastID'
<1>1. /\ Telling(eventStream', lastID') /\ HelloAhead' = HelloAhead
      /\ eventLink => Told' = Told
      /\ ~eventLink => eventStream' = <<>> /\ Told' >= 0
  BY EmitStream
<1>2. LogIs' /\ n \in Nat /\ m = n + 1
  BY LogEmits DEF TimelineIInv, FaultlessIs
<1>3. /\ running' = running /\ eventLink' = eventLink
      /\ UNCHANGED appVars /\ UNCHANGED storeVars
  BY DEF Emit
<1>4. allEvents' = allEvents /\ lastSeenEventID' = lastSeenEventID /\ task' = task
  BY <1>3 DEF appVars
<1>5. pending' = pending /\ writes' = writes /\ file' = file /\ saved' = saved
  BY <1>3 DEF storeVars
<1>6. StreamIs /\ ShownIs /\ StoreIs /\ TaskIs
  BY DEF FaultlessIs
<1>7. Ordered(allEvents) /\ Ordered(file) /\ Len(eventStream) \in Nat
  BY DEF TimelineIInv, HeldFits, StoreFits, Timeline
<1>8. Genuine(allEvents, n) /\ lastSeenEventID = LastIdOf(allEvents)
  BY <1>6 DEF ShownIs
<1>9. m \in Nat /\ LastIdOf(allEvents) \in 0..n
  BY <1>2, <1>7, <1>8, GenuineLast
<1>10. ~HelloAhead => Told \in 0..n
  <2>1. ~HelloAhead => Told >= 0
    BY <1>6 DEF StreamIs
  <2>2. Told \in Int /\ Told <= n
    BY <1>2, <1>7 DEF Told
  <2>. QED BY <1>2, <2>1, <2>2
<1>11. StreamIs'
  <2>1. CASE eventLink
    BY <1>1, <1>3, <1>4, <1>6, <2>1 DEF StreamIs
  <2>2. CASE ~eventLink
    <3>1. task = NoTask
      BY <1>6, <2>2 DEF StreamIs
    <3>2. ~HelloAhead'
      BY <1>1, <2>2 DEF HelloAhead
    <3>. QED BY <1>1, <1>3, <1>4, <2>2, <3>1, <3>2 DEF StreamIs
  <2>. QED BY <2>1, <2>2
<1>12. ShownIs'
  <2>1. Genuine(allEvents, n + 1)
    BY <1>2, <1>8, GenuineGrows
  <2>. QED BY <1>2, <1>4, <1>8, <2>1 DEF ShownIs
<1>13. StoreIs'
  <2>1. ASSUME running PROVE SavingIs'
    BY <1>4, <1>5, <1>6, <2>1 DEF StoreIs, SavingIs
  <2>2. ASSUME ~running PROVE SavedIs'
    <3>1. /\ ~pending.real /\ writes = {} /\ allEvents = <<>> /\ Genuine(file, n)
          /\ saved = LastIdOf(file) /\ SomeWhole(file, LastIdOf(file), n)
      BY <1>6, <2>2 DEF StoreIs, SavedIs
    <3>2. LastIdOf(file) \in 0..n
      BY <1>2, <1>7, <3>1, GenuineLast
    <3>3. Genuine(file, n + 1)
      BY <1>2, <3>1, GenuineGrows
    <3>4. Genuine(file, m)
      BY <1>2, <3>3
    <3>. HIDE DEF n, m
    <3>5. SomeWhole(file, LastIdOf(file), m)
      BY <1>2, <1>9, <3>1, <3>2, WholeGrows
    <3>. QED BY <1>4, <1>5, <3>1, <3>4, <3>5 DEF SavedIs, m
  <2>. QED BY <1>3, <1>5, <1>6, <2>1, <2>2 DEF StoreIs
<1>14. TaskIs'
  <2>1. ASSUME running', task' = NoTask PROVE SomeWhole(allEvents', Reach', lastID')
    <3>1. SomeWhole(allEvents, Reach, n)
      BY <1>3, <1>4, <1>6, <2>1 DEF TaskIs
    <3>2. Reach \in 0..n
      BY <1>9, <1>10 DEF Reach
    <3>3. Reach' = Reach
      BY <1>1, <1>3, <1>4 DEF Reach
    <3>. HIDE DEF n, m
    <3>4. SomeWhole(allEvents, Reach, m)
      BY <1>2, <1>9, <3>1, <3>2, WholeGrows
    <3>. QED BY <1>4, <3>3, <3>4 DEF m
  <2>2. ASSUME task.stage # "none"
        PROVE  eventLink /\ Told' = Told /\ Told \in 0..n
    <3>1. eventLink /\ Told \in 0..n
      BY <2>2, Asking
    <3>. QED BY <1>1, <3>1
  <2>3. ASSUME task'.stage = "asked"
        PROVE  (task'.since > 0 => task'.limit = MaxShown) /\ SomeGap(allEvents', task'.since, Told', lastID')
    <3>1. (task.since > 0 => task.limit = MaxShown) /\ SomeGap(allEvents, task.since, Told, n)
      BY <1>4, <1>6, <2>3 DEF TaskIs
    <3>2. Told' = Told /\ Told \in 0..n
      BY <1>4, <2>2, <2>3
    <3>. HIDE DEF n, m
    <3>3. SomeGap(allEvents, task.since, Told, m)
      BY <1>2, <1>9, <3>1, <3>2, GapGrows
    <3>. QED BY <1>4, <3>1, <3>2, <3>3 DEF m
  <2>4. ASSUME task'.stage = "answered"
        PROVE  Answered(allEvents', task'.events, Told', lastID')
    <3>1. Answered(allEvents, task.events, Told, n)
      BY <1>4, <1>6, <2>4 DEF TaskIs
    <3>2. Told' = Told /\ Told \in 0..n
      BY <1>4, <2>2, <2>4
    <3>. HIDE DEF n, m
    <3>3. Answered(allEvents, task.events, Told, m)
      BY <1>2, <1>9, <3>1, <3>2, AnsweredGrows
    <3>. QED BY <1>4, <3>2, <3>3 DEF m
  <2>. QED BY <2>1, <2>3, <2>4 DEF TaskIs
<1>. QED BY <1>2, <1>11, <1>12, <1>13, <1>14 DEF FaultlessIs

LEMMA EventsInitCatches == EventsInit => CaughtUpIInv
<1>. SUFFICES ASSUME EventsInit PROVE FaultlessIs
  BY DEF CaughtUpIInv
<1>1. /\ log = <<>> /\ lastID = 0 /\ generation = 0 /\ ~eventLink /\ eventStream = <<>> /\ running
      /\ allEvents = <<>> /\ lastSeenEventID = 0 /\ task = NoTask
      /\ pending = NoSave /\ writes = {} /\ file = <<>> /\ saved = 0
  BY DEF EventsInit
<1>2. LastIdOf(<<>>) = 0 /\ Telling(<<>>, 0)
  BY NoTimeline, TellingNothing
<1>3. LogIs
  BY <1>1, SizesAssumption DEF LogIs
<1>4. ~HelloAhead /\ Told >= 0
  BY <1>1 DEF HelloAhead, Told
<1>5. StreamIs
  BY <1>1, <1>2, <1>4 DEF StreamIs
<1>6. ShownIs
  BY <1>1, <1>2 DEF ShownIs, Genuine
<1>7. SavingIs
  BY <1>1 DEF SavingIs, NoSave
<1>8. StoreIs
  BY <1>1, <1>7 DEF StoreIs
<1>9. SomeWhole(allEvents, Reach, lastID)
  <2>1. Reach = 0
    BY <1>1, <1>2 DEF Reach
  <2>2. 1 \in 1..(0 + 1) /\ \A k \in 1..0 : FALSE
    OBVIOUS
  <2>. QED BY <1>1, <2>1, <2>2 DEF SomeWhole, Whole
<1>10. TaskIs
  <2>1. task.stage # "asked" /\ task.stage # "answered"
    BY <1>1, TaskStages
  <2>. QED BY <1>9, <2>1 DEF TaskIs
<1>. QED BY <1>3, <1>5, <1>6, <1>8, <1>10 DEF FaultlessIs

LEMMA FaultlessStill ==
    ASSUME FaultlessIs, UNCHANGED eventsVars
    PROVE  FaultlessIs'
<1>1. /\ UNCHANGED <<daemonVars, linkVars, running, appVars>> /\ UNCHANGED storeVars
  BY DEF eventsVars
<1>2. LogIs' /\ StreamIs' /\ ShownIs' /\ TaskIs'
  BY <1>1, OnlyStore
<1>3. /\ pending' = pending /\ writes' = writes /\ file' = file /\ saved' = saved
      /\ running' = running /\ allEvents' = allEvents /\ lastSeenEventID' = lastSeenEventID /\ lastID' = lastID
  BY <1>1 DEF storeVars, appVars, daemonVars
<1>4. StoreIs
  BY DEF FaultlessIs
<1>5. ASSUME running PROVE SavingIs'
  BY <1>3, <1>4, <1>5 DEF StoreIs, SavingIs
<1>6. ASSUME ~running PROVE SavedIs'
  BY <1>3, <1>4, <1>6 DEF StoreIs, SavedIs
<1>7. StoreIs'
  BY <1>3, <1>4, <1>5, <1>6 DEF StoreIs
<1>. QED BY <1>2, <1>7 DEF FaultlessIs

LEMMA CaughtUpInductive ==
    TimelineIInv /\ CaughtUpIInv /\ [EventsNext /\ UNCHANGED eventsPlan]_<<eventsVars, eventsPlan>>
        => CaughtUpIInv'
<1>. SUFFICES ASSUME TimelineIInv, CaughtUpIInv, UNCHANGED eventsPlan,
                     EventsNext \/ UNCHANGED eventsVars, Faults' = {}
              PROVE  FaultlessIs'
  BY DEF CaughtUpIInv
<1>1. Faults = {} /\ FaultlessIs
  BY DEF CaughtUpIInv, Faults
<1>2. CASE EventsNext
  <2>1. CASE HandleEvents
    <3>1. Head(eventStream).kind = "hello" \/ Head(eventStream).kind = "event"
      BY <2>1 DEF HandleEvents
    <3>. QED BY <1>1, <2>1, <3>1, HandleEvent, HandleHello
  <2>2. CASE Answer            BY <1>1, <2>2, AnswerCatches
  <2>3. CASE Backfilled        BY <1>1, <2>3, BackfilledCatches
  <2>4. CASE Flush             BY <1>1, <2>4, FlushCatches
  <2>5. ASSUME NEW w \in writes, Write(w) \/ Record(w) PROVE FaultlessIs'
    BY <1>1, <2>5, WriteCatches, RecordCatches
  <2>6. CASE Quit              BY <1>1, <2>6, QuitCatches
  <2>7. CASE Launch            BY <1>1, <2>7, LaunchCatches
  <2>8. CASE Emit              BY <1>1, <2>8, EmitCatches
  <2>9. CASE ConnectEvents     BY <1>1, <2>9, ConnectCatches
  <2>10. CASE DisconnectEvents BY <1>1, <2>10, DisconnectCatches
  <2>11. ~AnswerFails /\ ~Kill /\ ~LoseLog /\ \A w \in writes : ~WriteFails(w)
    BY <1>1 DEF AnswerFails, Kill, LoseLog, WriteFails
  <2>. QED BY <1>2, <2>1, <2>2, <2>3, <2>4, <2>5, <2>6, <2>7, <2>8, <2>9, <2>10, <2>11 DEF EventsNext
<1>3. CASE UNCHANGED eventsVars
  BY <1>1, <1>3, FaultlessStill
<1>. QED BY <1>2, <1>3

LEMMA CaughtUpInvariant == EventsSpec => []CaughtUpIInv
<1>. QED BY TimelineInvariant, EventsInitCatches, CaughtUpInductive, PTL DEF EventsSpec

LEMMA CaughtUpImplied == TimelineIInv /\ CaughtUpIInv => CaughtUp
<1>. SUFFICES ASSUME TimelineIInv, CaughtUpIInv, EventsSettled, Faults = {}
              PROVE  /\ log # <<>> => allEvents # <<>> /\ Last(allEvents) = Last(log)
                     /\ \A i \in DOMAIN log :
                          allEvents # <<>> /\ log[i].id >= Head(allEvents).id => Contains(allEvents, log[i])
  BY DEF CaughtUp
<1>. DEFINE n == lastID
            len == Len(log)
            E == allEvents
<1>1. FaultlessIs /\ eventLink /\ eventStream = <<>> /\ task = NoTask
  BY DEF CaughtUpIInv, EventsSettled
<1>2. running /\ LogIs /\ Genuine(E, n)
  BY <1>1 DEF FaultlessIs, StreamIs, ShownIs
<1>3. n \in Nat /\ SomeWhole(E, n, n) /\ LastIdOf(E) = n
  BY <1>1, <1>2, CalmWhole
<1>4. Ordered(E) /\ Ordered(log)
  BY DEF TimelineIInv, HeldFits, DaemonFits, Timeline
<1>5. len = (IF n <= Capacity THEN n ELSE Capacity) /\ \A i \in 1..len : log[i] = Ev(n - len + i)
  BY <1>2 DEF LogIs
<1>6. /\ len \in Nat /\ DOMAIN log = 1..len /\ (log # <<>> => len > 0 /\ Last(log) = log[len])
      /\ E \in Seq(TimelineEvent) /\ Len(E) \in Nat /\ (E # <<>> => Len(E) > 0 /\ Last(E) = E[Len(E)] /\ Head(E) = E[1])
  BY <1>4, EventFits DEF Last
<1>7. \A i \in 1..Len(E) : E[i].id \in Nat /\ E[i].id \in 1..n /\ E[i] = Ev(E[i].id)
  BY <1>2, <1>4, EventFits DEF Genuine
<1>8. ASSUME log # <<>> PROVE E # <<>> /\ Last(E) = Last(log)
  <2>1. len > 0 /\ n > 0 /\ len \in 1..len /\ n - len + len = n
    BY <1>3, <1>5, <1>6, <1>8, SizesAssumption
  <2>2. Last(log) = Ev(n)
    BY <1>5, <1>6, <1>8, <2>1
  <2>3. E # <<>>
    BY <1>3, <2>1 DEF LastIdOf
  <2>4. Len(E) \in 1..Len(E) /\ LastIdOf(E) = E[Len(E)].id
    BY <1>4, <1>6, <2>3, LastIdFits
  <2>5. E[Len(E)] = Ev(n)
    BY <1>3, <1>7, <2>4
  <2>. QED BY <1>6, <2>2, <2>3, <2>5
<1>9. ASSUME NEW i \in DOMAIN log, E # <<>>, log[i].id >= Head(E).id PROVE Contains(E, log[i])
  <2>. DEFINE k == n - len + i
  <2>1. i \in 1..len /\ log[i] = Ev(k)
    BY <1>5, <1>6
  <2>2. k \in 1..n /\ k > n - Capacity
    BY <1>3, <1>5, <1>6, <2>1, SizesAssumption
  <2>. HIDE DEF k, n, len, E
  <2>3. k \in Nat /\ log[i].id = k
    BY <2>1, <2>2, EventIs, <1>3
  <2>4. 1 \in 1..Len(E) /\ k >= E[1].id
    BY <1>6, <1>9, <2>3
  <2>5. PICK b \in 1..(n + 1) : (n > 0 => b <= n) /\ Whole(E, b, n, n)
    BY <1>3 DEF SomeWhole
  <2>6. E[1].id >= b /\ E[1].id \in Nat
    BY <1>7, <2>4, <2>5 DEF Whole
  <2>7. k \in b..n
    BY <1>3, <2>2, <2>4, <2>5, <2>6
  <2>8. Here(E, k)
    BY <2>2, <2>5, <2>7 DEF Whole
  <2>9. ~(k < E[1].id)
    BY <2>3, <2>4, <2>6
  <2>10. PICK j \in 1..Len(E) : E[j].id = k
    BY <2>8, <2>9 DEF Here, Has
  <2>11. E[j] = log[i]
    BY <1>7, <2>1, <2>10
  <2>. QED BY <2>11 DEF Contains
<1>. QED BY <1>8, <1>9

\* Without faults, an app that is connected and has nothing under way shows
\* the daemon's newest event, and from its oldest event on everything that the
\* log holds, however live events, backfills, launches and saves came between
\* each other (backfill, ingest, restoreEvents).
THEOREM AppCatchesUp == EventsSpec => []CaughtUp
<1>. QED BY TimelineInvariant, CaughtUpInvariant, CaughtUpImplied, PTL
=============================================================================
