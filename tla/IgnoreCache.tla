---------------------------- MODULE IgnoreCache ----------------------------
(***************************************************************************)
(* Which file events count (common/ignore.go): git is asked whether a file *)
(* is ignored, and its answers for the file and for the directories above  *)
(* it are kept for a while.  An event of a .gitignore throws them away;    *)
(* rules that change in any other way, or while the event is lost, are     *)
(* noticed when the answers have grown old.  The goroutine that reads the  *)
(* events (watchFileSystem) asks for one file at a time, but the rules may *)
(* change while git is at work.                                            *)
(***************************************************************************)
EXTENDS Naturals, Sequences, FiniteSets, Functions

CONSTANTS
    Files, Dirs,
    Above,          \* the directories above each file
    TTL,            \* ignoreCacheTTL
    MaxEntries,     \* ignoreCacheMaxEntries
    MaxEvents,      \* bound: events that wait
    MaxTime         \* bound: ticks of the clock

ASSUME CacheAssumption ==
    /\ ".gitignore" \in Files
    /\ IsFiniteSet(Dirs) /\ Above \in [Files -> SUBSET Dirs]
    /\ {TTL, MaxEntries} \subseteq Nat \ {0} /\ MaxEntries > Cardinality(Dirs)
    /\ {MaxEvents, MaxTime} \subseteq Nat

VARIABLES
    rules,          \* what git ignores: files and directories
    changed,        \* when the rules changed last
    unseen,         \* they changed and no event will say so
    clock, cache, queue,
    pc, path, asked,
    query, found,   \* what git was asked about, and what it says of it
    answer          \* the last decision: to ignore the file

cacheVars == <<rules, changed, unseen, clock, cache, queue, pc, path, asked, query, found, answer>>
walk == <<path, asked, query, found, answer>>

\* What lies in an ignored directory is ignored.
Rules == {r \in SUBSET (Files \cup Dirs) :
             /\ ".gitignore" \notin r
             /\ \A f \in Files : Above[f] \cap r # {} => f \in r}

CacheInit ==
    /\ rules \in Rules /\ changed = 0 /\ unseen = FALSE
    /\ clock = 0 /\ cache = [q \in {} |-> 0] /\ queue = <<>>
    /\ pc = "wait" /\ path = "none" /\ asked = 0 /\ query = {} /\ found = {}
    /\ answer = FALSE

-----------------------------------------------------------------------------
Fresh(q) == q \in DOMAIN cache /\ clock - cache[q].at < TTL

\* Mutant: the event of a .gitignore is like any other.
ShouldIgnoreFileOnly ==
    /\ pc = "wait" /\ queue # <<>>
    /\ path' = Head(queue) /\ queue' = Tail(queue)
    /\ pc' = "look"
    /\ UNCHANGED <<rules, changed, unseen, clock, cache, asked, query, found, answer>>

\* invalidateIgnoreCache, by ShouldIgnoreFile for the file of an event.
ShouldIgnoreFile ==
    /\ pc = "wait" /\ queue # <<>>
    /\ path' = Head(queue) /\ queue' = Tail(queue)
    /\ IF Head(queue) = ".gitignore"
       THEN cache' = [q \in {} |-> 0] /\ unseen' = FALSE
       ELSE UNCHANGED <<cache, unseen>>
    /\ pc' = "look"
    /\ UNCHANGED <<rules, changed, clock, asked, query, found, answer>>

Return == pc' = "wait" /\ path' = "none" /\ asked' = 0 /\ query' = {} /\ found' = {}
Decide(ignored) == Return /\ answer' = ignored

\* isFileIgnoredByGit looks for answers that are not too old.
LookUp ==
    /\ pc = "look"
    /\ LET known == {q \in Above[path] \cup {path} : Fresh(q)}
           inIgnored == \E d \in known \cap Above[path] : cache[d].ignored
       IN IF inIgnored \/ path \in known
          THEN Decide(inIgnored \/ cache[path].ignored)
          ELSE /\ query' = (Above[path] \cup {path}) \ known /\ asked' = clock
               /\ pc' = "git" /\ UNCHANGED <<path, found, answer>>
    /\ UNCHANGED <<rules, changed, unseen, clock, cache, queue>>

\* checkIgnore
CheckIgnore ==
    /\ pc = "git"
    /\ found' = query \cap rules
    /\ pc' = "store"
    /\ UNCHANGED <<rules, changed, unseen, clock, cache, queue, path, asked, query, answer>>

\* An event whose check fails is dropped.
CheckIgnoreFails ==
    /\ pc = "git"
    /\ Return
    /\ UNCHANGED <<rules, changed, unseen, clock, cache, queue, answer>>

Extended(c, at) ==
    [q \in DOMAIN c \cup query |->
        IF q \in query THEN [ignored |-> q \in found, at |-> at] ELSE c[q]]

\* Mutant: an answer counts from when it is stored, not from when it was asked.
StoreStampedLate ==
    /\ pc = "store"
    /\ cache' = Extended(cache, clock)
    /\ Decide(found # {})
    /\ UNCHANGED <<rules, changed, unseen, clock, queue>>

\* The answers are kept; a cache that would grow too large is emptied first.
Store ==
    /\ pc = "store"
    /\ LET full == Cardinality(DOMAIN cache) + Cardinality(query) > MaxEntries
       IN cache' = Extended(IF full THEN [q \in {} |-> 0] ELSE cache, asked)
    /\ Decide(found # {})
    /\ UNCHANGED <<rules, changed, unseen, clock, queue>>

-----------------------------------------------------------------------------
(* The user. *)

Raise(f) == queue' = IF Len(queue) < MaxEvents THEN Append(queue, f) ELSE queue

EditFile(f) ==
    /\ f # ".gitignore" /\ Len(queue) < MaxEvents
    /\ Raise(f)
    /\ UNCHANGED <<rules, changed, unseen, clock, cache, pc, walk>>

\* The event comes after the change, or is lost because too many wait.
EditGitignore ==
    /\ rules' \in Rules \ {rules} /\ changed' = clock
    /\ Raise(".gitignore")
    /\ unseen' = (unseen \/ Len(queue) = MaxEvents)
    /\ UNCHANGED <<clock, cache, pc, walk>>

\* .git/info/exclude, the global excludes, git add --force.
ChangeOtherRules ==
    /\ rules' \in Rules \ {rules} /\ changed' = clock
    /\ unseen' = TRUE
    /\ UNCHANGED <<clock, cache, queue, pc, walk>>

Tick == clock < MaxTime /\ clock' = clock + 1
        /\ UNCHANGED <<rules, changed, unseen, cache, queue, pc, walk>>

CacheNext ==
    \/ ShouldIgnoreFile \/ LookUp \/ CheckIgnore \/ CheckIgnoreFails \/ Store
    \/ EditGitignore \/ ChangeOtherRules \/ Tick
    \/ \E f \in Files : EditFile(f)

CacheSpec == CacheInit /\ [][CacheNext]_cacheVars

-----------------------------------------------------------------------------
(* Properties. *)

CacheTypeOK ==
    /\ rules \in Rules
    /\ DOMAIN cache \subseteq Files \cup Dirs
    /\ \A q \in DOMAIN cache : cache[q].at <= clock
    /\ Cardinality(DOMAIN cache) <= MaxEntries
    /\ pc \in {"wait", "look", "git", "store"} /\ found \subseteq query /\ answer \in BOOLEAN

Pending == ".gitignore" \in Range(queue)

\* Once the event of a changed .gitignore has been handled, nothing decided
\* by the old rules is left, not even by a check that was under way.
NoAnswerOutlivesGitignore ==
    ~unseen /\ ~Pending /\ pc # "store"
        => \A q \in DOMAIN cache : cache[q].ignored = (q \in rules)

\* A decision that the present rules would not make is made at most TTL after
\* they changed, or while git was being asked: an edit of a file that is not
\* ignored is overlooked no longer than that.
WrongNoLongerThanTTL ==
    [][(LookUp \/ Store) /\ pc' = "wait" /\ answer' # (path \in rules)
            => clock - changed < TTL \/ (pc = "store" /\ changed >= asked)]_cacheVars

\* The cache stays within its limit, and a .gitignore that changed takes all
\* it had decided with it (isFileIgnoredByGit, ShouldIgnoreFile).
CacheInv == CacheTypeOK /\ NoAnswerOutlivesGitignore
=============================================================================
