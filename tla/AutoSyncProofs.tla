--------------------------- MODULE AutoSyncProofs ---------------------------
(***************************************************************************)
(* The engine is type correct, leaves a stopped rebase alone, and keeps to *)
(* the contract of SyncContract, so that it loses no work; it shows a      *)
(* status that is true, tells of a conflict once and does not retry it,    *)
(* and reports success only of work that is synced: for all edits, files,  *)
(* histories, numbers of push attempts, force-pushes and stops.            *)
(***************************************************************************)
EXTENDS AutoSync, Iteration

-----------------------------------------------------------------------------
(* What the operators of GitHistory return, for histories of any length.   *)

\* A nonempty set of naturals has a least element, and Min is it.
LEMMA MinLemma ==
    ASSUME NEW S \in SUBSET Nat, S # {}
    PROVE  /\ Min(S) \in S
           /\ \A x \in S : Min(S) <= x
<1>1. \E x \in S : \A y \in S : x <= y
  BY Least
<1>. QED
  BY <1>1 DEF Min

\* Two histories share their first CommonLen commits.
LEMMA CommonLenLemma ==
    ASSUME NEW a \in History, NEW b \in History
    PROVE  /\ CommonLen(a, b) \in Nat
           /\ CommonLen(a, b) <= Len(a)
           /\ CommonLen(a, b) <= Len(b)
           /\ \A i \in 1..CommonLen(a, b) : a[i] = b[i]
<1>. DEFINE S == {i \in 1..(Len(a) + 1) : i > Len(a) \/ i > Len(b) \/ a[i] # b[i]}
<1>0. Len(a) \in Nat /\ Len(b) \in Nat
  BY DEF History
<1>1. S \in SUBSET Nat /\ Len(a) + 1 \in S
  BY <1>0
<1>2. Min(S) \in S /\ \A x \in S : Min(S) <= x
  <2>. HIDE DEF S
  <2>. QED BY <1>1, MinLemma
<1>3. Min(S) - 1 = CommonLen(a, b)
  BY DEF CommonLen
<1>4. \A i \in 1..(Min(S) - 1) : i \notin S /\ i \in 1..(Len(a) + 1)
  BY <1>2, <1>0
<1>5. \A i \in 1..(Min(S) - 1) : a[i] = b[i] /\ i <= Len(b)
  BY <1>4
<1>6. Min(S) - 1 <= Len(b)
  BY <1>5, <1>2, <1>0
<1>. QED
  BY <1>0, <1>2, <1>3, <1>5, <1>6

\* The fork point lies in the history.
LEMMA ForkLenLemma ==
    ASSUME NEW h \in History, NEW tips \in SUBSET History
    PROVE  ForkLen(h, tips) \in 0..Len(h)
<1>. DEFINE S == {i \in 1..(Len(h) + 1) : \A t \in tips : CommonLen(h, t) < i}
<1>0. Len(h) \in Nat
  BY DEF History
<1>1. \A t \in tips : CommonLen(h, t) \in Nat /\ CommonLen(h, t) <= Len(h)
  BY CommonLenLemma
<1>2. S \in SUBSET Nat /\ Len(h) + 1 \in S
  BY <1>0, <1>1
<1>3. Min(S) \in S
  <2>. HIDE DEF S
  <2>. QED BY <1>2, MinLemma
<1>. QED
  BY <1>0, <1>3 DEF ForkLen

\* The counts of rev-list are natural numbers.
LEMMA CountLemma ==
    ASSUME NEW a \in History, NEW b \in History
    PROVE  Ahead(a, b) \in Nat /\ Behind(a, b) \in Nat
<1>1. Len(a) \in Nat /\ Len(b) \in Nat
  BY DEF History
<1>. QED
  BY <1>1, CommonLenLemma DEF Ahead, Behind

\* Taking a part of a history, and adding to it, gives a history.
LEMMA SubSeqLemma ==
    ASSUME NEW h \in History, NEW m \in 1..(Len(h) + 1), NEW n \in 0..Len(h)
    PROVE  /\ SubSeq(h, m, n) \in History
           /\ Len(SubSeq(h, m, n)) = (IF m <= n THEN n - m + 1 ELSE 0)
           /\ \A i \in 1..Len(SubSeq(h, m, n)) : SubSeq(h, m, n)[i] = h[m + i - 1]
BY DEF History

LEMMA ContentIn ==
    ASSUME NEW h \in History
    PROVE  /\ Content(h) \subseteq Edit
           /\ \A i \in 1..Len(h) : h[i] \subseteq Content(h)
BY DEF History, Content, Commit

LEMMA ContentAppend ==
    ASSUME NEW h \in History, NEW c \in Commit
    PROVE  /\ Append(h, c) \in History
           /\ Content(Append(h, c)) = Content(h) \cup c
<1>0. Len(h) \in Nat
  BY DEF History
<1>1. /\ Append(h, c) \in History
      /\ Len(Append(h, c)) = Len(h) + 1
      /\ \A i \in 1..Len(h) : Append(h, c)[i] = h[i]
      /\ Append(h, c)[Len(h) + 1] = c
  BY DEF History
<1>2. Content(Append(h, c)) \subseteq Content(h) \cup c
  BY <1>0, <1>1 DEF Content
<1>3. Content(h) \cup c \subseteq Content(Append(h, c))
  BY <1>0, <1>1 DEF Content
<1>. QED
  BY <1>1, <1>2, <1>3

LEMMA ContentConcat ==
    ASSUME NEW a \in History, NEW b \in History
    PROVE  /\ a \o b \in History
           /\ Content(a \o b) = Content(a) \cup Content(b)
<1>0. Len(a) \in Nat /\ Len(b) \in Nat
  BY DEF History
<1>1. /\ a \o b \in History
      /\ Len(a \o b) = Len(a) + Len(b)
      /\ \A i \in 1..Len(a) : (a \o b)[i] = a[i]
      /\ \A i \in 1..Len(b) : (a \o b)[Len(a) + i] = b[i]
  BY <1>0 DEF History
<1>2. Content(a \o b) \subseteq Content(a) \cup Content(b)
  <2>. SUFFICES ASSUME NEW i \in 1..(Len(a) + Len(b))
                PROVE  (a \o b)[i] \subseteq Content(a) \cup Content(b)
    BY <1>1 DEF Content
  <2>1. CASE i <= Len(a)
    BY <2>1, <1>0, <1>1 DEF Content
  <2>2. CASE i > Len(a)
    <3>1. i - Len(a) \in 1..Len(b) /\ Len(a) + (i - Len(a)) = i
      BY <2>2, <1>0
    <3>. QED BY <3>1, <1>1 DEF Content
  <2>. QED BY <2>1, <2>2, <1>0
<1>3. Content(a) \subseteq Content(a \o b)
  BY <1>0, <1>1 DEF Content
<1>4. Content(b) \subseteq Content(a \o b)
  <2>. SUFFICES ASSUME NEW i \in 1..Len(b)
                PROVE  b[i] \subseteq Content(a \o b)
    BY DEF Content
  <2>1. Len(a) + i \in 1..Len(a \o b) /\ (a \o b)[Len(a) + i] = b[i]
    BY <1>0, <1>1
  <2>. QED BY <2>1, <1>1, ContentIn
<1>. QED
  BY <1>1, <1>2, <1>3, <1>4

\* A history holds what its first n commits hold and what the others hold.
LEMMA ContentSplit ==
    ASSUME NEW h \in History, NEW n \in 0..Len(h)
    PROVE  Content(h) \subseteq Content(SubSeq(h, 1, n))
                                  \cup Content(SubSeq(h, n + 1, Len(h)))
<1>0. Len(h) \in Nat /\ n \in Nat /\ n + 1 \in 1..(Len(h) + 1) /\ Len(h) \in 0..Len(h)
  BY DEF History
<1>. DEFINE a == SubSeq(h, 1, n)
            b == SubSeq(h, n + 1, Len(h))
<1>1. /\ a \in History /\ Len(a) = n
      /\ \A i \in 1..n : a[i] = h[i]
  BY <1>0, SubSeqLemma
<1>2. /\ b \in History /\ Len(b) = Len(h) - n
      /\ \A i \in 1..(Len(h) - n) : b[i] = h[n + i]
  <2>1. /\ b \in History /\ Len(b) = (IF n + 1 <= Len(h) THEN Len(h) - (n + 1) + 1 ELSE 0)
        /\ \A i \in 1..Len(b) : b[i] = h[(n + 1) + i - 1]
    BY <1>0, SubSeqLemma
  <2>2. \A i \in 1..Len(h) : (n + 1) + i - 1 = n + i
    BY <1>0
  <2>. HIDE DEF b
  <2>. QED
    BY <1>0, <2>1, <2>2
<1>. HIDE DEF a, b
<1>3. SUFFICES ASSUME NEW i \in 1..Len(h)
               PROVE  h[i] \subseteq Content(a) \cup Content(b)
  BY DEF Content, a, b
<1>4. CASE i <= n
  BY <1>4, <1>0, <1>1, ContentIn
<1>5. CASE i > n
  <2>1. i - n \in 1..Len(b) /\ n + (i - n) = i
    BY <1>5, <1>0, <1>2
  <2>. QED BY <2>1, <1>2, ContentIn
<1>. QED
  BY <1>4, <1>5, <1>0

\* A prefix of a history holds nothing the history does not.
LEMMA ContentPrefix ==
    ASSUME NEW h \in History, NEW n \in 0..Len(h)
    PROVE  SubSeq(h, 1, n) \in History /\ Content(SubSeq(h, 1, n)) \subseteq Content(h)
<1>0. Len(h) \in Nat /\ n \in Nat /\ 1 \in 1..(Len(h) + 1)
  BY DEF History
<1>1. /\ SubSeq(h, 1, n) \in History /\ Len(SubSeq(h, 1, n)) = n
      /\ \A i \in 1..n : SubSeq(h, 1, n)[i] = h[i]
  BY <1>0, SubSeqLemma
<1>2. \A i \in 1..n : i \in 1..Len(h)
  BY <1>0
<1>. QED
  BY <1>1, <1>2, ContentIn DEF Content

LEMMA AncestorContent ==
    ASSUME NEW a \in History, NEW h \in History, IsAncestor(a, h)
    PROVE  Content(a) \subseteq Content(h)
<1>1. Len(a) \in 0..Len(h) /\ SubSeq(h, 1, Len(a)) = a
  BY DEF IsAncestor, History
<1>. QED
  BY <1>1, ContentPrefix

\* What two histories share is in both.
LEMMA CommonContent ==
    ASSUME NEW h \in History, NEW up \in History
    PROVE  /\ CommonLen(h, up) \in 0..Len(h)
           /\ Content(SubSeq(h, 1, CommonLen(h, up))) \subseteq Content(up)
<1>. DEFINE n == CommonLen(h, up)
<1>0. Len(h) \in Nat /\ Len(up) \in Nat
  BY DEF History
<1>1. n \in 0..Len(h) /\ n \in 0..Len(up) /\ \A i \in 1..n : h[i] = up[i]
  BY <1>0, CommonLenLemma
<1>. HIDE DEF n
<1>2. /\ Len(SubSeq(h, 1, n)) = n
      /\ \A i \in 1..n : SubSeq(h, 1, n)[i] = h[i]
  <2>1. 1 \in 1..(Len(h) + 1)
    BY <1>0
  <2>. QED BY <2>1, <1>0, <1>1, SubSeqLemma
<1>3. \A i \in 1..n : SubSeq(h, 1, n)[i] \subseteq Content(up)
  <2>1. \A i \in 1..n : i \in 1..Len(up)
    BY <1>0, <1>1
  <2>. QED BY <2>1, <1>1, <1>2, ContentIn
<1>4. Content(SubSeq(h, 1, n)) \subseteq Content(up)
  BY <1>2, <1>3 DEF Content
<1>. QED
  BY <1>1, <1>4 DEF n

\* A rebase skips only commits that the upstream holds or once held, so what
\* it leaves behind is in a tip of the upstream.
LEMMA RebaseBaseLemma ==
    ASSUME NEW h \in History, NEW up \in History, NEW tipsSeen \in SUBSET History,
           NEW forkPoint \in BOOLEAN
    PROVE  LET base == RebaseBase(h, up, tipsSeen, forkPoint)
           IN  /\ base \in 0..Len(h)
               /\ \E t \in tipsSeen \cup {up} : Content(SubSeq(h, 1, base)) \subseteq Content(t)
<1>. DEFINE tips == tipsSeen \cup {up}
            fork == ForkLen(h, tips)
<1>1. CASE forkPoint /\ SubSeq(h, 1, fork) \in tips
  <2>1. RebaseBase(h, up, tipsSeen, forkPoint) = fork
    BY <1>1 DEF RebaseBase
  <2>2. fork \in 0..Len(h)
    BY ForkLenLemma
  <2>. QED BY <1>1, <2>1, <2>2
<1>2. CASE ~(forkPoint /\ SubSeq(h, 1, fork) \in tips)
  <2>1. RebaseBase(h, up, tipsSeen, forkPoint) = CommonLen(h, up)
    BY <1>2 DEF RebaseBase
  <2>. QED BY <2>1, CommonContent
<1>. QED BY <1>1, <1>2

\* A rebased branch is a history, and with the tip that holds the skipped
\* commits it holds everything it held before.
LEMMA RebasedLemma ==
    ASSUME NEW h \in History, NEW up \in History, NEW base \in 0..Len(h)
    PROVE  /\ Rebased(h, up, base) \in History
           /\ Content(h) \subseteq Content(SubSeq(h, 1, base)) \cup Content(Rebased(h, up, base))
           /\ Content(up) \subseteq Content(Rebased(h, up, base))
<1>1. base + 1 \in 1..(Len(h) + 1) /\ Len(h) \in 0..Len(h)
  BY DEF History
<1>2. SubSeq(h, base + 1, Len(h)) \in History
  BY <1>1, SubSeqLemma
<1>. QED
  BY <1>2, ContentConcat, ContentSplit DEF Rebased

\* The unmerged paths of a rebase are paths of the repository.
LEMMA ConflictFilesType ==
    ASSUME NEW h \in History, NEW up \in History, NEW base \in 0..Len(h)
    PROVE  ConflictFiles(h, up, base) \subseteq File
<1>. DEFINE stem == SubSeq(h, 1, base)
            n    == CommonLen(stem, up)
            edits == Content(SubSeq(stem, n + 1, Len(stem)))
                     \cup Content(SubSeq(up, n + 1, Len(up)))
<1>1. stem \in History
  BY ContentPrefix
<1>. HIDE DEF stem
<1>2. n \in Nat /\ n <= Len(stem) /\ n <= Len(up)
  BY <1>1, CommonLenLemma
<1>. HIDE DEF n
<1>3. Len(stem) \in Nat /\ Len(up) \in Nat
  BY <1>1 DEF History
<1>4. /\ n + 1 \in 1..(Len(stem) + 1) /\ Len(stem) \in 0..Len(stem)
      /\ n + 1 \in 1..(Len(up) + 1) /\ Len(up) \in 0..Len(up)
  BY <1>2, <1>3
<1>5. edits \subseteq Edit
  BY <1>1, <1>4, SubSeqLemma, ContentIn
<1>6. DivergedFiles(h, up, base) = FilesOf(edits)
  BY DEF DivergedFiles, stem, n
<1>. HIDE DEF edits
<1>7. FilesOf(edits) \subseteq File
  BY <1>5, FileOfAssumption DEF FilesOf
<1>. QED
  BY <1>6, <1>7 DEF ConflictFiles

\* A history is an ancestor of another if that begins with its commits.
LEMMA AncestorElements ==
    ASSUME NEW a \in History, NEW h \in History
    PROVE  IsAncestor(a, h) <=> Len(a) <= Len(h) /\ \A i \in 1..Len(a) : a[i] = h[i]
<1>0. Len(a) \in Nat /\ Len(h) \in Nat
  BY DEF History
<1>. SUFFICES ASSUME Len(a) <= Len(h)
              PROVE  SubSeq(h, 1, Len(a)) = a <=> \A i \in 1..Len(a) : a[i] = h[i]
  BY DEF IsAncestor
<1>. DEFINE p == SubSeq(h, 1, Len(a))
<1>1. /\ p \in History /\ Len(p) = Len(a)
      /\ \A i \in 1..Len(a) : p[i] = h[i]
  <2>1. 1 \in 1..(Len(h) + 1) /\ Len(a) \in 0..Len(h)
    BY <1>0
  <2>. QED BY <1>0, <2>1, SubSeqLemma
<1>. HIDE DEF p
<1>2. (\A i \in 1..Len(a) : p[i] = a[i]) => p = a
  BY <1>1 DEF History
<1>. QED BY <1>1, <1>2 DEF p

LEMMA AncestorReflexive == \A h \in History : IsAncestor(h, h)
<1>. SUFFICES ASSUME NEW h \in History PROVE IsAncestor(h, h)
  OBVIOUS
<1>1. Len(h) \in Nat
  BY DEF History
<1>. QED BY <1>1, AncestorElements

\* A commit on top keeps the ancestors, and is none of them.
LEMMA AncestorAppend ==
    ASSUME NEW a \in History, NEW h \in History, NEW c \in Commit, IsAncestor(a, h)
    PROVE  IsAncestor(a, Append(h, c)) /\ Append(h, c) # a
<1>0. Len(a) \in Nat /\ Len(h) \in Nat /\ Len(a) <= Len(h)
  BY AncestorElements DEF History
<1>1. /\ Append(h, c) \in History /\ Len(Append(h, c)) = Len(h) + 1
      /\ \A i \in 1..Len(h) : Append(h, c)[i] = h[i]
  BY DEF History
<1>2. \A i \in 1..Len(a) : a[i] = Append(h, c)[i]
  BY <1>0, <1>1, AncestorElements
<1>. DEFINE g == Append(h, c)
<1>. HIDE DEF g
<1>3. g \in History /\ Len(a) <= Len(g) /\ Len(g) # Len(a)
  BY <1>0, <1>1 DEF g
<1>4. \A i \in 1..Len(a) : a[i] = g[i]
  BY <1>2 DEF g
<1>5. IsAncestor(a, g) /\ g # a
  BY <1>3, <1>4, AncestorElements
<1>. QED BY <1>5 DEF g

\* The upstream is an ancestor of what was rebased onto it.
LEMMA AncestorRebased ==
    ASSUME NEW h \in History, NEW up \in History, NEW base \in 0..Len(h)
    PROVE  IsAncestor(up, Rebased(h, up, base))
<1>. DEFINE s == SubSeq(h, base + 1, Len(h))
<1>1. s \in History
  <2>1. base + 1 \in 1..(Len(h) + 1) /\ Len(h) \in 0..Len(h)
    BY DEF History
  <2>. QED BY <2>1, SubSeqLemma
<1>. HIDE DEF s
<1>2. /\ up \o s \in History /\ Len(up \o s) = Len(up) + Len(s)
      /\ \A i \in 1..Len(up) : (up \o s)[i] = up[i]
  BY <1>1 DEF History
<1>3. Len(up) \in Nat /\ Len(s) \in Nat
  BY <1>1 DEF History
<1>. DEFINE g == up \o s
<1>4. g \in History /\ Len(up) <= Len(g) /\ \A i \in 1..Len(up) : up[i] = g[i]
  BY <1>2, <1>3
<1>. HIDE DEF g
<1>5. IsAncestor(up, g)
  BY <1>4, AncestorElements
<1>. QED BY <1>5 DEF Rebased, s, g

\* An ancestor is all that it shares.
LEMMA CommonLenAncestor ==
    ASSUME NEW a \in History, NEW h \in History, IsAncestor(a, h)
    PROVE  CommonLen(h, a) = Len(a)
<1>. DEFINE S == {i \in 1..(Len(h) + 1) : i > Len(h) \/ i > Len(a) \/ h[i] # a[i]}
<1>0. /\ Len(a) \in Nat /\ Len(h) \in Nat /\ Len(a) <= Len(h)
      /\ \A i \in 1..Len(a) : a[i] = h[i]
  BY AncestorElements DEF History
<1>1. S \in SUBSET Nat /\ Len(a) + 1 \in S /\ \A i \in S : i > Len(a)
  BY <1>0
<1>2. Min(S) \in S /\ \A x \in S : Min(S) <= x
  <2>. HIDE DEF S
  <2>. QED BY <1>1, MinLemma
<1>3. Min(S) = Len(a) + 1
  <2>1. Min(S) > Len(a) /\ Min(S) <= Len(a) + 1 /\ Min(S) \in Nat
    <3>. HIDE DEF S
    <3>. QED BY <1>1, <1>2
  <2>. QED BY <1>0, <2>1
<1>. QED BY <1>0, <1>3 DEF CommonLen

\* A rebase onto a commit that the branch already has does not conflict.
LEMMA MergedNoConflict ==
    ASSUME NEW h \in History, NEW up \in History, IsAncestor(up, h)
    PROVE  ConflictFiles(h, up, CommonLen(h, up)) = {}
<1>. DEFINE n == Len(up)
            rest == SubSeq(up, n + 1, n)
<1>1. CommonLen(h, up) = n /\ SubSeq(h, 1, n) = up
  BY CommonLenAncestor DEF IsAncestor
<1>2. CommonLen(up, up) = n
  BY CommonLenAncestor, AncestorReflexive
<1>3. Content(rest) = {}
  <2>1. Len(rest) = 0
    <3>1. n \in Nat /\ n + 1 \in 1..(n + 1) /\ n \in 0..n /\ ~(n + 1 <= n)
      BY DEF History
    <3>. QED BY <3>1, SubSeqLemma
  <2>. QED BY <2>1 DEF Content
<1>4. DivergedFiles(h, up, n) = FilesOf(Content(rest) \cup Content(rest))
  BY <1>1, <1>2 DEF DivergedFiles
<1>5. DivergedFiles(h, up, n) = {}
  BY <1>3, <1>4 DEF FilesOf
<1>. QED BY <1>1, <1>5 DEF ConflictFiles

\* Nor does one of a branch without commits.
LEMMA EmptyNoConflict ==
    ASSUME NEW up, NEW base \in Nat
    PROVE  ConflictFiles(<<>>, up, base) = {}
BY DEF ConflictFiles

-----------------------------------------------------------------------------
(* The contract. *)

USE EditAssumption, HistoryAssumption

LEMMA WorkInitInv == WorkInit => WorkInv
<1>. SUFFICES ASSUME WorkInit PROVE WorkInv
  OBVIOUS
<1>1. PICK h \in InitialHistory :
          /\ local = h /\ tracking = h /\ remote = h
          /\ reflog = IF h = <<>> THEN {} ELSE {h}
  BY DEF WorkInit
<1>2. wt = {} /\ used = {} /\ removed = {} /\ clobbered = {}
  BY DEF WorkInit
<1>. QED
  BY <1>1, <1>2 DEF WorkInv, WorkOK, UpstreamWasRemote, NoCommittedWorkLost

\* Every step of the contract keeps the invariant.  The replay is the step
\* that could lose commits: the ones it leaves out are in a tip of the
\* upstream, and UpstreamWasRemote says where those went.
LEMMA WorkNextInv == WorkInv /\ [WorkNext]_work => WorkInv'
<1>. SUFFICES ASSUME WorkInv, [WorkNext]_work PROVE WorkInv'
  OBVIOUS
<1>. USE DEF WorkInv, WorkOK
<1>1. CASE Edits
  BY <1>1 DEF Edits, UpstreamWasRemote, NoCommittedWorkLost
<1>2. CASE Commits
  <2>1. wt \in Commit
    BY DEF Commit
  <2>2. /\ local' \in History
        /\ Content(local') = Content(local) \cup wt
    BY <1>2, <2>1, ContentAppend DEF Commits
  <2>. QED
    BY <1>2, <2>2 DEF Commits, UpstreamWasRemote, NoCommittedWorkLost
<1>3. CASE Fetches
  BY <1>3 DEF Fetches, UpstreamWasRemote, NoCommittedWorkLost
<1>4. CASE Replays
  <2>1. PICK base \in 0..Len(local) :
            /\ \E t \in reflog \cup {tracking} :
                  Content(SubSeq(local, 1, base)) \subseteq Content(t)
            /\ local' = Rebased(local, tracking, base)
    BY <1>4 DEF Replays
  <2>2. /\ local' \in History
        /\ Content(local) \subseteq Content(SubSeq(local, 1, base)) \cup Content(local')
    BY <2>1, RebasedLemma
  <2>3. Content(SubSeq(local, 1, base)) \subseteq Content(remote) \cup removed
    BY <2>1 DEF UpstreamWasRemote
  <2>4. UNCHANGED <<wt, tracking, reflog, remote, used, removed, clobbered>>
    BY <1>4 DEF Replays
  <2>. QED
    BY <2>2, <2>3, <2>4 DEF UpstreamWasRemote, NoCommittedWorkLost
<1>5. CASE Pushes
  <2>1. Content(remote) \subseteq Content(local)
    BY <1>5, AncestorContent DEF Pushes
  <2>2. /\ remote' = local /\ local' = local
        /\ reflog' \subseteq reflog \cup {local} /\ tracking' \in {tracking, local}
        /\ UNCHANGED <<wt, used, removed, clobbered>>
    BY <1>5 DEF Pushes
  <2>. QED
    BY <2>1, <2>2 DEF UpstreamWasRemote, NoCommittedWorkLost
<1>6. CASE Overwrites
  BY <1>6 DEF Overwrites, UpstreamWasRemote, NoCommittedWorkLost
<1>7. CASE OthersPush
  <2>1. PICK e \in RemoteEdit \ used : used' = used \cup {e} /\ remote' = Append(remote, {e})
    BY <1>7 DEF OthersPush
  <2>2. {e} \in Commit
    BY DEF Commit
  <2>3. /\ remote' \in History
        /\ Content(remote') = Content(remote) \cup {e}
    BY <2>1, <2>2, ContentAppend
  <2>. QED
    BY <1>7, <2>1, <2>3 DEF OthersPush, UpstreamWasRemote, NoCommittedWorkLost
<1>8. CASE OthersForce
  <2>1. PICK n \in 0..Len(remote) :
            /\ remote' = SubSeq(remote, 1, n)
            /\ removed' = removed \cup (Content(remote) \ Content(SubSeq(remote, 1, n)))
    BY <1>8 DEF OthersForce
  <2>2. remote' \in History
    BY <2>1, ContentPrefix
  <2>3. removed' \subseteq Edit /\ Content(remote) \cup removed \subseteq Content(remote') \cup removed'
    BY <2>1, ContentIn
  <2>. QED
    BY <1>8, <2>2, <2>3 DEF OthersForce, UpstreamWasRemote, NoCommittedWorkLost
<1>9. CASE UNCHANGED work
  BY <1>9 DEF work, UpstreamWasRemote, NoCommittedWorkLost
<1>. QED
  BY <1>1, <1>2, <1>3, <1>4, <1>5, <1>6, <1>7, <1>8, <1>9 DEF WorkNext

\* Whatever keeps to the contract loses no work.
THEOREM ContractSafe == WorkSpec => []NoCommittedWorkLost
<1>1. WorkInv => NoCommittedWorkLost
  BY DEF WorkInv
<1>. QED
  BY <1>1, WorkInitInv, WorkNextInv, PTL DEF WorkSpec

-----------------------------------------------------------------------------
(* The engine. *)

USE BoundAssumption

-----------------------------------------------------------------------------
(* The RepoState entry and the run record. *)

LEMMA EmptyHistory == <<>> \in History
BY DEF History

LEMMA NewStateType == NewState \in RepoState
BY EmptyHistory DEF NewState, RepoState, Status, Code, PreflightCode

LEMMA NoRunType == NoRun \in RunState
BY EmptyHistory, NewStateType DEF NoRun, NewRun, RunState

LEMMA MarkTypes ==
    ASSUME NEW s \in RepoState
    PROVE  /\ MarkSyncing(s) \in RepoState
           /\ MarkSuccess(s) \in RepoState
           /\ MarkOffline(s) \in RepoState
           /\ \A c \in Code : MarkErrorCode(s, c) \in RepoState
           /\ \A c \in PreflightCode : MarkPreflight(s, c) \in RepoState
           /\ \A h \in History, u \in History : SetConflictRefs(s, h, u) \in RepoState
           /\ \A files \in SUBSET File, msg \in Code : MarkConflict(s, files, msg) \in RepoState
           /\ \A p \in RepoState : RestoreStatus(s, p) \in RepoState
<1>. USE DEF RepoState, Status, Code, PreflightCode
<1>1. MarkSyncing(s) \in RepoState
  BY DEF MarkSyncing
<1>2. MarkSuccess(s) \in RepoState
  BY EmptyHistory DEF MarkSuccess
<1>3. MarkOffline(s) \in RepoState
  BY DEF MarkOffline
<1>4. \A c \in Code : MarkErrorCode(s, c) \in RepoState
  BY DEF MarkErrorCode
<1>5. \A c \in PreflightCode : MarkPreflight(s, c) \in RepoState
  BY DEF MarkPreflight
<1>6. \A h \in History, u \in History : SetConflictRefs(s, h, u) \in RepoState
  BY DEF SetConflictRefs
<1>7. \A files \in SUBSET File, msg \in Code : MarkConflict(s, files, msg) \in RepoState
  <2>. SUFFICES ASSUME NEW files \in SUBSET File, NEW msg \in Code
                PROVE  MarkConflict(s, files, msg) \in RepoState
    OBVIOUS
  <2>1. "conflict" \in Status /\ "conflict" \in Code
    OBVIOUS
  <2>. HIDE DEF Status, Code, PreflightCode
  <2>. QED
    BY <2>1 DEF MarkConflict
<1>8. \A p \in RepoState : RestoreStatus(s, p) \in RepoState
  BY DEF RestoreStatus
<1>. QED
  BY <1>1, <1>2, <1>3, <1>4, <1>5, <1>6, <1>7, <1>8

\* What is saved can be loaded.
LEMMA PersistTypes ==
    /\ \A s \in RepoState : MarshalPersisted(s) \in Persistent
    /\ \A p \in Persistent : LoadPersisted(p) \in RepoState
<1>1. \A s \in RepoState : MarshalPersisted(s) \in Persistent
  BY DEF MarshalPersisted, Persistent, RepoState
<1>2. ASSUME NEW p \in Persistent PROVE LoadPersisted(p) \in RepoState
  <2>. DEFINE fresh == [NewState EXCEPT !.head = p.head, !.up = p.up]
  <2>1. fresh \in RepoState /\ p.files \in SUBSET File /\ "conflict" \in Code
    BY NewStateType DEF RepoState, Persistent, Code
  <2>2. LoadPersisted(p) = IF p.conflict THEN MarkConflict(fresh, p.files, "conflict") ELSE fresh
    BY DEF LoadPersisted
  <2>. HIDE DEF fresh
  <2>. QED
    BY <2>1, <2>2, MarkTypes
<1>. QED
  BY <1>1, <1>2

LEMMA ReturnType ==
    ASSUME DaemonOK, NEW s \in RepoState, NEW events \in SUBSET Event, Return(s, events)
    PROVE  DaemonOK'
BY NoRunType DEF DaemonOK, Return, Stage

LEMMA GotoType ==
    ASSUME DaemonOK, NEW stage \in Stage, NEW r \in RunState, NEW events \in SUBSET Event,
           Goto(stage, r, events)
    PROVE  DaemonOK'
BY DEF DaemonOK, Goto

LEMMA RunFields ==
    ASSUME DaemonOK
    PROVE  /\ run.prev \in RepoState /\ run.files \in SUBSET File
           /\ run.forced \in BOOLEAN /\ run.ahead \in Nat /\ run.behind \in Nat
           /\ run.attempt \in Nat /\ run.fetched \in History
           /\ st \in RepoState
BY DEF DaemonOK, RunState

LEMMA FailType ==
    ASSUME DaemonOK, NEW kind \in {"network", "other"}, Fail(kind)
    PROVE  DaemonOK'
<1>1. st \in RepoState /\ run.prev \in RepoState
  BY RunFields
<1>2. kind \in Code /\ {} \in SUBSET Event /\ {"offline"} \in SUBSET Event /\ {"error"} \in SUBSET Event
  BY DEF Code, Event
<1>3. /\ RestoreStatus(st, run.prev) \in RepoState
      /\ MarkOffline(st) \in RepoState
      /\ MarkErrorCode(st, kind) \in RepoState
  BY <1>1, <1>2, MarkTypes
<1>4. \E s \in RepoState, events \in SUBSET Event : Return(s, events)
  BY <1>1, <1>2, <1>3 DEF Fail
<1>. QED
  BY <1>4, ReturnType

LEMMA FailPreflightType ==
    ASSUME DaemonOK, NEW code \in PreflightCode, FailPreflight(code)
    PROVE  DaemonOK'
<1>1. st \in RepoState /\ MarkPreflight(st, code) \in RepoState
  BY RunFields, MarkTypes
<1>2. {} \in SUBSET Event /\ {"preflight"} \in SUBSET Event
  BY DEF Event
<1>3. \E s \in RepoState, events \in SUBSET Event : Return(s, events)
  BY <1>1, <1>2 DEF FailPreflight
<1>. QED
  BY <1>3, ReturnType

LEMMA SucceedType ==
    ASSUME DaemonOK, Succeed
    PROVE  DaemonOK'
<1>1. MarkSuccess(st) \in RepoState
  BY RunFields, MarkTypes
<1>2. \E events \in SUBSET Event : Return(MarkSuccess(st), events)
  BY DEF Succeed, Event
<1>. QED
  BY <1>1, <1>2, ReturnType

-----------------------------------------------------------------------------
(* The daemon's variables keep their types. *)

LEMMA StartType ==
    ASSUME TypeOK, NEW force \in BOOLEAN, NEW localOnly \in BOOLEAN, Start(force, localOnly)
    PROVE  DaemonOK'
<1>. USE DEF TypeOK
<1>1. wt \cup Content(local) \subseteq Edit
  BY ContentIn DEF WorkOK
<1>2. NewRun(st, force, localOnly, wt \cup Content(local)) \in RunState
  BY <1>1, EmptyHistory, RunFields DEF NewRun, RunState
<1>3. "prepare" \in Stage /\ {} \in SUBSET Event
  BY DEF Stage
<1>. QED
  BY <1>2, <1>3, GotoType DEF Start

LEMMA PrepareType ==
    ASSUME TypeOK, Prepare
    PROVE  DaemonOK'
<1>. USE DEF TypeOK
<1>1. ASSUME NEW c \in BOOLEAN, Begin(c)
      PROVE  DaemonOK'
  <2>1. MarkSyncing(st) \in RepoState
    BY RunFields, MarkTypes
  <2>2. [run EXCEPT !.committed = c] \in RunState
    BY DEF DaemonOK, RunState
  <2>. QED
    BY <1>1, <2>1, <2>2 DEF Begin, DaemonOK, Stage, Event
<1>2. Refusal # "" => Refusal \in PreflightCode
  BY DEF Refusal, RepoOK, PreflightCode
<1>3. "no_head" \in PreflightCode
  BY DEF PreflightCode
<1>. QED
  BY <1>1, <1>2, <1>3, FailPreflightType DEF Prepare

LEMMA CommitStepType ==
    ASSUME TypeOK, CommitStep
    PROVE  DaemonOK'
<1>. USE DEF TypeOK
<1>. DEFINE events == IF wt = {} THEN {} ELSE {"commit"}
            r      == [run EXCEPT !.committed = @ \/ wt # {}]
<1>1. r \in RunState /\ events \in SUBSET Event
  BY DEF DaemonOK, RunState, Event
<1>2. {"fetch", "rebase"} \subseteq Stage /\ st \in RepoState
  BY RunFields DEF Stage
<1>3. Goto("fetch", r, events) \/ Goto("rebase", r, events) \/ Return(st, events)
  BY DEF CommitStep
<1>. HIDE DEF r, events
<1>. QED
  BY <1>1, <1>2, <1>3, GotoType, ReturnType

LEMMA FetchStepType ==
    ASSUME TypeOK, FetchStep
    PROVE  DaemonOK'
<1>. USE DEF TypeOK
<1>. DEFINE r == [run EXCEPT !.forced = @ \/ ~IsAncestor(tracking, remote), !.fetched = remote]
            stage == IF run.attempt = 1 THEN "guard" ELSE "count"
<1>1. r \in RunState /\ run \in RunState
  BY DEF DaemonOK, RunState, WorkOK
<1>2. stage \in Stage /\ {} \in SUBSET Event
  BY DEF Stage
<1>3. "upstream_gone" \in PreflightCode
  BY DEF PreflightCode
<1>4. Goto(stage, r, {}) \/ Goto(stage, run, {}) \/ FailPreflight("upstream_gone")
  BY DEF FetchStep
<1>. HIDE DEF r, stage
<1>. QED
  BY <1>1, <1>2, <1>3, <1>4, GotoType, FailPreflightType

LEMMA GuardStepType ==
    ASSUME TypeOK, GuardStep
    PROVE  DaemonOK'
<1>. USE DEF TypeOK
<1>1. CASE StayInConflict
  <2>. DEFINE msg == IF run.prev.lastError = "" THEN "conflict" ELSE run.prev.lastError
  <2>1. st \in RepoState /\ msg \in Code /\ run.prev.files \in SUBSET File
    BY RunFields DEF RepoState, Code
  <2>2. MarkConflict(st, run.prev.files, msg) \in RepoState
    BY <2>1, MarkTypes
  <2>3. Return(MarkConflict(st, run.prev.files, msg), {}) /\ {} \in SUBSET Event
    BY <1>1 DEF StayInConflict
  <2>. HIDE DEF msg
  <2>. QED
    BY <2>2, <2>3, ReturnType
<1>2. CASE Goto("count", run, {}) \/ Goto("count", [run EXCEPT !.unsure = TRUE], {})
  <2>1. "count" \in Stage /\ run \in RunState /\ [run EXCEPT !.unsure = TRUE] \in RunState
    BY DEF Stage, DaemonOK, RunState
  <2>. QED
    BY <1>2, <2>1, GotoType
<1>. QED
  BY <1>1, <1>2 DEF GuardStep, LookupFails

LEMMA CountStepType ==
    ASSUME TypeOK, CountStep
    PROVE  DaemonOK'
<1>. USE DEF TypeOK
<1>. DEFINE r == [run EXCEPT !.ahead = Ahead(local, tracking),
                             !.behind = Behind(local, tracking), !.retried = FALSE]
            stage == IF r.behind > 0 \/ r.forced THEN "rebase" ELSE "push"
<1>1. Ahead(local, tracking) \in Nat /\ Behind(local, tracking) \in Nat
  BY CountLemma DEF WorkOK
<1>2. r \in RunState
  BY <1>1 DEF DaemonOK, RunState
<1>3. stage \in Stage /\ Goto(stage, r, {})
  BY DEF Stage, CountStep
<1>. HIDE DEF r, stage
<1>. QED
  BY <1>2, <1>3, GotoType

LEMMA RebaseStepType ==
    ASSUME TypeOK, RebaseStep
    PROVE  DaemonOK'
<1>. USE DEF TypeOK
<1>0. {"recount", "abort", "recommit"} \subseteq Stage /\ {} \in SUBSET Event
  BY DEF Stage
<1>1. CASE RebaseApplies
  <2>1. Goto("recount",
             [run EXCEPT !.forced = FALSE, !.forkPoint = run.forced,
                         !.pulled = @ \/ run.behind > 0], {})
    BY <1>1 DEF RebaseApplies
  <2>2. [run EXCEPT !.forced = FALSE, !.forkPoint = run.forced,
                    !.pulled = @ \/ run.behind > 0] \in RunState
    BY DEF DaemonOK, RunState
  <2>. QED
    BY <1>0, <2>1, <2>2, GotoType
<1>2. CASE RebaseConflicts
  <2>. DEFINE files == ConflictFiles(local, tracking,
                                     RebaseBase(local, tracking, reflog, run.forced))
  <2>1. files \subseteq File
    BY RunFields, RebaseBaseLemma, ConflictFilesType DEF WorkOK
  <2>2. Goto("abort", [run EXCEPT !.files = files], {})
    BY <1>2 DEF RebaseConflicts
  <2>. HIDE DEF files
  <2>3. [run EXCEPT !.files = files] \in RunState
    BY <2>1 DEF DaemonOK, RunState
  <2>. QED
    BY <1>0, <2>2, <2>3, GotoType
<1>3. CASE RebaseTimesOut
  <2>1. [run EXCEPT !.files = {}] \in RunState
    BY DEF DaemonOK, RunState
  <2>. QED
    BY <1>0, <1>3, <2>1, GotoType DEF RebaseTimesOut
<1>4. CASE RebaseRefusesDirty
  <2>1. [run EXCEPT !.retried = TRUE] \in RunState
    BY DEF DaemonOK, RunState
  <2>2. Fail("other") \/ Goto("recommit", [run EXCEPT !.retried = TRUE], {})
    BY <1>4 DEF RebaseRefusesDirty
  <2>. QED
    BY <1>0, <2>1, <2>2, GotoType, FailType
<1>5. CASE Fail("other")
  BY <1>5, FailType
<1>. QED
  BY <1>1, <1>2, <1>3, <1>4, <1>5 DEF RebaseStep

LEMMA HandleConflictType ==
    ASSUME TypeOK, NEW head \in History, NEW up \in History,
           HandleConflict(run.files, head, up)
    PROVE  DaemonOK' /\ told' \subseteq File
<1>. USE DEF TypeOK
<1>. DEFINE s == MarkConflict(SetConflictRefs(st, head, up), run.files, "conflict")
<1>1. /\ SetConflictRefs(st, head, up) \in RepoState
      /\ run.files \in SUBSET File /\ "conflict" \in Code
  BY RunFields, MarkTypes DEF Code
<1>2. s \in RepoState
  BY <1>1, MarkTypes
<1>3. \E events \in SUBSET Event : Return(s, events)
  BY DEF HandleConflict, Event
<1>4. told' \in {run.files, told}
  BY DEF HandleConflict
<1>. HIDE DEF s
<1>. QED
  BY <1>1, <1>2, <1>3, <1>4, ReturnType DEF RepoOK

LEMMA AbortStepType ==
    ASSUME TypeOK, AbortStep
    PROVE  DaemonOK'
<1>1. "record" \in Stage /\ run \in RunState /\ {} \in SUBSET Event
  BY DEF Stage, TypeOK, DaemonOK
<1>2. Fail("other") \/ Goto("record", run, {})
  BY DEF AbortStep
<1>. QED
  BY <1>1, <1>2, FailType, GotoType DEF TypeOK

LEMMA RecordStepType ==
    ASSUME TypeOK, RecordStep
    PROVE  DaemonOK' /\ told' \subseteq File
<1>1. CASE Fail("other") /\ UNCHANGED <<told, lost>>
  BY <1>1, FailType DEF TypeOK, RepoOK
<1>2. CASE \E head, up \in History : HandleConflict(run.files, head, up)
  BY <1>2, HandleConflictType
<1>3. local \in History /\ tracking \in History /\ <<>> \in History
  BY EmptyHistory DEF TypeOK, WorkOK
<1>. QED
  BY <1>1, <1>2, <1>3 DEF RecordStep, ghost

LEMMA RecountStepType ==
    ASSUME TypeOK, RecountStep
    PROVE  DaemonOK'
<1>. USE DEF TypeOK
<1>. DEFINE a == Ahead(local, tracking)
            r == [run EXCEPT !.ahead = a, !.behind = Behind(local, tracking),
                             !.dropped = @ \/ (run.forkPoint /\ a < run.ahead)]
<1>1. a \in Nat /\ Behind(local, tracking) \in Nat
  BY CountLemma DEF WorkOK
<1>2. Goto("push", r, {}) /\ "push" \in Stage /\ {} \in SUBSET Event
  BY DEF RecountStep, Stage
<1>. HIDE DEF a
<1>3. r \in RunState
  <2>. DEFINE d == run.dropped \/ (run.forkPoint /\ a < run.ahead)
  <2>1. d \in BOOLEAN /\ r = [run EXCEPT !.ahead = a, !.behind = Behind(local, tracking), !.dropped = d]
    OBVIOUS
  <2>2. run \in RunState
    BY DEF DaemonOK
  <2>. HIDE DEF d, r
  <2>. QED
    BY <1>1, <2>1, <2>2 DEF RunState
<1>. HIDE DEF r
<1>. QED
  BY <1>2, <1>3, GotoType

LEMMA PushStepType ==
    ASSUME TypeOK, PushStep
    PROVE  DaemonOK'
<1>. USE DEF TypeOK
<1>1. CASE PushNothing \/ PushAccepted
  BY <1>1, SucceedType DEF PushNothing, PushAccepted
<1>2. CASE PushRejected
  <2>1. [run EXCEPT !.attempt = @ + 1] \in RunState
    BY DEF DaemonOK, RunState
  <2>2. "fetch" \in Stage /\ {} \in SUBSET Event
    BY DEF Stage
  <2>3. Fail("other") \/ Goto("fetch", [run EXCEPT !.attempt = @ + 1], {})
    BY <1>2 DEF PushRejected
  <2>. QED
    BY <2>1, <2>2, <2>3, FailType, GotoType
<1>3. CASE PushUnacknowledged
  BY <1>3, FailType DEF PushUnacknowledged
<1>. QED
  BY <1>1, <1>2, <1>3 DEF PushStep

LEMMA StopTypes ==
    ASSUME TypeOK, Cancel \/ SaveState \/ Crash
    PROVE  DaemonOK'
<1>. USE DEF TypeOK, DaemonOK
<1>1. CASE Cancel
  <2>1. [run EXCEPT !.cancelled = TRUE] \in RunState
    BY DEF RunState
  <2>. QED BY <1>1, <2>1 DEF Cancel
<1>2. CASE SaveState
  BY <1>2, PersistTypes DEF SaveState
<1>3. CASE Crash
  BY <1>3, PersistTypes, NoRunType DEF Crash, Stage
<1>. QED
  BY <1>1, <1>2, <1>3

LEMMA OutsideTypes ==
    ASSUME TypeOK, UserStep \/ OtherStep
    PROVE  DaemonOK'
<1>1. UNCHANGED daemon /\ emit' = {}
  BY DEF UserStep, OtherStep, UserEdits, UserCommits, UserFetches, UserResolves,
         UserTogglesRebase, UserTogglesBlock, OtherPushes, OtherForces, daemon
<1>. QED
  BY <1>1 DEF TypeOK, DaemonOK, daemon

LEMMA DaemonNext == TypeOK /\ [Next]_vars => DaemonOK'
<1>. SUFFICES ASSUME TypeOK, [Next]_vars PROVE DaemonOK'
  OBVIOUS
<1>1. CASE \E force, localOnly \in BOOLEAN : Start(force, localOnly)
  BY <1>1, StartType
<1>2. CASE EngineStep
  <2>1. CASE CommandFails \/ NetworkFails
    BY <2>1, FailType DEF TypeOK, CommandFails, NetworkFails
  <2>2. CASE UpstreamGone
    <3>1. "upstream_gone" \in PreflightCode /\ FailPreflight("upstream_gone")
      BY <2>2 DEF UpstreamGone, PreflightCode
    <3>. QED BY <3>1, FailPreflightType DEF TypeOK
  <2>. QED
    BY <1>2, <2>1, <2>2, PrepareType, CommitStepType, FetchStepType, GuardStepType,
       CountStepType, RebaseStepType, AbortStepType, RecordStepType, RecountStepType,
       PushStepType DEF EngineStep
<1>3. CASE Cancel \/ SaveState \/ Crash
  BY <1>3, StopTypes
<1>4. CASE UserStep \/ OtherStep
  BY <1>4, OutsideTypes
<1>5. CASE UNCHANGED vars
  BY <1>5 DEF vars, TypeOK, DaemonOK
<1>. QED
  BY <1>1, <1>2, <1>3, <1>4, <1>5 DEF Next

-----------------------------------------------------------------------------
(* The engine implements the contract. *)

\* A run that fails is over.
LEMMA FailEnds ==
    /\ \A kind \in {"network", "other"} : Fail(kind) => pc' = "idle"
    /\ \A code \in PreflightCode : FailPreflight(code) => pc' = "idle"
    /\ Succeed => pc' = "idle"
    /\ StayInConflict => pc' = "idle"
    /\ \A files, head, up : HandleConflict(files, head, up) => pc' = "idle"
BY DEF Fail, FailPreflight, Succeed, StayInConflict, HandleConflict, Return

\* Every step of the engine is a step of the contract or leaves the work alone.
LEMMA EngineWork ==
    ASSUME TypeOK, MidRebaseQuiet, EngineStep
    PROVE  [WorkNext]_work
<1>. USE DEF work, WorkNext
<1>1. CASE Prepare
  <2>1. CASE CommitAll /\ UNCHANGED ghost
    BY <2>1 DEF CommitAll, ghost, Commits
  <2>. QED
    BY <1>1, <2>1 DEF Prepare, Begin, git, ghost
<1>2. CASE CommitStep
  <2>1. CASE wt = {}
    BY <1>2, <2>1 DEF CommitStep, git, ghost
  <2>2. CASE wt # {}
    BY <1>2, <2>2 DEF CommitStep, CommitAll, ghost, Commits
  <2>. QED BY <2>1, <2>2
<1>3. CASE FetchStep
  <2>1. \/ UNCHANGED git
        \/ /\ tracking' = remote /\ reflog' = reflog \cup {remote}
           /\ UNCHANGED <<wt, local, remote>>
    BY <1>3 DEF FetchStep
  <2>2. UNCHANGED <<used, removed, clobbered>>
    BY <1>3 DEF FetchStep
  <2>. QED
    BY <2>1, <2>2 DEF git, Fetches
<1>4. CASE GuardStep
  BY <1>4 DEF GuardStep, git, ghost
<1>5. CASE CountStep \/ UpstreamGone
  BY <1>5 DEF CountStep, UpstreamGone, git, ghost
<1>6. CASE RebaseStep
  <2>1. CASE RebaseApplies
    <3>. DEFINE base == RebaseBase(local, tracking, reflog, run.forced)
    <3>1. /\ base \in 0..Len(local)
          /\ \E t \in reflog \cup {tracking} :
                Content(SubSeq(local, 1, base)) \subseteq Content(t)
      BY RunFields, RebaseBaseLemma DEF TypeOK, WorkOK
    <3>2. /\ local' = Rebased(local, tracking, base)
          /\ UNCHANGED <<wt, tracking, reflog, remote, used, removed, clobbered>>
      BY <2>1 DEF RebaseApplies, ghost
    <3>. HIDE DEF base
    <3>. QED
      BY <3>1, <3>2 DEF Replays
  <2>2. CASE RebaseConflicts \/ RebaseTimesOut
    BY <2>2 DEF RebaseConflicts, RebaseTimesOut, ghost
  <2>3. CASE RebaseRefusesDirty
    BY <2>3 DEF RebaseRefusesDirty, git, ghost
  <2>. QED
    BY <1>6, <2>1, <2>2, <2>3 DEF RebaseStep, git, ghost
<1>7. CASE AbortStep
  <2>1. CASE UNCHANGED <<git, ghost>>
    BY <2>1 DEF git, ghost
  <2>2. CASE \E gone \in SUBSET exposed :
               /\ wt' = wt \ gone /\ clobbered' = clobbered \cup gone
               /\ UNCHANGED <<local, tracking, reflog, remote, used, removed>>
    <3>1. exposed \subseteq wt
      BY DEF MidRebaseQuiet
    <3>. QED
      BY <2>2, <3>1 DEF Overwrites
  <2>. QED
    BY <1>7, <2>1, <2>2 DEF AbortStep
<1>8. CASE RecountStep
  BY <1>8 DEF RecountStep, git, ghost
<1>11. CASE RecordStep
  <2>1. UNCHANGED git /\ UNCHANGED <<used, removed, clobbered>>
    BY <1>11, Zenon DEF RecordStep, HandleConflict, ghost
  <2>. QED BY <2>1 DEF git
<1>9. CASE PushStep
  <2>1. CASE PushNothing
    BY <2>1 DEF PushNothing, Succeed, git
  <2>2. CASE PushAccepted
    BY <2>2 DEF PushAccepted, Succeed, Pushes
  <2>3. CASE PushRejected
    BY <2>3 DEF PushRejected, git, ghost
  <2>4. CASE PushUnacknowledged
    BY <2>4 DEF PushUnacknowledged, ghost, Pushes
  <2>. QED
    BY <1>9, <2>1, <2>2, <2>3, <2>4 DEF PushStep
<1>10. CASE CommandFails \/ NetworkFails
  BY <1>10 DEF CommandFails, NetworkFails, git, ghost
<1>. QED
  BY <1>1, <1>2, <1>3, <1>4, <1>5, <1>6, <1>7, <1>8, <1>9, <1>10, <1>11 DEF EngineStep

\* So is every step of the user and of the other machines.
LEMMA OutsideWork ==
    ASSUME TypeOK, UserStep \/ OtherStep
    PROVE  [WorkNext]_work
<1>. USE DEF work, WorkNext
<1>1. CASE \E e \in LocalEdit : UserEdits(e)
  BY <1>1 DEF UserEdits, Edits
<1>2. CASE UserCommits
  <2>1. CASE CommitAll
    BY <1>2, <2>1 DEF UserCommits, CommitAll, ghost, Commits
  <2>2. CASE ~CommitAll
    BY <1>2, <2>2 DEF UserCommits, ghost
  <2>. QED BY <2>1, <2>2
<1>3. CASE UserFetches
  BY <1>3 DEF UserFetches, ghost, Fetches
<1>4. CASE UserResolves
  <2>. DEFINE base == CommonLen(local, tracking)
  <2>1. base \in 0..Len(local) /\ Content(SubSeq(local, 1, base)) \subseteq Content(tracking)
    BY CommonContent DEF TypeOK, WorkOK
  <2>2. /\ local' = Rebased(local, tracking, base)
        /\ UNCHANGED <<wt, tracking, reflog, remote, used, removed, clobbered>>
    BY <1>4 DEF UserResolves, ghost
  <2>. HIDE DEF base
  <2>. QED
    BY <2>1, <2>2 DEF Replays
<1>5. CASE UserTogglesRebase \/ UserTogglesBlock
  BY <1>5 DEF UserTogglesRebase, UserTogglesBlock, ghost
<1>6. CASE \E e \in RemoteEdit : OtherPushes(e)
  BY <1>6 DEF OtherPushes, OthersPush
<1>7. CASE \E n \in 0..Len(remote) : OtherForces(n)
  BY <1>7 DEF OtherForces, OthersForce
<1>. QED
  BY <1>1, <1>2, <1>3, <1>4, <1>5, <1>6, <1>7 DEF UserStep, OtherStep

LEMMA WorkStep == TypeOK /\ MidRebaseQuiet /\ [Next]_vars => [WorkNext]_work
<1>. SUFFICES ASSUME TypeOK, MidRebaseQuiet, [Next]_vars PROVE [WorkNext]_work
  OBVIOUS
<1>1. CASE \E force, localOnly \in BOOLEAN : Start(force, localOnly)
  BY <1>1 DEF Start, git, ghost, work
<1>2. CASE Cancel \/ SaveState \/ Crash
  BY <1>2 DEF Cancel, SaveState, Crash, git, ghost, work
<1>3. CASE UNCHANGED vars
  BY <1>3 DEF vars, work
<1>. QED
  BY <1>1, <1>2, <1>3, EngineWork, OutsideWork DEF Next

-----------------------------------------------------------------------------
(* The other variables, and the inductive invariant. *)

\* A bounded counter that is not at its bound may be incremented.
LEMMA CountUp == \A n \in Nat : \A k \in 0..n : k < n => k + 1 \in 0..n
OBVIOUS

LEMMA MovedType == RepoOK /\ [Next]_vars => moved' \in BOOLEAN /\ lost' \in BOOLEAN
<1>. SUFFICES ASSUME RepoOK, [Next]_vars PROVE moved' \in BOOLEAN /\ lost' \in BOOLEAN
  OBVIOUS
<1>0. moved \in BOOLEAN /\ lost \in BOOLEAN
  BY DEF RepoOK
<1>1. CASE NotesMove /\ lost' = lost
  BY <1>0, <1>1, Zenon DEF NotesMove
<1>2. CASE moved' = moved /\ lost' = lost
  BY <1>0, <1>2, Zenon
<1>3. CASE moved' = FALSE /\ lost' = FALSE
  BY <1>3, Zenon
<1>4. CASE EngineStep
  <2>1. CASE RecordStep
    <3>1. CASE \E head, up : HandleConflict(run.files, head, up)
      BY <1>0, <3>1, Zenon DEF HandleConflict
    <3>. QED BY <1>2, <2>1, <3>1, Zenon DEF RecordStep, ghost
  <2>2. CASE RebaseStep
    BY <1>2, <2>2, Zenon DEF RebaseStep, RebaseApplies, RebaseConflicts, RebaseTimesOut,
                             RebaseRefusesDirty, ghost
  <2>3. CASE PushStep
    BY <1>2, <1>3, <2>3, Zenon DEF PushStep, PushNothing, PushAccepted, PushRejected,
                                   PushUnacknowledged, Succeed, ghost
  <2>4. CASE FetchStep
    BY <1>1, <2>4, Zenon DEF FetchStep
  <2>5. CASE Prepare \/ CommitStep \/ GuardStep \/ CountStep \/ RecountStep \/ AbortStep
             \/ UpstreamGone \/ CommandFails \/ NetworkFails
    BY <1>2, <2>5, Zenon DEF Prepare, Begin, CommitStep, GuardStep, CountStep, RecountStep,
                             AbortStep, UpstreamGone, CommandFails, NetworkFails, ghost
  <2>. QED BY <1>4, <2>1, <2>2, <2>3, <2>4, <2>5 DEF EngineStep
<1>5. CASE Crash
  BY <1>5, Zenon DEF Crash
<1>6. CASE UserFetches
  BY <1>1, <1>6 DEF UserFetches
<1>7. CASE UserStep /\ ~UserFetches
  BY <1>2, <1>7, Zenon DEF UserStep, UserEdits, UserCommits, UserResolves, UserTogglesRebase,
                           UserTogglesBlock, ghost
<1>8. CASE OtherStep
  BY <1>2, <1>8, Zenon DEF OtherStep, OtherPushes, OtherForces
<1>9. CASE Cancel \/ SaveState \/ \E force, localOnly \in BOOLEAN : Start(force, localOnly)
  BY <1>2, <1>9, Zenon DEF Cancel, SaveState, Start, ghost
<1>10. CASE UNCHANGED vars
  BY <1>2, <1>10, Zenon DEF vars
<1>. QED BY <1>4, <1>5, <1>6, <1>7, <1>8, <1>9, <1>10 DEF Next

LEMMA RepoNext == TypeOK /\ [Next]_vars => RepoOK'
<1>. SUFFICES ASSUME TypeOK, [Next]_vars PROVE RepoOK'
  OBVIOUS
<1>. USE DEF TypeOK, RepoOK
<1>0. moved' \in BOOLEAN /\ lost' \in BOOLEAN
  BY MovedType
<1>. USE <1>0
<1>1. CASE \E force, localOnly \in BOOLEAN : Start(force, localOnly)
  BY <1>1 DEF Start, git, ghost
<1>2. CASE EngineStep
  <2>1. CASE RecordStep
    <3>1. told' \subseteq File
      BY <2>1, RecordStepType
    <3>2. UNCHANGED git /\ UNCHANGED <<forces, stops>>
      BY <2>1, Zenon DEF RecordStep, HandleConflict, ghost
    <3>. QED
      BY <3>1, <3>2 DEF git
  <2>7. CASE AbortStep
    BY <2>7 DEF AbortStep, git, ghost
  <2>2. CASE RebaseStep
    BY <2>2 DEF RebaseStep, RebaseApplies, RebaseConflicts, RebaseTimesOut,
                RebaseRefusesDirty, git, ghost
  <2>3. CASE PushStep
    BY <2>3 DEF PushStep, PushNothing, PushAccepted, PushRejected, PushUnacknowledged,
                Succeed, git, ghost
  <2>4. CASE Prepare \/ CommitStep
    BY <2>4 DEF Prepare, CommitStep, Begin, CommitAll, git, ghost
  <2>5. CASE FetchStep
    BY <2>5 DEF FetchStep, git, ghost
  <2>6. CASE GuardStep \/ CountStep \/ RecountStep \/ UpstreamGone \/ CommandFails \/ NetworkFails
    BY <2>6 DEF GuardStep, CountStep, RecountStep, UpstreamGone, CommandFails, NetworkFails,
                git, ghost
  <2>. QED
    BY <1>2, <2>1, <2>2, <2>3, <2>4, <2>5, <2>6, <2>7 DEF EngineStep
<1>3. CASE Cancel
  <2>1. stops < MaxStops /\ stops' = stops + 1
    BY <1>3, Zenon DEF Cancel
  <2>2. stops' \in 0..MaxStops
    BY <2>1, CountUp, Zenon
  <2>. QED
    BY <1>3, <2>2, Zenon DEF Cancel, git
<1>4. CASE SaveState
  BY <1>4 DEF SaveState, git, ghost
<1>5. CASE Crash
  <2>2. stops < MaxStops /\ stops' = stops + 1
    BY <1>5, Zenon DEF Crash
  <2>3. stops' \in 0..MaxStops
    BY <2>2, CountUp, Zenon
  <2>. QED
    BY <1>5, <2>3, Zenon DEF Crash, git
<1>6. CASE UserStep
  <2>1. CASE \E e \in LocalEdit : UserEdits(e)
    BY <2>1, EditAssumption DEF UserEdits
  <2>2. CASE UserTogglesRebase
    BY <2>2 DEF UserTogglesRebase, ghost
  <2>3. CASE UserTogglesBlock
    BY <2>3 DEF UserTogglesBlock, ghost
  <2>4. CASE UserCommits \/ UserFetches \/ UserResolves
    <3>1. wt \subseteq Edit
      BY DEF WorkOK
    <3>. QED
      BY <2>4, <3>1 DEF UserCommits, CommitAll, UserFetches, UserResolves, ghost
  <2>. QED BY <1>6, <2>1, <2>2, <2>3, <2>4 DEF UserStep
<1>7. CASE OtherStep
  <2>1. CASE \E e \in RemoteEdit : OtherPushes(e)
    BY <2>1 DEF OtherPushes
  <2>2. CASE \E n \in 0..Len(remote) : OtherForces(n)
    <3>1. forces < MaxForcePush /\ forces' = forces + 1
      BY <2>2, Zenon DEF OtherForces
    <3>2. forces' \in 0..MaxForcePush
      BY <3>1, CountUp, Zenon
    <3>. QED
      BY <2>2, <3>2, Zenon DEF OtherForces
  <2>. QED BY <1>7, <2>1, <2>2 DEF OtherStep
<1>8. CASE UNCHANGED vars
  BY <1>8 DEF vars
<1>. QED
  BY <1>1, <1>2, <1>3, <1>4, <1>5, <1>6, <1>7, <1>8 DEF Next

\* While a rebase is stopped no run gets past preflight, and only the
\* rebase's own run is in its abort.
LEMMA QuietNext == TypeOK /\ MidRebaseQuiet /\ [Next]_vars => MidRebaseQuiet'
<1>. SUFFICES ASSUME TypeOK, MidRebaseQuiet, [Next]_vars PROVE MidRebaseQuiet'
  OBVIOUS
<1>. USE DEF MidRebaseQuiet
<1>1. CASE \E force, localOnly \in BOOLEAN : Start(force, localOnly)
  BY <1>1 DEF Start, Goto, git
<1>2. CASE Prepare
  <2>1. CASE mid
    <3>1. Refusal = "rebase_in_progress" /\ "rebase_in_progress" \in PreflightCode
      BY <2>1 DEF Refusal, PreflightCode
    <3>2. FailPreflight(Refusal) /\ UNCHANGED git
      BY <1>2, <3>1 DEF Prepare
    <3>. QED
      BY <3>1, <3>2, FailEnds DEF git
  <2>2. CASE ~mid
    <3>1. exposed = {}
      BY <2>2
    <3>2. mid' = mid /\ exposed' = exposed
      BY <1>2, Zenon DEF Prepare, CommitAll, git
    <3>. QED
      BY <2>2, <3>1, <3>2, Zenon
  <2>. QED BY <2>1, <2>2 DEF TypeOK, RepoOK
<1>3. CASE CommitStep
  <2>1. ~mid /\ exposed = {}
    BY <1>3 DEF CommitStep
  <2>. QED
    BY <1>3, <2>1 DEF CommitStep, CommitAll, git
<1>4. CASE FetchStep
  BY <1>4 DEF FetchStep, git
<1>5. CASE GuardStep \/ CountStep \/ RecountStep \/ UpstreamGone \/ RecordStep
  <2>1. pc \notin {"idle", "prepare", "abort"} /\ UNCHANGED git
    BY <1>5 DEF GuardStep, CountStep, RecountStep, UpstreamGone, RecordStep
  <2>. QED BY <2>1 DEF git
<1>6. CASE RebaseStep
  <2>1. pc = "rebase" /\ ~mid /\ exposed = {}
    BY <1>6 DEF RebaseStep
  <2>2. CASE RebaseConflicts \/ RebaseTimesOut
    BY <2>1, <2>2 DEF RebaseConflicts, RebaseTimesOut, Goto
  <2>3. CASE ~(RebaseConflicts \/ RebaseTimesOut)
    BY <1>6, <2>1, <2>3 DEF RebaseStep, RebaseApplies, RebaseRefusesDirty, git
  <2>. QED BY <2>2, <2>3
<1>7. CASE AbortStep
  <2>1. CASE Fail("other") /\ UNCHANGED <<git, ghost>>
    BY <2>1, FailEnds DEF git
  <2>2. CASE ~mid' /\ exposed' = {}
    BY <2>2
  <2>. QED
    BY <1>7, <2>1, <2>2 DEF AbortStep
<1>8. CASE PushStep
  <2>1. pc = "push" /\ ~mid /\ exposed = {}
    BY <1>8 DEF PushStep
  <2>. QED
    BY <1>8, <2>1 DEF PushStep, PushNothing, PushAccepted, PushRejected,
                      PushUnacknowledged, git
<1>9. CASE CommandFails \/ NetworkFails
  BY <1>9, FailEnds DEF CommandFails, NetworkFails, git
<1>10. CASE Cancel \/ SaveState \/ Crash
  BY <1>10 DEF Cancel, SaveState, Crash, git
<1>11. CASE UserStep
  <2>1. CASE \E e \in LocalEdit : UserEdits(e)
    BY <2>1 DEF UserEdits, daemon
  <2>2. CASE UserCommits
    BY <2>2 DEF UserCommits, CommitAll, daemon
  <2>3. CASE UserTogglesRebase
    BY <2>3 DEF UserTogglesRebase, daemon
  <2>4. CASE UserFetches \/ UserResolves \/ UserTogglesBlock
    <3>1. mid' = mid /\ exposed' = exposed /\ wt' = wt /\ pc' = pc
      BY <2>4, Zenon DEF UserFetches, UserResolves, UserTogglesBlock, daemon
    <3>. QED
      BY <3>1, Zenon
  <2>. QED BY <1>11, <2>1, <2>2, <2>3, <2>4 DEF UserStep
<1>12. CASE OtherStep
  BY <1>12 DEF OtherStep, OtherPushes, OtherForces, daemon
<1>13. CASE UNCHANGED vars
  BY <1>13 DEF vars
<1>. QED
  BY <1>1, <1>2, <1>3, <1>4, <1>5, <1>6, <1>7, <1>8, <1>9, <1>10, <1>11, <1>12, <1>13
     DEF Next, EngineStep

\* The inductive invariant: types, the quiet of a stopped rebase, and what the
\* contract needs.
Inv == TypeOK /\ MidRebaseQuiet /\ WorkInv

LEMMA InitInv == Init => Inv
<1>. SUFFICES ASSUME Init PROVE Inv
  OBVIOUS
<1>1. WorkInv
  BY WorkInitInv DEF Init
<1>2. DaemonOK
  <2>1. MarshalPersisted(NewState) \in Persistent
    BY NewStateType, PersistTypes
  <2>. QED
    BY <2>1, NewStateType, NoRunType DEF Init, DaemonOK, Stage
<1>3. MidRebaseQuiet
  BY DEF Init, MidRebaseQuiet
<1>4. RepoOK
  <2>1. forces = 0 /\ stops = 0
    BY Zenon DEF Init
  <2>2. forces \in 0..MaxForcePush /\ stops \in 0..MaxStops
    BY <2>1
  <2>. QED
    BY <2>2, Zenon DEF Init, RepoOK
<1>. QED
  BY <1>1, <1>2, <1>3, <1>4 DEF Inv, TypeOK, WorkInv

LEMMA NextInv == Inv /\ [Next]_vars => Inv'
BY DaemonNext, RepoNext, QuietNext, WorkStep, WorkNextInv DEF Inv, TypeOK, WorkInv

\* The engine's variables keep their types: in particular the conflict that
\* is saved is one that can be restored, and the counters stay in their
\* bounds.
THEOREM TypeCorrect == Spec => []TypeOK
<1>1. Inv => TypeOK
  BY DEF Inv
<1>. QED
  BY <1>1, InitInv, NextInv, PTL DEF Spec

\* The engine never works on a repository in the middle of a rebase.
THEOREM RebaseLeftAlone == Spec => []MidRebaseQuiet
<1>1. Inv => MidRebaseQuiet
  BY DEF Inv
<1>. QED
  BY <1>1, InitInv, NextInv, PTL DEF Spec

\* The engine implements the contract: each command of a run, each
\* interruption and each step of the world around it is a step of SyncContract
\* or leaves the work alone.
THEOREM EngineKeepsContract == Spec => WorkSpec
<1>1. Init => WorkInit
  BY DEF Init
<1>2. Inv /\ [Next]_vars => [WorkNext]_work
  BY WorkStep DEF Inv
<1>. QED
  BY <1>1, <1>2, InitInv, NextInv, PTL DEF Spec, WorkSpec

\* No interleaving of runs, cancellations, crashes, fetches, rebases, pushes
\* and force-pushes loses a commit or an edit that the user made, but for the
\* two losses the property names.
THEOREM EngineLosesNoWork == Spec => []NoCommittedWorkLost
BY EngineKeepsContract, ContractSafe, PTL

-----------------------------------------------------------------------------
(* The status that is shown. *)

\* What keeps "syncing" from outliving its run: a run found another status
\* when it began, and one that has not marked itself, or never will, still
\* shows it.
StatusInv ==
    /\ SyncingOnlyWhileRunning
    /\ pc # "idle" => run.prev.status # "syncing"
    /\ (pc \in {"prepare", "localcommit"} \/ run.localOnly) => st.status # "syncing"

LEMMA ReturnStatus ==
    ASSUME NEW s \in RepoState, NEW events, s.status # "syncing", Return(s, events)
    PROVE  StatusInv'
BY DEF Return, StatusInv, SyncingOnlyWhileRunning, NoRun, NewRun

LEMMA FailStatus ==
    ASSUME TypeOK, StatusInv, pc # "idle", NEW kind \in Code, Fail(kind)
    PROVE  StatusInv'
<1>. USE DEF TypeOK, DaemonOK
<1>1. st \in RepoState /\ run.prev \in RepoState /\ run.prev.status # "syncing"
  BY DEF RunState, StatusInv
<1>2. CASE run.localOnly
  <2>1. st.status # "syncing" /\ Return(st, {})
    BY <1>2 DEF Fail, StatusInv
  <2>. QED BY <1>1, <2>1, ReturnStatus
<1>3. CASE ~run.localOnly /\ run.cancelled
  <2>1. RestoreStatus(st, run.prev) \in RepoState
        /\ RestoreStatus(st, run.prev).status # "syncing"
    BY <1>1 DEF RestoreStatus, RepoState
  <2>2. Return(RestoreStatus(st, run.prev), {})
    BY <1>3 DEF Fail
  <2>. QED BY <2>1, <2>2, ReturnStatus
<1>4. CASE ~run.localOnly /\ ~run.cancelled
  <2>1. MarkOffline(st) \in RepoState /\ MarkOffline(st).status # "syncing"
    BY <1>1 DEF MarkOffline, RepoState, Status, Code
  <2>2. MarkErrorCode(st, kind) \in RepoState /\ MarkErrorCode(st, kind).status # "syncing"
    BY <1>1 DEF MarkErrorCode, RepoState, Status, Code
  <2>3. \E events : Return(MarkOffline(st), events) \/ Return(MarkErrorCode(st, kind), events)
    BY <1>4 DEF Fail
  <2>. QED BY <2>1, <2>2, <2>3, ReturnStatus
<1>. QED BY <1>2, <1>3, <1>4

LEMMA PreflightStatus ==
    ASSUME TypeOK, StatusInv, NEW code \in PreflightCode, FailPreflight(code)
    PROVE  StatusInv'
<1>1. st \in RepoState
  BY DEF TypeOK, DaemonOK
<1>2. CASE run.localOnly
  <2>1. st.status # "syncing" /\ Return(st, {})
    BY <1>2 DEF FailPreflight, StatusInv
  <2>. QED BY <1>1, <2>1, ReturnStatus
<1>3. CASE ~run.localOnly
  <2>1. MarkPreflight(st, code) \in RepoState /\ MarkPreflight(st, code).status # "syncing"
    BY <1>1 DEF MarkPreflight, RepoState, Status, Code
  <2>2. \E events : Return(MarkPreflight(st, code), events)
    BY <1>3 DEF FailPreflight
  <2>. QED BY <2>1, <2>2, ReturnStatus
<1>. QED BY <1>2, <1>3

\* A step within a run keeps the state entry and what the run found.
LEMMA GotoStatus ==
    ASSUME StatusInv, pc # "idle", NEW stage, NEW r, NEW events,
           stage \notin {"idle", "prepare", "localcommit"}, Goto(stage, r, events),
           r.prev = run.prev, r.localOnly = run.localOnly
    PROVE  StatusInv'
BY DEF Goto, StatusInv, SyncingOnlyWhileRunning

LEMMA StatusNext == TypeOK /\ StatusInv /\ [Next]_vars => StatusInv'
<1>. SUFFICES ASSUME TypeOK, StatusInv, [Next]_vars PROVE StatusInv'
  OBVIOUS
<1>st. st \in RepoState /\ run \in RunState
  BY DEF TypeOK, DaemonOK
<1>1. CASE \E force, localOnly \in BOOLEAN : Start(force, localOnly)
  BY <1>1 DEF Start, Goto, NewRun, StatusInv, SyncingOnlyWhileRunning
<1>2. CASE Prepare
  <2>1. pc = "prepare" /\ pc # "idle"
    BY <1>2 DEF Prepare
  <2>2. CASE \E c \in BOOLEAN : Begin(c)
    BY <2>1, <2>2, <1>st DEF Begin, StatusInv, SyncingOnlyWhileRunning, RunState
  <2>3. CASE \E code \in PreflightCode : FailPreflight(code)
    BY <2>3, PreflightStatus
  <2>4. Refusal \in {"", "no_head", "detached_head", "rebase_in_progress"}
    BY DEF Refusal, TypeOK, RepoOK
  <2>. QED BY <1>2, <2>2, <2>3, <2>4 DEF Prepare, PreflightCode
<1>3. CASE CommitStep
  <2>. DEFINE events == IF wt = {} THEN {} ELSE {"commit"}
              r == [run EXCEPT !.committed = @ \/ wt # {}]
  <2>1. r.prev = run.prev /\ r.localOnly = run.localOnly
    BY <1>st DEF RunState
  <2>2. CASE pc \in {"commit", "recommit"}
    <3>1. Goto("fetch", r, events) \/ Goto("rebase", r, events)
      BY <1>3, <2>2 DEF CommitStep
    <3>. QED BY <2>1, <2>2, <3>1, GotoStatus
  <2>3. CASE pc = "localcommit"
    <3>1. Return(st, events)
      BY <1>3, <2>3 DEF CommitStep
    <3>2. st.status # "syncing"
      BY <2>3 DEF StatusInv
    <3>. QED BY <1>st, <3>1, <3>2, ReturnStatus
  <2>. QED BY <1>3, <2>2, <2>3 DEF CommitStep
<1>4. CASE FetchStep
  <2>1. pc # "idle" /\ "upstream_gone" \in PreflightCode
    BY <1>4 DEF FetchStep, PreflightCode
  <2>. DEFINE r == [run EXCEPT !.forced = @ \/ ~IsAncestor(tracking, remote),
                               !.fetched = remote]
              stage == IF run.attempt = 1 THEN "guard" ELSE "count"
  <2>2. r.prev = run.prev /\ r.localOnly = run.localOnly
    BY <1>st DEF RunState
  <2>3. Goto(stage, r, {}) \/ Goto(stage, run, {}) \/ FailPreflight("upstream_gone")
    BY <1>4, Zenon DEF FetchStep
  <2>4. stage \notin {"idle", "prepare", "localcommit"}
    OBVIOUS
  <2>. HIDE DEF r, stage
  <2>. QED BY <2>1, <2>2, <2>3, <2>4, GotoStatus, PreflightStatus
<1>5. CASE GuardStep
  <2>. DEFINE r == [run EXCEPT !.unsure = TRUE]
  <2>1. CASE Goto("count", run, {}) \/ Goto("count", r, {})
    <3>1. r.prev = run.prev /\ r.localOnly = run.localOnly
      BY <1>st DEF RunState
    <3>. HIDE DEF r
    <3>. QED BY <1>5, <2>1, <3>1, GotoStatus DEF GuardStep
  <2>2. CASE StayInConflict
    <3>. DEFINE msg == IF run.prev.lastError = "" THEN "conflict" ELSE run.prev.lastError
    <3>1. msg \in Code /\ run.prev.files \in SUBSET File
      BY <1>st DEF RunState, RepoState, Code
    <3>2. MarkConflict(st, run.prev.files, msg) \in RepoState
      BY <1>st, <3>1, MarkTypes
    <3>3. MarkConflict(st, run.prev.files, msg).status = "conflict"
      BY <1>st DEF MarkConflict, RepoState
    <3>4. Return(MarkConflict(st, run.prev.files, msg), {})
      BY <2>2 DEF StayInConflict
    <3>. QED BY <3>2, <3>3, <3>4, ReturnStatus
  <2>. QED BY <1>5, <2>1, <2>2, Zenon DEF GuardStep, LookupFails
<1>6. CASE CountStep
  <2>. DEFINE r == [run EXCEPT !.ahead = Ahead(local, tracking),
                               !.behind = Behind(local, tracking), !.retried = FALSE]
  <2>1. r.prev = run.prev /\ r.localOnly = run.localOnly
    BY <1>st DEF RunState
  <2>2. \E stage \in {"rebase", "push"} : Goto(stage, r, {})
    BY <1>6 DEF CountStep
  <2>. HIDE DEF r
  <2>. QED BY <1>6, <2>1, <2>2, GotoStatus DEF CountStep
<1>7. CASE RebaseStep
  <2>1. pc = "rebase"
    BY <1>7 DEF RebaseStep
  <2>2. CASE Fail("other")
    BY <2>1, <2>2, FailStatus DEF Code
  <2>3. CASE \E r : \E stage \in {"recount", "abort", "recommit"} :
                r.prev = run.prev /\ r.localOnly = run.localOnly /\ Goto(stage, r, {})
    BY <2>1, <2>3, GotoStatus
  <2>4. CASE RebaseApplies
    <3>. DEFINE r == [run EXCEPT !.forced = FALSE, !.forkPoint = run.forced,
                                 !.pulled = @ \/ run.behind > 0]
    <3>1. r.prev = run.prev /\ r.localOnly = run.localOnly
      BY <1>st DEF RunState
    <3>2. Goto("recount", r, {})
      BY <2>4 DEF RebaseApplies
    <3>. QED BY <3>1, <3>2, <2>3
  <2>5. CASE RebaseConflicts \/ RebaseTimesOut
    <3>. DEFINE F == ConflictFiles(local, tracking,
                                   RebaseBase(local, tracking, reflog, run.forced))
    <3>1. \A f : /\ [run EXCEPT !.files = f].prev = run.prev
                 /\ [run EXCEPT !.files = f].localOnly = run.localOnly
      BY <1>st DEF RunState
    <3>2. Goto("abort", [run EXCEPT !.files = F], {}) \/ Goto("abort", [run EXCEPT !.files = {}], {})
      BY <2>5 DEF RebaseConflicts, RebaseTimesOut
    <3>. QED BY <3>1, <3>2, <2>3
  <2>6. CASE RebaseRefusesDirty
    <3>1. /\ [run EXCEPT !.retried = TRUE].prev = run.prev
          /\ [run EXCEPT !.retried = TRUE].localOnly = run.localOnly
      BY <1>st DEF RunState
    <3>2. Fail("other") \/ Goto("recommit", [run EXCEPT !.retried = TRUE], {})
      BY <2>6 DEF RebaseRefusesDirty
    <3>. QED BY <3>1, <3>2, <2>2, <2>3
  <2>. QED BY <1>7, <2>2, <2>4, <2>5, <2>6 DEF RebaseStep
<1>8. CASE AbortStep
  BY <1>8, FailStatus, GotoStatus DEF AbortStep, Code
<1>16. CASE RecordStep
  <2>1. CASE Fail("other")
    BY <1>16, <2>1, FailStatus DEF RecordStep, Code
  <2>2. CASE \E head, up \in History : HandleConflict(run.files, head, up)
    <3>0. PICK head, up \in History : HandleConflict(run.files, head, up)
      BY <2>2
    <3>. DEFINE s == SetConflictRefs(st, head, up)
    <3>1. s \in RepoState
      BY <1>st, MarkTypes
    <3>2. MarkConflict(s, run.files, "conflict") \in RepoState
      BY <1>st, <3>1, MarkTypes DEF Code, RunState
    <3>3. MarkConflict(s, run.files, "conflict").status = "conflict"
      BY <3>1 DEF MarkConflict, RepoState
    <3>4. \E events : Return(MarkConflict(s, run.files, "conflict"), events)
      BY <3>0 DEF HandleConflict
    <3>. HIDE DEF s
    <3>. QED BY <3>2, <3>3, <3>4, ReturnStatus
  <2>3. local \in History /\ tracking \in History /\ <<>> \in History
    BY EmptyHistory DEF TypeOK, WorkOK
  <2>. QED BY <1>16, <2>1, <2>2, <2>3 DEF RecordStep
<1>17. CASE UpstreamGone
  <2>1. pc # "idle" /\ "upstream_gone" \in PreflightCode /\ FailPreflight("upstream_gone")
    BY <1>17 DEF UpstreamGone, PreflightCode
  <2>. QED BY <2>1, PreflightStatus
<1>9. CASE RecountStep
  <2>. DEFINE a == Ahead(local, tracking)
              r == [run EXCEPT !.ahead = a, !.behind = Behind(local, tracking),
                               !.dropped = @ \/ (run.forkPoint /\ a < run.ahead)]
  <2>1. r.prev = run.prev /\ r.localOnly = run.localOnly
    BY <1>st DEF RunState
  <2>2. pc = "recount" /\ Goto("push", r, {})
    BY <1>9 DEF RecountStep
  <2>. HIDE DEF r
  <2>. QED BY <2>1, <2>2, GotoStatus
<1>10. CASE PushStep
  <2>1. pc = "push"
    BY <1>10 DEF PushStep
  <2>2. CASE Succeed
    <3>1. MarkSuccess(st) \in RepoState
      BY <1>st, MarkTypes
    <3>2. MarkSuccess(st).status = "ok"
      BY <1>st DEF MarkSuccess, RepoState
    <3>3. \E events : Return(MarkSuccess(st), events)
      BY <2>2 DEF Succeed
    <3>. QED BY <3>1, <3>2, <3>3, ReturnStatus
  <2>3. CASE \E kind \in {"network", "other"} : Fail(kind)
    BY <2>1, <2>3, FailStatus DEF Code
  <2>4. CASE Goto("fetch", [run EXCEPT !.attempt = @ + 1], {})
    <3>1. /\ [run EXCEPT !.attempt = @ + 1].prev = run.prev
          /\ [run EXCEPT !.attempt = @ + 1].localOnly = run.localOnly
      BY <1>st DEF RunState
    <3>. QED BY <2>1, <2>4, <3>1, GotoStatus
  <2>. QED
    BY <1>10, <2>2, <2>3, <2>4, Zenon
       DEF PushStep, PushNothing, PushAccepted, PushRejected, PushUnacknowledged
<1>11. CASE CommandFails \/ NetworkFails
  BY <1>11, FailStatus DEF CommandFails, NetworkFails, Code
<1>12. CASE Cancel
  <2>1. /\ [run EXCEPT !.cancelled = TRUE].prev = run.prev
        /\ [run EXCEPT !.cancelled = TRUE].localOnly = run.localOnly
    BY <1>st DEF RunState
  <2>2. pc' = pc /\ st' = st /\ run' = [run EXCEPT !.cancelled = TRUE]
    BY <1>12, Zenon DEF Cancel
  <2>. QED BY <2>1, <2>2 DEF StatusInv, SyncingOnlyWhileRunning
<1>13. CASE Crash
  <2>1. LoadPersisted(disk) \in RepoState /\ LoadPersisted(disk).status # "syncing"
    BY PersistTypes DEF TypeOK, DaemonOK, LoadPersisted, MarkConflict, NewState
  <2>2. st' = LoadPersisted(disk) /\ pc' = "idle" /\ run' = NoRun
    BY <1>13, Zenon DEF Crash
  <2>. QED BY <2>1, <2>2 DEF StatusInv, SyncingOnlyWhileRunning, NoRun, NewRun
<1>14. CASE UNCHANGED <<st, pc, run>>
  BY <1>14 DEF StatusInv, SyncingOnlyWhileRunning
<1>15. CASE SaveState \/ UserStep \/ OtherStep \/ UNCHANGED vars
  <2>1. UNCHANGED <<st, pc, run>>
    BY <1>15 DEF SaveState, UserStep, UserEdits, UserCommits, UserFetches, UserResolves,
                 UserTogglesRebase, UserTogglesBlock, OtherStep, OtherPushes,
                 OtherForces, daemon, vars
  <2>. QED BY <1>14, <2>1
<1>. QED
  BY <1>1, <1>2, <1>3, <1>4, <1>5, <1>6, <1>7, <1>8, <1>9, <1>10, <1>11, <1>12, <1>13, <1>15,
     <1>16, <1>17 DEF Next, EngineStep

\* The status shown is "syncing" only while a run is on: whichever command
\* fails, and wherever the run is cancelled or the daemon dies.
THEOREM StatusShownTrue == Spec => []SyncingOnlyWhileRunning
<1>1. ASSUME Init PROVE StatusInv
  <2>1. st = NewState /\ pc = "idle" /\ run = NoRun
    BY <1>1, Zenon DEF Init
  <2>. QED
    BY <2>1 DEF StatusInv, SyncingOnlyWhileRunning, NewState, NoRun, NewRun
<1>2. StatusInv => SyncingOnlyWhileRunning
  BY DEF StatusInv
<1>. QED
  BY <1>1, <1>2, TypeCorrect, StatusNext, PTL DEF Spec

-----------------------------------------------------------------------------
(* How the steps of a run hang together. *)

\* The record of the conflict, what the user was told and what is on disk
\* stay as they are, and no conflict is reported.
Quiet ==
    /\ st'.conflict = st.conflict /\ st'.files = st.files
    /\ st'.head = st.head /\ st'.up = st.up
    /\ UNCHANGED <<told, lost, disk>>
    /\ "conflict" \notin emit'

\* Until its commit a run may hold work in the worktree only.
Early == {"idle", "prepare", "commit", "localcommit"}

\* The run is past its guard against a known conflict.
Late ==
    \/ pc \in {"count", "rebase", "recommit", "abort", "record", "recount", "push"}
    \/ pc = "fetch" /\ run.attempt # 1

\* The record r of a run keeps what the run began with.
Keeps(r) ==
    /\ r.prev = run.prev /\ r.goal = run.goal
    /\ r.localOnly = run.localOnly /\ r.force = run.force
    /\ run.unsure => r.unsure

\* A run goes from one command to the next.
MovesOn ==
    /\ Quiet /\ pc # "idle" /\ Keeps(run')
    /\ pc' = "record" => run'.files # {}
    /\ run'.forced => run.forced \/ tracking' # tracking
    /\ pc' = "commit" => run'.attempt = run.attempt
    /\ Late' => \/ Late
                \/ pc = "commit" /\ run.attempt # 1
                \/ pc = "guard" /\ (run'.unsure \/ ~ConflictUnchanged)
    /\ \/ pc = "prepare" /\ pc' = IF run.localOnly THEN "localcommit" ELSE "commit"
       \/ pc = "commit" /\ pc' = "fetch" /\ (wt = {} \/ Commits)
       \/ /\ pc \in {"count", "recount"} /\ pc' = "push"
          /\ run'.ahead = Ahead(local, tracking) /\ UNCHANGED work
       \/ pc \notin Early /\ pc' \notin Early \cup {"push"}

\* A run ends with an error, a refusal or a local commit; had it come as far
\* as the push, it does not claim success.
EndsQuietly ==
    /\ Quiet /\ pc' = "idle" /\ run' = NoRun
    /\ run.localOnly \/ ~Succeeds

LEMMA ReturnQuiet ==
    ASSUME NEW s, NEW events, Return(s, events), UNCHANGED <<told, lost>>,
           s.conflict = st.conflict, s.files = st.files, s.head = st.head, s.up = st.up,
           "conflict" \notin events,
           run.localOnly \/ s.status # "ok" \/ pc # "push" \/ (run.cancelled /\ run.ahead # 0)
    PROVE  EndsQuietly
BY DEF Return, Quiet, EndsQuietly, Succeeds

LEMMA FailQuiet ==
    ASSUME TypeOK, NEW kind, Fail(kind), UNCHANGED <<told, lost>>,
           pc # "push" \/ run.ahead # 0
    PROVE  EndsQuietly
<1>1. st \in RepoState
  BY DEF TypeOK, DaemonOK
<1>2. CASE run.localOnly
  <2>1. Return(st, {})
    BY <1>2 DEF Fail
  <2>. QED BY <1>2, <2>1, ReturnQuiet
<1>3. CASE ~run.localOnly /\ run.cancelled
  <2>. DEFINE s == RestoreStatus(st, run.prev)
  <2>1. Return(s, {})
    BY <1>3 DEF Fail
  <2>2. s.conflict = st.conflict /\ s.files = st.files /\ s.head = st.head /\ s.up = st.up
    BY <1>1 DEF RestoreStatus, RepoState
  <2>. HIDE DEF s
  <2>. QED BY <1>3, <2>1, <2>2, ReturnQuiet
<1>4. CASE ~run.localOnly /\ ~run.cancelled
  <2>. DEFINE s == MarkOffline(st)
              t == MarkErrorCode(st, kind)
  <2>1. \E events : "conflict" \notin events /\ (Return(s, events) \/ Return(t, events))
    BY <1>4 DEF Fail
  <2>2. /\ s.conflict = st.conflict /\ s.files = st.files /\ s.head = st.head /\ s.up = st.up
        /\ s.status = "offline"
    BY <1>1 DEF MarkOffline, RepoState
  <2>3. /\ t.conflict = st.conflict /\ t.files = st.files /\ t.head = st.head /\ t.up = st.up
        /\ t.status = "error"
    BY <1>1 DEF MarkErrorCode, RepoState
  <2>. HIDE DEF s, t
  <2>. QED BY <2>1, <2>2, <2>3, ReturnQuiet
<1>. QED BY <1>2, <1>3, <1>4

LEMMA PreflightQuiet ==
    ASSUME TypeOK, NEW code, FailPreflight(code), UNCHANGED <<told, lost>>
    PROVE  EndsQuietly
<1>1. st \in RepoState
  BY DEF TypeOK, DaemonOK
<1>2. CASE run.localOnly
  <2>1. Return(st, {})
    BY <1>2 DEF FailPreflight
  <2>. QED BY <1>2, <2>1, ReturnQuiet
<1>3. CASE ~run.localOnly
  <2>. DEFINE s == MarkPreflight(st, code)
  <2>1. \E events : "conflict" \notin events /\ Return(s, events)
    BY <1>3 DEF FailPreflight
  <2>2. /\ s.conflict = st.conflict /\ s.files = st.files /\ s.head = st.head /\ s.up = st.up
        /\ s.status = "preflight"
    BY <1>1 DEF MarkPreflight, RepoState
  <2>. HIDE DEF s
  <2>. QED BY <2>1, <2>2, ReturnQuiet
<1>. QED BY <1>2, <1>3

LEMMA GotoQuiet ==
    ASSUME NEW stage, NEW r, NEW events, Goto(stage, r, events), UNCHANGED <<told, lost>>,
           "conflict" \notin events, pc # "idle",
           Keeps(r), r.forced => run.forced \/ tracking' # tracking,
           Late \/ stage = "guard", stage = "record" => r.files # {},
           pc \notin Early, stage \notin Early \cup {"push"}
    PROVE  MovesOn
BY DEF Goto, Quiet, MovesOn, Early, Late, Keeps

\* Every step of a run goes on, ends quietly, or ends in one of the three
\* ways that matter to the user.
HandlesConflict ==
    \/ HandleConflict(run.files, local, tracking)
    \/ HandleConflict(run.files, <<>>, <<>>)

EngineEnds ==
    \/ Succeed /\ (PushNothing \/ PushAccepted)
    \/ StayInConflict /\ run.prev.conflict /\ UNCHANGED <<told, lost, moved, local, tracking>>
    \/ pc = "record" /\ HandlesConflict /\ UNCHANGED <<local, tracking>>

LEMMA PrepareShape ==
    ASSUME TypeOK, Prepare PROVE MovesOn \/ EndsQuietly
<1>st. st \in RepoState /\ run \in RunState
  BY DEF TypeOK, DaemonOK
<1>1. pc = "prepare" /\ UNCHANGED <<told, lost>>
  BY Zenon DEF Prepare, Begin, ghost
<1>2. CASE \E code : FailPreflight(code)
  BY <1>1, <1>2, PreflightQuiet
<1>3. ASSUME NEW c \in BOOLEAN, Begin(c) PROVE MovesOn
  <2>1. /\ pc' = IF run.localOnly THEN "localcommit" ELSE "commit"
        /\ st' = IF run.localOnly THEN st ELSE MarkSyncing(st)
        /\ run' = [run EXCEPT !.committed = c]
        /\ emit' = IF c THEN {"commit"} ELSE {}
        /\ disk' = disk
    BY <1>3 DEF Begin
  <2>2. /\ st'.conflict = st.conflict /\ st'.files = st.files
        /\ st'.head = st.head /\ st'.up = st.up
    BY <1>st, <2>1 DEF MarkSyncing, RepoState
  <2>3. Keeps(run') /\ run'.forced = run.forced /\ run'.attempt = run.attempt
    BY <1>st, <2>1 DEF RunState, Keeps
  <2>4. "conflict" \notin emit' /\ ~Late'
    BY <2>1 DEF Late
  <2>. QED BY <1>1, <2>1, <2>2, <2>3, <2>4, Zenon DEF MovesOn, Quiet
<1>. QED BY <1>2, <1>3, Zenon DEF Prepare

LEMMA CommitShape ==
    ASSUME TypeOK, CommitStep PROVE MovesOn \/ EndsQuietly
<1>. DEFINE events == IF wt = {} THEN {} ELSE {"commit"}
            r == [run EXCEPT !.committed = @ \/ wt # {}]
<1>1. Keeps(r) /\ r.forced = run.forced /\ r.attempt = run.attempt
  BY DEF TypeOK, DaemonOK, RunState, Keeps
<1>2. UNCHANGED <<told, lost>> /\ "conflict" \notin events
  BY DEF CommitStep, ghost
<1>3. CASE pc = "commit"
  <2>1. Goto("fetch", r, events)
    BY <1>3 DEF CommitStep
  <2>2. wt = {} \/ Commits
    BY DEF CommitStep, CommitAll, ghost, Commits
  <2>. HIDE DEF r, events
  <2>. QED BY <1>1, <1>2, <1>3, <2>1, <2>2 DEF MovesOn, Quiet, Goto, Late
<1>4. CASE pc = "recommit"
  <2>1. Goto("rebase", r, events)
    BY <1>4 DEF CommitStep
  <2>. HIDE DEF r, events
  <2>. QED BY <1>1, <1>2, <1>4, <2>1, GotoQuiet DEF Early, Late
<1>5. CASE pc = "localcommit"
  <2>1. Return(st, events)
    BY <1>5 DEF CommitStep
  <2>. HIDE DEF events
  <2>. QED BY <1>2, <1>5, <2>1, ReturnQuiet
<1>. QED BY <1>3, <1>4, <1>5 DEF CommitStep

LEMMA FetchShape ==
    ASSUME TypeOK, FetchStep PROVE MovesOn \/ EndsQuietly
<1>. DEFINE r == [run EXCEPT !.forced = @ \/ ~IsAncestor(tracking, remote),
                             !.fetched = remote]
            stage == IF run.attempt = 1 THEN "guard" ELSE "count"
<1>1. pc = "fetch" /\ UNCHANGED <<told, lost>>
  BY DEF FetchStep
<1>2. CASE tracking' = remote /\ Goto(stage, r, {})
  <2>1. Keeps(r) /\ (r.forced => run.forced \/ ~IsAncestor(tracking, remote))
    BY DEF TypeOK, DaemonOK, RunState, Keeps
  <2>2. IsAncestor(tracking, tracking)
    BY AncestorReflexive DEF TypeOK, WorkOK
  <2>3. r.forced => run.forced \/ tracking' # tracking
    BY <1>2, <2>1, <2>2
  <2>. HIDE DEF r
  <2>. QED BY <1>1, <1>2, <2>1, <2>3, GotoQuiet DEF Early, Late
<1>3. CASE Goto(stage, run, {})
  BY <1>1, <1>3, GotoQuiet DEF Early, Late, Keeps
<1>4. CASE FailPreflight("upstream_gone")
  BY <1>1, <1>4, PreflightQuiet
<1>. QED BY <1>2, <1>3, <1>4, Zenon DEF FetchStep

LEMMA GuardShape ==
    ASSUME TypeOK, GuardStep PROVE MovesOn \/ EngineEnds
<1>1. pc = "guard" /\ UNCHANGED <<told, lost>>
  BY DEF GuardStep, ghost
<1>2. CASE Goto("count", run, {}) /\ ~ConflictUnchanged
  BY <1>1, <1>2 DEF Goto, Quiet, MovesOn, Early, Late, Keeps
<1>4. CASE Goto("count", [run EXCEPT !.unsure = TRUE], {})
  <2>. DEFINE r == [run EXCEPT !.unsure = TRUE]
  <2>1. Keeps(r) /\ r.unsure /\ r.forced = run.forced
    BY DEF TypeOK, DaemonOK, RunState, Keeps
  <2>. HIDE DEF r
  <2>2. Goto("count", r, {})
    BY <1>4 DEF r
  <2>. QED BY <1>1, <2>1, <2>2 DEF Goto, Quiet, MovesOn, Early, Late
<1>3. CASE KnownConflict /\ StayInConflict
  BY <1>3 DEF EngineEnds, KnownConflict, HasRecord, GuardStep, git, ghost
<1>. QED BY <1>2, <1>3, <1>4, Zenon DEF GuardStep, LookupFails, ConflictUnchanged

LEMMA CountShape ==
    ASSUME TypeOK, CountStep \/ RecountStep PROVE MovesOn
<1>st. run \in RunState
  BY DEF TypeOK, DaemonOK
<1>1. UNCHANGED <<told, lost>> /\ UNCHANGED work
  BY DEF CountStep, RecountStep, git, ghost, work
<1>2. CASE CountStep
  <2>. DEFINE r == [run EXCEPT !.ahead = Ahead(local, tracking),
                               !.behind = Behind(local, tracking), !.retried = FALSE]
  <2>1. Keeps(r) /\ r.forced = run.forced /\ r.ahead = Ahead(local, tracking)
    BY <1>st DEF RunState, Keeps
  <2>2. pc = "count" /\ ~run.cancelled /\ \E stage \in {"rebase", "push"} : Goto(stage, r, {})
    BY <1>2 DEF CountStep
  <2>. HIDE DEF r
  <2>3. CASE Goto("rebase", r, {})
    BY <1>1, <2>1, <2>2, <2>3, GotoQuiet DEF Early, Late
  <2>4. CASE Goto("push", r, {})
    BY <1>1, <2>1, <2>2, <2>4 DEF Goto, MovesOn, Quiet, Late
  <2>. QED BY <2>2, <2>3, <2>4
<1>3. CASE RecountStep
  <2>. DEFINE a == Ahead(local, tracking)
              d == run.dropped \/ (run.forkPoint /\ a < run.ahead)
              r == [run EXCEPT !.ahead = a, !.behind = Behind(local, tracking),
                               !.dropped = d]
  <2>1. pc = "recount" /\ Goto("push", r, {})
    BY <1>3 DEF RecountStep
  <2>. HIDE DEF d
  <2>2. Keeps(r) /\ r.forced = run.forced /\ r.ahead = Ahead(local, tracking)
    BY <1>st DEF RunState, Keeps
  <2>. HIDE DEF r
  <2>. QED BY <1>1, <2>1, <2>2 DEF Goto, MovesOn, Quiet, Late
<1>. QED BY <1>2, <1>3

LEMMA RebaseShape ==
    ASSUME TypeOK, RebaseStep PROVE MovesOn \/ EndsQuietly
<1>st. run \in RunState
  BY DEF TypeOK, DaemonOK
<1>1. pc = "rebase" /\ UNCHANGED <<told, lost>>
  BY DEF RebaseStep, RebaseApplies, RebaseConflicts, RebaseTimesOut, RebaseRefusesDirty, ghost
<1>2. CASE Fail("other")
  BY <1>1, <1>2, FailQuiet
<1>3. ASSUME NEW r, NEW stage \in {"recount", "abort", "recommit"}, Goto(stage, r, {}),
             Keeps(r), r.forced => run.forced
      PROVE  MovesOn
  BY <1>1, <1>3, GotoQuiet DEF Early, Late
<1>4. CASE RebaseApplies
  <2>. DEFINE r == [run EXCEPT !.forced = FALSE, !.forkPoint = run.forced,
                               !.pulled = @ \/ run.behind > 0]
  <2>1. Keeps(r) /\ ~r.forced
    BY <1>st DEF RunState, Keeps
  <2>2. Goto("recount", r, {})
    BY <1>4 DEF RebaseApplies
  <2>. HIDE DEF r
  <2>. QED BY <1>3, <2>1, <2>2
<1>5. CASE RebaseConflicts \/ RebaseTimesOut
  <2>1. \A f : LET r == [run EXCEPT !.files = f] IN Keeps(r) /\ r.forced = run.forced
    BY <1>st DEF RunState, Keeps
  <2>2. \E f : Goto("abort", [run EXCEPT !.files = f], {})
    BY <1>5 DEF RebaseConflicts, RebaseTimesOut
  <2>. QED BY <1>3, <2>1, <2>2
<1>6. CASE RebaseRefusesDirty
  <2>. DEFINE r == [run EXCEPT !.retried = TRUE]
  <2>1. Keeps(r) /\ r.forced = run.forced
    BY <1>st DEF RunState, Keeps
  <2>2. Fail("other") \/ Goto("recommit", r, {})
    BY <1>6 DEF RebaseRefusesDirty
  <2>. HIDE DEF r
  <2>. QED BY <1>2, <1>3, <2>1, <2>2
<1>. QED BY <1>2, <1>4, <1>5, <1>6 DEF RebaseStep

LEMMA AbortShape ==
    ASSUME TypeOK, AbortStep PROVE MovesOn \/ EndsQuietly
<1>1. pc = "abort" /\ UNCHANGED <<told, lost>>
  BY Zenon DEF AbortStep, ghost
<1>2. CASE Fail("other")
  BY <1>1, <1>2, FailQuiet
<1>3. CASE Goto("record", run, {}) /\ run.files # {}
  BY <1>1, <1>3, GotoQuiet DEF Early, Late, Keeps
<1>. QED BY <1>2, <1>3, Zenon DEF AbortStep

LEMMA RecordShape ==
    ASSUME TypeOK, RecordStep PROVE EndsQuietly \/ EngineEnds
<1>1. pc = "record" /\ UNCHANGED git
  BY DEF RecordStep
<1>2. CASE Fail("other") /\ UNCHANGED <<told, lost>>
  BY <1>1, <1>2, FailQuiet
<1>3. CASE HandlesConflict
  BY <1>1, <1>3, Zenon DEF EngineEnds, git
<1>. QED BY <1>2, <1>3, Zenon DEF RecordStep, HandlesConflict, ghost

LEMMA PushShape ==
    ASSUME TypeOK, PushStep PROVE MovesOn \/ EndsQuietly \/ EngineEnds
<1>st. run \in RunState /\ run.ahead \in Nat
  BY DEF TypeOK, DaemonOK, RunState
<1>1. pc = "push"
  BY DEF PushStep
<1>2. CASE PushNothing \/ PushAccepted
  BY <1>2 DEF PushNothing, PushAccepted, EngineEnds
<1>3. CASE PushRejected
  <2>. DEFINE r == [run EXCEPT !.attempt = @ + 1]
  <2>1. Keeps(r) /\ r.forced = run.forced
    BY <1>st DEF RunState, Keeps
  <2>2. /\ Fail("other") \/ Goto("fetch", r, {})
        /\ UNCHANGED <<told, lost>> /\ run.ahead # 0
    BY <1>3, <1>st DEF PushRejected, ghost
  <2>. HIDE DEF r
  <2>. QED BY <1>1, <2>1, <2>2, FailQuiet, GotoQuiet DEF Early, Late
<1>4. CASE PushUnacknowledged
  <2>1. Fail("network") /\ UNCHANGED <<told, lost>> /\ run.ahead # 0
    BY <1>4, <1>st DEF PushUnacknowledged, ghost
  <2>. QED BY <2>1, FailQuiet
<1>. QED BY <1>2, <1>3, <1>4 DEF PushStep

LEMMA EngineShape == TypeOK /\ EngineStep => MovesOn \/ EndsQuietly \/ EngineEnds
<1>. SUFFICES ASSUME TypeOK, EngineStep PROVE MovesOn \/ EndsQuietly \/ EngineEnds
  OBVIOUS
<1>1. CASE CommandFails \/ NetworkFails
  <2>1. run.ahead \in Nat
    BY DEF TypeOK, DaemonOK, RunState
  <2>2. pc # "push" \/ run.ahead # 0
    BY <1>1, <2>1 DEF CommandFails, NetworkFails
  <2>3. UNCHANGED <<told, lost>> /\ \E kind : Fail(kind)
    BY <1>1 DEF CommandFails, NetworkFails, ghost
  <2>. QED BY <2>2, <2>3, FailQuiet
<1>2. CASE UpstreamGone
  <2>1. FailPreflight("upstream_gone") /\ UNCHANGED <<told, lost>>
    BY <1>2 DEF UpstreamGone, ghost
  <2>. QED BY <2>1, PreflightQuiet
<1>. QED
  BY <1>1, <1>2, PrepareShape, CommitShape, FetchShape, GuardShape, CountShape, RebaseShape,
     AbortShape, RecordShape, PushShape DEF EngineStep

\* The steps that are not the engine's leave the run and its record alone;
\* saving brings the record to the disk.
LEMMA OutsideShape ==
    ASSUME TypeOK, Cancel \/ SaveState \/ UserStep \/ OtherStep
    PROVE  /\ UNCHANGED <<pc, st, told, lost>> /\ emit' = {}
           /\ Keeps(run') /\ run'.ahead = run.ahead /\ run'.files = run.files
           /\ run'.forced = run.forced /\ run'.attempt = run.attempt
           /\ run.cancelled => run'.cancelled
           /\ disk' \in {disk, MarshalPersisted(st)}
<1>1. CASE Cancel
  <2>. DEFINE r == [run EXCEPT !.cancelled = TRUE]
  <2>1. /\ Keeps(r) /\ r.ahead = run.ahead /\ r.files = run.files
        /\ r.forced = run.forced /\ r.attempt = run.attempt /\ r.cancelled
    BY DEF TypeOK, DaemonOK, RunState, Keeps
  <2>2. UNCHANGED <<pc, st, told, lost, disk>> /\ emit' = {} /\ run' = r
    BY <1>1, Zenon DEF Cancel
  <2>. HIDE DEF r
  <2>. QED BY <2>1, <2>2
<1>2. CASE SaveState
  BY <1>2 DEF SaveState, ghost, Keeps
<1>3. CASE UserStep \/ OtherStep
  BY <1>3 DEF UserStep, UserEdits, UserCommits, UserFetches, UserResolves,
              UserTogglesRebase, UserTogglesBlock, OtherStep, OtherPushes,
              OtherForces, daemon, ghost, Keeps
<1>. QED BY <1>1, <1>2, <1>3

-----------------------------------------------------------------------------
(* A conflict is told once. *)

\* Unless a crash lost the record, the user was last told of the conflict on
\* record.  The record does not change under a run, a conflict that is about
\* to be recorded has files, and what is on disk is a record of either kind.
ToldInv ==
    /\ ~lost => told = IF st.conflict THEN st.files ELSE {}
    /\ ~disk.conflict => disk.files = {}
    /\ pc # "idle" => run.prev.conflict = st.conflict /\ run.prev.files = st.files
    /\ pc = "record" => run.files # {}

LEMMA ToldNext == TypeOK /\ ToldInv /\ [Next]_vars => ToldInv'
<1>. SUFFICES ASSUME TypeOK, ToldInv, [Next]_vars PROVE ToldInv'
  OBVIOUS
<1>st. st \in RepoState /\ disk \in Persistent /\ run \in RunState
  BY DEF TypeOK, DaemonOK
<1>1. CASE \E force, localOnly \in BOOLEAN : Start(force, localOnly)
  BY <1>1 DEF Start, Goto, NewRun, ghost, ToldInv
<1>2. CASE MovesOn
  <2>1. /\ UNCHANGED <<told, lost, disk>>
        /\ st'.conflict = st.conflict /\ st'.files = st.files
        /\ pc # "idle" /\ run'.prev = run.prev
        /\ pc' = "record" => run'.files # {}
    BY <1>2 DEF MovesOn, Quiet, Keeps
  <2>. QED BY <2>1 DEF ToldInv
<1>3. CASE EndsQuietly
  BY <1>3 DEF EndsQuietly, Quiet, ToldInv
<1>4. CASE Succeed
  <2>1. st' = MarkSuccess(st) /\ disk' = disk /\ pc' = "idle" /\ told' = {}
    BY <1>4 DEF Succeed, Return
  <2>2. ~st'.conflict
    BY <1>st, <2>1 DEF MarkSuccess, RepoState
  <2>. QED BY <2>1, <2>2 DEF ToldInv
<1>5. CASE StayInConflict /\ run.prev.conflict /\ UNCHANGED <<told, lost>> /\ pc # "idle"
  <2>1. PICK msg : st' = MarkConflict(st, run.prev.files, msg) /\ disk' = disk /\ pc' = "idle"
    BY <1>5 DEF StayInConflict, Return
  <2>2. st'.conflict /\ st'.files = run.prev.files
    BY <1>st, <2>1 DEF MarkConflict, RepoState
  <2>. QED BY <1>5, <2>1, <2>2 DEF ToldInv
<1>6. CASE HandlesConflict /\ pc # "idle"
  <2>0. PICK head, up \in History : HandleConflict(run.files, head, up)
    BY <1>6, EmptyHistory DEF HandlesConflict, TypeOK, WorkOK
  <2>. DEFINE isNew == ~run.prev.conflict \/ run.prev.files # run.files \/ run.force
              s == SetConflictRefs(st, head, up)
  <2>1. /\ st' = MarkConflict(s, run.files, "conflict") /\ disk' = disk /\ pc' = "idle"
        /\ told' = IF isNew THEN run.files ELSE told
        /\ lost' = (lost /\ ~isNew)
    BY <2>0 DEF HandleConflict, Return
  <2>2. s \in RepoState
    BY <1>st, MarkTypes
  <2>. HIDE DEF s
  <2>3. st'.conflict /\ st'.files = run.files
    BY <2>1, <2>2 DEF MarkConflict, RepoState
  <2>4. CASE isNew
    BY <2>1, <2>3, <2>4 DEF ToldInv
  <2>5. CASE ~isNew
    <3>1. told' = told /\ run.prev.conflict /\ run.prev.files = run.files
      BY <2>1, <2>5
    <3>2. ~lost' => ~lost
      BY <2>1, <2>5, Zenon
    <3>3. st.conflict /\ st.files = run.files
      BY <1>6, <3>1 DEF ToldInv
    <3>4. ~lost' => told' = run.files
      BY <3>1, <3>2, <3>3 DEF ToldInv
    <3>. QED BY <2>1, <2>3, <3>4 DEF ToldInv
  <2>. QED BY <2>4, <2>5
<1>7. CASE EngineStep
  <2>1. pc # "idle"
    BY <1>7 DEF EngineStep, Prepare, CommitStep, FetchStep, GuardStep, CountStep, RebaseStep,
                AbortStep, RecordStep, UpstreamGone, RecountStep, PushStep, CommandFails,
                NetworkFails
  <2>. QED BY <1>2, <1>3, <1>4, <1>5, <1>6, <1>7, <2>1, EngineShape DEF EngineEnds
<1>8. CASE Cancel \/ SaveState \/ UserStep \/ OtherStep
  <2>1. /\ UNCHANGED <<pc, st, told, lost>> /\ run'.prev = run.prev /\ run'.files = run.files
        /\ disk' \in {disk, MarshalPersisted(st)}
    BY <1>8, OutsideShape DEF Keeps
  <2>2. ~disk'.conflict => disk'.files = {}
    <3>1. CASE disk' = disk
      BY <3>1 DEF ToldInv
    <3>2. CASE disk' = MarshalPersisted(st)
      BY <3>2 DEF MarshalPersisted
    <3>. QED BY <2>1, <3>1, <3>2
  <2>. QED BY <2>1, <2>2 DEF ToldInv
<1>9. CASE Crash
  <2>1. /\ st' = LoadPersisted(disk) /\ pc' = "idle" /\ disk' = disk
        /\ told' = told /\ (lost' <=> told # disk.files)
    BY <1>9, Zenon DEF Crash
  <2>2. /\ st'.conflict = disk.conflict
        /\ disk.conflict => st'.files = disk.files
    BY <1>st, <2>1 DEF LoadPersisted, MarkConflict, NewState, Persistent
  <2>. QED BY <2>1, <2>2 DEF ToldInv
<1>10. CASE UNCHANGED vars
  BY <1>10 DEF vars, ToldInv
<1>. QED BY <1>1, <1>7, <1>8, <1>9, <1>10 DEF Next

\* A conflict event names files that the user was not just told of, through
\* any sequence of failed, cancelled and guarded runs, saves and restarts, as
\* long as no crash came before the record was saved.
THEOREM ConflictIsToldOnce == Spec => ConflictToldOnce
<1>1. ASSUME Init PROVE ToldInv
  <2>1. st = NewState /\ disk = MarshalPersisted(NewState) /\ pc = "idle" /\ told = {}
    BY <1>1, Zenon DEF Init
  <2>. QED BY <2>1 DEF ToldInv, NewState, MarshalPersisted
<1>2. TypeOK /\ ToldInv /\ [Next]_vars
        => [("conflict" \in emit' /\ ~run.force /\ ~lost) => run.files # told]_vars
  <2>. SUFFICES ASSUME TypeOK, ToldInv, Next, "conflict" \in emit', ~run.force, ~lost
                PROVE  run.files # told
    BY DEF vars
  <2>1. CASE HandlesConflict /\ pc = "record"
    <3>1. ~run.prev.conflict \/ run.prev.files # run.files
      BY <2>1 DEF HandlesConflict, HandleConflict, Return
    <3>. QED BY <2>1, <3>1 DEF ToldInv
  <2>2. CASE EngineStep
    <3>1. pc # "idle"
      BY <2>2 DEF EngineStep, Prepare, CommitStep, FetchStep, GuardStep, CountStep, RebaseStep,
                  AbortStep, RecordStep, UpstreamGone, RecountStep, PushStep, CommandFails,
                NetworkFails
    <3>2. ~MovesOn /\ ~EndsQuietly
      BY DEF MovesOn, EndsQuietly, Quiet
    <3>3. ~Succeed
      BY DEF Succeed, Return
    <3>4. ~StayInConflict
      BY DEF StayInConflict, Return
    <3>. QED BY <2>1, <2>2, <3>1, <3>2, <3>3, <3>4, EngineShape DEF EngineEnds
  <2>3. CASE Cancel \/ SaveState \/ UserStep \/ OtherStep
    BY <2>3, OutsideShape
  <2>4. CASE Crash \/ \E force, localOnly \in BOOLEAN : Start(force, localOnly)
    BY <2>4 DEF Crash, Start, Goto
  <2>. QED BY <2>2, <2>3, <2>4 DEF Next
<1>. QED
  BY <1>1, <1>2, TypeCorrect, ToldNext, PTL DEF Spec, ConflictToldOnce

-----------------------------------------------------------------------------
(* Success means synced. *)

\* What is on the remote, or was lost to a force-push or an aborted rebase.
Gone == Content(remote) \cup removed \cup clobbered

\* Where the work a run set out to sync is: anywhere before its commit, in
\* the branch or gone to the remote after it, and gone to the remote once the
\* run finds nothing to push.
GoalInv ==
    /\ pc # "idle" => run.goal \subseteq wt \cup Content(local) \cup Gone
    /\ pc \notin Early => run.goal \subseteq Content(local) \cup Gone
    /\ (pc = "push" /\ run.ahead = 0) => run.goal \subseteq Gone
    /\ run.localOnly => pc \in {"idle", "prepare", "localcommit"}

\* A step of the contract takes no work back: not from the remote, not from
\* the branch or the remote, and not from all the places there are.
LEMMA WorkGoesForward ==
    ASSUME WorkInv, [WorkNext]_work, NEW G
    PROVE  /\ G \subseteq Gone => G \subseteq Gone'
           /\ G \subseteq Content(local) \cup Gone => G \subseteq Content(local') \cup Gone'
           /\ G \subseteq wt \cup Content(local) \cup Gone
                => G \subseteq wt' \cup Content(local') \cup Gone'
<1>. USE DEF Gone
<1>0. WorkOK
  BY DEF WorkInv
<1>1. CASE Edits \/ Fetches \/ Overwrites \/ UNCHANGED work
  <2>1. /\ local' = local /\ remote' = remote /\ removed' = removed
        /\ clobbered \subseteq clobbered' /\ wt \subseteq wt' \cup clobbered'
    BY <1>1 DEF Edits, Fetches, Overwrites, work
  <2>. QED BY <2>1
<1>2. CASE Commits
  <2>1. Content(local') = Content(local) \cup wt
    BY <1>0, <1>2, ContentAppend DEF Commits, Commit, WorkOK
  <2>. QED BY <1>2, <2>1 DEF Commits
<1>3. CASE Replays
  <2>1. PICK base \in 0..Len(local) :
            /\ \E t \in reflog \cup {tracking} :
                  Content(SubSeq(local, 1, base)) \subseteq Content(t)
            /\ local' = Rebased(local, tracking, base)
    BY <1>3 DEF Replays
  <2>2. Content(local) \subseteq Content(SubSeq(local, 1, base)) \cup Content(local')
    BY <1>0, <2>1, RebasedLemma DEF WorkOK
  <2>3. Content(SubSeq(local, 1, base)) \subseteq Content(remote) \cup removed
    BY <2>1 DEF WorkInv, UpstreamWasRemote
  <2>4. UNCHANGED <<wt, remote, removed, clobbered>>
    BY <1>3 DEF Replays
  <2>. QED BY <2>2, <2>3, <2>4
<1>4. CASE Pushes
  <2>1. Content(remote) \subseteq Content(local)
    BY <1>0, <1>4, AncestorContent DEF Pushes, WorkOK
  <2>2. remote' = local /\ UNCHANGED <<wt, local, removed, clobbered>>
    BY <1>4 DEF Pushes
  <2>. QED BY <2>1, <2>2
<1>5. CASE OthersPush
  <2>1. PICK e \in RemoteEdit : remote' = Append(remote, {e})
    BY <1>5 DEF OthersPush
  <2>2. {e} \in Commit /\ remote \in History
    BY <1>0, EditAssumption DEF Commit, WorkOK
  <2>3. Content(remote') = Content(remote) \cup {e}
    BY <2>1, <2>2, ContentAppend
  <2>4. UNCHANGED <<wt, local, removed, clobbered>>
    BY <1>5 DEF OthersPush
  <2>. QED BY <2>3, <2>4
<1>6. CASE OthersForce
  <2>1. Content(remote) \cup removed \subseteq Content(remote') \cup removed'
    BY <1>6 DEF OthersForce
  <2>2. UNCHANGED <<wt, local, clobbered>>
    BY <1>6 DEF OthersForce
  <2>. QED BY <2>1, <2>2
<1>. QED BY <1>1, <1>2, <1>3, <1>4, <1>5, <1>6 DEF WorkNext

\* A branch that is not ahead of the tracking ref holds nothing that the
\* remote did not get.
LEMMA NotAhead ==
    ASSUME WorkInv, Ahead(local, tracking) = 0
    PROVE  Content(local) \subseteq Content(remote) \cup removed
<1>1. local \in History /\ tracking \in History
  BY DEF WorkInv, WorkOK
<1>2. Len(local) \in Nat /\ CommonLen(local, tracking) \in Nat
  BY <1>1, CommonLenLemma DEF History
<1>3. CommonLen(local, tracking) = Len(local)
  BY <1>2 DEF Ahead
<1>4. SubSeq(local, 1, Len(local)) = local
  BY <1>1 DEF History
<1>5. Content(local) \subseteq Content(tracking)
  BY <1>1, <1>3, <1>4, CommonContent
<1>. QED BY <1>5 DEF WorkInv, UpstreamWasRemote

LEMMA GoalNext == Inv /\ GoalInv /\ [Next]_vars => GoalInv'
<1>. SUFFICES ASSUME Inv, GoalInv, [Next]_vars PROVE GoalInv'
  OBVIOUS
<1>1. TypeOK /\ WorkInv /\ [WorkNext]_work
  BY WorkStep DEF Inv
<1>2. CASE pc' = "idle" /\ run' = NoRun
  BY <1>2 DEF GoalInv, Early, NoRun, NewRun
<1>3. CASE \E force, localOnly \in BOOLEAN : Start(force, localOnly)
  <2>1. pc' = "prepare" /\ run'.goal = wt \cup Content(local) /\ UNCHANGED work
    BY <1>3 DEF Start, Goto, NewRun, git, ghost, work
  <2>. QED BY <2>1 DEF GoalInv, Gone, Early, work
<1>. DEFINE G == run.goal
<1>4. /\ G \subseteq Gone => G \subseteq Gone'
      /\ G \subseteq Content(local) \cup Gone => G \subseteq Content(local') \cup Gone'
      /\ G \subseteq wt \cup Content(local) \cup Gone
           => G \subseteq wt' \cup Content(local') \cup Gone'
  BY <1>1, WorkGoesForward
<1>5. CASE MovesOn
  <2>1. pc # "idle" /\ run'.goal = G /\ run'.localOnly = run.localOnly
    BY <1>5 DEF MovesOn, Keeps
  <2>2. G \subseteq wt' \cup Content(local') \cup Gone'
    BY <1>4, <2>1 DEF GoalInv
  <2>3. CASE pc = "prepare" /\ pc' = IF run.localOnly THEN "localcommit" ELSE "commit"
    BY <2>1, <2>2, <2>3 DEF GoalInv, Early
  <2>4. CASE pc = "commit" /\ pc' = "fetch" /\ (wt = {} \/ Commits)
    <3>1. G \subseteq Content(local') \cup Gone'
      <4>1. CASE wt = {}
        BY <1>4, <2>4, <4>1 DEF GoalInv
      <4>2. CASE Commits
        BY <2>2, <4>2 DEF Commits
      <4>. QED BY <2>4, <4>1, <4>2
    <3>2. ~run.localOnly
      BY <2>4 DEF GoalInv
    <3>. QED BY <2>1, <2>2, <2>4, <3>1, <3>2 DEF GoalInv, Early
  <2>5. CASE /\ pc \in {"count", "recount"} /\ pc' = "push"
             /\ run'.ahead = Ahead(local, tracking) /\ UNCHANGED work
    <3>1. G \subseteq Content(local) \cup Gone /\ ~run.localOnly
      BY <2>5 DEF GoalInv, Early
    <3>2. run'.ahead = 0 => G \subseteq Gone
      BY <1>1, <2>5, <3>1, NotAhead DEF Gone
    <3>. QED BY <1>4, <2>1, <2>2, <2>5, <3>1, <3>2 DEF GoalInv, Early
  <2>6. CASE pc \notin Early /\ pc' \notin Early \cup {"push"}
    <3>1. G \subseteq Content(local) \cup Gone /\ ~run.localOnly
      BY <2>6 DEF GoalInv, Early
    <3>. QED BY <1>4, <2>1, <2>2, <2>6, <3>1 DEF GoalInv, Early
  <2>. QED BY <1>5, <2>3, <2>4, <2>5, <2>6 DEF MovesOn
<1>6. CASE EndsQuietly \/ EngineEnds
  BY <1>2, <1>6 DEF EndsQuietly, EngineEnds, Succeed, StayInConflict, HandlesConflict,
                    HandleConflict, Return
<1>7. CASE EngineStep
  BY <1>1, <1>5, <1>6, <1>7, EngineShape
<1>8. CASE Cancel \/ SaveState \/ UserStep \/ OtherStep
  <2>1. /\ pc' = pc /\ run'.goal = G
        /\ run'.localOnly = run.localOnly /\ run'.ahead = run.ahead
    BY <1>1, <1>8, OutsideShape DEF Keeps
  <2>. QED BY <1>4, <2>1 DEF GoalInv
<1>9. CASE Crash
  BY <1>2, <1>9 DEF Crash
<1>10. CASE UNCHANGED vars
  BY <1>10 DEF vars, GoalInv, Gone
<1>. QED BY <1>3, <1>7, <1>8, <1>9, <1>10 DEF Next

\* A run that reports success has brought to the remote what was in the
\* worktree and the branch when it began, whatever happened meanwhile, but
\* for what a force-push or an aborted rebase took.
THEOREM SuccessIsSynced == Spec => SuccessMeansSynced
<1>1. ASSUME Init PROVE GoalInv
  <2>1. pc = "idle" /\ run = NoRun
    BY <1>1, Zenon DEF Init
  <2>. QED BY <2>1 DEF GoalInv, Early, NoRun, NewRun
<1>2. Inv /\ GoalInv /\ [Next]_vars
        => [Succeeds => run.goal \subseteq Content(remote') \cup removed \cup clobbered]_vars
  <2>. SUFFICES ASSUME Inv, GoalInv, Next, Succeeds
                PROVE  run.goal \subseteq Content(remote') \cup removed \cup clobbered
    BY DEF vars
  <2>1. TypeOK /\ WorkOK /\ pc = "push" /\ pc' = "idle" /\ st'.status = "ok"
    BY DEF Inv, TypeOK, Succeeds
  <2>2. ~run.localOnly /\ run.goal \subseteq Content(local) \cup Gone
    BY <2>1 DEF GoalInv, Early
  <2>3. CASE PushNothing
    BY <2>1, <2>3 DEF PushNothing, git, GoalInv, Gone
  <2>4. CASE PushAccepted
    <3>1. remote' = local /\ Content(remote) \subseteq Content(local)
      BY <2>1, <2>4, AncestorContent DEF PushAccepted, WorkOK
    <3>. QED BY <2>2, <3>1 DEF Gone
  <2>5. CASE EngineStep
    <3>1. ~MovesOn
      BY <2>1 DEF MovesOn, Early
    <3>2. ~EndsQuietly
      BY <2>2 DEF EndsQuietly
    <3>3. ~StayInConflict
      <4>1. st \in RepoState
        BY <2>1 DEF TypeOK, DaemonOK
      <4>2. \A s \in RepoState : \A f, m : MarkConflict(s, f, m).status = "conflict"
        BY DEF MarkConflict, RepoState
      <4>3. ASSUME StayInConflict PROVE st'.status = "conflict"
        BY <4>1, <4>2, <4>3 DEF StayInConflict, Return
      <4>. QED BY <2>1, <4>3
    <3>. QED BY <2>1, <2>3, <2>4, <2>5, <3>1, <3>2, <3>3, EngineShape DEF EngineEnds
  <2>6. CASE Cancel \/ SaveState \/ UserStep \/ OtherStep
    BY <2>1, <2>6, OutsideShape
  <2>7. CASE Crash
    <3>1. LoadPersisted(disk).status # "ok"
      BY DEF LoadPersisted, MarkConflict, NewState
    <3>. QED BY <2>1, <2>7, <3>1 DEF Crash
  <2>8. CASE \E force, localOnly \in BOOLEAN : Start(force, localOnly)
    BY <2>1, <2>8 DEF Start
  <2>. QED BY <2>5, <2>6, <2>7, <2>8 DEF Next
<1>. QED
  BY <1>1, <1>2, InitInv, NextInv, GoalNext, PTL DEF Spec, SuccessMeansSynced

-----------------------------------------------------------------------------
(* A conflict is not retried. *)

\* Past the guard the rebase that failed would not be the same one again: the
\* branch has moved, or the upstream has been merged; or the guard could not
\* tell.
Guarded ==
    \/ run.unsure
    \/ st.head = <<>> \/ local # st.head \/ IsAncestor(tracking, local)

\* While the upstream has not moved since the conflict on record: the branch
\* still begins with the commit on record, or has the upstream merged, and a
\* run found no forced update.
RecordInv ==
    /\ tracking = st.up
    /\ IsAncestor(st.head, local) \/ IsAncestor(tracking, local)
    /\ pc # "idle" => ~run.forced
    /\ (Late /\ ~run.force) => Guarded

RetryInv ==
    /\ pc # "idle" => /\ run.prev.conflict = st.conflict
                      /\ run.prev.head = st.head /\ run.prev.up = st.up
    /\ pc \in {"prepare", "commit"} => run.attempt = 1
    /\ (st.conflict /\ ~moved) => RecordInv

\* What the history variable says: a step that does not set it leaves the
\* tracking ref of the conflict on record alone.
Stays == (st.conflict /\ ~moved') => (~moved /\ tracking' = tracking)

LEMMA EngineStays ==
    ASSUME EngineStep PROVE Stays \/ EngineEnds
<1>1. CASE NotesMove
  BY <1>1, Zenon DEF NotesMove, Stays
<1>2. CASE UNCHANGED <<moved, tracking>>
  BY <1>2 DEF Stays
<1>3. CASE AbortStep \/ UpstreamGone
  BY <1>2, <1>3, Zenon DEF AbortStep, UpstreamGone, git, ghost
<1>9. CASE RecordStep
  BY <1>2, <1>9, Zenon DEF RecordStep, HandlesConflict, EngineEnds, git, ghost
<1>4. CASE RebaseStep
  BY <1>2, <1>4, Zenon DEF RebaseStep, RebaseApplies, RebaseConflicts, RebaseTimesOut,
                           RebaseRefusesDirty, git, ghost
<1>5. CASE PushStep
  <2>1. CASE PushNothing \/ PushAccepted
    BY <2>1, Zenon DEF PushNothing, PushAccepted, EngineEnds
  <2>2. CASE PushRejected \/ PushUnacknowledged
    BY <1>2, <2>2, Zenon DEF PushRejected, PushUnacknowledged, git, ghost
  <2>. QED BY <1>5, <2>1, <2>2 DEF PushStep
<1>6. CASE FetchStep
  BY <1>1, <1>6, Zenon DEF FetchStep
<1>7. CASE Prepare \/ CommitStep
  BY <1>2, <1>7, Zenon DEF Prepare, Begin, CommitStep, CommitAll, git, ghost
<1>8. CASE GuardStep \/ CountStep \/ RecountStep \/ CommandFails \/ NetworkFails
  BY <1>2, <1>8, Zenon DEF GuardStep, CountStep, RecountStep, CommandFails, NetworkFails,
                           git, ghost
<1>. QED BY <1>3, <1>4, <1>5, <1>6, <1>7, <1>8, <1>9 DEF EngineStep

LEMMA OutsideStays ==
    ASSUME Cancel \/ SaveState \/ UserStep \/ OtherStep PROVE Stays
<1>1. CASE UNCHANGED <<moved, tracking>>
  BY <1>1 DEF Stays
<1>2. CASE UserFetches
  BY <1>2, Zenon DEF UserFetches, NotesMove, Stays
<1>3. CASE UserStep /\ ~UserFetches
  BY <1>1, <1>3, Zenon DEF UserStep, UserEdits, UserCommits, CommitAll, UserResolves,
                           UserTogglesRebase, UserTogglesBlock, ghost
<1>4. CASE OtherStep
  BY <1>1, <1>4, Zenon DEF OtherStep, OtherPushes, OtherForces
<1>5. CASE Cancel \/ SaveState
  BY <1>1, <1>5, Zenon DEF Cancel, SaveState, git, ghost
<1>. QED BY <1>2, <1>3, <1>4, <1>5

\* Under a tracking ref that stays, the branch grows on top or is replayed, and
\* never comes back to the commit h unless the upstream is merged.
LEMMA BranchNeverBack ==
    ASSUME WorkInv, [WorkNext]_work, tracking' = tracking, NEW h \in History,
           IsAncestor(h, local) \/ IsAncestor(tracking, local)
    PROVE  /\ IsAncestor(h, local') \/ IsAncestor(tracking, local')
           /\ (local # h \/ IsAncestor(tracking, local))
                => (local' # h \/ IsAncestor(tracking, local'))
<1>0. local \in History /\ tracking \in History /\ wt \in Commit
  BY DEF WorkInv, WorkOK, Commit
<1>1. CASE local' = local
  BY <1>1
<1>2. CASE Commits
  <2>1. local' = Append(local, wt)
    BY <1>2 DEF Commits
  <2>2. CASE IsAncestor(tracking, local)
    BY <1>0, <2>1, <2>2, AncestorAppend
  <2>3. CASE IsAncestor(h, local)
    BY <1>0, <2>1, <2>3, AncestorAppend
  <2>. QED BY <2>2, <2>3
<1>3. CASE Replays
  <2>1. PICK base \in 0..Len(local) : local' = Rebased(local, tracking, base)
    BY <1>3 DEF Replays
  <2>. QED BY <1>0, <2>1, AncestorRebased
<1>4. CASE Edits \/ Fetches \/ Pushes \/ Overwrites \/ OthersPush \/ OthersForce
           \/ UNCHANGED work
  BY <1>1, <1>4, Zenon DEF Edits, Fetches, Pushes, Overwrites, OthersPush, OthersForce, work
<1>. QED BY <1>2, <1>3, <1>4 DEF WorkNext

\* A step that keeps the record keeps what is known about it.
LEMMA RecordKept ==
    ASSUME Inv, [Next]_vars, Stays, RetryInv, st'.conflict, ~moved',
           st'.conflict = st.conflict, st'.head = st.head, st'.up = st.up
    PROVE  /\ RecordInv /\ tracking' = tracking /\ tracking' = st'.up
           /\ IsAncestor(st'.head, local') \/ IsAncestor(tracking', local')
           /\ (st.head = <<>> \/ local # st.head \/ IsAncestor(tracking, local))
                => (st'.head = <<>> \/ local' # st'.head \/ IsAncestor(tracking', local'))
<1>1. RecordInv /\ tracking' = tracking
  BY DEF Stays, RetryInv
<1>2. WorkInv /\ [WorkNext]_work /\ st.head \in History
  BY WorkStep DEF Inv, TypeOK, DaemonOK, RepoState
<1>3. IsAncestor(st.head, local) \/ IsAncestor(tracking, local)
  BY <1>1 DEF RecordInv
<1>4. /\ IsAncestor(st.head, local') \/ IsAncestor(tracking, local')
      /\ (local # st.head \/ IsAncestor(tracking, local))
           => (local' # st.head \/ IsAncestor(tracking, local'))
  BY <1>1, <1>2, <1>3, BranchNeverBack
<1>5. tracking = st.up
  BY <1>1 DEF RecordInv
<1>. QED BY <1>1, <1>4, <1>5

LEMMA RetryNext == Inv /\ RetryInv /\ [Next]_vars => RetryInv'
<1>. SUFFICES ASSUME Inv, RetryInv, [Next]_vars PROVE RetryInv'
  OBVIOUS
<1>st. st \in RepoState /\ disk \in Persistent /\ TypeOK /\ local \in History /\ tracking \in History
  BY DEF Inv, TypeOK, DaemonOK, WorkOK
<1>1. CASE Crash
  <2>1. /\ st' = LoadPersisted(disk) /\ pc' = "idle"
        /\ moved' = (disk.conflict /\ (moved \/ disk # MarshalPersisted(st)))
        /\ UNCHANGED <<local, tracking>>
    BY <1>1, Zenon DEF Crash, git
  <2>2. ASSUME st'.conflict, ~moved' PROVE RecordInv'
    <3>1. /\ st'.conflict = disk.conflict
          /\ st'.head = disk.head /\ st'.up = disk.up
      BY <1>st, <2>1 DEF LoadPersisted, MarkConflict, NewState, Persistent
    <3>2. ~moved /\ disk = MarshalPersisted(st)
      BY <2>1, <2>2, <3>1
    <3>3. st.conflict /\ st'.head = st.head /\ st'.up = st.up
      BY <2>2, <3>1, <3>2 DEF MarshalPersisted
    <3>4. RecordInv
      BY <3>2, <3>3 DEF RetryInv
    <3>. QED BY <2>1, <3>3, <3>4 DEF RecordInv, Late
  <2>. QED BY <2>1, <2>2 DEF RetryInv
<1>2. CASE Succeed
  <2>1. st' = MarkSuccess(st) /\ pc' = "idle"
    BY <1>2 DEF Succeed, Return
  <2>2. ~st'.conflict
    BY <1>st, <2>1 DEF MarkSuccess, RepoState
  <2>. QED BY <2>1, <2>2 DEF RetryInv
<1>3. CASE HandlesConflict /\ UNCHANGED <<local, tracking>>
  <2>0. PICK head \in {local, <<>>}, up \in {tracking, <<>>} :
            HandleConflict(run.files, head, up)
    BY <1>3 DEF HandlesConflict
  <2>h. head \in History /\ up \in History
    BY <1>st, <2>0, EmptyHistory
  <2>. DEFINE s == SetConflictRefs(st, head, up)
  <2>1. /\ st' = MarkConflict(s, run.files, "conflict") /\ pc' = "idle"
        /\ moved' <=> up # tracking
    BY <2>0 DEF HandleConflict, Return
  <2>2. s \in RepoState /\ s.head = head /\ s.up = up
    BY <1>st, <2>h, MarkTypes DEF SetConflictRefs, RepoState
  <2>. HIDE DEF s
  <2>3. st'.head = head /\ st'.up = up
    BY <2>1, <2>2 DEF MarkConflict, RepoState
  <2>4. IsAncestor(head, local)
    <3>1. IsAncestor(local, local)
      BY <1>st, AncestorReflexive
    <3>2. IsAncestor(<<>>, local)
      BY <1>st, EmptyHistory, AncestorElements
    <3>. QED BY <2>0, <3>1, <3>2
  <2>. QED BY <1>3, <2>1, <2>3, <2>4 DEF RetryInv, RecordInv, Late
<1>4. CASE StayInConflict /\ run.prev.conflict /\ pc # "idle" /\ UNCHANGED <<moved, local, tracking>>
  <2>1. PICK msg : st' = MarkConflict(st, run.prev.files, msg) /\ pc' = "idle"
    BY <1>4 DEF StayInConflict, Return
  <2>2. st.conflict /\ st'.head = st.head /\ st'.up = st.up
    BY <1>4, <1>st, <2>1 DEF MarkConflict, RepoState, RetryInv
  <2>. QED BY <1>4, <2>1, <2>2 DEF RetryInv, RecordInv, Late
<1>5. CASE EndsQuietly /\ Stays
  <2>1. /\ pc' = "idle" /\ st'.conflict = st.conflict
        /\ st'.head = st.head /\ st'.up = st.up
    BY <1>5 DEF EndsQuietly, Quiet
  <2>2. ASSUME st'.conflict, ~moved' PROVE RecordInv'
    <3>1. /\ tracking' = st'.up
          /\ IsAncestor(st'.head, local') \/ IsAncestor(tracking', local')
      BY <1>5, <2>1, <2>2, RecordKept
    <3>. QED BY <2>1, <3>1 DEF RecordInv, Late
  <2>. QED BY <2>1, <2>2 DEF RetryInv
<1>6. CASE MovesOn /\ Stays
  <2>1. /\ pc # "idle" /\ st'.conflict = st.conflict
        /\ st'.head = st.head /\ st'.up = st.up
        /\ run'.prev = run.prev /\ run'.force = run.force
    BY <1>6 DEF MovesOn, Quiet, Keeps
  <2>2. pc' \in {"prepare", "commit"} => run'.attempt = 1
    BY <1>6 DEF MovesOn, Early, RetryInv
  <2>3. ASSUME st'.conflict, ~moved' PROVE RecordInv'
    <3>1. /\ RecordInv /\ tracking' = tracking /\ tracking' = st'.up
          /\ IsAncestor(st'.head, local') \/ IsAncestor(tracking', local')
          /\ (st.head = <<>> \/ local # st.head \/ IsAncestor(tracking, local))
                => (st'.head = <<>> \/ local' # st'.head \/ IsAncestor(tracking', local'))
      BY <1>6, <2>1, <2>3, RecordKept
    <3>2. ~run'.forced
      BY <1>6, <2>1, <3>1 DEF MovesOn, RecordInv
    <3>3. ASSUME Late', ~run'.force PROVE Guarded'
      <4>1. CASE Late
        <5>1. Guarded /\ (run.unsure => run'.unsure)
          BY <1>6, <2>1, <3>1, <3>3, <4>1 DEF RecordInv, MovesOn, Keeps
        <5>. QED BY <3>1, <5>1 DEF Guarded
      <4>2. CASE run'.unsure \/ ~ConflictUnchanged
        <5>2. CASE run'.unsure
          BY <5>2 DEF Guarded
        <5>3. CASE ~ConflictUnchanged
          <6>1. /\ run.prev.conflict /\ ~run.force
                /\ run.prev.head = st.head /\ run.prev.up = st.up /\ tracking = st.up
            BY <2>1, <2>3, <3>1, <3>3 DEF RetryInv, RecordInv
          <6>2. \/ st.head = <<>> \/ tracking = <<>>
                \/ ~IsAncestor(st.head, local) \/ IsAncestor(tracking, local)
            BY <5>3, <6>1 DEF ConflictUnchanged, KnownConflict, HasRecord
          <6>3. tracking = <<>> => IsAncestor(tracking, local)
            BY <1>st, AncestorElements
          <6>4. IsAncestor(local, local)
            BY <1>st, AncestorReflexive
          <6>5. st.head = <<>> \/ local # st.head \/ IsAncestor(tracking, local)
            BY <6>2, <6>3, <6>4
          <6>. QED BY <3>1, <6>5 DEF Guarded
        <5>. QED BY <4>2, <5>2, <5>3
      <4>3. ~(pc = "commit" /\ run.attempt # 1)
        BY DEF RetryInv
      <4>. QED BY <1>6, <3>3, <4>1, <4>2, <4>3 DEF MovesOn
    <3>. QED BY <3>1, <3>2, <3>3 DEF RecordInv
  <2>. QED BY <2>1, <2>2, <2>3 DEF RetryInv
<1>7. CASE EngineStep
  <2>1. pc # "idle"
    BY <1>7 DEF EngineStep, Prepare, CommitStep, FetchStep, GuardStep, CountStep, RebaseStep,
                AbortStep, RecordStep, UpstreamGone, RecountStep, PushStep, CommandFails,
                NetworkFails
  <2>. QED
    BY <1>2, <1>3, <1>4, <1>5, <1>6, <1>7, <1>st, <2>1, EngineShape, EngineStays
       DEF EngineEnds
<1>8. CASE Cancel \/ SaveState \/ UserStep \/ OtherStep
  <2>1. /\ pc' = pc /\ st' = st /\ Keeps(run')
        /\ run'.forced = run.forced /\ run'.attempt = run.attempt
        /\ run.cancelled => run'.cancelled
    BY <1>8, <1>st, OutsideShape
  <2>2. ASSUME st'.conflict, ~moved' PROVE RecordInv'
    <3>1. /\ RecordInv /\ tracking' = tracking /\ tracking' = st'.up
          /\ IsAncestor(st'.head, local') \/ IsAncestor(tracking', local')
          /\ (st.head = <<>> \/ local # st.head \/ IsAncestor(tracking, local))
                => (st'.head = <<>> \/ local' # st'.head \/ IsAncestor(tracking', local'))
      BY <1>8, <2>1, <2>2, OutsideStays, RecordKept
    <3>2. Late' => Late
      BY <2>1 DEF Late
    <3>3. (Late' /\ ~run'.force) => Guarded'
      BY <2>1, <3>1, <3>2 DEF RecordInv, Guarded, Keeps
    <3>. QED BY <2>1, <3>1, <3>3 DEF RecordInv
  <2>. QED BY <2>1, <2>2 DEF RetryInv, Keeps
<1>9. CASE \E force, localOnly \in BOOLEAN : Start(force, localOnly)
  <2>1. /\ pc' = "prepare" /\ st' = st /\ UNCHANGED <<moved, local, tracking>>
        /\ run'.prev = st /\ run'.attempt = 1 /\ ~run'.forced
    BY <1>9 DEF Start, Goto, NewRun, git, ghost
  <2>. QED BY <2>1 DEF RetryInv, RecordInv, Late
<1>10. CASE UNCHANGED vars
  BY <1>10 DEF vars, RetryInv, RecordInv, Late, Guarded
<1>. QED BY <1>1, <1>7, <1>8, <1>9, <1>10 DEF Next

\* While the upstream does not move, a conflict on record is not run into a
\* second time: through failed, cancelled and guarded runs, commits on top,
\* resolutions by hand, rejected pushes and restarts from what was saved, as
\* long as no lookup of the guard fails.
THEOREM ConflictIsNotRetried == Spec => ConflictNotRetried
<1>1. ASSUME Init PROVE RetryInv
  <2>1. st = NewState /\ pc = "idle"
    BY <1>1, Zenon DEF Init
  <2>. QED BY <2>1 DEF RetryInv, NewState
<1>2. Inv /\ RetryInv /\ [Next]_vars
        => [(pc = "rebase" /\ pc' = "abort" /\ run'.files # {}
             /\ st.conflict /\ ~moved /\ ~run.force /\ ~run.unsure)
            => local # st.head]_vars
  <2>. SUFFICES ASSUME Inv, RetryInv, Next, pc = "rebase", pc' = "abort", run'.files # {},
                       st.conflict, ~moved, ~run.force, ~run.unsure, local = st.head
                PROVE  FALSE
    BY DEF vars
  <2>1. RecordInv /\ TypeOK /\ local \in History /\ tracking \in History
    BY DEF RetryInv, Inv, TypeOK, WorkOK
  <2>2. ~run.forced /\ (local = <<>> \/ IsAncestor(tracking, local))
    BY <2>1 DEF RecordInv, Late, Guarded
  <2>3. CASE RebaseStep
    <3>. DEFINE files == ConflictFiles(local, tracking,
                                       RebaseBase(local, tracking, reflog, run.forced))
    <3>1. RebaseBase(local, tracking, reflog, run.forced) = CommonLen(local, tracking)
      BY <2>2 DEF RebaseBase
    <3>2. files = {}
      <4>1. CommonLen(local, tracking) \in Nat
        BY <2>1, CommonLenLemma
      <4>. QED BY <2>1, <2>2, <3>1, <4>1, EmptyNoConflict, MergedNoConflict
    <3>3. CASE RebaseApplies
      BY <3>3 DEF RebaseApplies, Goto
    <3>4. CASE RebaseConflicts
      BY <3>2, <3>4 DEF RebaseConflicts
    <3>5. CASE RebaseTimesOut
      <4>1. run' = [run EXCEPT !.files = {}]
        BY <3>5 DEF RebaseTimesOut, Goto
      <4>. QED BY <2>1, <4>1 DEF TypeOK, DaemonOK, RunState
    <3>6. CASE RebaseRefusesDirty
      BY <3>6, FailEnds DEF RebaseRefusesDirty, Goto
    <3>7. CASE Fail("other")
      BY <3>7, FailEnds
    <3>. QED BY <2>3, <3>3, <3>4, <3>5, <3>6, <3>7 DEF RebaseStep
  <2>4. CASE EngineStep /\ ~RebaseStep
    BY <2>4 DEF EngineStep, Prepare, CommitStep, FetchStep, GuardStep, CountStep,
                AbortStep, RecordStep, UpstreamGone, RecountStep, PushStep, CommandFails,
                NetworkFails
  <2>5. CASE Cancel \/ SaveState \/ UserStep \/ OtherStep
    BY <2>1, <2>5, OutsideShape
  <2>6. CASE Crash \/ \E force, localOnly \in BOOLEAN : Start(force, localOnly)
    BY <2>6 DEF Crash, Start
  <2>. QED BY <2>3, <2>4, <2>5, <2>6 DEF Next
<1>. QED
  BY <1>1, <1>2, InitInv, NextInv, RetryNext, PTL DEF Spec, ConflictNotRetried
=============================================================================
