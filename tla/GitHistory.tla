----------------------------- MODULE GitHistory -----------------------------
(***************************************************************************)
(* What the sync engine asks of git (external): the history of a branch,   *)
(* ancestry, merge bases, fork points and the outcome of a rebase.         *)
(*                                                                         *)
(* A commit is the nonempty set of edits it records, and a history is the  *)
(* sequence of its commits, oldest first.  A commit id depends on the      *)
(* commit's parents, so the id of the n-th commit of h is the prefix of h  *)
(* of length n: "rev-parse" of a branch is the history itself and          *)
(* ancestry is the prefix order.  The empty history is a ref that does     *)
(* not exist.  Every edit is a change of its own, so git's dropping of     *)
(* patches that the upstream already holds never applies.                  *)
(***************************************************************************)
EXTENDS Naturals, Sequences, FiniteSetsExt

CONSTANTS Edit,      \* the edits users make, here and on other machines
          File,      \* the paths of the repository
          FileOf     \* the path an edit changes

ASSUME FileOfAssumption == FileOf \in [Edit -> File]

Commit == SUBSET Edit
History == Seq(Commit)

\* All the edits recorded in the history h.
Content(h) == UNION {h[i] : i \in 1..Len(h)}

\* git merge-base --is-ancestor a h
IsAncestor(a, h) == Len(a) <= Len(h) /\ SubSeq(h, 1, Len(a)) = a

\* The number of commits a and b share from the root: the merge base of two
\* linear histories.
CommonLen(a, b) ==
    Min({i \in 1..(Len(a) + 1) : i > Len(a) \/ i > Len(b) \/ a[i] # b[i]}) - 1

\* git rev-list --left-right --count a...b
Ahead(a, b) == Len(a) - CommonLen(a, b)
Behind(a, b) == Len(b) - CommonLen(a, b)

\* git merge-base --fork-point: the longest common stem of h with any tip
\* the upstream ref has had, if that stem was itself one of those tips.
ForkLen(h, tips) ==
    Min({i \in 1..(Len(h) + 1) : \A t \in tips : CommonLen(h, t) < i}) - 1

\* The commits of h up to this position are not replayed by
\* "git rebase [--fork-point] up".
RebaseBase(h, up, reflog, forkPoint) ==
    LET tips == reflog \cup {up}
        fork == ForkLen(h, tips)
    IN  IF forkPoint /\ SubSeq(h, 1, fork) \in tips THEN fork ELSE CommonLen(h, up)

\* The branch after a rebase that replays what follows base onto up.
Rebased(h, up, base) == up \o SubSeq(h, base + 1, Len(h))

FilesOf(edits) == {FileOf[e] : e \in edits}

\* The paths in which up differs from the first base commits of h.
DivergedFiles(h, up, base) ==
    LET stem == SubSeq(h, 1, base)
        n    == CommonLen(stem, up)
    IN  FilesOf(Content(SubSeq(stem, n + 1, Len(stem)))
                \cup Content(SubSeq(up, n + 1, Len(up))))

\* The unmerged paths of the first replayed commit that does not apply,
\* {} when the whole rebase applies.
ConflictFiles(h, up, base) ==
    LET touched  == DivergedFiles(h, up, base)
        stuck    == {i \in (base + 1)..Len(h) : FilesOf(h[i]) \cap touched # {}}
    IN  IF stuck = {} THEN {} ELSE FilesOf(h[Min(stuck)]) \cap touched
=============================================================================
