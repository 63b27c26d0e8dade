----------------------------- MODULE MCAutoSync -----------------------------
(* Small instances of AutoSync: two local and two remote edits of one or   *)
(* two files on a repository that is empty or holds one commit.            *)
EXTENDS AutoSync

CONSTANTS b0, l1, l2, r1, r2, f1, f2

MCEdit == {b0, l1, l2, r1, r2}
MCFile == {f1, f2}
MCFileOf == [e \in MCEdit |-> IF e \in {l1, r1, b0} THEN f1 ELSE f2]
MCLocalEdit == {l1, l2}
MCOneLocalEdit == {l1}
MCOneRemoteEdit == {r1}
MCInitial == {<<{b0}>>}
MCInitialEmpty == {<<>>, <<{b0}>>}

\* The user of this machine only types: no git command of their own.
HandsOffNext ==
    \/ \E force, localOnly \in BOOLEAN : Start(force, localOnly)
    \/ EngineStep
    \/ Cancel \/ SaveState \/ Crash
    \/ \E e \in LocalEdit : UserEdits(e)
    \/ OtherStep

HandsOffSpec == Init /\ [][HandsOffNext]_vars
=============================================================================
