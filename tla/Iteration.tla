----------------------------- MODULE Iteration -----------------------------
(***************************************************************************)
(* Induction on the naturals for the proofs of this directory, and the     *)
(* functions that are defined by it.  Both come from the order of the      *)
(* naturals being well-founded: a counterexample would have a least one.   *)
(***************************************************************************)
EXTENDS Naturals, WellFoundedInduction, TLAPS

\* A set of naturals that is not empty has a least element.
LEMMA Least ==
    ASSUME NEW S \in SUBSET Nat, S # {}
    PROVE  \E x \in S : \A y \in S : x <= y
<1>. DEFINE R == {p \in Nat \X Nat : p[1] < p[2]}
<1>1. IsWellFoundedOn(R, Nat)
  BY NatLessThanWellFounded, Zenon DEF OpToRel
<1>2. PICK x \in S : \A y \in S : ~(<<y, x>> \in R)
  <2>. HIDE DEF R
  <2>. QED BY <1>1, WFMin
<1>3. ASSUME NEW y \in S, ~(x <= y) PROVE FALSE
  <2>1. <<y, x>> \in Nat \X Nat /\ y < x
    BY <1>3
  <2>. QED
    BY <1>2, <2>1
<1>. QED
  BY <1>3

\* What holds at 0 and is handed on holds up to n.
LEMMA Climb ==
    ASSUME NEW n \in Nat, NEW S, 0 \in S, \A i \in 1..n : i - 1 \in S => i \in S
    PROVE  \A i \in 0..n : i \in S
<1>. DEFINE T == {i \in 0..n : i \notin S}
<1>. SUFFICES ASSUME T # {} PROVE FALSE
  OBVIOUS
<1>1. PICK x \in T : \A y \in T : x <= y
  <2>1. T \in SUBSET Nat
    OBVIOUS
  <2>. HIDE DEF T
  <2>. QED BY <2>1, Least
<1>2. x \in 0..n /\ x \notin S /\ x # 0
  OBVIOUS
<1>3. x - 1 \in 0..n /\ ~(x <= x - 1) /\ x \in 1..n
  BY <1>2
<1>4. x - 1 \in S
  BY <1>1, <1>3
<1>. QED
  BY <1>2, <1>3, <1>4

\* A function whose values come from the ones before exists.
Iterates(n, V, b, st) ==
    \E f \in [0..n -> V] : f[0] = b /\ \A i \in 1..n : f[i] = st[i][f[i - 1]]

LEMMA Iterated ==
    ASSUME NEW n \in Nat, NEW V, NEW b \in V, NEW st \in [1..n -> [V -> V]]
    PROVE  Iterates(n, V, b, st)
<1>. DEFINE P(f, m) == f[0] = b /\ \A i \in 1..m : f[i] = st[i][f[i - 1]]
            S == {m \in 0..n : \E f \in [0..m -> V] : P(f, m)}
<1>1. 0 \in S
  <2>. DEFINE f == [i \in 0..0 |-> b]
  <2>1. f \in [0..0 -> V] /\ P(f, 0)
    OBVIOUS
  <2>. HIDE DEF f, P
  <2>. QED BY <2>1
<1>2. ASSUME NEW m \in 1..n, m - 1 \in S PROVE m \in S
  <2>1. PICK f \in [0..(m - 1) -> V] : P(f, m - 1)
    BY <1>2
  <2>. DEFINE g == [i \in 0..m |-> IF i = m THEN st[m][f[m - 1]] ELSE f[i]]
  <2>2. f[m - 1] \in V /\ st[m] \in [V -> V]
    BY m - 1 \in 0..(m - 1)
  <2>3. st[m][f[m - 1]] \in V
    BY <2>2
  <2>4. g \in [0..m -> V]
    BY <2>3
  <2>5. g[0] = b
    BY <2>1
  <2>6. ASSUME NEW i \in 1..m PROVE g[i] = st[i][g[i - 1]]
    <3>1. CASE i = m
      <4>1. g[i] = st[m][f[m - 1]] /\ g[i - 1] = f[m - 1]
        BY <3>1
      <4>. HIDE DEF g
      <4>. QED BY <3>1, <4>1
    <3>2. CASE i # m
      <4>1. i \in 1..(m - 1) /\ g[i] = f[i] /\ g[i - 1] = f[i - 1]
        BY <3>2
      <4>. HIDE DEF g
      <4>. QED BY <2>1, <4>1
    <3>. QED BY <3>1, <3>2
  <2>7. P(g, m)
    BY <2>5, <2>6
  <2>. HIDE DEF g, P
  <2>. QED BY <2>4, <2>7
<1>3. n \in S
  <2>. HIDE DEF S
  <2>1. \A i \in 0..n : i \in S
    BY <1>1, <1>2, Climb
  <2>. QED BY <2>1
<1>. QED
  BY <1>3 DEF Iterates
=============================================================================
