--------------------------- MODULE InductionLemmas ---------------------------
(***************************************************************************)
(* Induction over the natural numbers, and recursion along a sequence, as  *)
(* facts about sets and functions rather than about predicates: those of   *)
(* the library take an operator, which the provers cannot put in.          *)
(***************************************************************************)
EXTENDS Integers, WellFoundedInduction, TLAPS

(* A set of natural numbers that is not empty has a least member. *)
LEMMA LeastNumber ==
    ASSUME NEW S \in SUBSET Nat, S # {}
    PROVE  \E m \in S : \A k \in S : m <= k
<1>1. S \subseteq Nat
  OBVIOUS
<1>2. PICK m \in S : \A k \in S : <<k, m>> \notin OpToRel(<, Nat)
  BY <1>1, NatLessThanWellFounded, WFMin
<1>3. \A k \in S : ~(k < m)
  BY <1>1, <1>2 DEF OpToRel
<1>4. QED
  BY <1>1, <1>3

(* A set with 0, and with each of its numbers the next, has them all. *)
LEMMA SetInduction ==
    ASSUME NEW S, 0 \in S, \A n \in Nat : n \in S => n + 1 \in S
    PROVE  Nat \subseteq S
<1>1. SUFFICES ASSUME ~(Nat \subseteq S)
               PROVE  FALSE
  OBVIOUS
<1>2. PICK m \in Nat \ S : \A k \in Nat \ S : m <= k
  BY <1>1, LeastNumber, Zenon
<1>3. m - 1 \in Nat /\ m - 1 \in S
  BY <1>2
<1>4. QED
  BY <1>2, <1>3

(* f begins with c and goes on by step, up to n. *)
Recursive(f, c, step, n) ==
    /\ f[0] = c
    /\ \A k \in 1 .. n : f[k] = step[k][f[k - 1]]

(* There is such an f, however long: a recursive definition has a value.   *)
LEMMA RecursionExists ==
    ASSUME NEW S, NEW c \in S, NEW step \in [Nat -> [S -> S]]
    PROVE  \A n \in Nat : \E f \in [0 .. n -> S] : Recursive(f, c, step, n)
<1> DEFINE T == {n \in Nat : \E f \in [0 .. n -> S] : Recursive(f, c, step, n)}
<1>1. 0 \in T
  <2> DEFINE f == [k \in 0 .. 0 |-> c]
  <2>1. f \in [0 .. 0 -> S] /\ Recursive(f, c, step, 0)
    BY DEF Recursive
  <2>2. QED
    BY <2>1
<1>2. ASSUME NEW n \in Nat, n \in T
      PROVE  n + 1 \in T
  <2>1. PICK f \in [0 .. n -> S] : Recursive(f, c, step, n)
    BY <1>2
  <2> DEFINE g == [k \in 0 .. n + 1 |-> IF k <= n THEN f[k] ELSE step[k][f[n]]]
  <2>2. g \in [0 .. n + 1 -> S]
    <3>1. ASSUME NEW k \in 0 .. n + 1
          PROVE  (IF k <= n THEN f[k] ELSE step[k][f[n]]) \in S
      BY <2>1
    <3>2. QED
      BY <3>1
  <2>3. Recursive(g, c, step, n + 1)
    <3>1. g[0] = c
      BY <2>1 DEF Recursive
    <3>2. ASSUME NEW k \in 1 .. n + 1
          PROVE  g[k] = step[k][g[k - 1]]
      <4>1. CASE k <= n
        <5>1. f[k] = step[k][f[k - 1]] /\ g[k] = f[k] /\ g[k - 1] = f[k - 1]
          BY <2>1, <4>1 DEF Recursive
        <5>2. QED
          BY <5>1
      <4>2. CASE k = n + 1
        BY <4>2
      <4>3. QED
        BY <4>1, <4>2
    <3>3. QED
      BY <3>1, <3>2 DEF Recursive
  <2>4. QED
    BY <2>2, <2>3
<1> HIDE DEF T
<1>3. Nat \subseteq T
  BY <1>1, <1>2, SetInduction
<1>4. QED
  BY <1>3 DEF T

=============================================================================
