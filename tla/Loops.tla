-------------------------------- MODULE Loops --------------------------------
(***************************************************************************)
(* Loops as recursive functions of the number of rounds.  The least number *)
(* principle gives induction, with a set of numbers for the predicate, and *)
(* induction that such functions exist and what their values have in       *)
(* common.                                                                 *)
(***************************************************************************)
EXTENDS Integers, WellFoundedInduction, TLAPS

\* The least number principle.
LEMMA LeastNumber ==
  ASSUME NEW B, B \subseteq Nat, B # {}
  PROVE  \E x \in B : \A y \in B : ~(y < x)
  <1>1. \E x \in B : \A y \in B : ~(<<y, x>> \in OpToRel(<, Nat))
    BY WFMin, NatLessThanWellFounded, Zenon
  <1> QED
    BY <1>1, Zenon DEF OpToRel

\* A set of numbers with 0 and the successor of each of its members below n.
LEMMA Induction ==
  ASSUME NEW n \in Nat, NEW S, 0 \in S, \A k \in 1..n : k - 1 \in S => k \in S
  PROVE  \A k \in 0..n : k \in S
  <1> DEFINE B == {k \in 0..n : k \notin S}
  <1> SUFFICES ASSUME B # {}
               PROVE  FALSE
    OBVIOUS
  <1>1. PICK x \in B : \A y \in B : ~(y < x)
    <2>1. B \subseteq Nat
      OBVIOUS
    <2> HIDE DEF B
    <2> QED
      BY <2>1, LeastNumber
  <1>2. x \in 0..n /\ x \notin S
    OBVIOUS
  <1>3. x \in 1..n /\ x - 1 \in 0..n /\ x - 1 < x
    BY <1>2
  <1>4. x - 1 \in S
    BY <1>1, <1>3
  <1> QED
    BY <1>2, <1>3, <1>4

\* The values a loop goes through: g[k] is the one after the k-th step F[k].
IsRun(g, n, D, start, F) ==
  /\ g \in [0..n -> D] /\ g[0] = start
  /\ \A k \in 1..n : g[k] = F[k][g[k - 1]]

\* There are such values, however many steps the loop makes.
LEMMA RunExists ==
  ASSUME NEW n \in Nat, NEW D, NEW start \in D, NEW F \in [1..n -> [D -> D]]
  PROVE  \E g : IsRun(g, n, D, start, F)
  <1> DEFINE S == {m \in 0..n : \E g : IsRun(g, m, D, start, F)}
  <1>1. 0 \in S
    <2>1. IsRun([k \in 0..0 |-> start], 0, D, start, F)
      BY DEF IsRun
    <2> QED
      BY <2>1
  <1>2. ASSUME NEW m \in 1..n, m - 1 \in S
        PROVE  m \in S
    <2>1. PICK g : IsRun(g, m - 1, D, start, F)
      BY <1>2
    <2> DEFINE h == [k \in 0..m |-> IF k = m THEN F[m][g[m - 1]] ELSE g[k]]
    <2>2. h \in [0..m -> D] /\ h[0] = start
      <3>1. F[m][g[m - 1]] \in D /\ \A k \in 0..m : k # m => g[k] \in D
        BY <2>1 DEF IsRun
      <3>2. \A k \in 0..m : h[k] \in D
        BY <3>1
      <3> QED
        BY <2>1, <3>2 DEF IsRun
    <2>3. ASSUME NEW k \in 1..m
          PROVE  h[k] = F[k][h[k - 1]]
      BY <2>1 DEF IsRun
    <2>4. IsRun(h, m, D, start, F)
      BY <2>2, <2>3 DEF IsRun
    <2> QED
      BY <2>4
  <1> HIDE DEF S
  <1>3. \A m \in 0..n : m \in S
    BY <1>1, <1>2, Induction
  <1> QED
    BY <1>3 DEF S

\* Every value before a step is one of them.
LEMMA RunRange ==
  ASSUME NEW n \in Nat, NEW D, NEW g \in [0..n -> D]
  PROVE  \A k \in 1..n : g[k - 1] \in D
  <1>1. \A k \in 1..n : k - 1 \in 0..n
    OBVIOUS
  <1> QED
    BY <1>1

\* Two functions that begin alike and go on alike are alike.
LEMMA RunsAgree ==
  ASSUME NEW n \in Nat, NEW g, NEW h, g[0] = h[0],
         \A k \in 1..n : g[k - 1] = h[k - 1] => g[k] = h[k]
  PROVE  g[n] = h[n]
  <1> DEFINE S == {k \in 0..n : g[k] = h[k]}
  <1>1. \A k \in 0..n : k \in S
    <2>1. 0 \in S /\ \A k \in 1..n : k - 1 \in S => k \in S
      OBVIOUS
    <2> HIDE DEF S
    <2> QED
      BY <2>1, Induction
  <1> QED
    BY <1>1
=============================================================================
