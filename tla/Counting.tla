------------------------------ MODULE Counting ------------------------------
(***************************************************************************)
(* The least-number principle, first-order, and what follows from it for   *)
(* functions that are computed step by step along a sequence.              *)
(***************************************************************************)
EXTENDS Integers, Sequences, WellFoundedInduction, TLAPS

(* A set of natural numbers that has a member has a least one.             *)
LEMMA LeastNumber ==
  ASSUME NEW T, T \subseteq Nat, T # {}
  PROVE  \E x \in T : \A y \in T : x <= y
  <1> DEFINE R == OpToRel(<, Nat)
  <1>1. IsWellFoundedOn(R, Nat)
    BY NatLessThanWellFounded
  <1>2. \A x, y \in Nat : y < x => <<y, x>> \in R
    BY DEF OpToRel
  <1> HIDE DEF R
  <1>3. \E x \in T : \A y \in T : ~(<<y, x>> \in R)
    BY <1>1, WFMin
  <1>4. \E x \in T : \A y \in T : ~(y < x)
    BY <1>2, <1>3
  <1>5. \A x, y \in T : ~(y < x) => x <= y
    OBVIOUS
  <1> QED
    BY <1>4, <1>5

(* What holds at 0 and passes from each number to the next holds up to N.  *)
LEMMA UpTo ==
  ASSUME NEW N \in Nat, NEW T, 0 \in T, \A n \in 1 .. N : n - 1 \in T => n \in T
  PROVE  \A n \in 0 .. N : n \in T
  <1> DEFINE Missing == {n \in 0 .. N : n \notin T}
  <1> SUFFICES ASSUME Missing # {} PROVE FALSE
    OBVIOUS
  <1>1. Missing \subseteq Nat
    OBVIOUS
  <1> HIDE DEF Missing
  <1>2. PICK n \in Missing : \A m \in Missing : n <= m
    BY <1>1, LeastNumber
  <1>3. n \in 1 .. N /\ n \notin T
    BY DEF Missing
  <1>4. n - 1 \in 0 .. N /\ n - 1 \notin Missing
    BY <1>2, <1>3
  <1> QED
    BY <1>3, <1>4 DEF Missing

-----------------------------------------------------------------------------
(* Functions computed along a sequence: a step G takes what there is so    *)
(* far and the place of the next element.                                  *)

Computes(f, N, base, G) == f[0] = base /\ \A n \in 1 .. N : f[n] = G[<<f[n - 1], n>>]

LEMMA Computed ==
  ASSUME NEW D, NEW N \in Nat, NEW base \in D, NEW G \in [D \X (1 .. N) -> D]
  PROVE  \E f \in [0 .. N -> D] : Computes(f, N, base, G)
  <1> DEFINE T == {m \in 0 .. N : \E f \in [0 .. m -> D] : Computes(f, m, base, G)}
  <1>1. 0 \in T
    <2> DEFINE f == [n \in 0 .. 0 |-> base]
    <2>1. f \in [0 .. 0 -> D] /\ f[0] = base
      OBVIOUS
    <2> HIDE DEF f
    <2>2. Computes(f, 0, base, G)
      BY <2>1 DEF Computes
    <2> QED
      BY <2>1, <2>2
  <1>2. ASSUME NEW m \in 1 .. N, m - 1 \in T
        PROVE  m \in T
    <2>1. PICK f \in [0 .. m - 1 -> D] : Computes(f, m - 1, base, G)
      BY <1>2
    <2> DEFINE last == G[<<f[m - 1], m>>]
               g == [n \in 0 .. m |-> IF n = m THEN last ELSE f[n]]
    <2>2. m - 1 \in 0 .. m - 1 /\ f[m - 1] \in D /\ last \in D
      OBVIOUS
    <2>3. g \in [0 .. m -> D] /\ g[0] = base
      BY <2>1, <2>2 DEF Computes
    <2>4. ASSUME NEW n \in 1 .. m
          PROVE  g[n] = G[<<g[n - 1], n>>]
      <3>1. n - 1 \in 0 .. m /\ n - 1 # m /\ g[n - 1] = f[n - 1]
        OBVIOUS
      <3>2. CASE n = m
        <4>1. g[n] = last
          BY <3>2
        <4> QED
          BY <3>1, <3>2, <4>1
      <3>3. CASE n # m
        <4>1. n \in 1 .. m - 1 /\ g[n] = f[n]
          BY <3>3
        <4> QED
          BY <2>1, <3>1, <4>1 DEF Computes
      <3> QED
        BY <3>2, <3>3
    <2> HIDE DEF g
    <2>5. Computes(g, m, base, G)
      BY <2>3, <2>4 DEF Computes
    <2> QED
      BY <2>3, <2>5
  <1> HIDE DEF T
  <1>3. N \in T
    BY <1>1, <1>2, UpTo
  <1> QED
    BY <1>3 DEF T

(* Two functions computed alike agree.                                     *)
Alike(f, g, N) == f[0] = g[0] /\ \A n \in 1 .. N : f[n - 1] = g[n - 1] => f[n] = g[n]

LEMMA AgreeUpTo ==
  ASSUME NEW N \in Nat, NEW f, NEW g, Alike(f, g, N)
  PROVE  \A n \in 0 .. N : f[n] = g[n]
  <1> DEFINE T == {n \in 0 .. N : f[n] = g[n]}
  <1>1. 0 \in T
    BY DEF Alike
  <1>2. \A n \in 1 .. N : n - 1 \in T => n \in T
    BY DEF Alike
  <1> HIDE DEF T
  <1>3. \A n \in 0 .. N : n \in T
    BY <1>1, <1>2, UpTo
  <1> QED
    BY <1>3 DEF T
=============================================================================
