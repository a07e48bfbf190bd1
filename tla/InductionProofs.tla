-------------------------- MODULE InductionProofs --------------------------
(***************************************************************************)
(* Induction and recursion over the natural numbers, in a form that every  *)
(* prover can use: the statement proved by induction is membership in a    *)
(* set, and a function defined by recursion is one of a set of functions.  *)
(* Both rest on every set of naturals having a least element.              *)
(***************************************************************************)
EXTENDS Integers, Sequences, FiniteSetTheorems, FunctionTheorems, SequenceTheorems,
        WellFoundedInduction, TLAPS

LEMMA LeastOf ==
    ASSUME NEW S \in SUBSET Nat, S # {}
    PROVE  \E x \in S : \A y \in S : x <= y
  <1> DEFINE R == OpToRel(<, Nat)
  <1>1. PICK x \in S : \A y \in S : ~(<<y, x>> \in R)
    <2>1. IsWellFoundedOn(R, Nat)
      BY NatLessThanWellFounded, Zenon
    <2> HIDE DEF R
    <2> QED BY <2>1, WFMin
  <1>2. \A y \in S : x <= y
    <2>1. ASSUME NEW y \in S, y < x PROVE <<y, x>> \in R
      <3>1. <<y, x>> \in Nat \X Nat /\ <<y, x>>[1] < <<y, x>>[2]
        BY <2>1
      <3> QED BY <3>1 DEF OpToRel
    <2> HIDE DEF R
    <2>2. \A y \in S : ~(y < x)
      BY <1>1, <2>1
    <2> QED BY <2>2
  <1> QED BY <1>2

LEMMA GreatestOf ==
    ASSUME NEW n \in Nat, NEW S \in SUBSET (0 .. n), S # {}
    PROVE  \E x \in S : \A y \in S : x >= y
  <1> DEFINE T == {k \in Nat : n - k \in S}
  <1>1. T \in SUBSET Nat /\ T # {}
    <2>1. PICK y \in S : TRUE
      OBVIOUS
    <2>2. n - y \in Nat /\ n - (n - y) = y
      BY <2>1
    <2> QED BY <2>1, <2>2
  <1>2. PICK k \in T : \A j \in T : k <= j
    <2> HIDE DEF T
    <2> QED BY <1>1, LeastOf
  <1>3. ASSUME NEW y \in S PROVE n - k >= y
    <2>1. n - y \in Nat /\ n - (n - y) = y
      OBVIOUS
    <2>2. n - y \in T
      BY <2>1
    <2>3. k <= n - y /\ k \in Nat /\ y \in Nat
      BY <1>2, <2>2
    <2> QED BY <2>3
  <1> QED BY <1>2, <1>3

LEMMA Induct ==
    ASSUME NEW S, 0 \in S, \A n \in Nat : n \in S => n + 1 \in S
    PROVE  Nat \subseteq S
  <1> SUFFICES ASSUME NEW T, T = {n \in Nat : n \notin S}, T # {} PROVE FALSE
    OBVIOUS
  <1>1. PICK x \in T : \A y \in T : x <= y
    BY LeastOf
  <1>2. x # 0 /\ x - 1 \in Nat /\ x - 1 \notin T
    BY <1>1
  <1>3. x - 1 \in S
    BY <1>2
  <1>4. (x - 1) + 1 \in S
    BY <1>2, <1>3
  <1> QED BY <1>2, <1>4

(* g is defined by recursion over the naturals: F[n] makes its value at n  *)
(* of the one before.                                                      *)
Recursion(g, X, x0, F) ==
    g \in [Nat -> X] /\ g[0] = x0 /\ \A n \in Nat : g[n + 1] = F[n + 1][g[n]]

(* There is such a function. *)
LEMMA Iterates ==
    ASSUME NEW X, NEW x0 \in X, NEW F \in [Nat -> [X -> X]]
    PROVE  \E g : Recursion(g, X, x0, F)
  <1> DEFINE Upto(n, h) == /\ h \in [0 .. n -> X] /\ h[0] = x0
                           /\ \A i \in 0 .. n - 1 : h[i + 1] = F[i + 1][h[i]]
             S == {n \in Nat : \E h : Upto(n, h)}
  <1>1. 0 \in S
    <2>1. Upto(0, [i \in 0 .. 0 |-> x0])
      OBVIOUS
    <2> QED BY <2>1
  <1>2. ASSUME NEW n \in Nat, n \in S PROVE n + 1 \in S
    <2>1. PICK h : Upto(n, h)
      BY <1>2
    <2>2. Upto(n + 1, [i \in 0 .. n + 1 |-> IF i <= n THEN h[i] ELSE F[n + 1][h[n]]])
      BY <2>1
    <2> HIDE DEF Upto
    <2> QED BY <2>2
  <1>3. Nat \subseteq S
    <2> HIDE DEF S
    <2> QED BY <1>1, <1>2, Induct
  <1>4. \A n \in Nat : \E h : Upto(n, h)
    BY <1>3
  <1> DEFINE H(n) == CHOOSE h : Upto(n, h)
  <1>5. \A n \in Nat : Upto(n, H(n))
    <2> HIDE DEF Upto
    <2> QED BY <1>4
  <1>6. ASSUME NEW n \in Nat PROVE \A i \in Nat : i <= n => H(n)[i] = H(n + 1)[i]
    <2> DEFINE E == {i \in Nat : i <= n => H(n)[i] = H(n + 1)[i]}
    <2>0. Upto(n, H(n)) /\ Upto(n + 1, H(n + 1))
      <3> HIDE DEF Upto, H
      <3> QED BY <1>5
    <2> HIDE DEF H
    <2>1. 0 \in E
      BY <2>0
    <2>2. ASSUME NEW i \in Nat, i \in E PROVE i + 1 \in E
      BY <2>0, <2>2
    <2> HIDE DEF E
    <2>3. Nat \subseteq E
      BY <2>1, <2>2, Induct
    <2> QED BY <2>3 DEF E
  <1> DEFINE g == [n \in Nat |-> H(n)[n]]
  <1>7. g \in [Nat -> X] /\ g[0] = x0
    <2> HIDE DEF H
    <2> QED BY <1>5
  <1>8. ASSUME NEW n \in Nat PROVE g[n + 1] = F[n + 1][g[n]]
    <2>1. H(n + 1)[n + 1] = F[n + 1][H(n + 1)[n]]
      <3> HIDE DEF H
      <3> QED BY <1>5
    <2>2. H(n + 1)[n] = H(n)[n]
      <3> HIDE DEF H
      <3> QED BY <1>6
    <2> HIDE DEF H
    <2> QED BY <2>1, <2>2
  <1> QED BY <1>7, <1>8 DEF Recursion

(* The same up to a bound m. *)
RecursionUpto(m, g, X, x0, F) ==
    g \in [0 .. m -> X] /\ g[0] = x0 /\ \A n \in 1 .. m : g[n] = F[n][g[n - 1]]

LEMMA IteratesUpto ==
    ASSUME NEW m \in Nat, NEW X, NEW x0 \in X, NEW F \in [1 .. m -> [X -> X]]
    PROVE  \E g : RecursionUpto(m, g, X, x0, F)
  <1> DEFINE G == [n \in Nat |-> IF n \in 1 .. m THEN F[n] ELSE [x \in X |-> x]]
  <1>1. G \in [Nat -> [X -> X]]
    OBVIOUS
  <1>2. PICK h : Recursion(h, X, x0, G)
    <2> HIDE DEF G
    <2> QED BY <1>1, Iterates
  <1> DEFINE g == [n \in 0 .. m |-> h[n]]
  <1>3. g \in [0 .. m -> X] /\ g[0] = x0
    BY <1>2 DEF Recursion
  <1>4. ASSUME NEW n \in 1 .. m PROVE g[n] = F[n][g[n - 1]]
    <2>1. n \in Nat /\ n - 1 \in Nat /\ (n - 1) + 1 = n /\ n \in 0 .. m /\ n - 1 \in 0 .. m
      OBVIOUS
    <2>2. h[n] = G[n][h[n - 1]]
      <3> HIDE DEF G
      <3> QED BY <1>2, <2>1 DEF Recursion
    <2>3. G[n] = F[n]
      BY <2>1
    <2> HIDE DEF G
    <2> QED BY <2>1, <2>2, <2>3
  <1> HIDE DEF g
  <1> QED BY <1>3, <1>4 DEF RecursionUpto

-----------------------------------------------------------------------------
(* Sequences *)

LEMMA ListOf ==
    ASSUME NEW T, NEW n \in Nat, NEW s \in [1 .. n -> T]
    PROVE  s \in Seq(T) /\ Len(s) = n
  BY SeqDef

LEMMA Widened ==
    ASSUME NEW S, NEW T, S \subseteq T, NEW s \in Seq(S)
    PROVE  s \in Seq(T)
  <1>1. Len(s) \in Nat /\ s \in [1 .. Len(s) -> S]
    BY LenProperties
  <1>2. s \in [1 .. Len(s) -> T]
    BY <1>1
  <1> QED BY <1>1, <1>2, SeqDef

=============================================================================
