------------------------------ MODULE Recursion ------------------------------
(***************************************************************************)
(* Induction and recursion over sets whose elements have a weight.  The    *)
(* proofs about recursive functions rest on these lemmas; sets stand for   *)
(* predicates, and functions for operators.                                *)
(***************************************************************************)
EXTENDS Naturals, WellFoundedInduction, TLAPS

(* A set of natural numbers that is not empty has a least element.         *)
LEMMA LeastElement ==
  ASSUME NEW T, T \subseteq Nat, T # {}
  PROVE  \E x \in T : \A y \in T : x <= y
<1>1. \E x \in T : \A y \in T : <<y, x>> \notin OpToRel(<, Nat)
  BY WFMin, NatLessThanWellFounded
<1>2. \A x \in Nat, y \in Nat : y < x => <<y, x>> \in OpToRel(<, Nat)
  BY DEF OpToRel
<1>3. PICK x \in T : \A y \in T : <<y, x>> \notin OpToRel(<, Nat)
  BY <1>1
<1>4. ASSUME NEW y \in T PROVE x <= y
  <2>1. ~ (y < x)
    BY <1>2, <1>3
  <2> QED BY <2>1
<1> QED BY <1>4

(* What holds of 0 and of every successor holds of every number.           *)
LEMMA Induction ==
  ASSUME NEW T, 0 \in T, \A n \in Nat : n \in T => n + 1 \in T
  PROVE  Nat \subseteq T
<1>1. SUFFICES ASSUME ~ (Nat \subseteq T) PROVE FALSE
  OBVIOUS
<1>2. PICK n \in Nat \ T : \A y \in Nat \ T : n <= y
  BY <1>1, LeastElement
<1>3. n # 0 /\ n - 1 \in Nat
  BY <1>2
<1>4. n - 1 \in T
  BY <1>2, <1>3
<1> QED BY <1>2, <1>3, <1>4

(* What holds of an element of X as soon as it holds of the elements that  *)
(* weigh less holds of all of them.                                        *)
LEMMA WeightInduction ==
  ASSUME NEW X, NEW W \in [X -> Nat], NEW T,
         \A x \in X : (\A y \in X : W[y] < W[x] => y \in T) => x \in T
  PROVE  X \subseteq T
<1> DEFINE R == {W[x] : x \in X \ T}
<1> SUFFICES ASSUME NEW z \in X \ T PROVE FALSE
  OBVIOUS
<1>1. R \subseteq Nat /\ W[z] \in R
  OBVIOUS
<1>2. PICK n \in R : \A m \in R : n <= m
  <2> HIDE DEF R
  <2> QED BY <1>1, LeastElement
<1>3. PICK x \in X \ T : n = W[x]
  BY <1>2
<1>4. ASSUME NEW y \in X, W[y] < W[x] PROVE y \in T
  <2> SUFFICES ASSUME y \notin T PROVE FALSE
    OBVIOUS
  <2>1. W[y] \in R /\ W[x] \in Nat /\ W[y] \in Nat
    OBVIOUS
  <2> HIDE DEF R
  <2> QED BY <1>2, <1>3, <1>4, <2>1
<1> QED BY <1>3, <1>4

(* G says what a function is at x in terms of what it is at the elements   *)
(* that weigh less than x.                                                 *)
Steps(X, W, P) ==
  {G \in [X \X [X -> P] -> P] :
     \A x \in X : \A f, g \in [X -> P] :
       (\A y \in X : W[y] < W[x] => f[y] = g[y])
         => G[<<x, f>>] = G[<<x, g>>]}

(* Such a G defines a function.                                            *)
LEMMA WeightRecursion ==
  ASSUME NEW X, NEW W \in [X -> Nat], NEW P, P # {}, NEW G \in Steps(X, W, P)
  PROVE  \E f \in [X -> P] : \A x \in X : f[x] = G[<<x, f>>]
<1>0. /\ G \in [X \X [X -> P] -> P]
      /\ \A x \in X : \A f, g \in [X -> P] :
           (\A y \in X : W[y] < W[x] => f[y] = g[y])
             => G[<<x, f>>] = G[<<x, g>>]
  BY DEF Steps
<1> USE <1>0
<1> DEFINE Upto(n) ==
             {f \in [X -> P] :
                \A x \in X : W[x] < n => f[x] = G[<<x, f>>]}
           T == {n \in Nat : Upto(n) # {}}
<1>1. 0 \in T
  <2>1. PICK p \in P : TRUE
    OBVIOUS
  <2>2. [x \in X |-> p] \in Upto(0)
    BY <2>1
  <2> QED BY <2>2
<1>2. ASSUME NEW n \in Nat, n \in T PROVE n + 1 \in T
  <2>1. PICK f \in [X -> P] : \A x \in X : W[x] < n => f[x] = G[<<x, f>>]
    BY <1>2
  <2> DEFINE g == [x \in X |-> G[<<x, f>>]]
  <2>2. g \in [X -> P]
    OBVIOUS
  <2>3. ASSUME NEW x \in X, W[x] < n + 1 PROVE g[x] = G[<<x, g>>]
    <3>1. ASSUME NEW y \in X, W[y] < W[x] PROVE f[y] = g[y]
      <4>1. W[y] < n
        BY <2>3, <3>1
      <4> QED BY <2>1, <4>1
    <3> HIDE DEF g
    <3>2. G[<<x, f>>] = G[<<x, g>>]
      BY <2>2, <3>1
    <3> QED BY <3>2 DEF g
  <2> HIDE DEF g
  <2>4. g \in Upto(n + 1)
    BY <2>2, <2>3
  <2>5. Upto(n + 1) # {}
    BY <2>4
  <2> HIDE DEF Upto
  <2> QED BY <2>5
<1>3. Nat \subseteq T
  <2> HIDE DEF T
  <2> QED BY <1>1, <1>2, Induction
<1>4. ASSUME NEW m \in Nat, NEW n \in Nat, NEW f \in Upto(m), NEW g \in Upto(n)
      PROVE  \A x \in X : W[x] < m /\ W[x] < n => f[x] = g[x]
  <2> DEFINE A == {x \in X : W[x] < m /\ W[x] < n => f[x] = g[x]}
  <2>0. /\ f \in [X -> P] /\ \A x \in X : W[x] < m => f[x] = G[<<x, f>>]
        /\ g \in [X -> P] /\ \A x \in X : W[x] < n => g[x] = G[<<x, g>>]
    BY <1>4
  <2>1. ASSUME NEW x \in X, \A y \in X : W[y] < W[x] => y \in A
        PROVE  x \in A
    <3> SUFFICES ASSUME W[x] < m, W[x] < n PROVE f[x] = g[x]
      OBVIOUS
    <3>1. ASSUME NEW y \in X, W[y] < W[x] PROVE f[y] = g[y]
      <4>1. W[y] < m /\ W[y] < n
        BY <3>1
      <4> QED BY <2>1, <3>1, <4>1
    <3>2. G[<<x, f>>] = G[<<x, g>>]
      BY <2>0, <3>1
    <3> QED BY <2>0, <3>2
  <2>2. X \subseteq A
    <3> HIDE DEF A
    <3> QED BY <2>1, WeightInduction
  <2> QED BY <2>2
<1> DEFINE h == [n \in Nat |-> CHOOSE f \in Upto(n) : TRUE]
           F == [x \in X |-> h[W[x] + 1][x]]
<1>5. ASSUME NEW n \in Nat PROVE h[n] \in Upto(n)
  <2>1. Upto(n) # {}
    BY <1>3
  <2> HIDE DEF Upto
  <2> QED BY <2>1
<1>6. ASSUME NEW x \in X
      PROVE  W[x] + 1 \in Nat /\ h[W[x] + 1] \in Upto(W[x] + 1)
  <2>1. W[x] + 1 \in Nat
    OBVIOUS
  <2> QED BY <1>5, <2>1
<1>7. F \in [X -> P]
  <2>1. ASSUME NEW x \in X PROVE h[W[x] + 1][x] \in P
    <3> HIDE DEF h
    <3> QED BY <1>6
  <2> HIDE DEF h
  <2> QED BY <2>1
<1>8. ASSUME NEW x \in X PROVE F[x] = G[<<x, F>>]
  <2> DEFINE f == h[W[x] + 1]
  <2>1. F[x] = f[x]
    OBVIOUS
  <2>2. ASSUME NEW y \in X, W[y] < W[x] PROVE F[y] = f[y]
    <3>1. F[y] = h[W[y] + 1][y]
      OBVIOUS
    <3>2. W[y] < W[y] + 1 /\ W[y] < W[x] + 1
      BY <2>2
    <3> HIDE DEF h, F, Upto
    <3> QED BY <1>4, <1>6, <3>1, <3>2
  <2>3. f \in Upto(W[x] + 1) /\ W[x] < W[x] + 1
    <3>1. W[x] \in Nat
      OBVIOUS
    <3> HIDE DEF h, Upto
    <3> QED BY <1>6, <3>1
  <2> HIDE DEF F, h, f
  <2>4. f[x] = G[<<x, f>>] /\ f \in [X -> P]
    BY <2>3
  <2>5. G[<<x, f>>] = G[<<x, F>>]
    BY <1>7, <2>2, <2>4
  <2> QED BY <2>1, <2>4, <2>5
<1> QED BY <1>7, <1>8

(* The functions that G defines.                                           *)
Fixed(X, P, G) == {f \in [X -> P] : \A x \in X : f[x] = G[<<x, f>>]}

LEMMA FixedExists ==
  ASSUME NEW X, NEW W \in [X -> Nat], NEW P, P # {}, NEW G \in Steps(X, W, P)
  PROVE  Fixed(X, P, G) # {}
<1>1. \E f \in [X -> P] : \A x \in X : f[x] = G[<<x, f>>]
  BY WeightRecursion
<1> QED BY <1>1 DEF Fixed
=============================================================================
