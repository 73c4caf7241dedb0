----------------------------- MODULE Induction ------------------------------
(***************************************************************************)
(* Induction over the naturals for sets, and what follows from it for the  *)
(* data the modules compute with: greatest and least elements, functions   *)
(* defined by recursion, and folds of sequences.  The induction theorems   *)
(* of the library are about operators; these are about sets, so that first *)
(* order provers can use them.                                             *)
(***************************************************************************)
EXTENDS Naturals, FiniteSetsExt, FiniteSetTheorems, TLAPS

\* A set of naturals that holds 0 and every successor is all of them: n + 1 would
\* map what it has below a k outside of it into less than that.
THEOREM SetInduction ==
  ASSUME NEW S \in SUBSET Nat, 0 \in S, \A n \in S : n + 1 \in S
  PROVE  S = Nat
<1> SUFFICES ASSUME NEW k \in Nat, k \notin S PROVE FALSE
  OBVIOUS
<1> DEFINE A == S \cap (0 .. k)
           f == [n \in A |-> n + 1]
<1>1. A \in SUBSET (0 .. k) /\ 0 \in A /\ \A n \in A : n + 1 \in A \ {0}
  OBVIOUS
<1>2. IsFiniteSet(0 .. k)
  BY FS_Interval
<1>3. f \in [A -> A \ {0}] /\ \A x, y \in A : f[x] = f[y] => x = y
  BY <1>1
<1> HIDE DEF A, f
<1>4. IsFiniteSet(A)
  BY <1>1, <1>2, FS_Subset
<1>5. IsFiniteSet(A \ {0}) /\ Cardinality(A \ {0}) = Cardinality(A) - 1
      /\ Cardinality(A) \in Nat
  BY <1>1, <1>4, FS_RemoveElement, FS_CardinalityType
<1>6. \E x, y \in A : x # y /\ f[x] = f[y]
  BY <1>3, <1>4, <1>5, FS_PigeonHole
<1> QED BY <1>3, <1>6

\* The same up to a bound.
LEMMA PrefixInduction ==
  ASSUME NEW n \in Nat, NEW S, 0 \in S, \A k \in 0 .. n - 1 : k \in S => k + 1 \in S
  PROVE  \A k \in 0 .. n : k \in S
<1> DEFINE T == { k \in Nat : k <= n => k \in S }
<1>1. T \in SUBSET Nat /\ 0 \in T /\ \A k \in T : k + 1 \in T
  OBVIOUS
<1> HIDE DEF T
<1>2. T = Nat
  BY <1>1, SetInduction
<1> QED BY <1>2 DEF T

\* Every set of naturals that is bounded and not empty has a greatest element.
LEMMA MaxOf ==
  ASSUME NEW n \in Nat, NEW s \in SUBSET (0 .. n), s # {}
  PROVE  Max(s) \in s /\ \A y \in s : y <= Max(s)
<1> DEFINE P(k) == \A t \in SUBSET (0 .. k) : t # {} => \E x \in t : \A y \in t : x >= y
           S == { k \in Nat : P(k) }
<1>1. P(0)
  <2> SUFFICES ASSUME NEW t \in SUBSET (0 .. 0), t # {}
               PROVE  \E x \in t : \A y \in t : x >= y
    OBVIOUS
  <2>1. 0 .. 0 = {0}
    OBVIOUS
  <2>2. t = {0}
    BY <2>1
  <2> QED BY <2>2
<1>2. ASSUME NEW k \in Nat, P(k) PROVE P(k + 1)
  <2> SUFFICES ASSUME NEW t \in SUBSET (0 .. k + 1), t # {}
               PROVE  \E x \in t : \A y \in t : x >= y
    OBVIOUS
  <2>1. CASE k + 1 \in t
    BY <2>1
  <2>2. CASE k + 1 \notin t
    BY <1>2, <2>2
  <2> QED BY <2>1, <2>2
<1>3. S = Nat
  <2> HIDE DEF P
  <2>1. S \in SUBSET Nat /\ 0 \in S /\ \A k \in S : k + 1 \in S
    BY <1>1, <1>2
  <2> HIDE DEF S
  <2> QED BY <2>1, SetInduction
<1>4. P(n)
  BY <1>3
<1>5. \E x \in s : \A y \in s : x >= y
  BY <1>4
<1>6. Max(s) \in s /\ \A y \in s : Max(s) >= y
  BY <1>5 DEF Max
<1> QED BY <1>6

\* Every set of naturals that is not empty has a least element.
LEMMA MinOf ==
  ASSUME NEW s \in SUBSET Nat, s # {}
  PROVE  Min(s) \in s /\ \A y \in s : Min(s) <= y
<1> DEFINE P(k) == \A t \in SUBSET Nat : k \in t => \E x \in t : \A y \in t : x <= y
           S == { k \in Nat : P(k) }
<1>1. P(0)
  OBVIOUS
<1>2. ASSUME NEW k \in Nat, P(k) PROVE P(k + 1)
  <2> SUFFICES ASSUME NEW t \in SUBSET Nat, k + 1 \in t
               PROVE  \E x \in t : \A y \in t : x <= y
    OBVIOUS
  <2>1. k \in t \cup {k} /\ t \cup {k} \in SUBSET Nat
    OBVIOUS
  <2>2. PICK x \in t \cup {k} : \A y \in t \cup {k} : x <= y
    BY <1>2, <2>1
  <2>3. CASE x \in t
    BY <2>2, <2>3
  <2>4. CASE x \notin t
    <3>1. x = k /\ \A y \in t : k <= y /\ y # k
      BY <2>2, <2>4
    <3> QED BY <3>1
  <2> QED BY <2>3, <2>4
<1>3. S = Nat
  <2> HIDE DEF P
  <2>1. S \in SUBSET Nat /\ 0 \in S /\ \A k \in S : k + 1 \in S
    BY <1>1, <1>2
  <2> HIDE DEF S
  <2> QED BY <2>1, SetInduction
<1>4. \E x \in s : \A y \in s : x <= y
  BY <1>3
<1> QED BY <1>4 DEF Min

-----------------------------------------------------------------------------
(* Folds.  A fold from the left over n elements is a function of the sets of
   positions, which takes off the greatest first. *)

\* g folds G over the positions 1 .. k.
FoldsOver(g, base, G, k) ==
    \A s \in SUBSET (1 .. k) :
      g[s] = IF s = {} THEN base ELSE G[<<g[s \ {Max(s)}], Max(s)>>]

\* A fold over k elements extends to one over k + 1.
LEMMA FoldGrows ==
  ASSUME NEW V, NEW base \in V, NEW n \in Nat, NEW G \in [V \X (1 .. n) -> V],
         NEW k \in Nat, k < n, NEW g \in [SUBSET (1 .. k) -> V], FoldsOver(g, base, G, k)
  PROVE  \E h \in [SUBSET (1 .. k + 1) -> V] : FoldsOver(h, base, G, k + 1)
<1> DEFINE h == [s \in SUBSET (1 .. k + 1) |->
                   IF k + 1 \in s THEN G[<<g[s \ {k + 1}], k + 1>>] ELSE g[s]]
<1>1. ASSUME NEW s \in SUBSET (1 .. k + 1)
      PROVE  h[s] \in V /\ h[s] = IF s = {} THEN base ELSE G[<<h[s \ {Max(s)}], Max(s)>>]
  <2>1. CASE k + 1 \in s
    <3>1. s \ {k + 1} \in SUBSET (1 .. k) /\ s \ {k + 1} \in SUBSET (1 .. k + 1)
          /\ k + 1 \notin s \ {k + 1} /\ k + 1 \in 1 .. n
      OBVIOUS
    <3>2. Max(s) = k + 1
      <4>1. s \in SUBSET (0 .. k + 1) /\ s # {} /\ k + 1 \in Nat
        BY <2>1
      <4>2. Max(s) \in s /\ k + 1 <= Max(s)
        BY <2>1, <4>1, MaxOf
      <4>3. Max(s) \in 1 .. k + 1
        BY <4>2
      <4> QED BY <4>2, <4>3
    <3>3. h[s \ {k + 1}] = g[s \ {k + 1}] /\ h[s] = G[<<g[s \ {k + 1}], k + 1>>]
      BY <2>1, <3>1
    <3>4. g[s \ {k + 1}] \in V
      BY <3>1
    <3>5. G[<<g[s \ {k + 1}], k + 1>>] \in V
      BY <3>1, <3>4
    <3> QED BY <2>1, <3>2, <3>3, <3>5
  <2>2. CASE k + 1 \notin s
    <3>0. \A x \in s : x \in 1 .. k
      BY <2>2
    <3>1. s \in SUBSET (1 .. k) /\ s \ {Max(s)} \in SUBSET (1 .. k + 1) /\ k + 1 \notin s \ {Max(s)}
      BY <2>2, <3>0
    <3>2. h[s] = g[s] /\ h[s \ {Max(s)}] = g[s \ {Max(s)}] /\ g[s] \in V
      BY <2>2, <3>1
    <3> QED BY <3>1, <3>2 DEF FoldsOver
  <2> QED BY <2>1, <2>2
<1>2. h = [s \in SUBSET (1 .. k + 1) |-> h[s]]
  OBVIOUS
<1> HIDE DEF h
<1>3. h \in [SUBSET (1 .. k + 1) -> V]
  BY <1>1, <1>2
<1> QED BY <1>1, <1>3 DEF FoldsOver

HasFold(V, base, G, k) == \E g \in [SUBSET (1 .. k) -> V] : FoldsOver(g, base, G, k)

\* There is a fold over any number of elements.
LEMMA FoldExists ==
  ASSUME NEW V, NEW base \in V, NEW n \in Nat, NEW G \in [V \X (1 .. n) -> V]
  PROVE  HasFold(V, base, G, n)
<1> DEFINE S == { k \in Nat : k <= n => HasFold(V, base, G, k) }
<1>1. HasFold(V, base, G, 0)
  <2> DEFINE g == [s \in SUBSET (1 .. 0) |-> base]
  <2>1. g \in [SUBSET (1 .. 0) -> V] /\ \A s \in SUBSET (1 .. 0) : s = {} /\ g[s] = base
    OBVIOUS
  <2> HIDE DEF g
  <2>2. FoldsOver(g, base, G, 0)
    BY <2>1 DEF FoldsOver
  <2> QED BY <2>1, <2>2 DEF HasFold
<1>2. ASSUME NEW k \in Nat, k < n, HasFold(V, base, G, k) PROVE HasFold(V, base, G, k + 1)
  BY <1>2, FoldGrows DEF HasFold
<1>3. S = Nat
  <2>1. S \in SUBSET Nat /\ 0 \in S /\ \A k \in S : k + 1 \in S
    BY <1>1, <1>2
  <2> HIDE DEF S
  <2> QED BY <2>1, SetInduction
<1> QED BY <1>3

\* The sets of positions such a fold goes through.
LEMMA PrefixSets ==
  ASSUME NEW n \in Nat
  PROVE  /\ 1 .. 0 = {} /\ 1 .. n \in SUBSET (1 .. n)
         /\ \A k \in 0 .. n - 1 :
              /\ 1 .. k + 1 \in SUBSET (1 .. n) /\ 1 .. k + 1 # {}
              /\ Max(1 .. k + 1) = k + 1 /\ (1 .. k + 1) \ {k + 1} = 1 .. k
<1>1. ASSUME NEW k \in 0 .. n - 1
      PROVE  /\ 1 .. k + 1 \in SUBSET (1 .. n) /\ k + 1 \in 1 .. k + 1
             /\ (1 .. k + 1) \ {k + 1} = 1 .. k
  OBVIOUS
<1>2. ASSUME NEW k \in 0 .. n - 1 PROVE Max(1 .. k + 1) = k + 1
  <2>1. k + 1 \in Nat /\ 1 .. k + 1 \in SUBSET (0 .. k + 1) /\ 1 .. k + 1 # {}
    BY <1>1
  <2>2. Max(1 .. k + 1) \in 1 .. k + 1 /\ k + 1 <= Max(1 .. k + 1)
    BY <1>1, <2>1, MaxOf
  <2> QED BY <2>2
<1> QED BY <1>1, <1>2
=============================================================================
