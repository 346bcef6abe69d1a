------------------------------- MODULE Recursion -------------------------------
(***************************************************************************)
(* Induction and recursion over 0 .. N in the form the proofs use: about    *)
(* sets of numbers and functions, where the library speaks of operators.    *)
(***************************************************************************)
EXTENDS WellFoundedInduction, TLAPS

(* Induction: a set with 0 and the successor of each of its elements holds  *)
(* every number.                                                           *)
LEMMA SetInduction ==
  ASSUME NEW S, 0 \in S, \A n \in Nat : n \in S => n + 1 \in S
  PROVE  Nat \subseteq S
<1> DEFINE rest == Nat \ S
<1>1. SUFFICES ASSUME rest # {} PROVE FALSE
  OBVIOUS
<1>2. PICK x \in rest : \A y \in rest : ~ (<<y, x>> \in OpToRel(<, Nat))
  BY <1>1, NatLessThanWellFounded, WFMin
<1>3. x \in Nat /\ x # 0
  BY <1>2
<1>4. x - 1 \in Nat /\ x - 1 < x /\ (x - 1) + 1 = x
  BY <1>3
<1>5. x - 1 \notin rest
  BY <1>2, <1>3, <1>4 DEF OpToRel
<1> QED
  BY <1>2, <1>4, <1>5

(* The same up to N.                                                       *)
LEMMA BoundedInduction ==
  ASSUME NEW N \in Nat, NEW S, 0 \in S,
         \A n \in 1 .. N : n - 1 \in S => n \in S
  PROVE  0 .. N \subseteq S
<1> DEFINE T == {n \in Nat : n \in 0 .. N => n \in S}
<1>1. 0 \in T
  OBVIOUS
<1>2. ASSUME NEW n \in Nat, n \in T PROVE n + 1 \in T
  <2>1. CASE n + 1 \in 0 .. N
    <3>1. n \in S /\ n + 1 \in 1 .. N /\ (n + 1) - 1 = n
      BY <1>2, <2>1
    <3> QED
      BY <3>1
  <2> QED
    BY <2>1
<1> HIDE DEF T
<1>3. Nat \subseteq T
  BY <1>1, <1>2, SetInduction
<1> QED
  BY <1>3 DEF T

(* Recursion: a value is carried from 0 to N by a step that keeps its type. *)
IsIteration(f, N, V, base, step) ==
  /\ f \in [0 .. N -> V]
  /\ f[0] = base
  /\ \A n \in 1 .. N : f[n] = step[<<f[n - 1], n>>]

(* Every such base and step have such a function.                          *)
LEMMA Iteration ==
  ASSUME NEW N \in Nat, NEW V, NEW base \in V, NEW step \in [V \X (1 .. N) -> V]
  PROVE  \E f : IsIteration(f, N, V, base, step)
<1> DEFINE IsRun(f, k) == \A n \in 0 .. k :
             f[n] = IF n = 0 THEN base ELSE step[<<f[n - 1], n>>]
           S == {k \in 0 .. N : \E f \in [0 .. k -> V] : IsRun(f, k)}
<1>1. 0 \in S
  <2> DEFINE g == [n \in 0 .. 0 |-> base]
  <2>1. g \in [0 .. 0 -> V] /\ IsRun(g, 0)
    OBVIOUS
  <2> HIDE DEF g, IsRun
  <2> QED
    BY <2>1
<1>2. ASSUME NEW k \in 1 .. N, k - 1 \in S PROVE k \in S
  <2>1. PICK f \in [0 .. k - 1 -> V] : IsRun(f, k - 1)
    BY <1>2
  <2> DEFINE g == [n \in 0 .. k |-> IF n = k THEN step[<<f[k - 1], k>>] ELSE f[n]]
  <2>2. f[k - 1] \in V /\ step[<<f[k - 1], k>>] \in V
    BY <2>1
  <2>3. g \in [0 .. k -> V]
    <3>1. ASSUME NEW n \in 0 .. k, n # k PROVE f[n] \in V
      <4>1. n \in 0 .. k - 1
        BY <3>1
      <4> QED
        BY <4>1
    <3> QED
      BY <2>2, <3>1
  <2>4. ASSUME NEW n \in 0 .. k
        PROVE  g[n] = IF n = 0 THEN base ELSE step[<<g[n - 1], n>>]
    <3>1. CASE n = k
      <4>1. k - 1 \in 0 .. k /\ k - 1 # k /\ k # 0
        OBVIOUS
      <4>2. g[k - 1] = f[k - 1] /\ g[k] = step[<<f[k - 1], k>>]
        BY <4>1
      <4> QED
        BY <3>1, <4>1, <4>2
    <3>2. CASE n # k
      <4>1. n \in 0 .. k - 1 /\ g[n] = f[n]
        BY <3>2
      <4>2. n # 0 => n - 1 \in 0 .. k /\ n - 1 # k /\ g[n - 1] = f[n - 1]
        BY <3>2
      <4> QED
        BY <2>1, <4>1, <4>2
    <3> QED
      BY <3>1, <3>2
  <2>5. IsRun(g, k)
    BY <2>4
  <2> HIDE DEF g, IsRun
  <2> QED
    BY <2>3, <2>5
<1> HIDE DEF S
<1>3. 0 .. N \subseteq S
  BY <1>1, <1>2, BoundedInduction
<1>4. N \in S
  BY <1>3
<1> USE DEF S
<1>5. PICK f \in [0 .. N -> V] : IsRun(f, N)
  BY <1>4
<1>6. f[0] = base
  <2>1. 0 \in 0 .. N
    OBVIOUS
  <2> QED
    BY <1>5, <2>1
<1>7. ASSUME NEW n \in 1 .. N PROVE f[n] = step[<<f[n - 1], n>>]
  <2>1. n \in 0 .. N /\ n # 0
    OBVIOUS
  <2> QED
    BY <1>5, <2>1
<1> QED
  BY <1>6, <1>7 DEF IsIteration
===============================================================================
