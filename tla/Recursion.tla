------------------------------ MODULE Recursion ------------------------------
(***************************************************************************)
(* Induction and recursive functions on the naturals, as the proofs about  *)
(* the model's recursive functions use them.  Induction has the form "a    *)
(* set with 0, and with n + 1 for each n, has every number": a set is a    *)
(* bound variable, where a predicate would have to be an operator.         *)
(***************************************************************************)
EXTENDS Integers, TLAPS, WellFoundedInduction

LEMMA LeastNat ==
  ASSUME NEW T, T \subseteq Nat, T # {}
  PROVE  \E m \in T : \A n \in T : m <= n
<1> DEFINE R == OpToRel(<, Nat)
<1>1. PICK m \in T : \A n \in T : <<n, m>> \notin R
  BY NatLessThanWellFounded, WFMin
<1>2. \A n \in T : ~(n < m)
  BY <1>1 DEF OpToRel
<1> QED  BY <1>2

LEMMA Induct ==
  ASSUME NEW T, 0 \in T, \A n \in T \cap Nat : n + 1 \in T
  PROVE  \A n \in Nat : n \in T
<1> SUFFICES ASSUME Nat \ T # {} PROVE FALSE
  OBVIOUS
<1>1. PICK m \in Nat \ T : \A n \in Nat \ T : m <= n
  BY LeastNat
<1>2. m # 0 /\ m - 1 \in Nat
  BY <1>1
<1>3. (m - 1) + 1 \in T
  BY <1>1, <1>2
<1> QED  BY <1>1, <1>3

IsStep(step, V) == step \in [V \X Nat -> V]

IteratesUpTo(g, n, V, v, step) ==
  /\ g \in [0..n -> V] /\ g[0] = v
  /\ \A i \in 1..n : g[i] = step[<<g[i - 1], i>>]

Iterates(g, V, v, step) ==
  /\ g \in [Nat -> V] /\ g[0] = v
  /\ \A i \in Nat \ {0} : g[i] = step[<<g[i - 1], i>>]

LEMMA IterateUpTo ==
  ASSUME NEW V, NEW v \in V, NEW step, IsStep(step, V), NEW m \in Nat
  PROVE  \E g : IteratesUpTo(g, m, V, v, step)
<1> USE DEF IsStep
<1> DEFINE Good(n, g) == IteratesUpTo(g, n, V, v, step)
           T == {n \in Nat : \E g : Good(n, g)}
<1>1. 0 \in T
  <2>1. Good(0, [i \in 0..0 |-> v])
    BY DEF IteratesUpTo
  <2> QED  BY <2>1
<1>2. ASSUME NEW n \in T \cap Nat
      PROVE  n + 1 \in T
  <2>1. PICK g : Good(n, g)
    OBVIOUS
  <2> USE <2>1 DEF IteratesUpTo
  <2> DEFINE h == [i \in 0..(n + 1) |-> IF i <= n THEN g[i] ELSE step[<<g[n], n + 1>>]]
  <2>2. h \in [0..(n + 1) -> V] /\ h[0] = v
    OBVIOUS
  <2>3. ASSUME NEW i \in 1..(n + 1)
        PROVE  h[i] = step[<<h[i - 1], i>>]
    <3>1. CASE i <= n
      <4>1. i \in 1..n /\ i - 1 \in 0..n /\ i \in 0..(n + 1) /\ i - 1 \in 0..(n + 1)
        BY <3>1
      <4>2. h[i] = g[i] /\ h[i - 1] = g[i - 1]
        BY <3>1, <4>1
      <4> QED  BY <4>1, <4>2
    <3>2. CASE i = n + 1
      <4>1. i \in 0..(n + 1) /\ i - 1 \in 0..(n + 1) /\ i - 1 = n
        BY <3>2
      <4>2. h[i] = step[<<g[n], n + 1>>] /\ h[i - 1] = g[n]
        BY <3>2, <4>1
      <4> QED  BY <3>2, <4>2
    <3> QED  BY <3>1, <3>2
  <2> HIDE DEF h
  <2>4. Good(n + 1, h)
    BY <2>2, <2>3
  <2> QED  BY <2>4
<1> HIDE DEF T
<1>3. \A n \in Nat : n \in T
  BY <1>1, <1>2, Induct
<1> QED  BY <1>3 DEF T

LEMMA IterateUnique ==
  ASSUME NEW V, NEW v \in V, NEW step, IsStep(step, V), NEW m \in Nat, NEW n \in Nat,
         NEW g, NEW h, IteratesUpTo(g, m, V, v, step), IteratesUpTo(h, n, V, v, step)
  PROVE  \A i \in Nat : i <= m /\ i <= n => g[i] = h[i]
<1> USE DEF IteratesUpTo
<1> DEFINE T == {i \in Nat : i <= m /\ i <= n => g[i] = h[i]}
<1>1. 0 \in T
  OBVIOUS
<1>2. ASSUME NEW i \in T \cap Nat
      PROVE  i + 1 \in T
  <2> SUFFICES ASSUME i + 1 <= m, i + 1 <= n PROVE g[i + 1] = h[i + 1]
    OBVIOUS
  <2>1. i + 1 \in 1..m /\ i + 1 \in 1..n /\ (i + 1) - 1 = i /\ g[i] = h[i]
    OBVIOUS
  <2> QED  BY <2>1
<1> HIDE DEF T
<1>3. \A i \in Nat : i \in T
  BY <1>1, <1>2, Induct
<1> QED  BY <1>3 DEF T

LEMMA Iterate ==
  ASSUME NEW V, NEW v \in V, NEW step, IsStep(step, V)
  PROVE  \E g : Iterates(g, V, v, step)
<1> DEFINE h(n) == CHOOSE f : IteratesUpTo(f, n, V, v, step)
           g == [n \in Nat |-> h(n)[n]]
<1>1. \A n \in Nat : IteratesUpTo(h(n), n, V, v, step)
  BY IterateUpTo
<1> HIDE DEF h
<1>2. g \in [Nat -> V] /\ g[0] = v
  BY <1>1 DEF IteratesUpTo
<1>3. ASSUME NEW i \in Nat \ {0}
      PROVE  g[i] = step[<<g[i - 1], i>>]
  <2>1. i \in Nat /\ i - 1 \in Nat /\ i - 1 <= i /\ i \in 1..i
    OBVIOUS
  <2>2. h(i)[i - 1] = h(i - 1)[i - 1]
    <3>1. IteratesUpTo(h(i), i, V, v, step) /\ IteratesUpTo(h(i - 1), i - 1, V, v, step)
      BY <1>1, <2>1
    <3> QED  BY <2>1, <3>1, IterateUnique
  <2>3. h(i)[i] = step[<<h(i)[i - 1], i>>]
    BY <1>1, <2>1 DEF IteratesUpTo
  <2> QED  BY <2>1, <2>2, <2>3
<1> HIDE DEF g
<1>4. Iterates(g, V, v, step)
  BY <1>2, <1>3 DEF Iterates
<1> QED  BY <1>4
=============================================================================
