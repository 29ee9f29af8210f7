----------------------------- MODULE Induction ------------------------------
(***************************************************************************)
(* Induction on the natural numbers, stated with sets and functions, and    *)
(* what it says of functions that are defined step by step.  The proof      *)
(* modules cite it for everything the model computes over sequences.        *)
(***************************************************************************)
EXTENDS Integers, Sequences, FiniteSetsExt, SequenceTheorems, WellFoundedInduction, TLAPS

(* A set of naturals with a member has a least one.                         *)
LEMMA LeastNatural ==
  ASSUME NEW S, S \subseteq Nat, S # {}
  PROVE  \E least \in S : \A n \in S : least <= n
<1>1. PICK least \in S : \A n \in S : <<n, least>> \notin OpToRel(<, Nat)
  BY WFMin, NatLessThanWellFounded, Zenon
<1>2. \A n \in S : ~(n < least)
  BY <1>1, Zenon DEF OpToRel
<1> QED BY <1>2

(* It is the Min of the set.                                                *)
LEMMA MinOfNaturals ==
  ASSUME NEW S, S \subseteq Nat, S # {}
  PROVE  Min(S) \in S /\ \A n \in S : Min(S) <= n
<1>1. \E least \in S : \A n \in S : least <= n
  BY LeastNatural
<1> QED BY <1>1 DEF Min

(* A set with 0 and the successor of each of its naturals holds them all.   *)
LEMMA NaturalInduction ==
  ASSUME NEW S, 0 \in S, \A n \in Nat : n \in S => n + 1 \in S
  PROVE  Nat \subseteq S
<1>1. SUFFICES ASSUME Nat \ S # {} PROVE FALSE
  OBVIOUS
<1>2. PICK least \in Nat \ S : \A n \in Nat \ S : least <= n
  BY <1>1, LeastNatural
<1>3. least - 1 \in Nat /\ least - 1 \in S
  BY <1>2
<1> QED BY <1>2, <1>3

(* So does a set that is closed as far as n hold all naturals up to n.      *)
LEMMA IntervalInduction ==
  ASSUME NEW m \in Int, NEW n \in Int, m <= n, NEW S, m \in S,
         \A k \in m..n - 1 : k \in S => k + 1 \in S
  PROVE  m..n \subseteq S
<1> DEFINE T == {d \in Nat : m + d <= n => m + d \in S}
<1>1. 0 \in T /\ \A d \in Nat : d \in T => d + 1 \in T
  <2>1. 0 \in T
    OBVIOUS
  <2>2. ASSUME NEW d \in Nat, d \in T, m + (d + 1) <= n PROVE m + (d + 1) \in S
    <3>1. m + d \in m..n - 1 /\ m + d \in S
      BY <2>2
    <3>2. (m + d) + 1 \in S
      BY <3>1
    <3> QED BY <3>2
  <2> QED BY <2>1, <2>2
<1> HIDE DEF T
<1>2. Nat \subseteq T
  BY <1>1, NaturalInduction
<1>3. ASSUME NEW k \in m..n PROVE k \in S
  <2>1. k - m \in Nat /\ k - m \in T /\ m + (k - m) = k
    BY <1>2
  <2> QED BY <2>1 DEF T
<1> QED BY <1>3

(* What holds at 0 and is passed on from each value to the next holds of all. *)
LEMMA StaysIn ==
  ASSUME NEW n \in Nat, NEW f, NEW S, f[0] \in S,
         \A k \in 1..n : f[k - 1] \in S => f[k] \in S
  PROVE  \A k \in 0..n : f[k] \in S
<1> DEFINE T == {k \in 0..n : f[k] \in S}
<1>1. 0 \in T
  OBVIOUS
<1>2. ASSUME NEW k \in 0..n - 1, k \in T PROVE k + 1 \in T
  <2>1. k + 1 \in 1..n /\ k + 1 \in 0..n /\ (k + 1) - 1 = k
    OBVIOUS
  <2> QED BY <1>2, <2>1
<1> HIDE DEF T
<1>3. 0..n \subseteq T
  BY <1>1, <1>2, IntervalInduction
<1> QED BY <1>3 DEF T

(* A function on 0..n into S by its first value and each next one: step is a *)
(* function of the value before and the place.                              *)
Steps(step, S, n) == \A x \in S, k \in 1..n : step[<<x, k>>] \in S
Iterates(f, base, step, S, n) ==
  f \in [0..n -> S] /\ f[0] = base /\ \A k \in 1..n : f[k] = step[<<f[k - 1], k>>]

LEMMA IterationExists ==
  ASSUME NEW S, NEW base \in S, NEW n \in Nat, NEW step, Steps(step, S, n)
  PROVE  \E f : Iterates(f, base, step, S, n)
<1> USE DEF Steps, Iterates
<1> DEFINE Done == {m \in 0..n : \E f : Iterates(f, base, step, S, m)}
<1>1. 0 \in Done
  <2> DEFINE f == [k \in 0..0 |-> base]
  <2>1. Iterates(f, base, step, S, 0)
    OBVIOUS
  <2> HIDE DEF f
  <2>2. 0 \in 0..n
    OBVIOUS
  <2> QED BY <2>1, <2>2
<1>2. ASSUME NEW m \in 0..n - 1, m \in Done PROVE m + 1 \in Done
  <2>1. PICK f : Iterates(f, base, step, S, m)
    BY <1>2
  <2>2. m + 1 \in 1..n /\ f[m] \in S /\ m \in Nat /\ m + 1 \in 0..n
    BY <2>1
  <2> DEFINE new == step[<<f[m], m + 1>>]
             g == [k \in 0..m + 1 |-> IF k = m + 1 THEN new ELSE f[k]]
  <2>3. new \in S
    BY <2>2
  <2> HIDE DEF new
  <2>4. g \in [0..m + 1 -> S] /\ g[m + 1] = new /\ \A k \in 0..m : g[k] = f[k]
    BY <2>1, <2>2, <2>3
  <2> HIDE DEF g
  <2>5. Iterates(g, base, step, S, m + 1)
    <3>1. g[0] = base
      BY <2>1, <2>2, <2>4
    <3>2. ASSUME NEW k \in 1..m + 1 PROVE g[k] = step[<<g[k - 1], k>>]
      <4>1. CASE k = m + 1
        BY <2>2, <2>4, <4>1 DEF new
      <4>2. CASE k # m + 1
        <5>1. k \in 1..m /\ k \in 0..m /\ k - 1 \in 0..m
          BY <2>2, <4>2
        <5> QED BY <2>1, <2>4, <5>1
      <4> QED BY <4>1, <4>2
    <3> QED BY <2>4, <3>1, <3>2
  <2> QED BY <2>2, <2>5
<1> HIDE DEF Done
<1>3. 0..n \subseteq Done
  <2>1. 0 \in Int /\ n \in Int /\ 0 <= n
    OBVIOUS
  <2>2. \A k \in 0..n - 1 : k \in Done => k + 1 \in Done
    BY <1>2
  <2> QED BY <1>1, <2>1, <2>2, IntervalInduction
<1> QED BY <1>3 DEF Done

(* A function on 1..n whose value at each place depends on nothing but the   *)
(* values at the places before: step takes a place and a function.          *)
LooksBack(step, S, n) ==
  /\ step \in [(1..n) \X [1..n -> S] -> S]
  /\ \A f, g \in [1..n -> S], k \in 1..n :
       (\A j \in 1..k - 1 : f[j] = g[j]) => step[<<k, f>>] = step[<<k, g>>]

LEMMA RecursionExists ==
  ASSUME NEW S, NEW base \in S, NEW n \in Nat, NEW step, LooksBack(step, S, n)
  PROVE  \E f \in [1..n -> S] : \A k \in 1..n : f[k] = step[<<k, f>>]
<1> DEFINE F == [1..n -> S]
           Upto(f, m) == \A k \in 1..m : f[k] = step[<<k, f>>]
           Done == {m \in 0..n : \E f \in F : Upto(f, m)}
<1>1. 0 \in Done
  <2>1. [k \in 1..n |-> base] \in F
    OBVIOUS
  <2>2. \A f \in F : Upto(f, 0)
    OBVIOUS
  <2>3. 0 \in 0..n
    OBVIOUS
  <2> HIDE DEF F, Upto
  <2> QED BY <2>1, <2>2, <2>3
<1>2. ASSUME NEW m \in 0..n - 1, m \in Done PROVE m + 1 \in Done
  <2>1. PICK f \in F : Upto(f, m)
    BY <1>2
  <2>2. m + 1 \in 1..n /\ m + 1 \in 0..n
    OBVIOUS
  <2> DEFINE new == step[<<m + 1, f>>]
             g == [f EXCEPT ![m + 1] = new]
  <2>3. new \in S
    BY <2>1, <2>2 DEF LooksBack
  <2> HIDE DEF new
  <2>4. g \in F /\ g[m + 1] = new /\ \A k \in 1..n : k # m + 1 => g[k] = f[k]
    BY <2>1, <2>2, <2>3
  <2> HIDE DEF g
  <2>5. \A k \in 1..m + 1 : step[<<k, g>>] = step[<<k, f>>]
    <3> SUFFICES ASSUME NEW k \in 1..m + 1 PROVE step[<<k, g>>] = step[<<k, f>>]
      OBVIOUS
    <3>1. k \in 1..n /\ \A j \in 1..k - 1 : g[j] = f[j]
      BY <2>2, <2>4
    <3> QED BY <2>1, <2>4, <3>1 DEF LooksBack
  <2>6. Upto(g, m + 1)
    <3> SUFFICES ASSUME NEW k \in 1..m + 1 PROVE g[k] = step[<<k, f>>]
      BY <2>5
    <3>1. CASE k = m + 1
      BY <2>4, <3>1 DEF new
    <3>2. CASE k # m + 1
      <4>1. k \in 1..m /\ k \in 1..n
        BY <2>2, <3>2
      <4> QED BY <2>1, <2>4, <3>2, <4>1
    <3> QED BY <3>1, <3>2
  <2> HIDE DEF F, Upto
  <2> QED BY <2>2, <2>4, <2>6
<1> HIDE DEF Done
<1>3. 0..n \subseteq Done
  <2>1. 0 \in Int /\ n \in Int /\ 0 <= n
    OBVIOUS
  <2>2. \A k \in 0..n - 1 : k \in Done => k + 1 \in Done
    BY <1>2
  <2> QED BY <1>1, <2>1, <2>2, IntervalInduction
<1>4. n \in Done
  BY <1>3
<1> QED BY <1>4 DEF Done

(* What holds at each place if it holds at the places before holds at all.  *)
LEMMA StrongInduction ==
  ASSUME NEW n \in Nat, NEW S,
         \A k \in 1..n : (\A j \in 1..k - 1 : j \in S) => k \in S
  PROVE  \A k \in 1..n : k \in S
<1> DEFINE T == {m \in 0..n : \A k \in 1..m : k \in S}
<1>1. 0 \in T
  OBVIOUS
<1>2. ASSUME NEW m \in 0..n - 1, m \in T PROVE m + 1 \in T
  <2>1. m + 1 \in 1..n /\ m + 1 \in 0..n /\ (m + 1) - 1 = m
    OBVIOUS
  <2>2. m + 1 \in S
    BY <1>2, <2>1
  <2>3. \A k \in 1..m + 1 : k \in 1..m \/ k = m + 1
    OBVIOUS
  <2> QED BY <1>2, <2>1, <2>2, <2>3
<1> HIDE DEF T
<1>3. 0..n \subseteq T
  <2>1. 0 \in Int /\ n \in Int /\ 0 <= n
    OBVIOUS
  <2>2. \A k \in 0..n - 1 : k \in T => k + 1 \in T
    BY <1>2
  <2> QED BY <1>1, <2>1, <2>2, IntervalInduction
<1> QED BY <1>3 DEF T

(* A function on 1..k into S is a sequence over S of length k.              *)
LEMMA SequenceOf ==
  ASSUME NEW S, NEW k \in Nat, NEW f, DOMAIN f = 1..k, f = [i \in 1..k |-> f[i]],
         \A i \in 1..k : f[i] \in S
  PROVE  f \in Seq(S) /\ Len(f) = k
  OBVIOUS
=============================================================================
