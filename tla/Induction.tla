----------------------------- MODULE Induction ------------------------------
(***************************************************************************)
(* Facts about natural numbers on which the proofs about sequences rest.   *)
(* They are stated for sets and functions, not for predicates, so that a   *)
(* proof cites them with a set of its own: a set of numbers has a least    *)
(* element, a set that is closed under successor is all of them, and a     *)
(* function that is defined step by step exists.                           *)
(***************************************************************************)
EXTENDS Integers, WellFoundedInduction, TLAPS

(* A set of natural numbers that is not empty has a least element.          *)
LEMMA LeastNumber ==
  ASSUME NEW S \in SUBSET Nat, S # {}
  PROVE  \E m \in S : \A k \in S : m <= k
<1> DEFINE Less == {p \in Nat \X Nat : p[1] < p[2]}
<1>1. Less = OpToRel(<, Nat)
  BY Zenon DEF OpToRel
<1>2. IsWellFoundedOn(Less, Nat)
  BY <1>1, NatLessThanWellFounded, Zenon
<1> HIDE DEF Less
<1>3. PICK m \in S : \A k \in S : <<k, m>> \notin Less
  BY Zenon, <1>2, WFMin
<1>4. \A k \in S : ~(k < m)
  BY <1>3 DEF Less
<1> QED
  BY <1>4

(* Induction up to a bound: what holds at 0 and is handed on from a number  *)
(* below n to the next one holds up to n.                                   *)
LEMMA InductionTo ==
  ASSUME NEW n \in Nat, NEW S, 0 \in S,
         \A i \in 1..n : i - 1 \in S => i \in S
  PROVE  \A i \in 0..n : i \in S
<1> DEFINE Out == {i \in 0..n : i \notin S}
<1> SUFFICES ASSUME Out # {} PROVE FALSE
  BY Zenon
<1>1. Out \in SUBSET Nat
  OBVIOUS
<1>2. PICK m \in Out : \A k \in Out : m <= k
  <2> HIDE DEF Out
  <2> QED BY <1>1, LeastNumber
<1>3. m \in 1..n /\ m - 1 \notin Out
  BY <1>2
<1> QED
  BY <1>3

\* A loop: F[<<i, y>>] is its state after turn i when y was its state before.
Steps(n, X) == [(1..n) \X X -> X]
Iterates(f, n, X, x, F) == /\ f \in [0..n -> X] /\ f[0] = x
                           /\ \A i \in 1..n : f[i] = F[<<i, f[i - 1]>>]

(* A function defined from its first value on, step by step, exists.        *)
LEMMA Iteration ==
  ASSUME NEW n \in Nat, NEW X, NEW x \in X, NEW F \in Steps(n, X)
  PROVE  \E f : Iterates(f, n, X, x, F)
<1> USE DEF Steps
<1> DEFINE Good(m, f) == /\ f \in [0..m -> X] /\ f[0] = x
                         /\ \A i \in 1..m : f[i] = F[<<i, f[i - 1]>>]
           S == {m \in 0..n : \E f : Good(m, f)}
<1>1. 0 \in S
  <2>1. Good(0, [i \in 0..0 |-> x])
    OBVIOUS
  <2> HIDE DEF Good
  <2> QED BY <2>1
<1>2. ASSUME NEW m \in 1..n, m - 1 \in S PROVE m \in S
  <2>1. PICK f : Good(m - 1, f)
    BY <1>2
  <2> DEFINE g == [i \in 0..m |-> IF i < m THEN f[i] ELSE F[<<m, f[m - 1]>>]]
  <2>2. f[m - 1] \in X
    BY <2>1
  <2>3. F[<<m, f[m - 1]>>] \in X
    BY <2>2
  <2>4. g \in [0..m -> X]
    BY <2>1, <2>3
  <2>5. g[0] = x
    BY <2>1
  <2>6. ASSUME NEW i \in 1..m PROVE g[i] = F[<<i, g[i - 1]>>]
    <3>1. CASE i < m
      BY <2>1, <3>1
    <3>2. CASE i = m
      <4>1. g[m] = F[<<m, f[m - 1]>>] /\ g[m - 1] = f[m - 1]
        OBVIOUS
      <4> QED BY Zenon, <3>2, <4>1
    <3> QED BY <3>1, <3>2
  <2>7. Good(m, g)
    BY <2>4, <2>5, <2>6
  <2> HIDE DEF Good, g
  <2> QED BY <2>7
<1>3. n \in S
  <2> HIDE DEF S
  <2> QED BY <1>1, <1>2, InductionTo
<1> QED
  BY <1>3 DEF Iterates

\* The functions that put 0, ..., m into m places, each into its own.
Fitting(m) == {f \in [0..m -> 1..m] : \A j, k \in 0..m : f[j] = f[k] => j = k}

(* There are none: more numbers than places share a place.                  *)
LEMMA PigeonHole ==
  ASSUME NEW m \in Nat, NEW n \in Nat, m <= n, NEW f \in [0..n -> 1..m]
  PROVE  \E j, k \in 0..n : j # k /\ f[j] = f[k]
<1> DEFINE S == {l \in 0..m : Fitting(l) = {}}
<1>1. 0 \in S
  BY DEF Fitting
<1>2. ASSUME NEW l \in 1..m, l - 1 \in S PROVE l \in S
  <2> SUFFICES ASSUME NEW g \in Fitting(l) PROVE FALSE
    OBVIOUS
  <2>1. g \in [0..l -> 1..l] /\ \A j, k \in 0..l : g[j] = g[k] => j = k
    BY Zenon DEF Fitting
  <2> DEFINE h == [i \in 0..(l - 1) |-> IF g[i] = l THEN g[l] ELSE g[i]]
  <2>2. ASSUME NEW i \in 0..(l - 1) PROVE h[i] \in 1..(l - 1)
    <3>0. i \in 0..l /\ l \in 0..l /\ i # l
      OBVIOUS
    <3>1. g[i] \in 1..l /\ g[l] \in 1..l /\ g[i] # g[l]
      BY Zenon, <2>1, <3>0
    <3>2. h[i] = IF g[i] = l THEN g[l] ELSE g[i]
      OBVIOUS
    <3> HIDE DEF h
    <3>3. PICK a \in 1..l, b \in 1..l : a = g[i] /\ b = g[l] /\ a # b
      BY Zenon, <3>1
    <3>4. CASE a = l
      <4>1. h[i] = b
        BY Zenon, <3>2, <3>3, <3>4
      <4>2. b \in 1..(l - 1)
        BY <3>3, <3>4
      <4> QED BY Zenon, <4>1, <4>2
    <3>5. CASE a # l
      <4>1. h[i] = a
        BY Zenon, <3>2, <3>3, <3>5
      <4>2. a \in 1..(l - 1)
        BY <3>3, <3>5
      <4> QED BY Zenon, <4>1, <4>2
    <3> QED BY Zenon, <3>4, <3>5
  <2>3. ASSUME NEW j \in 0..(l - 1), NEW k \in 0..(l - 1), h[j] = h[k] PROVE j = k
    <3>1. j \in 0..l /\ k \in 0..l /\ l \in 0..l /\ j # l /\ k # l
      OBVIOUS
    <3> QED BY Zenon, <2>1, <2>3, <3>1
  <2>4. h \in [0..(l - 1) -> 1..(l - 1)]
    BY <2>2
  <2> HIDE DEF h
  <2>5. h \in Fitting(l - 1)
    BY Zenon, <2>3, <2>4 DEF Fitting
  <2> QED BY <1>2, <2>5
<1>3. m \in S
  <2> HIDE DEF S
  <2>1. \A i \in 1..m : i - 1 \in S => i \in S
    BY <1>2
  <2>2. \A i \in 0..m : i \in S
    BY <1>1, <2>1, InductionTo, Zenon
  <2> QED BY <2>2
<1> SUFFICES ASSUME \A j, k \in 0..n : f[j] = f[k] => j = k PROVE FALSE
  OBVIOUS
<1> DEFINE g == [i \in 0..m |-> f[i]]
<1>4. g \in [0..m -> 1..m] /\ \A j, k \in 0..m : g[j] = g[k] => j = k
  OBVIOUS
<1> HIDE DEF g
<1>5. g \in Fitting(m)
  BY Zenon, <1>4 DEF Fitting
<1> QED
  BY <1>3, <1>5

=============================================================================
