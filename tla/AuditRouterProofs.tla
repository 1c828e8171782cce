------------------------- MODULE AuditRouterProofs --------------------------
(***************************************************************************)
(* The audit router for every capacity, every set of record lengths and    *)
(* every number of records and refusals: its books balance, the sink is a  *)
(* faithful log, settle tells the truth, nothing is written to the sink    *)
(* while filesystems are frozen and the writer never sleeps on work.       *)
(***************************************************************************)
EXTENDS AuditRouter, Induction

-----------------------------------------------------------------------------
(* Sums of sequences.                                                      *)

\* f holds the sums of the first elements of s.
Running(f, s) == /\ f \in [0..Len(s) -> Nat] /\ f[0] = 0
                 /\ \A i \in 1..Len(s) : f[i] = f[i - 1] + s[i]

(* The sum of a sequence is the last of its running sums.                   *)
LEMMA SumIs ==
  ASSUME NEW s \in Seq(Nat)
  PROVE  \E f : Running(f, s) /\ SumOf(s) = f[Len(s)]
<1> DEFINE n == Len(s)
           G(x, i) == x + s[i]
           F == [p \in (1..n) \X Nat |-> G(p[2], p[1])]
<1>1. n \in Nat /\ 0 \in Nat
  OBVIOUS
<1>2. ASSUME NEW i \in 1..n, NEW x \in Nat
      PROVE  G(x, i) \in Nat
  OBVIOUS
<1>3. F \in Steps(n, Nat)
  <2> HIDE DEF n, G
  <2> QED BY Zenon, <1>2 DEF Steps
<1>4. PICK f : Iterates(f, n, Nat, 0, F)
  <2> HIDE DEF n, F
  <2> QED BY Zenon, <1>1, <1>3, Iteration
<1>5. ASSUME NEW i \in 1..n PROVE f[i] = G(f[i - 1], i)
  <2> HIDE DEF n, G
  <2>1. f[i - 1] \in Nat
    BY <1>4, <1>1 DEF Iterates
  <2> QED BY Zenon, <1>4, <2>1 DEF Iterates
<1>6. f = [i \in 0..n |-> IF i = 0 THEN 0 ELSE G(f[i - 1], i)]
  <2> HIDE DEF n, G
  <2> QED BY <1>4, <1>5 DEF Iterates
<1> DEFINE sum == CHOOSE h : h = [i \in 0..n |-> IF i = 0 THEN 0 ELSE G(h[i - 1], i)]
<1>7. sum = [i \in 0..n |-> IF i = 0 THEN 0 ELSE G(sum[i - 1], i)]
  BY Zenon, <1>6
<1>8. SumOf(s) = sum[n]
  BY DEF SumOf
<1>9. sum[0] = 0 /\ \A i \in 1..n : sum[i] = G(sum[i - 1], i)
  <2> HIDE DEF sum, G, n
  <2> QED BY <1>1, <1>7
<1> HIDE DEF sum
<1> DEFINE S == {i \in 0..n : sum[i] \in Nat}
<1>10. 0 \in S
  BY <1>9, <1>1
<1>11. ASSUME NEW i \in 1..n, i - 1 \in S PROVE i \in S
  <2>1. sum[i - 1] \in Nat /\ i \in 0..n
    BY <1>11
  <2>2. sum[i] = G(sum[i - 1], i)
    BY Zenon, <1>9
  <2> QED BY Zenon, <1>2, <2>1, <2>2
<1>12. \A i \in 0..n : i \in S
  <2> HIDE DEF S, n
  <2> QED BY Zenon, <1>1, <1>10, <1>11, InductionTo
<1>13. sum \in [0..n -> Nat]
  <2> HIDE DEF G
  <2> QED BY <1>7, <1>12
<1> QED
  BY Zenon, <1>8, <1>9, <1>13 DEF Running

(* Running sums are determined by the sequence.                             *)
LEMMA SumUnique ==
  ASSUME NEW s \in Seq(Nat), NEW f, Running(f, s)
  PROVE  SumOf(s) = f[Len(s)]
<1>1. PICK g : Running(g, s) /\ SumOf(s) = g[Len(s)]
  BY SumIs
<1> DEFINE n == Len(s)
           S == {i \in 0..n : f[i] = g[i]}
<1>2. n \in Nat
  OBVIOUS
<1>3. 0 \in S
  BY <1>1 DEF Running
<1>4. ASSUME NEW i \in 1..n, i - 1 \in S PROVE i \in S
  BY <1>1, <1>4 DEF Running
<1>5. \A i \in 0..n : i \in S
  <2> HIDE DEF S, n
  <2> QED BY Zenon, <1>2, <1>3, <1>4, InductionTo
<1> QED
  BY <1>1, <1>2, <1>5

(* A sum is a number, nothing sums to 0 and one number to itself.           *)
LEMMA SumSmall ==
  /\ SumOf(<<>>) = 0
  /\ \A x \in Nat : SumOf(<<x>>) = x
  /\ \A s \in Seq(Nat) : SumOf(s) \in Nat
<1>1. SumOf(<<>>) = 0
  <2>1. <<>> \in Seq(Nat) /\ Len(<<>>) = 0
    OBVIOUS
  <2>2. PICK f : Running(f, <<>>) /\ SumOf(<<>>) = f[Len(<<>>)]
    BY Zenon, <2>1, SumIs
  <2> QED BY <2>1, <2>2 DEF Running
<1>2. ASSUME NEW x \in Nat PROVE SumOf(<<x>>) = x
  <2>1. <<x>> \in Seq(Nat) /\ Len(<<x>>) = 1
    OBVIOUS
  <2>2. PICK f : Running(f, <<x>>) /\ SumOf(<<x>>) = f[Len(<<x>>)]
    BY Zenon, <2>1, SumIs
  <2> QED BY <2>1, <2>2 DEF Running
<1>3. ASSUME NEW s \in Seq(Nat) PROVE SumOf(s) \in Nat
  <2>1. PICK f : Running(f, s) /\ SumOf(s) = f[Len(s)]
    BY SumIs
  <2> QED BY <2>1 DEF Running
<1> QED
  BY <1>1, <1>2, <1>3

(* The sum of two sequences, one after the other.                           *)
LEMMA SumConcat ==
  ASSUME NEW s \in Seq(Nat), NEW t \in Seq(Nat)
  PROVE  SumOf(s \o t) = SumOf(s) + SumOf(t)
<1>1. PICK f : Running(f, s) /\ SumOf(s) = f[Len(s)]
  BY SumIs
<1>2. PICK g : Running(g, t) /\ SumOf(t) = g[Len(t)]
  BY SumIs
<1> DEFINE m == Len(s)
           n == Len(t)
           h == [i \in 0..(m + n) |-> IF i <= m THEN f[i] ELSE f[m] + g[i - m]]
<1>3. m \in Nat /\ n \in Nat /\ s \o t \in Seq(Nat) /\ Len(s \o t) = m + n
  OBVIOUS
<1>4. /\ f \in [0..m -> Nat] /\ f[0] = 0 /\ \A i \in 1..m : f[i] = f[i - 1] + s[i]
      /\ g \in [0..n -> Nat] /\ g[0] = 0 /\ \A i \in 1..n : g[i] = g[i - 1] + t[i]
  BY <1>1, <1>2 DEF Running
<1>5. ASSUME NEW i \in 1..(m + n) PROVE h[i] = h[i - 1] + (s \o t)[i]
  <2>1. CASE i <= m
    BY <2>1, <1>3, <1>4
  <2>2. CASE i = m + 1
    BY <2>2, <1>3, <1>4
  <2>3. CASE i > m + 1
    <3>1. i - m \in 1..n /\ (i - 1) - m = (i - m) - 1 /\ (i - m) - 1 \in 0..n
      BY <2>3, <1>3
    <3>2. g[i - m] = g[(i - m) - 1] + t[i - m]
      BY Zenon, <3>1, <1>4
    <3>3. (s \o t)[i] = t[i - m]
      BY <2>3, <1>3
    <3>4. h[i] = f[m] + g[i - m] /\ h[i - 1] = f[m] + g[(i - m) - 1]
      BY <2>3, <3>1, <1>3
    <3>5. t[i - m] \in Nat
      BY <3>1
    <3>6. g[(i - m) - 1] \in Nat /\ f[m] \in Nat
      <4> HIDE DEF m, n
      <4> QED BY <3>1, <1>3, <1>4
    <3>7. f[m] + (g[(i - m) - 1] + t[i - m]) = (f[m] + g[(i - m) - 1]) + t[i - m]
      <4> HIDE DEF m, n
      <4> QED BY <3>5, <3>6
    <3> QED BY Zenon, <3>2, <3>3, <3>4, <3>7
  <2> QED BY <2>1, <2>2, <2>3, <1>3
<1>6. h \in [0..(m + n) -> Nat] /\ h[0] = 0 /\ h[m + n] = f[m] + g[n]
  <2> HIDE DEF m, n
  <2>1. ASSUME NEW i \in 0..(m + n) PROVE h[i] \in Nat
    <3>1. CASE i <= m
      BY <3>1, <1>3, <1>4
    <3>2. CASE i > m
      <4>1. i - m \in 0..n /\ m \in 0..m
        BY <3>2, <1>3
      <4>2. f[m] \in Nat /\ g[i - m] \in Nat
        BY <4>1, <1>4
      <4> QED BY <3>2, <4>2, <1>3
    <3> QED BY <3>1, <3>2, <1>3
  <2>2. h[0] = 0
    BY <1>3, <1>4
  <2>3. h[m + n] = f[m] + g[n]
    <3>1. CASE n = 0
      <4>1. f[m] \in Nat
        BY <1>3, <1>4
      <4> QED BY <3>1, <4>1, <1>3, <1>4
    <3>2. CASE n > 0
      BY <3>2, <1>3
    <3> QED BY <3>1, <3>2, <1>3
  <2> QED BY Zenon, <2>1, <2>2, <2>3
<1>7. Running(h, s \o t)
  <2> HIDE DEF h
  <2> QED BY <1>3, <1>5, <1>6 DEF Running
<1>8. SumOf(s \o t) = h[m + n]
  BY Zenon, <1>3, <1>7, SumUnique
<1> QED
  <2> HIDE DEF h
  <2> QED BY <1>1, <1>2, <1>6, <1>8

(* No element is larger than the sum, and a sum of zeros is zero.           *)
LEMMA SumMember ==
  ASSUME NEW s \in Seq(Nat)
  PROVE  /\ \A i \in 1..Len(s) : s[i] <= SumOf(s)
         /\ (\A i \in 1..Len(s) : s[i] = 0) => SumOf(s) = 0
<1>1. PICK f : Running(f, s) /\ SumOf(s) = f[Len(s)]
  BY SumIs
<1> DEFINE n == Len(s)
           S == {k \in 0..n : \A i \in 1..k : s[i] <= f[k]}
           Z == {k \in 0..n : (\A i \in 1..n : s[i] = 0) => f[k] = 0}
<1>2. n \in Nat
  OBVIOUS
<1>3. 0 \in S /\ 0 \in Z
  BY <1>1, <1>2 DEF Running
<1>4. ASSUME NEW k \in 1..n, k - 1 \in S PROVE k \in S
  <2>1. s[k] \in Nat
    OBVIOUS
  <2>2. f[k - 1] \in Nat /\ f[k] = f[k - 1] + s[k]
    <3>1. k - 1 \in 0..n
      BY <1>2
    <3>2. f \in [0..n -> Nat] /\ \A i \in 1..n : f[i] = f[i - 1] + s[i]
      BY Zenon, <1>1 DEF Running
    <3> HIDE DEF n
    <3> QED BY Zenon, <3>1, <3>2
  <2>3. ASSUME NEW i \in 1..k PROVE s[i] <= f[k]
    <3>1. CASE i = k
      BY <2>1, <2>2, <3>1
    <3>2. CASE i # k
      <4>1. i \in 1..(k - 1) /\ s[i] \in Nat
        BY <3>2
      <4>2. s[i] <= f[k - 1]
        BY <4>1, <1>4
      <4> QED BY <4>1, <4>2, <2>1, <2>2
    <3> QED BY <3>1, <3>2
  <2> QED BY <2>3
<1>5. ASSUME NEW k \in 1..n, k - 1 \in Z PROVE k \in Z
  BY <1>1, <1>5 DEF Running
<1>6. \A k \in 0..n : k \in S
  <2> HIDE DEF S, n
  <2> QED BY <1>2, <1>3, <1>4, InductionTo
<1>7. \A k \in 0..n : k \in Z
  <2> HIDE DEF Z, n
  <2> QED BY Zenon, <1>2, <1>3, <1>5, InductionTo
<1>8. n \in S /\ n \in Z
  BY <1>2, <1>6, <1>7
<1> QED
  BY <1>1, <1>8

-----------------------------------------------------------------------------
(* A stretch of the log: entries that are lines with a number, or losses   *)
(* (number 0), each with the count of the records it stands for.           *)

Entry == [n : Nat, w : Nat]
Ws(es) == [i \in 1..Len(es) |-> es[i].w]
Weight(es) == SumOf(Ws(es))

\* The lines of es have numbers above lo and up to hi, in increasing order, and
\* before each line the b records in front of es and the entries of es account
\* for all the records with a smaller number.
Sound(es, i, lo, hi, b) ==
  /\ lo < es[i].n /\ es[i].n <= hi
  /\ es[i].n <= 1 + b + Weight(SubSeq(es, 1, i - 1))
  /\ \A j \in 1..(i - 1) : es[j].n # 0 => es[j].n < es[i].n
Faithful(es, lo, hi, b) ==
  \A i \in 1..Len(es) : es[i].n # 0 => Sound(es, i, lo, hi, b)

(* The fields of an entry of a stretch.                                     *)
LEMMA EntryAt ==
  ASSUME NEW s \in Seq(Entry)
  PROVE  /\ \A i \in 1..Len(s) : s[i] \in Entry /\ s[i].n \in Nat /\ s[i].w \in Nat
         /\ Ws(s) \in Seq(Nat) /\ Len(Ws(s)) = Len(s)
         /\ \A i \in 1..Len(s) : Ws(s)[i] = s[i].w
<1>1. ASSUME NEW i \in 1..Len(s) PROVE s[i] \in Entry
  OBVIOUS
<1>2. ASSUME NEW i \in 1..Len(s) PROVE s[i].n \in Nat /\ s[i].w \in Nat
  BY <1>1 DEF Entry
<1>3. Ws(s) \in Seq(Nat) /\ Len(Ws(s)) = Len(s) /\ \A i \in 1..Len(s) : Ws(s)[i] = s[i].w
  BY <1>2 DEF Ws
<1> QED
  BY <1>1, <1>2, <1>3

(* What two stretches stand for, one behind the other.                      *)
LEMMA WeightConcat ==
  ASSUME NEW s \in Seq(Entry), NEW t \in Seq(Entry)
  PROVE  Weight(s \o t) = Weight(s) + Weight(t)
<1>1. Ws(s) \in Seq(Nat) /\ Ws(t) \in Seq(Nat)
  BY EntryAt
<1>2. Ws(s \o t) = Ws(s) \o Ws(t)
  BY SMTT(30) DEF Ws, Entry
<1> QED
  BY <1>1, <1>2, SumConcat DEF Weight

(* What no entry and one entry stand for.                                   *)
LEMMA WeightSmall ==
  /\ Weight(<<>>) = 0
  /\ \A e \in Entry : Weight(<<e>>) = e.w
  /\ \A s \in Seq(Entry) : Weight(s) \in Nat
<1>1. Weight(<<>>) = 0
  <2>1. Ws(<<>>) = <<>>
    BY DEF Ws
  <2> QED BY <2>1, SumSmall DEF Weight
<1>2. ASSUME NEW e \in Entry PROVE Weight(<<e>>) = e.w
  <2>1. Ws(<<e>>) = <<e.w>> /\ e.w \in Nat
    BY DEF Ws, Entry
  <2> QED BY <2>1, SumSmall DEF Weight
<1>3. ASSUME NEW s \in Seq(Entry) PROVE Weight(s) \in Nat
  <2>1. Ws(s) \in Seq(Nat)
    BY EntryAt
  <2> QED BY <2>1, SumSmall DEF Weight
<1> QED
  BY <1>1, <1>2, <1>3

(* The entries in front of a position in the first of two stretches.        *)
LEMMA InFirst ==
  ASSUME NEW s \in Seq(Entry), NEW t \in Seq(Entry), NEW i \in 1..Len(s)
  PROVE  /\ i \in 1..Len(s \o t) /\ (s \o t)[i] = s[i]
         /\ SubSeq(s \o t, 1, i - 1) = SubSeq(s, 1, i - 1)
         /\ SubSeq(s, 1, i - 1) \in Seq(Entry)
OBVIOUS

(* The entries in front of a position in the second of two stretches.       *)
LEMMA InSecond ==
  ASSUME NEW s \in Seq(Entry), NEW t \in Seq(Entry), NEW k \in 1..Len(t)
  PROVE  /\ Len(s) + k \in 1..Len(s \o t) /\ (s \o t)[Len(s) + k] = t[k]
         /\ Weight(SubSeq(s \o t, 1, Len(s) + k - 1)) = Weight(s) + Weight(SubSeq(t, 1, k - 1))
         /\ Weight(s) \in Nat /\ Weight(SubSeq(t, 1, k - 1)) \in Nat
<1>1. Len(s) + k \in 1..Len(s \o t) /\ (s \o t)[Len(s) + k] = t[k]
  OBVIOUS
<1>2. SubSeq(s \o t, 1, Len(s) + k - 1) = s \o SubSeq(t, 1, k - 1)
  OBVIOUS
<1>3. SubSeq(t, 1, k - 1) \in Seq(Entry)
  OBVIOUS
<1> QED
  BY Zenon, <1>1, <1>2, <1>3, WeightConcat, WeightSmall

(* Two faithful stretches whose numbers and counts meet are one.            *)
LEMMA FaithfulConcat ==
  ASSUME NEW s \in Seq(Entry), NEW t \in Seq(Entry),
         NEW lo \in Nat, NEW m \in Nat, NEW hi \in Nat, NEW b \in Nat,
         lo <= m, m <= hi, Faithful(s, lo, m, b), Faithful(t, m, hi, b + Weight(s))
  PROVE  Faithful(s \o t, lo, hi, b)
<1> DEFINE u == s \o t
<1>1. ASSUME NEW i \in 1..Len(s), u[i].n # 0 PROVE Sound(u, i, lo, hi, b)
  <2>1. u[i] = s[i] /\ SubSeq(u, 1, i - 1) = SubSeq(s, 1, i - 1)
    BY InFirst
  <2>2. ASSUME NEW j \in 1..(i - 1) PROVE u[j] = s[j]
    BY InFirst
  <2>3. s[i].n \in Nat
    BY EntryAt
  <2>4. Sound(s, i, lo, m, b)
    BY <1>1, <2>1 DEF Faithful
  <2>5. s[i].n <= hi
    BY <2>3, <2>4 DEF Sound
  <2> HIDE DEF u
  <2> QED BY Zenon, <2>1, <2>2, <2>4, <2>5 DEF Sound
<1>2. ASSUME NEW k \in 1..Len(t), u[Len(s) + k].n # 0 PROVE Sound(u, Len(s) + k, lo, hi, b)
  <2>1. /\ u[Len(s) + k] = t[k] /\ Weight(s) \in Nat /\ Weight(SubSeq(t, 1, k - 1)) \in Nat
        /\ Weight(SubSeq(u, 1, Len(s) + k - 1)) = Weight(s) + Weight(SubSeq(t, 1, k - 1))
    BY InSecond
  <2>2. t[k].n \in Nat
    BY Zenon, EntryAt
  <2>3. Sound(t, k, m, hi, b + Weight(s))
    BY Zenon, <1>2, <2>1 DEF Faithful
  <2>4. ASSUME NEW j \in 1..(Len(s) + k - 1), u[j].n # 0 PROVE u[j].n < t[k].n
    <3>1. CASE j \in 1..Len(s)
      <4>1. u[j] = s[j] /\ s[j].n \in Nat
        BY <3>1, InFirst, EntryAt
      <4>2. Sound(s, j, lo, m, b)
        BY Zenon, <3>1, <4>1, <2>4 DEF Faithful
      <4>3. s[j].n <= m /\ m < t[k].n
        BY <4>2, <2>3 DEF Sound
      <4>4. u[j].n = s[j].n
        BY <4>1
      <4> HIDE DEF u
      <4> QED BY <4>1, <4>3, <4>4, <2>2
    <3>2. CASE j \notin 1..Len(s)
      <4>1. PICK l \in 1..(k - 1) : j = Len(s) + l
        <5>1. j - Len(s) \in 1..(k - 1) /\ j = Len(s) + (j - Len(s))
          BY <3>2
        <5> QED BY <5>1
      <4>2. l \in 1..Len(t)
        OBVIOUS
      <4>3. u[j] = t[l]
        BY Zenon, <4>1, <4>2, InSecond
      <4> HIDE DEF u
      <4> QED BY <4>3, <2>3, <2>4 DEF Sound
    <3> QED BY <3>1, <3>2
  <2>5. lo < t[k].n /\ t[k].n <= hi
    BY <2>2, <2>3 DEF Sound
  <2>6. t[k].n <= 1 + b + (Weight(s) + Weight(SubSeq(t, 1, k - 1)))
    BY <2>1, <2>2, <2>3 DEF Sound
  <2> HIDE DEF u
  <2> QED BY <2>1, <2>4, <2>5, <2>6 DEF Sound
<1>3. ASSUME NEW i \in 1..Len(u), i \notin 1..Len(s)
      PROVE  \E k \in 1..Len(t) : i = Len(s) + k
  <2>1. i - Len(s) \in 1..Len(t) /\ i = Len(s) + (i - Len(s))
    BY <1>3
  <2> QED BY Zenon, <2>1
<1> HIDE DEF u
<1> QED
  BY <1>1, <1>2, <1>3 DEF Faithful, u

(* The first and the second part of a faithful stretch are faithful.        *)
LEMMA FaithfulParts ==
  ASSUME NEW s \in Seq(Entry), NEW t \in Seq(Entry),
         NEW lo \in Nat, NEW hi \in Nat, NEW b \in Nat, Faithful(s \o t, lo, hi, b)
  PROVE  Faithful(s, lo, hi, b) /\ Faithful(t, lo, hi, b + Weight(s))
<1> DEFINE u == s \o t
<1>1. ASSUME NEW i \in 1..Len(s), s[i].n # 0 PROVE Sound(s, i, lo, hi, b)
  <2>1. i \in 1..Len(u) /\ u[i] = s[i] /\ SubSeq(u, 1, i - 1) = SubSeq(s, 1, i - 1)
    BY InFirst
  <2>2. ASSUME NEW j \in 1..(i - 1) PROVE u[j] = s[j]
    BY InFirst
  <2>3. Sound(u, i, lo, hi, b)
    BY <1>1, <2>1 DEF Faithful
  <2> HIDE DEF u
  <2> QED BY Zenon, <2>1, <2>2, <2>3 DEF Sound
<1>2. ASSUME NEW k \in 1..Len(t), t[k].n # 0 PROVE Sound(t, k, lo, hi, b + Weight(s))
  <2>1. /\ Len(s) + k \in 1..Len(u) /\ u[Len(s) + k] = t[k]
        /\ Weight(s) \in Nat /\ Weight(SubSeq(t, 1, k - 1)) \in Nat
        /\ Weight(SubSeq(u, 1, Len(s) + k - 1)) = Weight(s) + Weight(SubSeq(t, 1, k - 1))
    BY Zenon, InSecond
  <2>2. t[k].n \in Nat
    BY EntryAt
  <2>3. Sound(u, Len(s) + k, lo, hi, b)
    BY <1>2, <2>1 DEF Faithful
  <2>4. ASSUME NEW j \in 1..(k - 1), t[j].n # 0 PROVE t[j].n < t[k].n
    <3>1. j \in 1..Len(t) /\ Len(s) + j \in 1..(Len(s) + k - 1)
      OBVIOUS
    <3>2. u[Len(s) + j] = t[j]
      BY <3>1, InSecond
    <3> HIDE DEF u
    <3>3. u[Len(s) + j].n # 0
      BY <3>2, <2>4
    <3>4. u[Len(s) + j].n < u[Len(s) + k].n
      BY <3>1, <3>3, <2>3 DEF Sound
    <3> QED BY <3>2, <3>4, <2>1
  <2>5. lo < t[k].n /\ t[k].n <= hi
    <3> HIDE DEF u
    <3> QED BY Zenon, <2>1, <2>3 DEF Sound
  <2>6. t[k].n <= 1 + b + (Weight(s) + Weight(SubSeq(t, 1, k - 1)))
    <3> HIDE DEF u
    <3> QED BY <2>1, <2>3 DEF Sound
  <2>7. t[k].n <= 1 + (b + Weight(s)) + Weight(SubSeq(t, 1, k - 1))
    BY <2>1, <2>2, <2>6
  <2> QED BY <2>4, <2>5, <2>7 DEF Sound
<1> QED
  BY Zenon, <1>1, <1>2 DEF Faithful

(* A faithful stretch stays one when its bounds are widened.                *)
LEMMA FaithfulWider ==
  ASSUME NEW s \in Seq(Entry), NEW lo \in Nat, NEW hi \in Nat, NEW b \in Nat,
         NEW lo2 \in Nat, NEW hi2 \in Nat, NEW b2 \in Nat,
         lo2 <= lo, hi <= hi2, b <= b2, Faithful(s, lo, hi, b)
  PROVE  Faithful(s, lo2, hi2, b2)
<1> SUFFICES ASSUME NEW i \in 1..Len(s), s[i].n # 0 PROVE Sound(s, i, lo2, hi2, b2)
  BY DEF Faithful
<1>1. s[i].n \in Nat
  BY EntryAt
<1>2. SubSeq(s, 1, i - 1) \in Seq(Entry)
  OBVIOUS
<1>3. Weight(SubSeq(s, 1, i - 1)) \in Nat
  BY Zenon, <1>2, WeightSmall
<1>4. Sound(s, i, lo, hi, b)
  BY DEF Faithful
<1> QED
  BY <1>1, <1>3, <1>4 DEF Sound

(* Losses alone are faithful, and so is nothing.                            *)
LEMMA FaithfulLosses ==
  ASSUME NEW s \in Seq(Entry), \A i \in 1..Len(s) : s[i].n = 0, NEW lo, NEW hi, NEW b
  PROVE  Faithful(s, lo, hi, b)
BY DEF Faithful

(* One line is faithful when the records before it are accounted for.       *)
LEMMA FaithfulLine ==
  ASSUME NEW e \in Entry, NEW lo \in Nat, NEW hi \in Nat, NEW b \in Nat
  PROVE  Faithful(<<e>>, lo, hi, b) <=> (e.n # 0 => lo < e.n /\ e.n <= hi /\ e.n <= 1 + b)
<1> DEFINE s == <<e>>
<1>1. s \in Seq(Entry) /\ Len(s) = 1 /\ s[1] = e /\ e.n \in Nat
  BY DEF Entry
<1>2. SubSeq(s, 1, 1 - 1) = <<>>
  OBVIOUS
<1>3. Weight(SubSeq(s, 1, 1 - 1)) = 0
  BY Zenon, <1>2, WeightSmall
<1>4. Sound(s, 1, lo, hi, b) <=> lo < e.n /\ e.n <= hi /\ e.n <= 1 + b
  <2> HIDE DEF s
  <2> QED BY <1>1, <1>3 DEF Sound
<1>5. \A i \in 1..Len(s) : i = 1
  BY <1>1
<1>6. Faithful(s, lo, hi, b) <=> (e.n # 0 => Sound(s, 1, lo, hi, b))
  <2> HIDE DEF s
  <2> QED BY <1>1, <1>5 DEF Faithful
<1> QED
  BY <1>4, <1>6

(* Behind the first entry of a faithful stretch come larger numbers.        *)
LEMMA FaithfulTail ==
  ASSUME NEW e \in Entry, NEW t \in Seq(Entry), NEW lo \in Nat, NEW hi \in Nat, NEW b \in Nat,
         Faithful(<<e>> \o t, lo, hi, b), e.n # 0
  PROVE  /\ lo < e.n /\ e.n <= hi /\ Faithful(<<e>>, lo, e.n, b)
         /\ Faithful(t, e.n, hi, b + e.w)
<1> DEFINE s == <<e>>
           u == s \o t
<1>0. Faithful(u, lo, hi, b)
  OBVIOUS
<1>1. s \in Seq(Entry) /\ Len(s) = 1 /\ s[1] = e /\ e.n \in Nat /\ e.w \in Nat
  BY DEF Entry
<1>2. Weight(s) = e.w
  BY WeightSmall
<1>3. Faithful(s, lo, hi, b) /\ Faithful(t, lo, hi, b + e.w)
  <2> HIDE DEF s
  <2> QED BY <1>1, <1>2, FaithfulParts
<1>4. lo < e.n /\ e.n <= hi /\ e.n <= 1 + b
  BY <1>3, FaithfulLine
<1>5. Faithful(s, lo, e.n, b)
  BY <1>1, <1>4, FaithfulLine
<1>6. ASSUME NEW k \in 1..Len(t), t[k].n # 0 PROVE Sound(t, k, e.n, hi, b + e.w)
  <2>1. Sound(t, k, lo, hi, b + e.w)
    BY <1>3, <1>6 DEF Faithful
  <2>2. Len(s) + k \in 1..Len(u) /\ u[Len(s) + k] = t[k]
    <3> HIDE DEF s
    <3> QED BY Zenon, <1>1, InSecond
  <2>3. u[1] = e
    OBVIOUS
  <2>4. Sound(u, Len(s) + k, lo, hi, b)
    <3> HIDE DEF s, u
    <3> QED BY <1>0, <1>6, <2>2 DEF Faithful
  <2>5. 1 \in 1..(Len(s) + k - 1)
    BY <1>1
  <2>6. u[1].n < u[Len(s) + k].n
    <3> HIDE DEF u, s
    <3> QED BY <2>3, <2>4, <2>5 DEF Sound
  <2>7. e.n < t[k].n
    <3> HIDE DEF u, s
    <3> QED BY <2>2, <2>3, <2>6
  <2> QED BY <2>1, <2>7 DEF Sound
<1>7. Faithful(t, e.n, hi, b + e.w)
  BY <1>6 DEF Faithful
<1> QED
  BY <1>4, <1>5, <1>7

-----------------------------------------------------------------------------
(* Items, and the stretch of the log a sequence of them is.                *)

\* The items the router makes: a line has a length, a loss has none.
Kept == {x \in Item : IF IsLine(x) THEN x.len \in Sizes ELSE x.len = 0}

Entries(items) == [i \in 1..Len(items) |-> [n |-> items[i].n, w |-> Covered(items)[i]]]
Lengths(items) == [i \in 1..Len(items) |-> items[i].len]
W(items) == Weight(Entries(items))

(* The fields of an item.                                                   *)
LEMMA KeptFields ==
  ASSUME NEW x \in Kept
  PROVE  /\ x \in Item /\ x.n \in Nat /\ x.len \in Nat /\ x.n <= MaxRecords
         /\ x.gap \in [Reasons -> Nat] /\ Total(x.gap) \in Nat
         /\ x.n # 0 => x.len > 0
         /\ x.n = 0 => x.len = 0
<1>1. x \in Item /\ (x.n # 0 => x.len \in Sizes) /\ (x.n = 0 => x.len = 0)
  BY Zenon DEF Kept, IsLine
<1>2. x.n \in 0..MaxRecords /\ x.gap \in [Reasons -> Nat]
  BY <1>1 DEF Item
<1>3. x.len \in Sizes \/ x.len = 0
  BY <1>1
<1>4. x.len \in Nat /\ (x.n # 0 => x.len > 0)
  <2>1. Sizes \subseteq Nat \ {0}
    BY AuditAssumption
  <2>2. x.len \in Nat \ {0} \/ x.len = 0
    BY <1>3, <2>1, Zenon
  <2>3. x.n # 0 => x.len \in Nat \ {0}
    BY <1>1, <2>1, Zenon
  <2> QED BY <2>2, <2>3
<1>5. Total(x.gap) \in Nat
  BY <1>2 DEF Total, Reasons
<1> QED
  BY <1>1, <1>2, <1>4, <1>5, AuditAssumption

(* Lines and losses are items.                                              *)
LEMMA KeptMade ==
  /\ \A n \in 1..MaxRecords, len \in Sizes : Line(n, len) \in Kept
  /\ \A gap \in [Reasons -> Nat] : Lost(gap) \in Kept
<1>1. NoLoss \in [Reasons -> Nat]
  BY DEF NoLoss
<1>2. ASSUME NEW n \in 1..MaxRecords, NEW len \in Sizes PROVE Line(n, len) \in Kept
  <2>1. n \in 0..MaxRecords /\ n # 0
    BY AuditAssumption
  <2>2. Line(n, len) \in Item /\ Line(n, len).n = n /\ Line(n, len).len = len
    BY <1>1, <2>1 DEF Line, Item
  <2> QED BY <2>1, <2>2, Zenon DEF Kept, IsLine
<1>3. ASSUME NEW gap \in [Reasons -> Nat] PROVE Lost(gap) \in Kept
  <2>1. 0 \in 0..MaxRecords
    BY AuditAssumption
  <2>2. Lost(gap) \in Item /\ Lost(gap).n = 0 /\ Lost(gap).len = 0
    BY <2>1 DEF Lost, Item
  <2> QED BY <2>2, Zenon DEF Kept, IsLine
<1> QED
  BY <1>2, <1>3

(* The entries and the lengths of a sequence of items.                      *)
LEMMA EntriesAre ==
  ASSUME NEW s \in Seq(Kept)
  PROVE  /\ Entries(s) \in Seq(Entry) /\ Len(Entries(s)) = Len(s)
         /\ \A i \in 1..Len(s) : Entries(s)[i].n = s[i].n
         /\ Lengths(s) \in Seq(Nat) /\ Len(Lengths(s)) = Len(s)
         /\ \A i \in 1..Len(s) : Lengths(s)[i] = s[i].len
         /\ W(s) \in Nat /\ W(s) = SumOf(Covered(s))
         /\ Bytes(s) \in Nat /\ Bytes(s) = SumOf(Lengths(s))
         /\ \A i \in 1..Len(s) : s[i].len <= Bytes(s)
<1>1. ASSUME NEW i \in 1..Len(s)
      PROVE  s[i].n \in Nat /\ s[i].len \in Nat /\ Total(s[i].gap) \in Nat
  <2>1. s[i] \in Kept
    OBVIOUS
  <2> QED BY <2>1, KeptFields
<1>2. ASSUME NEW i \in 1..Len(s) PROVE Covered(s)[i] \in Nat
  BY <1>1 DEF Covered
<1>3. ASSUME NEW i \in 1..Len(s)
      PROVE  [n |-> s[i].n, w |-> Covered(s)[i]] \in Entry
  BY <1>1, <1>2 DEF Entry
<1>4. Entries(s) \in Seq(Entry) /\ Len(Entries(s)) = Len(s)
  BY <1>3 DEF Entries
<1>5. \A i \in 1..Len(s) : Entries(s)[i].n = s[i].n /\ Entries(s)[i].w = Covered(s)[i]
  BY DEF Entries
<1>6. Lengths(s) \in Seq(Nat) /\ Len(Lengths(s)) = Len(s)
  BY <1>1 DEF Lengths
<1>7. \A i \in 1..Len(s) : Lengths(s)[i] = s[i].len
  BY DEF Lengths
<1>8. Ws(Entries(s)) = Covered(s)
  <2>1. Ws(Entries(s)) = [i \in 1..Len(s) |-> Covered(s)[i]]
    BY <1>4, <1>5 DEF Ws
  <2> QED BY <2>1 DEF Covered
<1>9. W(s) \in Nat /\ W(s) = SumOf(Covered(s))
  BY <1>4, <1>8, WeightSmall DEF W, Weight
<1>10. Bytes(s) = SumOf(Lengths(s))
  BY DEF Bytes, Lengths
<1>11. Bytes(s) \in Nat /\ \A i \in 1..Len(s) : Lengths(s)[i] <= Bytes(s)
  BY <1>6, <1>10, SumSmall, SumMember
<1> QED
  BY <1>4, <1>5, <1>6, <1>7, <1>9, <1>10, <1>11

(* Two sequences of items, one behind the other.                            *)
LEMMA EntriesConcat ==
  ASSUME NEW s \in Seq(Kept), NEW t \in Seq(Kept)
  PROVE  /\ s \o t \in Seq(Kept) /\ Entries(s \o t) = Entries(s) \o Entries(t)
         /\ W(s \o t) = W(s) + W(t) /\ Bytes(s \o t) = Bytes(s) + Bytes(t)
<1>1. s \o t \in Seq(Kept)
  OBVIOUS
<1>2. Entries(s \o t) = Entries(s) \o Entries(t)
  BY DEF Entries, Covered
<1>3. Lengths(s \o t) = Lengths(s) \o Lengths(t)
  BY DEF Lengths
<1>4. W(s \o t) = W(s) + W(t)
  BY <1>2, EntriesAre, WeightConcat DEF W
<1>5. SumOf(Lengths(s) \o Lengths(t)) = SumOf(Lengths(s)) + SumOf(Lengths(t))
  BY EntriesAre, SumConcat
<1>6. Bytes(s \o t) = Bytes(s) + Bytes(t)
  BY Zenon, <1>1, <1>3, <1>5, EntriesAre
<1> QED
  BY <1>1, <1>2, <1>4, <1>6

(* No item, and one.                                                        *)
LEMMA EntriesSmall ==
  /\ Entries(<<>>) = <<>> /\ W(<<>>) = 0 /\ Bytes(<<>>) = 0
  /\ \A x \in Kept :
       LET e == [n |-> x.n, w |-> IF IsLine(x) THEN 1 ELSE Total(x.gap)]
       IN /\ <<x>> \in Seq(Kept) /\ e \in Entry /\ Entries(<<x>>) = <<e>>
          /\ W(<<x>>) = e.w /\ Bytes(<<x>>) = x.len
<1>1. Entries(<<>>) = <<>> /\ Lengths(<<>>) = <<>>
  BY DEF Entries, Lengths
<1>2. W(<<>>) = 0
  BY <1>1, WeightSmall DEF W
<1>3. Bytes(<<>>) = 0
  BY <1>1, SumSmall DEF Bytes, Lengths
<1>4. ASSUME NEW x \in Kept
      PROVE  LET e == [n |-> x.n, w |-> IF IsLine(x) THEN 1 ELSE Total(x.gap)]
             IN /\ <<x>> \in Seq(Kept) /\ e \in Entry /\ Entries(<<x>>) = <<e>>
                /\ W(<<x>>) = e.w /\ Bytes(<<x>>) = x.len
  <2> DEFINE e == [n |-> x.n, w |-> IF IsLine(x) THEN 1 ELSE Total(x.gap)]
  <2>1. x.n \in Nat /\ x.len \in Nat /\ Total(x.gap) \in Nat
    BY KeptFields
  <2>2. <<x>> \in Seq(Kept)
    OBVIOUS
  <2>3. e \in Entry
    BY <2>1 DEF Entry
  <2>4. Entries(<<x>>) = <<e>>
    BY DEF Entries, Covered
  <2>5. W(<<x>>) = e.w
    <3> HIDE DEF e
    <3> QED BY <2>3, <2>4, WeightSmall DEF W
  <2>6. Lengths(<<x>>) = <<x.len>>
    BY DEF Lengths
  <2>7. Bytes(<<x>>) = x.len
    BY Zenon, <2>1, <2>2, <2>6, EntriesAre, SumSmall
  <2> QED BY <2>2, <2>3, <2>4, <2>5, <2>7
<1> QED
  BY <1>1, <1>2, <1>3, <1>4

-----------------------------------------------------------------------------
(* The operations on the queue.                                            *)

OneGap(q) == \A i \in 1..(Len(q) - 1) : IsLine(q[i]) \/ IsLine(q[i + 1])

\* q is a queue next to the items fl that the writer has taken out: its bytes
\* are counted and within the capacity, unless one line is all of them.
Held(q, bytes, fl) ==
  /\ q \in Seq(Kept) /\ bytes = Bytes(fl) + Bytes(q) /\ OneGap(q)
  /\ \/ bytes <= QueueCapacity
     \/ \E i \in 1..Len(fl) : fl[i].len = bytes
     \/ \E i \in 1..Len(q) : q[i].len = bytes

\* q became r by a loss of c records behind its lines.
LostBehind(q, r, c) ==
  /\ \A fl \in Seq(Kept), bytes \in Nat : Held(q, bytes, fl) => Held(r, bytes, fl)
  /\ r \in Seq(Kept) /\ r # <<>> /\ W(r) = W(q) + c
  /\ \A lo, hi, b \in Nat :
        lo <= hi /\ Faithful(Entries(q), lo, hi, b) => Faithful(Entries(r), lo, hi, b)

(* A gap with more losses in it.                                            *)
LEMMA GapGrows ==
  ASSUME NEW gap \in [Reasons -> Nat], NEW c \in Nat, NEW reason \in Reasons
  PROVE  Add(gap, c, reason) \in [Reasons -> Nat] /\ Total(Add(gap, c, reason)) = Total(gap) + c
BY DEF Add, Total, Reasons

(* Two gaps in one.                                                         *)
LEMMA GapMerged ==
  ASSUME NEW gap \in [Reasons -> Nat], NEW other \in [Reasons -> Nat]
  PROVE  /\ Merge(gap, other) \in [Reasons -> Nat]
         /\ Total(Merge(gap, other)) = Total(gap) + Total(other)
BY DEF Merge, Total, Reasons

(* The empty gap.                                                           *)
LEMMA NoGap == NoLoss \in [Reasons -> Nat] /\ Total(NoLoss) = 0
BY DEF Total, Reasons, NoLoss

(* A loss put where a loss was, or behind a line.                           *)
LEMMA LossBehind ==
  ASSUME NEW f \in Seq(Kept), NEW x \in Kept, NEW y \in Kept, NEW c \in Nat,
         ~IsLine(x), ~IsLine(y), Total(y.gap) = Total(x.gap) + c
  PROVE  LostBehind(f \o <<x>>, f \o <<y>>, c)
<1> DEFINE q == f \o <<x>>
           r == f \o <<y>>
           e == [n |-> x.n, w |-> Total(x.gap)]
           d == [n |-> y.n, w |-> Total(y.gap)]
<1>1. /\ <<x>> \in Seq(Kept) /\ e \in Entry /\ Entries(<<x>>) = <<e>>
      /\ W(<<x>>) = Total(x.gap) /\ Bytes(<<x>>) = x.len
  BY EntriesSmall
<1>2. /\ <<y>> \in Seq(Kept) /\ d \in Entry /\ Entries(<<y>>) = <<d>>
      /\ W(<<y>>) = Total(y.gap) /\ Bytes(<<y>>) = y.len
  BY EntriesSmall
<1>3. /\ x.n = 0 /\ y.n = 0 /\ x.len = 0 /\ y.len = 0
      /\ Total(x.gap) \in Nat /\ Total(y.gap) \in Nat
  BY KeptFields DEF IsLine
<1>4. W(f) \in Nat /\ Bytes(f) \in Nat /\ Entries(f) \in Seq(Entry)
  BY EntriesAre
<1>5. /\ q \in Seq(Kept) /\ Entries(q) = Entries(f) \o <<e>>
      /\ W(q) = W(f) + Total(x.gap) /\ Bytes(q) = Bytes(f)
  <2>1. /\ q \in Seq(Kept) /\ Entries(q) = Entries(f) \o Entries(<<x>>)
        /\ W(q) = W(f) + W(<<x>>) /\ Bytes(q) = Bytes(f) + Bytes(<<x>>)
    BY Zenon, <1>1, EntriesConcat
  <2>2. Entries(<<x>>) = <<e>>
    BY <1>1
  <2>3. W(<<x>>) = Total(x.gap) /\ Bytes(<<x>>) = 0
    BY <1>1, <1>3
  <2>4. Bytes(q) = Bytes(f)
    <3> HIDE DEF q
    <3> QED BY <2>1, <2>3, <1>4
  <2> HIDE DEF q, e
  <2> QED BY Zenon, <2>1, <2>2, <2>3, <2>4
<1>6. /\ r \in Seq(Kept) /\ Entries(r) = Entries(f) \o <<d>>
      /\ W(r) = W(f) + Total(y.gap) /\ Bytes(r) = Bytes(f)
  <2>1. /\ r \in Seq(Kept) /\ Entries(r) = Entries(f) \o Entries(<<y>>)
        /\ W(r) = W(f) + W(<<y>>) /\ Bytes(r) = Bytes(f) + Bytes(<<y>>)
    BY Zenon, <1>2, EntriesConcat
  <2>2. Entries(<<y>>) = <<d>>
    BY <1>2
  <2>3. W(<<y>>) = Total(y.gap) /\ Bytes(<<y>>) = 0
    BY <1>2, <1>3
  <2>4. Bytes(r) = Bytes(f)
    <3> HIDE DEF r
    <3> QED BY <2>1, <2>3, <1>4
  <2> HIDE DEF r, d
  <2> QED BY Zenon, <2>1, <2>2, <2>3, <2>4
<1>7. ASSUME NEW lo \in Nat, NEW hi \in Nat, NEW b \in Nat, lo <= hi,
             Faithful(Entries(q), lo, hi, b)
      PROVE  Faithful(Entries(r), lo, hi, b)
  <2>1. <<e>> \in Seq(Entry) /\ <<d>> \in Seq(Entry)
    BY <1>1, <1>2
  <2>2. Faithful(Entries(f), lo, hi, b)
    <3> HIDE DEF q, e
    <3> QED BY Zenon, <2>1, <1>4, <1>5, <1>7, FaithfulParts
  <2>3. Faithful(<<d>>, hi, hi, b + W(f))
    <3>1. d.n = 0 /\ b + W(f) \in Nat
      BY <1>3, <1>4
    <3> HIDE DEF d
    <3> QED BY <3>1, <1>2, FaithfulLine
  <2>4. Faithful(<<d>>, hi, hi, b + Weight(Entries(f)))
    BY <2>3 DEF W
  <2> HIDE DEF q, r, e, d
  <2>5. hi <= hi /\ lo <= hi
    BY <1>7
  <2>6. Faithful(Entries(f) \o <<d>>, lo, hi, b)
    BY Zenon, <2>1, <2>2, <2>4, <2>5, <1>4, FaithfulConcat
  <2> QED BY <2>6, <1>6
<1>8. ASSUME NEW fl \in Seq(Kept), NEW bytes \in Nat, Held(q, bytes, fl)
      PROVE  Held(r, bytes, fl)
  <2>1. Len(q) = Len(r) /\ Len(q) = Len(f) + 1 /\ Len(f) \in Nat
    OBVIOUS
  <2>2. \A i \in 1..Len(q) : /\ IsLine(q[i]) <=> IsLine(r[i])
                             /\ q[i].len = r[i].len
    <3>1. ASSUME NEW i \in 1..Len(f) PROVE q[i] = r[i]
      OBVIOUS
    <3>2. q[Len(f) + 1] = x /\ r[Len(f) + 1] = y
      OBVIOUS
    <3>3. \A i \in 1..Len(q) : i \in 1..Len(f) \/ i = Len(f) + 1
      BY <2>1
    <3> HIDE DEF q, r
    <3> QED BY <3>1, <3>2, <3>3, <1>3
  <2> HIDE DEF q, r
  <2>3. OneGap(r)
    <3>1. \A i \in 1..(Len(q) - 1) : i \in 1..Len(q) /\ i + 1 \in 1..Len(q)
      BY <2>1
    <3>2. OneGap(q)
      BY <1>8 DEF Held
    <3> QED BY <2>1, <2>2, <3>1, <3>2, Zenon DEF OneGap
  <2> QED BY <1>5, <1>6, <1>8, <2>1, <2>2, <2>3 DEF Held
<1> HIDE DEF q, r, e, d
<1>9. r # <<>> /\ W(r) = W(q) + c
  <2>1. r # <<>>
    BY DEF r
  <2> QED BY <2>1, <1>3, <1>4, <1>5, <1>6
<1> QED
  BY Zenon, <1>6, <1>7, <1>8, <1>9 DEF LostBehind, q, r

(* A loss put behind a line, or into an empty queue.                        *)
LEMMA LossAppended ==
  ASSUME NEW q \in Seq(Kept), NEW y \in Kept, ~IsLine(y),
         q = <<>> \/ IsLine(q[Len(q)])
  PROVE  LostBehind(q, q \o <<y>>, Total(y.gap))
<1> DEFINE r == q \o <<y>>
           d == [n |-> y.n, w |-> Total(y.gap)]
<1>1. /\ <<y>> \in Seq(Kept) /\ d \in Entry /\ Entries(<<y>>) = <<d>>
      /\ W(<<y>>) = Total(y.gap) /\ Bytes(<<y>>) = y.len
  BY EntriesSmall
<1>2. y.n = 0 /\ y.len = 0 /\ Total(y.gap) \in Nat
  BY KeptFields DEF IsLine
<1>3. W(q) \in Nat /\ Bytes(q) \in Nat /\ Entries(q) \in Seq(Entry)
  BY EntriesAre
<1>4. /\ r \in Seq(Kept) /\ Entries(r) = Entries(q) \o <<d>>
      /\ W(r) = W(q) + Total(y.gap) /\ Bytes(r) = Bytes(q)
  <2>1. /\ r \in Seq(Kept) /\ Entries(r) = Entries(q) \o Entries(<<y>>)
        /\ W(r) = W(q) + W(<<y>>) /\ Bytes(r) = Bytes(q) + Bytes(<<y>>)
    BY Zenon, <1>1, EntriesConcat
  <2>2. Bytes(<<y>>) = 0
    BY <1>1, <1>2
  <2>3. Bytes(r) = Bytes(q)
    <3> HIDE DEF r
    <3> QED BY <2>1, <2>2, <1>3
  <2> HIDE DEF r, d
  <2> QED BY Zenon, <2>1, <2>3, <1>1
<1>5. ASSUME NEW lo \in Nat, NEW hi \in Nat, NEW b \in Nat, lo <= hi,
             Faithful(Entries(q), lo, hi, b)
      PROVE  Faithful(Entries(r), lo, hi, b)
  <2>1. <<d>> \in Seq(Entry)
    BY <1>1
  <2>2. Faithful(<<d>>, hi, hi, b + Weight(Entries(q)))
    <3>1. d.n = 0 /\ b + Weight(Entries(q)) \in Nat
      BY <1>2, <1>3 DEF W
    <3> HIDE DEF d
    <3> QED BY <3>1, <1>1, FaithfulLine
  <2> HIDE DEF r, d
  <2>3. hi <= hi /\ lo <= hi
    BY <1>5
  <2>4. Faithful(Entries(q) \o <<d>>, lo, hi, b)
    BY Zenon, <2>1, <2>2, <2>3, <1>3, <1>5, FaithfulConcat
  <2> QED BY <2>4, <1>4
<1>6. ASSUME NEW fl \in Seq(Kept), NEW bytes \in Nat, Held(q, bytes, fl)
      PROVE  Held(r, bytes, fl)
  <2>1. Len(r) = Len(q) + 1 /\ Len(q) \in Nat
    OBVIOUS
  <2>2. \A i \in 1..Len(q) : r[i] = q[i]
    OBVIOUS
  <2>3. OneGap(r)
    <3> SUFFICES ASSUME NEW i \in 1..Len(q) PROVE IsLine(r[i]) \/ IsLine(r[i + 1])
      BY <2>1 DEF OneGap
    <3>1. CASE i = Len(q)
      <4>1. q # <<>>
        BY <3>1
      <4> QED BY <3>1, <4>1, <2>2
    <3>2. CASE i # Len(q)
      <4>1. i \in 1..(Len(q) - 1) /\ i + 1 \in 1..Len(q)
        BY <3>2, <2>1
      <4>2. IsLine(q[i]) \/ IsLine(q[i + 1])
        BY <4>1, <1>6 DEF Held, OneGap
      <4>3. r[i] = q[i] /\ r[i + 1] = q[i + 1]
        BY <4>1, <2>2
      <4> HIDE DEF r
      <4> QED BY <4>2, <4>3
    <3> QED BY <3>1, <3>2
  <2> HIDE DEF r
  <2>4. ASSUME NEW i \in 1..Len(q), q[i].len = bytes PROVE \E j \in 1..Len(r) : r[j].len = bytes
    <3>1. i \in 1..Len(r) /\ r[i].len = bytes
      BY <2>1, <2>2, <2>4
    <3> QED BY <3>1
  <2> QED BY <1>4, <1>6, <2>3, <2>4 DEF Held
<1>7. r # <<>>
  OBVIOUS
<1> HIDE DEF r, d
<1> QED
  BY <1>4, <1>5, <1>6, <1>7 DEF LostBehind, r

(* State::lose counts the loss behind the last line and changes no line.    *)
LEMMA LoseIs ==
  ASSUME NEW q \in Seq(Kept), NEW c \in Nat, NEW reason \in Reasons
  PROVE  LostBehind(q, Lose(q, c, reason), c)
<1>1. CASE q # <<>> /\ ~IsLine(q[Len(q)])
  <2> DEFINE f == SubSeq(q, 1, Len(q) - 1)
             x == q[Len(q)]
             gap == Add(x.gap, c, reason)
             y == [x EXCEPT !.gap = gap]
  <2>1. Len(q) \in 1..Len(q) /\ x \in Kept
    BY <1>1
  <2>2. x \in Item /\ x.gap \in [Reasons -> Nat] /\ x.n = 0 /\ x.len = 0 /\ ~IsLine(x)
    BY <2>1, <1>1, KeptFields DEF IsLine
  <2>3. gap \in [Reasons -> Nat] /\ Total(gap) = Total(x.gap) + c
    <3> HIDE DEF x
    <3> QED BY <2>2, GapGrows
  <2>4. y \in Item /\ y.n = x.n /\ y.len = x.len /\ y.gap = gap
    <3> HIDE DEF x, gap
    <3> QED BY Zenon, <2>2, <2>3 DEF Item
  <2>5. y \in Kept /\ ~IsLine(y)
    <3> HIDE DEF x, y
    <3> QED BY <2>2, <2>4, Zenon DEF Kept, IsLine
  <2>6. f \in Seq(Kept) /\ q = f \o <<x>>
    BY <1>1
  <2>7. Lose(q, c, reason) = [q EXCEPT ![Len(q)] = y]
    BY <1>1 DEF Lose
  <2>8. [q EXCEPT ![Len(q)] = y] = f \o <<y>>
    <3> HIDE DEF y
    <3> QED BY <1>1, <2>5
  <2>9. LostBehind(f \o <<x>>, f \o <<y>>, c)
    <3>1. Total(y.gap) = Total(x.gap) + c
      BY <2>3, <2>4
    <3> HIDE DEF f, x, y
    <3> QED BY <2>1, <2>2, <2>5, <2>6, <3>1, LossBehind
  <2> HIDE DEF f, x, y
  <2> QED BY Zenon, <2>6, <2>7, <2>8, <2>9
<1>2. CASE ~(q # <<>> /\ ~IsLine(q[Len(q)]))
  <2> DEFINE gap == Add(NoLoss, c, reason)
             y == Lost(gap)
  <2>1. gap \in [Reasons -> Nat] /\ Total(gap) = c
    <3>1. NoLoss \in [Reasons -> Nat] /\ Total(NoLoss) = 0
      BY NoGap
    <3> QED BY <3>1, GapGrows
  <2>2. y \in Kept /\ y.gap = gap /\ ~IsLine(y)
    <3> HIDE DEF gap
    <3> QED BY <2>1, KeptMade DEF Lost, IsLine
  <2>3. Lose(q, c, reason) = Append(q, y)
    BY <1>2 DEF Lose
  <2>4. Append(q, y) = q \o <<y>>
    <3> HIDE DEF y
    <3> QED BY <2>2
  <2>5. LostBehind(q, q \o <<y>>, Total(y.gap))
    <3> HIDE DEF y
    <3> QED BY Zenon, <1>2, <2>2, LossAppended
  <2>6. Total(y.gap) = c
    BY <2>1, <2>2
  <2> HIDE DEF y
  <2> QED BY <2>3, <2>4, <2>5, <2>6
<1> QED
  BY <1>1, <1>2

\* q became r by a loss of c records in front of its lines.
LostAhead(q, r, c) ==
  /\ \A bytes \in Nat : Held(q, bytes, <<>>) => Held(r, bytes, <<>>)
  /\ r \in Seq(Kept) /\ r # <<>> /\ W(r) = W(q) + c
  /\ \A lo, hi, b \in Nat :
        lo <= hi /\ Faithful(Entries(q), lo, hi, b + c) => Faithful(Entries(r), lo, hi, b)

(* A loss put in front of t, where f was, nothing or a smaller loss.        *)
LEMMA LossAhead ==
  ASSUME NEW f \in Seq(Kept), NEW t \in Seq(Kept), NEW y \in Kept, NEW c \in Nat,
         ~IsLine(y), Total(y.gap) = W(f) + c, Bytes(f) = 0, t = <<>> \/ IsLine(t[1])
  PROVE  LostAhead(f \o t, <<y>> \o t, c)
<1> DEFINE q == f \o t
           r == <<y>> \o t
           d == [n |-> y.n, w |-> Total(y.gap)]
<1>1. /\ <<y>> \in Seq(Kept) /\ d \in Entry /\ Entries(<<y>>) = <<d>>
      /\ W(<<y>>) = Total(y.gap) /\ Bytes(<<y>>) = y.len
  BY EntriesSmall
<1>2. y.n = 0 /\ y.len = 0 /\ Total(y.gap) \in Nat
  BY KeptFields DEF IsLine
<1>3. /\ W(t) \in Nat /\ Bytes(t) \in Nat /\ Entries(t) \in Seq(Entry)
      /\ W(f) \in Nat /\ Entries(f) \in Seq(Entry)
  BY EntriesAre
<1>4. q \in Seq(Kept) /\ Entries(q) = Entries(f) \o Entries(t)
      /\ W(q) = W(f) + W(t) /\ Bytes(q) = Bytes(f) + Bytes(t)
  BY EntriesConcat
<1>5. /\ r \in Seq(Kept) /\ Entries(r) = <<d>> \o Entries(t)
      /\ W(r) = Total(y.gap) + W(t) /\ Bytes(r) = y.len + Bytes(t)
  <2>1. /\ r \in Seq(Kept) /\ Entries(r) = Entries(<<y>>) \o Entries(t)
        /\ W(r) = W(<<y>>) + W(t) /\ Bytes(r) = Bytes(<<y>>) + Bytes(t)
    BY Zenon, <1>1, EntriesConcat
  <2> HIDE DEF r, d
  <2> QED BY Zenon, <2>1, <1>1
<1>6. W(r) = W(q) + c /\ Bytes(r) = Bytes(q)
  <2> HIDE DEF q, r
  <2>1. Bytes(q) = Bytes(t)
    BY <1>3, <1>4
  <2>2. Bytes(r) = Bytes(t)
    BY <1>2, <1>3, <1>5
  <2> QED BY <2>1, <2>2, <1>3, <1>4, <1>5
<1>7. ASSUME NEW lo \in Nat, NEW hi \in Nat, NEW b \in Nat, lo <= hi,
             Faithful(Entries(q), lo, hi, b + c)
      PROVE  Faithful(Entries(r), lo, hi, b)
  <2>1. <<d>> \in Seq(Entry) /\ Weight(<<d>>) = Total(y.gap) /\ b + c \in Nat
    BY <1>1, WeightSmall
  <2>2. Faithful(Entries(t), lo, hi, (b + c) + Weight(Entries(f)))
    <3> HIDE DEF q
    <3> QED BY <2>1, <1>3, <1>4, <1>7, FaithfulParts
  <2>3. (b + c) + Weight(Entries(f)) = b + Weight(<<d>>)
    <3> HIDE DEF d
    <3> QED BY <2>1, <1>3 DEF W
  <2>4. Faithful(<<d>>, lo, lo, b)
    <3>1. d.n = 0
      BY <1>2
    <3> HIDE DEF d
    <3> QED BY Zenon, <3>1, <1>1, FaithfulLine
  <2>5. lo <= lo /\ lo <= hi
    BY <1>7
  <2> HIDE DEF r, d
  <2>6. Faithful(<<d>> \o Entries(t), lo, hi, b)
    BY Zenon, <2>1, <2>2, <2>3, <2>4, <2>5, <1>3, FaithfulConcat
  <2> QED BY <2>6, <1>5
<1>8. ASSUME NEW bytes \in Nat, Held(q, bytes, <<>>) PROVE Held(r, bytes, <<>>)
  <2>1. Len(r) = Len(t) + 1 /\ Len(t) \in Nat /\ r[1] = y
    OBVIOUS
  <2>2. \A i \in 1..Len(t) : r[i + 1] = t[i]
    OBVIOUS
  <2>3. Len(q) = Len(f) + Len(t) /\ Len(f) \in Nat
    OBVIOUS
  <2>4. ASSUME NEW i \in 1..Len(t) PROVE i + Len(f) \in 1..Len(q) /\ q[i + Len(f)] = t[i]
    OBVIOUS
  <2>5. ASSUME NEW i \in 1..(Len(t) - 1) PROVE IsLine(t[i]) \/ IsLine(t[i + 1])
    <3>1. /\ i \in 1..Len(t) /\ i + 1 \in 1..Len(t) /\ i + Len(f) \in 1..(Len(q) - 1)
          /\ (i + 1) + Len(f) = (i + Len(f)) + 1
      BY <2>3
    <3>2. q[i + Len(f)] = t[i] /\ q[(i + Len(f)) + 1] = t[i + 1]
      BY <3>1, <2>4
    <3> HIDE DEF q
    <3>3. IsLine(q[i + Len(f)]) \/ IsLine(q[(i + Len(f)) + 1])
      BY <3>1, <1>8 DEF Held, OneGap
    <3> QED BY <3>2, <3>3
  <2>6. OneGap(r)
    <3> SUFFICES ASSUME NEW i \in 1..Len(t) PROVE IsLine(r[i]) \/ IsLine(r[i + 1])
      BY <2>1 DEF OneGap
    <3>1. CASE i = 1
      <4>1. t # <<>> /\ r[1 + 1] = t[1]
        BY <3>1, <2>2
      <4> HIDE DEF r
      <4> QED BY <3>1, <4>1
    <3>2. CASE i # 1
      <4>1. i - 1 \in 1..(Len(t) - 1) /\ i - 1 \in 1..Len(t) /\ (i - 1) + 1 = i
        BY <3>2, <2>1
      <4>2. r[i] = t[i - 1] /\ r[i + 1] = t[i]
        BY <4>1, <2>2
      <4>3. IsLine(t[i - 1]) \/ IsLine(t[(i - 1) + 1])
        BY <4>1, <2>5
      <4> HIDE DEF r
      <4> QED BY <4>1, <4>2, <4>3
    <3> QED BY <3>1, <3>2
  <2>7. Len(<<>>) = 0
    OBVIOUS
  <2>8. bytes <= QueueCapacity \/ \E i \in 1..Len(q) : q[i].len = bytes
    <3> HIDE DEF q
    <3> QED BY <1>8, <2>7 DEF Held
  <2>9. ASSUME NEW i \in 1..Len(q), q[i].len = bytes
        PROVE  bytes <= QueueCapacity \/ \E j \in 1..Len(r) : r[j].len = bytes
    <3>1. CASE i \in 1..Len(f)
      <4>1. q[i] = f[i]
        BY <3>1
      <4>2. f[i].len <= 0 /\ f[i].len \in Nat
        <5>1. f[i] \in Kept
          BY <3>1
        <5> QED BY Zenon, <3>1, <5>1, EntriesAre, KeptFields
      <4> HIDE DEF q
      <4> QED BY <4>1, <4>2, <2>9, AuditAssumption
    <3>2. CASE i \notin 1..Len(f)
      <4>1. i - Len(f) \in 1..Len(t) /\ (i - Len(f)) + Len(f) = i
        BY <3>2, <2>3
      <4>2. r[(i - Len(f)) + 1] = q[i] /\ (i - Len(f)) + 1 \in 1..Len(r)
        BY <4>1, <2>1, <2>2, <2>4
      <4> HIDE DEF q, r
      <4> QED BY <4>2, <2>9
    <3> QED BY Zenon, <3>1, <3>2
  <2> HIDE DEF q, r
  <2> QED BY <1>5, <1>6, <1>8, <2>6, <2>8, <2>9 DEF Held
<1>9. r # <<>>
  OBVIOUS
<1> HIDE DEF q, r, d
<1> QED
  BY Zenon, <1>5, <1>6, <1>7, <1>8, <1>9 DEF LostAhead, q, r

(* State::lose_at_front counts the losses ahead of the queue.               *)
LEMMA LoseAtFrontIs ==
  ASSUME NEW q \in Seq(Kept), NEW gap \in [Reasons -> Nat]
  PROVE  (q = <<>> \/ OneGap(q)) => LostAhead(q, LoseAtFront(q, gap), Total(gap))
<1> SUFFICES ASSUME q = <<>> \/ OneGap(q)
             PROVE  LostAhead(q, LoseAtFront(q, gap), Total(gap))
  OBVIOUS
<1>0. Total(gap) \in Nat
  BY DEF Total, Reasons
<1>1. CASE q # <<>> /\ ~IsLine(Head(q))
  <2> DEFINE x == q[1]
             t == Tail(q)
             sum == Merge(x.gap, gap)
             y == [x EXCEPT !.gap = sum]
  <2>1. x \in Kept /\ Head(q) = x /\ Len(q) \in Nat /\ Len(q) > 0
    BY <1>1
  <2>2. x \in Item /\ x.gap \in [Reasons -> Nat] /\ x.n = 0 /\ x.len = 0 /\ ~IsLine(x)
    BY <2>1, <1>1, KeptFields DEF IsLine
  <2>3. sum \in [Reasons -> Nat] /\ Total(sum) = Total(x.gap) + Total(gap)
    <3> HIDE DEF x
    <3> QED BY <2>2, GapMerged
  <2>4. y \in Item /\ y.n = x.n /\ y.len = x.len /\ y.gap = sum
    <3> HIDE DEF x, sum
    <3> QED BY Zenon, <2>2, <2>3 DEF Item
  <2>5. y \in Kept /\ ~IsLine(y)
    <3> HIDE DEF x, y
    <3> QED BY <2>2, <2>4, Zenon DEF Kept, IsLine
  <2>6. t \in Seq(Kept) /\ q = <<x>> \o t
    BY <1>1
  <2>7. LoseAtFront(q, gap) = [q EXCEPT ![1] = y]
    BY <1>1 DEF LoseAtFront
  <2>8. [q EXCEPT ![1] = y] = <<y>> \o t
    <3> HIDE DEF y
    <3> QED BY <1>1, <2>5
  <2>9. W(<<x>>) = Total(x.gap) /\ Bytes(<<x>>) = 0 /\ <<x>> \in Seq(Kept)
    <3> HIDE DEF x
    <3> QED BY Zenon, <2>1, <2>2, EntriesSmall
  <2>10. t = <<>> \/ IsLine(t[1])
    <3> SUFFICES ASSUME t # <<>> PROVE IsLine(t[1])
      OBVIOUS
    <3>1. 1 \in 1..(Len(q) - 1) /\ t[1] = q[1 + 1]
      BY <1>1
    <3> HIDE DEF t, x
    <3>2. IsLine(q[1]) \/ IsLine(q[1 + 1])
      BY <1>1, <3>1 DEF OneGap
    <3> QED BY <2>2, <3>1, <3>2 DEF x
  <2>11. LostAhead(<<x>> \o t, <<y>> \o t, Total(gap))
    <3>1. Total(y.gap) = W(<<x>>) + Total(gap)
      BY <2>3, <2>4, <2>9
    <3> HIDE DEF t, x, y
    <3> QED BY Zenon, <1>0, <2>5, <2>6, <2>9, <2>10, <3>1, LossAhead
  <2> HIDE DEF t, x, y
  <2> QED BY Zenon, <2>6, <2>7, <2>8, <2>11
<1>2. CASE ~(q # <<>> /\ ~IsLine(Head(q)))
  <2> DEFINE y == Lost(gap)
  <2>1. y \in Kept /\ y.gap = gap /\ ~IsLine(y)
    BY KeptMade DEF Lost, IsLine
  <2>2. LoseAtFront(q, gap) = <<y>> \o q
    BY <1>2 DEF LoseAtFront
  <2>3. <<>> \in Seq(Kept) /\ <<>> \o q = q
    OBVIOUS
  <2>4. q = <<>> \/ IsLine(q[1])
    BY <1>2
  <2>5. Total(y.gap) = W(<<>>) + Total(gap) /\ Bytes(<<>>) = 0
    BY <1>0, <2>1, EntriesSmall
  <2>6. LostAhead(<<>> \o q, <<y>> \o q, Total(gap))
    <3> HIDE DEF y
    <3> QED BY Zenon, <1>0, <2>1, <2>3, <2>4, <2>5, LossAhead
  <2> HIDE DEF y
  <2> QED BY <2>2, <2>3, <2>6
<1> QED
  BY <1>1, <1>2

\* d is a queue with its byte count, next to the items fl: it stands for w
\* records and its lines are faithful behind b others.
Delivery == [q : Seq(Kept), bytes : Nat]
Stands(d, fl, lo, hi, b, w) ==
  /\ d \in Delivery /\ Held(d.q, d.bytes, fl) /\ W(d.q) = w
  /\ Faithful(Entries(d.q), lo, hi, b)

(* State::enqueue hands back a queue, whatever the line.                    *)
LEMMA EnqueueType ==
  ASSUME NEW d \in Delivery, NEW x \in Kept
  PROVE  Enqueue(d, x) \in Delivery
<1>1. d.q \in Seq(Kept) /\ d.bytes \in Nat
  BY DEF Delivery
<1>2. "SinkBackpressure" \in Reasons /\ 1 \in Nat
  BY Zenon DEF Reasons
<1>3. Lose(d.q, 1, "SinkBackpressure") \in Seq(Kept)
  BY Zenon, <1>1, <1>2, LoseIs DEF LostBehind
<1>4. x.len \in Nat
  BY KeptFields
<1>5. CASE d.bytes + x.len > QueueCapacity /\ d.bytes > 0
  <2>1. Enqueue(d, x) = [d EXCEPT !.q = Lose(d.q, 1, "SinkBackpressure")]
    BY <1>5 DEF Enqueue
  <2> QED BY Zenon, <1>3, <2>1 DEF Delivery
<1>6. CASE ~(d.bytes + x.len > QueueCapacity /\ d.bytes > 0)
  <2>1. Enqueue(d, x) = [q |-> Append(d.q, x), bytes |-> d.bytes + x.len]
    BY <1>6, Zenon DEF Enqueue
  <2>2. Append(d.q, x) \in Seq(Kept) /\ d.bytes + x.len \in Nat
    BY <1>1, <1>4
  <2> QED BY <2>1, <2>2 DEF Delivery
<1> QED
  BY <1>5, <1>6

(* A line that is enqueued stands behind the others or is counted as lost.  *)
LEMMA EnqueueIs ==
  ASSUME NEW d, NEW fl \in Seq(Kept), NEW lo \in Nat, NEW hi \in Nat, NEW b \in Nat,
         NEW w \in Nat, Stands(d, fl, lo, hi, b, w), NEW x \in Kept, IsLine(x),
         lo <= hi, hi < x.n, x.n <= 1 + b + w
  PROVE  Stands(Enqueue(d, x), fl, lo, x.n, b, w + 1)
<1> DEFINE q == d.q
           r == Enqueue(d, x)
<1>1. /\ d \in Delivery /\ q \in Seq(Kept) /\ d.bytes \in Nat /\ Held(q, d.bytes, fl)
      /\ W(q) = w /\ Faithful(Entries(q), lo, hi, b)
  BY DEF Stands, Delivery
<1>2. r \in Delivery
  BY <1>1, EnqueueType
<1>3. x.n \in Nat /\ x.len \in Nat /\ x.len > 0 /\ x.n # 0
  BY KeptFields DEF IsLine
<1>4. hi <= x.n /\ lo <= lo /\ b <= b
  BY <1>3
<1>5. CASE d.bytes + x.len > QueueCapacity /\ d.bytes > 0
  <2> DEFINE p == Lose(q, 1, "SinkBackpressure")
  <2>1. r = [d EXCEPT !.q = p]
    BY <1>5 DEF Enqueue
  <2>2. r.q = p /\ r.bytes = d.bytes
    <3> HIDE DEF p, r
    <3> QED BY <1>1, <2>1 DEF Delivery
  <2>3. LostBehind(q, p, 1)
    BY <1>1, LoseIs DEF Reasons
  <2> HIDE DEF p, q, r
  <2>4. Held(p, d.bytes, fl) /\ p \in Seq(Kept) /\ W(p) = w + 1 /\ Faithful(Entries(p), lo, hi, b)
    BY <1>1, <2>3 DEF LostBehind
  <2>5. Entries(p) \in Seq(Entry)
    BY Zenon, <2>4, EntriesAre
  <2>6. Faithful(Entries(p), lo, x.n, b)
    BY Zenon, <1>3, <1>4, <2>4, <2>5, FaithfulWider
  <2> QED BY <1>2, <2>2, <2>4, <2>6 DEF Stands, r
<1>6. CASE ~(d.bytes + x.len > QueueCapacity /\ d.bytes > 0)
  <2> DEFINE p == q \o <<x>>
             e == [n |-> x.n, w |-> 1]
  <2>1. r = [q |-> Append(q, x), bytes |-> d.bytes + x.len]
    BY <1>6, Zenon DEF Enqueue
  <2>2. r.q = p /\ r.bytes = d.bytes + x.len
    BY <1>1, <2>1
  <2>3. /\ <<x>> \in Seq(Kept) /\ e \in Entry /\ Entries(<<x>>) = <<e>>
        /\ W(<<x>>) = 1 /\ Bytes(<<x>>) = x.len
    BY EntriesSmall
  <2>4. /\ p \in Seq(Kept) /\ Entries(p) = Entries(q) \o <<e>>
        /\ W(p) = w + 1 /\ Bytes(p) = Bytes(q) + x.len
    <3>1. /\ p \in Seq(Kept) /\ Entries(p) = Entries(q) \o Entries(<<x>>)
          /\ W(p) = W(q) + W(<<x>>) /\ Bytes(p) = Bytes(q) + Bytes(<<x>>)
      BY Zenon, <1>1, <2>3, EntriesConcat
    <3> HIDE DEF p, q, e
    <3> QED BY Zenon, <3>1, <1>1, <2>3
  <2>5. Faithful(Entries(p), lo, x.n, b)
    <3>1. /\ Entries(q) \in Seq(Entry) /\ <<e>> \in Seq(Entry)
          /\ b + Weight(Entries(q)) \in Nat /\ Weight(Entries(q)) = w
      BY <1>1, <2>3, EntriesAre DEF W
    <3>2. e.n = x.n
      OBVIOUS
    <3> HIDE DEF p, q, e
    <3>3. e.n # 0 => hi < e.n /\ e.n <= x.n /\ e.n <= 1 + (b + Weight(Entries(q)))
      BY <3>1, <3>2, <1>3
    <3>4. Faithful(<<e>>, hi, x.n, b + Weight(Entries(q)))
      BY <3>1, <3>3, <2>3, <1>3, FaithfulLine
    <3>5. Faithful(Entries(q) \o <<e>>, lo, x.n, b)
      BY Zenon, <3>1, <3>4, <1>1, <1>3, <1>4, FaithfulConcat
    <3> QED BY Zenon, <3>5, <2>4
  <2>6. Held(p, d.bytes + x.len, fl)
    <3>1. Len(p) = Len(q) + 1 /\ Len(q) \in Nat /\ p[Len(q) + 1] = x
      BY <1>1
    <3>2. \A i \in 1..Len(q) : p[i] = q[i]
      BY <1>1
    <3>3. OneGap(p)
      <4> SUFFICES ASSUME NEW i \in 1..(Len(p) - 1) PROVE IsLine(p[i]) \/ IsLine(p[i + 1])
        BY Zenon DEF OneGap
      <4>0. i \in 1..Len(q)
        BY <3>1
      <4>1. CASE i = Len(q)
        BY <3>1, <4>1
      <4>2. CASE i # Len(q)
        <5>1. i \in 1..(Len(q) - 1) /\ i + 1 \in 1..Len(q)
          BY <3>1, <4>0, <4>2
        <5>2. IsLine(q[i]) \/ IsLine(q[i + 1])
          BY Zenon, <5>1, <1>1 DEF Held, OneGap
        <5>3. p[i] = q[i] /\ p[i + 1] = q[i + 1]
          BY <5>1, <3>2
        <5> HIDE DEF p, q
        <5> QED BY <5>2, <5>3
      <4> QED BY <4>1, <4>2
    <3> HIDE DEF p, q
    <3>4. d.bytes = Bytes(fl) + Bytes(q) /\ Bytes(fl) \in Nat /\ Bytes(q) \in Nat
      BY <1>1, EntriesAre DEF Held
    <3>5. d.bytes + x.len = Bytes(fl) + Bytes(p)
      BY <2>4, <3>4, <1>3
    <3>6. \/ d.bytes + x.len <= QueueCapacity
          \/ \E i \in 1..Len(p) : p[i].len = d.bytes + x.len
      <4>1. CASE d.bytes = 0
        <5>1. Len(q) + 1 \in 1..Len(p) /\ p[Len(q) + 1].len = d.bytes + x.len
          BY <3>1, <4>1, <1>3
        <5> QED BY <5>1
      <4>2. CASE d.bytes # 0
        BY <4>2, <1>1, <1>3, <1>6, AuditAssumption
      <4> QED BY <4>1, <4>2
    <3> QED BY Zenon, <2>4, <3>3, <3>5, <3>6 DEF Held
  <2> HIDE DEF p, q, r, e
  <2> QED BY <1>2, <2>2, <2>4, <2>5, <2>6 DEF Stands, r
<1> QED
  BY Zenon, <1>5, <1>6

(* Lines alone stand for as many records.                                   *)
LEMMA LinesStand ==
  ASSUME NEW s \in Seq(Kept), \A i \in 1..Len(s) : IsLine(s[i])
  PROVE  W(s) = Len(s)
<1> DEFINE f == [i \in 0..Len(s) |-> i]
<1>1. Covered(s) \in Seq(Nat) /\ Len(Covered(s)) = Len(s)
  BY DEF Covered
<1>2. Running(f, Covered(s))
  BY <1>1 DEF Running, Covered
<1>3. SumOf(Covered(s)) = f[Len(s)]
  <2> HIDE DEF f
  <2> QED BY Zenon, <1>1, <1>2, SumUnique
<1> QED
  BY <1>3, EntriesAre

(* What is before a line, if there are only lines.                          *)
LEMMA LineBehindLines ==
  ASSUME NEW s \in Seq(Kept), \A i \in 1..Len(s) : IsLine(s[i]),
         NEW lo \in Nat, NEW hi \in Nat, NEW b \in Nat, Faithful(Entries(s), lo, hi, b),
         NEW k \in 1..Len(s)
  PROVE  /\ lo < s[k].n /\ s[k].n <= hi /\ s[k].n <= 1 + b + (k - 1)
         /\ \A j \in 1..(k - 1) : s[j].n < s[k].n
<1> DEFINE es == Entries(s)
           p == SubSeq(s, 1, k - 1)
<1>1. es \in Seq(Entry) /\ Len(es) = Len(s) /\ \A i \in 1..Len(s) : es[i].n = s[i].n
  BY Zenon, EntriesAre
<1>2. \A i \in 1..Len(s) : s[i].n # 0
  BY DEF IsLine
<1>3. Sound(es, k, lo, hi, b)
  <2> HIDE DEF es
  <2> QED BY <1>1, <1>2 DEF Faithful, es
<1>4. p \in Seq(Kept) /\ Len(p) = k - 1 /\ \A i \in 1..Len(p) : IsLine(p[i])
  OBVIOUS
<1>5. SubSeq(es, 1, k - 1) = Entries(p)
  BY DEF Entries, Covered
<1>6. Weight(SubSeq(es, 1, k - 1)) = k - 1
  <2> HIDE DEF es, p
  <2> QED BY Zenon, <1>4, <1>5, LinesStand DEF W
<1>7. \A j \in 1..(k - 1) : j \in 1..Len(s)
  OBVIOUS
<1> HIDE DEF es
<1> QED
  BY Zenon, <1>1, <1>2, <1>3, <1>6, <1>7 DEF Sound

(* The enqueue of each line in turn is a loop.                              *)
LEMMA EnqueueLoop ==
  ASSUME NEW d \in Delivery, NEW lines \in Seq(Kept)
  PROVE  \E f : /\ f[0] = d /\ f[Len(lines)] = EnqueueAll(d, lines)
                /\ \A k \in 1..Len(lines) : f[k] = Enqueue(f[k - 1], lines[k])
<1> DEFINE n == Len(lines)
           G(x, i) == Enqueue(x, lines[i])
           F == [p \in (1..n) \X Delivery |-> G(p[2], p[1])]
<1>1. n \in Nat
  OBVIOUS
<1>2. ASSUME NEW i \in 1..n, NEW x \in Delivery PROVE G(x, i) \in Delivery
  <2>1. lines[i] \in Kept
    OBVIOUS
  <2> QED BY <2>1, EnqueueType
<1>3. F \in Steps(n, Delivery)
  <2> HIDE DEF n, G
  <2> QED BY <1>2 DEF Steps
<1>4. PICK f : Iterates(f, n, Delivery, d, F)
  <2> HIDE DEF n, F
  <2> QED BY <1>1, <1>3, Iteration
<1>5. ASSUME NEW i \in 1..n PROVE f[i] = G(f[i - 1], i)
  <2> HIDE DEF n, G
  <2>1. f[i - 1] \in Delivery
    BY <1>4, <1>1 DEF Iterates
  <2> QED BY Zenon, <1>4, <2>1 DEF Iterates
<1>6. f = [k \in 0..n |-> IF k = 0 THEN d ELSE G(f[k - 1], k)]
  <2> HIDE DEF n, G
  <2> QED BY <1>4, <1>5 DEF Iterates
<1> DEFINE after == CHOOSE h : h = [k \in 0..n |-> IF k = 0 THEN d ELSE G(h[k - 1], k)]
<1>7. after = [k \in 0..n |-> IF k = 0 THEN d ELSE G(after[k - 1], k)]
  <2> HIDE DEF n, G
  <2> QED BY Zenon, <1>6
<1>8. EnqueueAll(d, lines) = after[n]
  BY DEF EnqueueAll
<1>9. after[0] = d /\ \A k \in 1..n : after[k] = G(after[k - 1], k)
  <2> HIDE DEF after, G, n
  <2> QED BY <1>1, <1>7
<1> HIDE DEF after
<1> QED
  BY <1>8, <1>9

(* Lines that follow a queue stand behind it once they were enqueued.       *)
LEMMA EnqueueAllIs ==
  ASSUME NEW d, NEW fl \in Seq(Kept), NEW lo \in Nat, NEW hi \in Nat, NEW top \in Nat,
         NEW b \in Nat, NEW w \in Nat, Stands(d, fl, lo, hi, b, w), lo <= hi, hi <= top,
         NEW lines \in Seq(Kept), \A i \in 1..Len(lines) : IsLine(lines[i]),
         Faithful(Entries(lines), hi, top, b + w)
  PROVE  Stands(EnqueueAll(d, lines), fl, lo, top, b, w + Len(lines))
<1> DEFINE n == Len(lines)
           bound(k) == IF k = 0 THEN hi ELSE lines[k].n
<1>1. d \in Delivery
  BY Zenon DEF Stands
<1>2. PICK f : /\ f[0] = d /\ f[n] = EnqueueAll(d, lines)
               /\ \A k \in 1..n : f[k] = Enqueue(f[k - 1], lines[k])
  BY <1>1, EnqueueLoop
<1>3. ASSUME NEW k \in 1..n
      PROVE  /\ lines[k] \in Kept /\ IsLine(lines[k]) /\ lines[k].n \in Nat
             /\ hi < lines[k].n /\ lines[k].n <= top /\ lines[k].n <= 1 + (b + w) + (k - 1)
             /\ \A j \in 1..(k - 1) : lines[j].n < lines[k].n
  <2>1. lines[k] \in Kept /\ b + w \in Nat
    OBVIOUS
  <2>2. lines[k].n \in Nat
    BY <2>1, KeptFields
  <2> QED BY Zenon, <2>1, <2>2, LineBehindLines
<1> DEFINE S == {k \in 0..n : Stands(f[k], fl, lo, bound(k), b, w + k)}
<1>4. n \in Nat
  OBVIOUS
<1>5. 0 \in S
  BY <1>2, <1>4
<1>6. ASSUME NEW k \in 1..n, k - 1 \in S PROVE k \in S
  <2>1. Stands(f[k - 1], fl, lo, bound(k - 1), b, w + (k - 1))
    BY Zenon, <1>6
  <2>2. bound(k - 1) \in Nat /\ lo <= bound(k - 1) /\ bound(k - 1) < lines[k].n
    <3>1. CASE k = 1
      <4>1. k - 1 = 0
        BY <3>1
      <4>2. bound(k - 1) = hi
        BY Zenon, <4>1
      <4> QED BY Zenon, <1>3, <4>2
    <3>2. CASE k # 1
      <4>1. k - 1 \in 1..n /\ k - 1 \in 1..(k - 1) /\ k - 1 # 0
        BY <3>2, <1>4
      <4>2. lines[k - 1].n \in Nat /\ hi < lines[k - 1].n /\ lines[k - 1].n < lines[k].n
        BY <4>1, <1>3
      <4> QED BY <4>1, <4>2
    <3> QED BY Zenon, <3>1, <3>2
  <2>3. /\ lines[k] \in Kept /\ IsLine(lines[k]) /\ w + (k - 1) \in Nat
        /\ lines[k].n <= 1 + b + (w + (k - 1))
    <3>1. /\ lines[k] \in Kept /\ IsLine(lines[k]) /\ lines[k].n \in Nat
          /\ lines[k].n <= 1 + (b + w) + (k - 1)
      BY <1>3
    <3>2. w + (k - 1) \in Nat /\ 1 + (b + w) + (k - 1) = 1 + b + (w + (k - 1))
      BY <1>4
    <3> QED BY Zenon, <3>1, <3>2
  <2>4. Stands(Enqueue(f[k - 1], lines[k]), fl, lo, lines[k].n, b, (w + (k - 1)) + 1)
    <3> HIDE DEF bound, n
    <3> QED BY Zenon, <2>1, <2>2, <2>3, EnqueueIs
  <2>5. f[k] = Enqueue(f[k - 1], lines[k]) /\ (w + (k - 1)) + 1 = w + k /\ k # 0
    BY <1>2, <1>4
  <2>6. bound(k) = lines[k].n
    BY Zenon, <2>5
  <2> HIDE DEF bound, n
  <2>7. Stands(f[k], fl, lo, bound(k), b, w + k)
    BY <2>4, <2>5, <2>6
  <2>8. k \in 0..n
    BY <1>4
  <2> QED BY Zenon, <2>7, <2>8
<1>7. \A k \in 0..n : k \in S
  <2> HIDE DEF S, n
  <2> QED BY Zenon, <1>4, <1>5, <1>6, InductionTo
<1>8. Stands(f[n], fl, lo, bound(n), b, w + n)
  <2>1. n \in S
    BY <1>4, <1>7
  <2> HIDE DEF bound, n
  <2> QED BY Zenon, <2>1
<1>9. bound(n) \in Nat /\ bound(n) <= top
  BY <1>3, <1>4
<1>10. f[n].q \in Seq(Kept) /\ Faithful(Entries(f[n].q), lo, bound(n), b)
  <2> HIDE DEF bound, n
  <2> QED BY Zenon, <1>8 DEF Stands, Delivery
<1>11. Entries(f[n].q) \in Seq(Entry)
  <2> HIDE DEF n
  <2> QED BY <1>10, EntriesAre
<1>12. Faithful(Entries(f[n].q), lo, top, b)
  <2>1. lo <= lo /\ b <= b
    OBVIOUS
  <2> HIDE DEF bound, n
  <2> QED BY Zenon, <2>1, <1>9, <1>10, <1>11, FaithfulWider
<1> HIDE DEF bound
<1> QED
  BY Zenon, <1>2, <1>8, <1>12 DEF Stands

-----------------------------------------------------------------------------
(* The ring.                                                               *)

\* A ring of lines only, its bytes counted, faithful behind b records and the
\* lines it lost.
RingHolds(r, lo, hi, b) ==
  /\ r \in [lines : Seq(Kept), used : Nat, lost : Nat]
  /\ r.used = Bytes(r.lines) /\ r.used <= RingCapacity
  /\ \A i \in 1..Len(r.lines) : IsLine(r.lines[i])
  /\ Faithful(Entries(r.lines), lo, hi, b + r.lost)

(* A sequence in two parts.                                                 *)
LEMMA Split ==
  ASSUME NEW s \in Seq(Kept), NEW k \in 0..Len(s)
  PROVE  LET p == SubSeq(s, 1, k)
             t == SubSeq(s, k + 1, Len(s))
         IN /\ p \in Seq(Kept) /\ t \in Seq(Kept) /\ s = p \o t /\ k \in Nat
            /\ Len(p) = k /\ Len(t) = Len(s) - k /\ Len(t) \in Nat
            /\ \A i \in 1..Len(p) : i \in 1..Len(s) /\ p[i] = s[i]
            /\ \A i \in 1..Len(t) : k + i \in 1..Len(s) /\ t[i] = s[k + i]
<1> DEFINE p == SubSeq(s, 1, k)
           t == SubSeq(s, k + 1, Len(s))
<1>1. Len(s) \in Nat /\ k \in Nat /\ k <= Len(s)
  OBVIOUS
<1>2. p \in Seq(Kept) /\ Len(p) = k /\ \A i \in 1..k : i \in 1..Len(s) /\ p[i] = s[i]
  OBVIOUS
<1>3. t \in Seq(Kept) /\ Len(t) = Len(s) - k /\ \A i \in 1..Len(t) : t[i] = s[k + i]
  OBVIOUS
<1> HIDE DEF p, t
<1>4. Len(t) \in Nat /\ \A i \in 1..Len(t) : k + i \in 1..Len(s)
  BY <1>1, <1>3
<1>5. s = p \o t
  <2>1. p \o t \in Seq(Kept) /\ Len(p \o t) = Len(s)
    BY <1>1, <1>2, <1>3
  <2>2. ASSUME NEW i \in 1..Len(s) PROVE (p \o t)[i] = s[i]
    <3>1. CASE i <= k
      BY <1>1, <1>2, <1>3, <3>1
    <3>2. CASE i > k
      <4>1. i - k \in 1..Len(t) /\ k + (i - k) = i
        BY <1>1, <1>3, <3>2
      <4>2. (p \o t)[i] = t[i - k]
        BY <1>1, <1>2, <1>3, <3>2
      <4> QED BY <1>3, <4>1, <4>2
    <3>3. i <= k \/ i > k
      BY <1>1
    <3> QED BY Zenon, <3>1, <3>2, <3>3
  <2> DEFINE u == p \o t
  <2>3. u \in Seq(Kept) /\ Len(u) = Len(s) /\ \A i \in 1..Len(s) : u[i] = s[i]
    BY <2>1, <2>2
  <2> HIDE DEF u
  <2>4. u = s
    BY <2>3
  <2> QED BY <2>4 DEF u
<1> QED
  BY Zenon, <1>1, <1>2, <1>3, <1>4, <1>5 DEF p, t

(* The lines of a ring without the first k, and a line behind them.         *)
LEMMA RoomMade ==
  ASSUME NEW lines \in Seq(Kept), \A i \in 1..Len(lines) : IsLine(lines[i]),
         NEW lo \in Nat, NEW hi \in Nat, NEW b \in Nat, Faithful(Entries(lines), lo, hi, b),
         NEW x \in Kept, IsLine(x), lo <= hi, hi < x.n, x.n <= 1 + b + Len(lines),
         NEW k \in 0..Len(lines)
  PROVE  LET rest == Append(SubSeq(lines, k + 1, Len(lines)), x)
         IN /\ rest \in Seq(Kept) /\ Len(rest) = Len(lines) - k + 1
            /\ \A i \in 1..Len(rest) : IsLine(rest[i])
            /\ Bytes(rest) = Bytes(lines) - Bytes(SubSeq(lines, 1, k)) + x.len
            /\ Faithful(Entries(rest), lo, x.n, b + k)
<1> DEFINE p == SubSeq(lines, 1, k)
           t == SubSeq(lines, k + 1, Len(lines))
           rest == t \o <<x>>
           e == [n |-> x.n, w |-> 1]
<1>1. /\ p \in Seq(Kept) /\ t \in Seq(Kept) /\ lines = p \o t /\ k \in Nat
      /\ Len(p) = k /\ Len(t) = Len(lines) - k /\ Len(t) \in Nat
  BY Zenon, Split
<1>2. /\ \A i \in 1..Len(p) : IsLine(p[i])
      /\ \A i \in 1..Len(t) : IsLine(t[i])
  <2>1. \A i \in 1..Len(p) : i \in 1..Len(lines) /\ p[i] = lines[i]
    BY Zenon, Split
  <2>2. \A i \in 1..Len(t) : k + i \in 1..Len(lines) /\ t[i] = lines[k + i]
    BY Zenon, Split
  <2> HIDE DEF p, t
  <2> QED BY Zenon, <2>1, <2>2
<1> HIDE DEF p, t
<1>3. Append(t, x) = rest /\ rest \in Seq(Kept) /\ Len(rest) = Len(lines) - k + 1
  <2>1. Append(t, x) = rest
    BY <1>1
  <2>2. rest \in Seq(Kept)
    BY <1>1
  <2>3. Len(rest) = Len(t) + 1
    <3>1. t \in Seq(Kept)
      BY Zenon, <1>1
    <3> QED BY <3>1
  <2> QED BY Zenon, <2>1, <2>2, <2>3, <1>1
<1>4. \A i \in 1..Len(rest) : IsLine(rest[i])
  BY <1>1, <1>2
<1>5. /\ <<x>> \in Seq(Kept) /\ e \in Entry /\ Entries(<<x>>) = <<e>>
      /\ Bytes(<<x>>) = x.len /\ e.n = x.n /\ x.n \in Nat /\ x.len \in Nat
  BY Zenon, EntriesSmall, KeptFields
<1>6. /\ W(p) = k /\ W(t) = Len(t) /\ Bytes(p) \in Nat /\ Bytes(t) \in Nat
      /\ Entries(p) \in Seq(Entry) /\ Entries(t) \in Seq(Entry)
  BY Zenon, <1>1, <1>2, LinesStand, EntriesAre
<1>7. Entries(lines) = Entries(p) \o Entries(t) /\ Bytes(lines) = Bytes(p) + Bytes(t)
  BY <1>1, EntriesConcat
<1>8. /\ Entries(rest) = Entries(t) \o <<e>> /\ Bytes(rest) = Bytes(t) + x.len
  <2>1. /\ Entries(rest) = Entries(t) \o Entries(<<x>>)
        /\ Bytes(rest) = Bytes(t) + Bytes(<<x>>)
    BY Zenon, <1>1, <1>5, EntriesConcat
  <2> HIDE DEF e, rest
  <2> QED BY Zenon, <2>1, <1>5
<1> HIDE DEF rest, e
<1>9. Bytes(rest) = Bytes(lines) - Bytes(p) + x.len
  BY <1>5, <1>6, <1>7, <1>8
<1>10. Faithful(Entries(t), lo, hi, b + k)
  <2>1. Faithful(Entries(p) \o Entries(t), lo, hi, b)
    BY Zenon, <1>7
  <2>2. Faithful(Entries(t), lo, hi, b + Weight(Entries(p)))
    BY Zenon, <1>6, <2>1, FaithfulParts
  <2> QED BY Zenon, <2>2, <1>6 DEF W
<1>11. Faithful(<<e>>, hi, x.n, (b + k) + Weight(Entries(t)))
  <2>1. Weight(Entries(t)) = Len(t)
    BY Zenon, <1>6 DEF W
  <2>2. (b + k) + Weight(Entries(t)) = b + Len(lines) /\ (b + k) + Weight(Entries(t)) \in Nat
    BY <1>1, <2>1
  <2>3. e.n # 0 => hi < e.n /\ e.n <= x.n /\ e.n <= 1 + ((b + k) + Weight(Entries(t)))
    BY <1>5, <2>2
  <2> QED BY Zenon, <1>5, <2>2, <2>3, FaithfulLine
<1>12. Faithful(Entries(rest), lo, x.n, b + k)
  <2>1. <<e>> \in Seq(Entry) /\ hi <= x.n /\ b + k \in Nat
    BY <1>1, <1>5
  <2>2. Faithful(Entries(t) \o <<e>>, lo, x.n, b + k)
    BY Zenon, <1>5, <1>6, <1>10, <1>11, <2>1, FaithfulConcat
  <2> QED BY Zenon, <2>2, <1>8
<1> QED
  BY Zenon, <1>3, <1>4, <1>9, <1>12 DEF p, t

(* LineRing::push keeps the bytes within the capacity; the line is behind   *)
(* the others or, like those that make room, counted as lost.               *)
LEMMA RingPushIs ==
  ASSUME NEW r, NEW lo \in Nat, NEW hi \in Nat, NEW b \in Nat, RingHolds(r, lo, hi, b),
         NEW x \in Kept, IsLine(x), lo <= hi, hi < x.n,
         x.n <= 1 + b + (r.lost + Len(r.lines))
  PROVE  LET s == RingPush(r, x)
         IN /\ RingHolds(s, lo, x.n, b)
            /\ s.lost + Len(s.lines) = r.lost + Len(r.lines) + 1
<1> DEFINE s == RingPush(r, x)
           New == [lines : Seq(Kept), used : Nat, lost : Nat]
<1>1. PICK lines \in Seq(Kept) : r.lines = lines
  BY Zenon DEF RingHolds
<1>2. PICK used \in Nat : r.used = used
  BY Zenon DEF RingHolds
<1>3. PICK lost \in Nat : r.lost = lost
  BY Zenon DEF RingHolds
<1>4. r = [lines |-> lines, used |-> used, lost |-> lost]
  BY Zenon, <1>1, <1>2, <1>3 DEF RingHolds
<1>5. /\ used = Bytes(lines) /\ used <= RingCapacity
      /\ \A i \in 1..Len(lines) : IsLine(lines[i])
      /\ Faithful(Entries(lines), lo, hi, b + lost)
  BY <1>1, <1>2, <1>3 DEF RingHolds
<1>6. x.n \in Nat /\ x.len \in Nat /\ x.n # 0 /\ x.n <= 1 + (b + lost) + Len(lines)
  <2>1. x.n \in Nat /\ x.len \in Nat /\ x.n # 0
    BY KeptFields DEF IsLine
  <2> QED BY <2>1, <1>1, <1>3
<1>7. CASE x.len > RingCapacity
  <2>1. s = [lines |-> lines, used |-> used, lost |-> lost + 1]
    BY Zenon, <1>4, <1>7 DEF RingPush
  <2>2. Entries(lines) \in Seq(Entry)
    BY EntriesAre
  <2>3. /\ b + lost \in Nat /\ b + (lost + 1) \in Nat /\ b + lost <= b + (lost + 1)
        /\ lo <= lo /\ hi <= x.n
    BY <1>6
  <2>4. Faithful(Entries(lines), lo, x.n, b + (lost + 1))
    <3> DEFINE es == Entries(lines)
               old == b + lost
               new == b + (lost + 1)
    <3>1. Faithful(es, lo, hi, old) /\ x.n \in Nat
      BY <1>5, <1>6
    <3>2. es \in Seq(Entry) /\ old \in Nat /\ new \in Nat /\ old <= new
      BY <2>2, <2>3
    <3> HIDE DEF es, old, new
    <3>3. Faithful(es, lo, x.n, new)
      BY Zenon, <2>3, <3>1, <3>2, FaithfulWider
    <3> QED BY Zenon, <3>3 DEF es, new
  <2> HIDE DEF s
  <2>5. /\ s.lines = lines /\ s.used = used /\ s.lost = lost + 1
        /\ s \in [lines : Seq(Kept), used : Nat, lost : Nat]
    BY <2>1
  <2>6. RingHolds(s, lo, x.n, b)
    BY <1>5, <2>4, <2>5 DEF RingHolds
  <2>7. s.lost + Len(s.lines) = r.lost + Len(r.lines) + 1
    BY <1>1, <1>3, <2>5
  <2> QED BY <2>6, <2>7 DEF s
<1>8. CASE ~(x.len > RingCapacity)
  <2> DEFINE room(j) == used - Bytes(SubSeq(lines, 1, j)) + x.len
             J == {j \in 0..Len(lines) : room(j) <= RingCapacity}
             k == Min(J)
             rest == Append(SubSeq(lines, k + 1, Len(lines)), x)
  <2>1. s = [lines |-> rest, used |-> room(k), lost |-> lost + k]
    BY <1>4, <1>8, Zenon DEF RingPush
  <2>2. k \in J
    <3>1. SubSeq(lines, 1, Len(lines)) = lines
      OBVIOUS
    <3>2. room(Len(lines)) <= RingCapacity
      <4>1. Bytes(SubSeq(lines, 1, Len(lines))) = used
        BY Zenon, <1>5, <3>1
      <4>2. used - used + x.len = x.len /\ x.len <= RingCapacity
        BY <1>6, <1>8, AuditAssumption
      <4> QED BY <4>1, <4>2
    <3> HIDE DEF room
    <3>3. Len(lines) \in J
      BY <3>2
    <3>4. J \in SUBSET Nat /\ J # {}
      BY <3>3
    <3> HIDE DEF J
    <3>5. \E m \in J : \A j \in J : m <= j
      BY Zenon, <3>4, LeastNumber
    <3> QED BY <3>5, Zenon DEF Min
  <2> HIDE DEF k
  <2>3. k \in 0..Len(lines) /\ room(k) <= RingCapacity
    BY <2>2
  <2>4. /\ rest \in Seq(Kept) /\ Len(rest) = Len(lines) - k + 1
        /\ \A i \in 1..Len(rest) : IsLine(rest[i])
        /\ Bytes(rest) = Bytes(lines) - Bytes(SubSeq(lines, 1, k)) + x.len
        /\ Faithful(Entries(rest), lo, x.n, (b + lost) + k)
    <3>1. b + lost \in Nat
      OBVIOUS
    <3> QED BY Zenon, <1>5, <1>6, <2>3, <3>1, RoomMade
  <2>5. Bytes(rest) = room(k) /\ room(k) \in Nat
    <3>1. Bytes(rest) \in Nat
      BY Zenon, <2>4, EntriesAre
    <3> HIDE DEF rest
    <3> QED BY <1>5, <2>4, <3>1
  <2> HIDE DEF s, rest, room
  <2>6. /\ s.lines = rest /\ s.used = room(k) /\ s.lost = lost + k
        /\ s \in [lines : Seq(Kept), used : Nat, lost : Nat]
    BY <2>1, <2>3, <2>4, <2>5
  <2>7. (b + lost) + k = b + (lost + k)
    BY <2>3
  <2>8. RingHolds(s, lo, x.n, b)
    <3>1. s.used = Bytes(s.lines) /\ s.used <= RingCapacity
      BY Zenon, <2>3, <2>5, <2>6
    <3>2. \A i \in 1..Len(s.lines) : IsLine(s.lines[i])
      BY Zenon, <2>4, <2>6
    <3>3. Faithful(Entries(s.lines), lo, x.n, b + s.lost)
      BY Zenon, <2>4, <2>6, <2>7
    <3> QED BY Zenon, <2>6, <3>1, <3>2, <3>3 DEF RingHolds
  <2>9. s.lost + Len(s.lines) = r.lost + Len(r.lines) + 1
    <3>1. Len(lines) \in Nat /\ k \in Nat
      BY <2>3
    <3>2. Len(s.lines) = Len(lines) - k + 1
      BY Zenon, <2>4, <2>6
    <3>3. s.lost + Len(s.lines) = (lost + k) + (Len(lines) - k + 1)
      BY Zenon, <2>6, <3>2
    <3> QED BY <1>1, <1>3, <3>1, <3>3
  <2> QED BY <2>8, <2>9 DEF s
<1> QED
  BY Zenon, <1>7, <1>8

-----------------------------------------------------------------------------
(* The sink.                                                               *)

Out == [n : 0..MaxRecords, lost : Nat]
OutEntries(outs) == [i \in 1..Len(outs) |-> [n |-> outs[i].n, w |-> Told(outs)[i]]]
OutW(outs) == Weight(OutEntries(outs))

(* The stretch of the log the sink was given.                               *)
LEMMA OutEntriesAre ==
  ASSUME NEW s \in Seq(Out)
  PROVE  /\ OutEntries(s) \in Seq(Entry) /\ Len(OutEntries(s)) = Len(s)
         /\ \A i \in 1..Len(s) : OutEntries(s)[i].n = s[i].n /\ s[i].n \in Nat
         /\ OutW(s) \in Nat /\ OutW(s) = SumOf(Told(s))
<1>1. ASSUME NEW i \in 1..Len(s) PROVE s[i].n \in Nat /\ s[i].lost \in Nat
  <2>1. s[i] \in Out
    OBVIOUS
  <2> QED BY <2>1 DEF Out
<1>2. ASSUME NEW i \in 1..Len(s) PROVE Told(s)[i] \in Nat
  BY Zenon, <1>1 DEF Told
<1>3. ASSUME NEW i \in 1..Len(s) PROVE [n |-> s[i].n, w |-> Told(s)[i]] \in Entry
  BY Zenon, <1>1, <1>2 DEF Entry
<1>4. OutEntries(s) \in Seq(Entry) /\ Len(OutEntries(s)) = Len(s)
  BY <1>3 DEF OutEntries
<1>5. \A i \in 1..Len(s) : OutEntries(s)[i].n = s[i].n /\ OutEntries(s)[i].w = Told(s)[i]
  BY DEF OutEntries
<1>6. Ws(OutEntries(s)) = Told(s)
  <2>1. Ws(OutEntries(s)) = [i \in 1..Len(s) |-> Told(s)[i]]
    BY <1>4, <1>5 DEF Ws
  <2> QED BY <2>1 DEF Told
<1>7. OutW(s) \in Nat /\ OutW(s) = SumOf(Told(s))
  BY <1>4, <1>6, WeightSmall DEF OutW, Weight
<1> QED
  BY <1>1, <1>4, <1>5, <1>7

(* What the sink is given is behind what it was given before.               *)
LEMMA OutConcat ==
  ASSUME NEW s \in Seq(Out), NEW t \in Seq(Out)
  PROVE  /\ s \o t \in Seq(Out) /\ OutEntries(s \o t) = OutEntries(s) \o OutEntries(t)
         /\ OutW(s \o t) = OutW(s) + OutW(t)
<1>1. s \o t \in Seq(Out)
  OBVIOUS
<1>2. OutEntries(s \o t) = OutEntries(s) \o OutEntries(t)
  BY DEF OutEntries, Told
<1>3. OutW(s \o t) = OutW(s) + OutW(t)
  BY <1>2, OutEntriesAre, WeightConcat DEF OutW
<1> QED
  BY Zenon, <1>1, <1>2, <1>3

(* One loss record per reason tells all the losses of a gap.                *)
LEMMA RecordsTellAll ==
  ASSUME NEW gap \in [Reasons -> Nat]
  PROVE  Records(gap) \in Seq(Nat) /\ SumOf(Records(gap)) = Total(gap)
<1> DEFINE record(reason) == IF gap[reason] > 0 THEN <<gap[reason]>> ELSE <<>>
           a == record("RingOverflow")
           b == record("SinkBackpressure")
           c == record("SinkError")
<1>1. ASSUME NEW reason \in Reasons
      PROVE  /\ record(reason) \in Seq(Nat) /\ SumOf(record(reason)) = gap[reason]
             /\ gap[reason] \in Nat
  <2>1. gap[reason] \in Nat
    OBVIOUS
  <2>2. CASE gap[reason] > 0
    BY <2>1, <2>2, SumSmall
  <2>3. CASE ~(gap[reason] > 0)
    <3>1. gap[reason] = 0 /\ record(reason) = <<>>
      BY <2>1, <2>3
    <3> QED BY <2>1, <3>1, SumSmall
  <2> QED BY <2>2, <2>3
<1>2. /\ "RingOverflow" \in Reasons /\ "SinkBackpressure" \in Reasons
      /\ "SinkError" \in Reasons
  BY DEF Reasons
<1>3. Records(gap) = (a \o b) \o c
  BY Zenon DEF Records
<1>4. /\ a \in Seq(Nat) /\ b \in Seq(Nat) /\ c \in Seq(Nat)
      /\ SumOf(a) = gap["RingOverflow"] /\ SumOf(b) = gap["SinkBackpressure"]
      /\ SumOf(c) = gap["SinkError"]
  <2> HIDE DEF record
  <2> QED BY <1>1, <1>2
<1> HIDE DEF a, b, c
<1>5. a \o b \in Seq(Nat) /\ (a \o b) \o c \in Seq(Nat)
  BY <1>4
<1>6. SumOf((a \o b) \o c) = (SumOf(a) + SumOf(b)) + SumOf(c)
  BY Zenon, <1>4, <1>5, SumConcat
<1> QED
  BY Zenon, <1>3, <1>4, <1>5, <1>6 DEF Total

(* The output of an item stands for the same records: the line itself, or   *)
(* loss records only.                                                       *)
LEMMA OutputIs ==
  ASSUME NEW x \in Kept
  PROVE  /\ Output(x) \in Seq(Out)
         /\ IsLine(x) => Len(Output(x)) = 1 /\ OutEntries(Output(x)) = Entries(<<x>>)
         /\ ~IsLine(x) => /\ \A i \in 1..Len(Output(x)) : Output(x)[i].n = 0
                          /\ OutW(Output(x)) = Total(x.gap)
<1> DEFINE o == Output(x)
<1>1. x.n \in 0..MaxRecords /\ x.gap \in [Reasons -> Nat]
  BY KeptFields, AuditAssumption
<1>2. CASE IsLine(x)
  <2>1. o = <<[n |-> x.n, lost |-> 0]>>
    BY <1>2 DEF Output
  <2>2. o \in Seq(Out) /\ Len(o) = 1 /\ o[1].n = x.n
    <3>1. [n |-> x.n, lost |-> 0] \in Out
      BY Zenon, <1>1 DEF Out
    <3> HIDE DEF o
    <3> QED BY <2>1, <3>1
  <2>3. OutEntries(o) = <<[n |-> x.n, w |-> 1]>>
    <3> HIDE DEF o
    <3> QED BY <1>2, <2>2 DEF OutEntries, Told, IsLine
  <2>4. Entries(<<x>>) = <<[n |-> x.n, w |-> 1]>>
    BY <1>2 DEF Entries, Covered
  <2> QED BY Zenon, <1>2, <2>2, <2>3, <2>4
<1>3. CASE ~IsLine(x)
  <2> DEFINE rs == Records(x.gap)
  <2>1. rs \in Seq(Nat) /\ SumOf(rs) = Total(x.gap)
    BY Zenon, <1>1, RecordsTellAll
  <2>2. o = [i \in 1..Len(rs) |-> [n |-> 0, lost |-> rs[i]]]
    BY Zenon, <1>3 DEF Output
  <2> HIDE DEF rs, o
  <2>3. /\ Len(o) = Len(rs) /\ o \in Seq(Out)
        /\ \A i \in 1..Len(o) : o[i].n = 0 /\ o[i].lost = rs[i]
    <3>1. ASSUME NEW i \in 1..Len(rs) PROVE [n |-> 0, lost |-> rs[i]] \in Out
      <4>1. rs[i] \in Nat
        BY <2>1
      <4> QED BY <4>1, AuditAssumption DEF Out
    <3> QED BY <2>1, <2>2, <3>1
  <2>4. Told(o) = rs
    BY <2>1, <2>3 DEF Told, IsLine
  <2>5. OutW(o) = Total(x.gap)
    BY Zenon, <2>1, <2>3, <2>4, OutEntriesAre
  <2> QED BY Zenon, <1>3, <2>3, <2>5 DEF o
<1> QED
  BY <1>2, <1>3

(* The part of the output that a refused write left in the sink tells what  *)
(* it counts as told, and is no line.                                       *)
LEMMA PartTold ==
  ASSUME NEW x \in Kept, NEW m \in 0..(Len(Output(x)) - 1)
  PROVE  LET part == SubSeq(Output(x), 1, m)
         IN /\ part \in Seq(Out) /\ \A i \in 1..Len(part) : part[i].n = 0
            /\ OutW(part) = SumOf([i \in 1..m |-> Output(x)[i].lost])
<1> DEFINE o == Output(x)
           part == SubSeq(o, 1, m)
<1>1. o \in Seq(Out) /\ Len(o) \in Nat /\ m \in Nat /\ m <= Len(o) - 1
  <2>1. o \in Seq(Out)
    BY Zenon, OutputIs
  <2>2. m \in 0..(Len(o) - 1)
    OBVIOUS
  <2> HIDE DEF o
  <2> QED BY <2>1, <2>2
<1>2. /\ part \in Seq(Out) /\ Len(part) = m
      /\ \A i \in 1..m : i \in 1..Len(o) /\ part[i] = o[i]
  <2> HIDE DEF o
  <2> QED BY <1>1
<1>3. \A i \in 1..Len(part) : part[i].n = 0
  <2>1. CASE IsLine(x)
    <3>0. Len(o) = 1
      BY Zenon, <2>1, OutputIs
    <3>1. m = 0
      <4> HIDE DEF o
      <4> QED BY <3>0, <1>1
    <3> HIDE DEF part
    <3> QED BY <3>1, <1>2
  <2>2. CASE ~IsLine(x)
    <3>1. \A i \in 1..Len(o) : o[i].n = 0
      BY Zenon, <2>2, OutputIs
    <3> HIDE DEF part, o
    <3> QED BY <3>1, <1>2
  <2> QED BY <2>1, <2>2
<1> HIDE DEF part, o
<1>4. Told(part) = [i \in 1..m |-> o[i].lost]
  BY <1>2, <1>3 DEF Told, IsLine
<1>5. OutW(part) = SumOf([i \in 1..m |-> o[i].lost])
  BY Zenon, <1>2, <1>4, OutEntriesAre
<1> QED
  BY <1>2, <1>3, <1>5 DEF part, o

-----------------------------------------------------------------------------
(* The books of the router, and what each operation does to them.          *)

\* The sink, the item being written, the queue and the ring hold the log, one
\* behind the other: the numbers up to a, b, c and em in this order.
InLine(sk, fl, q, r, em, a, b, c) ==
  /\ a <= b /\ b <= c /\ c <= em
  /\ Faithful(OutEntries(sk), 0, a, 0)
  /\ Faithful(Entries(fl), a, b, OutW(sk))
  /\ Faithful(Entries(q), b, c, OutW(sk) + W(fl))
  /\ RingHolds(r, c, em, (OutW(sk) + W(fl)) + W(q))

\* Everything is counted, and the numbers up to mk have left for the sink.
Books(sk, fl, q, bytes, r, em, ag, mk) ==
  /\ sk \in Seq(Out) /\ fl \in Seq(Kept) /\ Held(q, bytes, fl)
  /\ em \in Nat /\ ag \in Nat
  /\ em + ag = (OutW(sk) + W(fl)) + W(q) + (r.lost + Len(r.lines))
  /\ \E a, b, c \in Nat : mk <= a /\ InLine(sk, fl, q, r, em, a, b, c)

EmptyRing == [lines |-> <<>>, used |-> 0, lost |-> 0]

(* The numbers in the books.                                                *)
LEMMA BookTypes ==
  ASSUME NEW sk, NEW fl, NEW q, NEW bytes, NEW r, NEW em, NEW ag, NEW mk,
         Books(sk, fl, q, bytes, r, em, ag, mk)
  PROVE  /\ sk \in Seq(Out) /\ fl \in Seq(Kept) /\ q \in Seq(Kept) /\ Held(q, bytes, fl)
         /\ OutEntries(sk) \in Seq(Entry) /\ Entries(fl) \in Seq(Entry)
         /\ Entries(q) \in Seq(Entry)
         /\ OutW(sk) \in Nat /\ W(fl) \in Nat /\ W(q) \in Nat /\ bytes \in Nat
         /\ r.lines \in Seq(Kept) /\ r.lost \in Nat /\ Len(r.lines) \in Nat
         /\ em \in Nat /\ ag \in Nat
         /\ em + ag = (OutW(sk) + W(fl)) + W(q) + (r.lost + Len(r.lines))
<1>1. /\ sk \in Seq(Out) /\ fl \in Seq(Kept) /\ Held(q, bytes, fl) /\ em \in Nat /\ ag \in Nat
      /\ em + ag = (OutW(sk) + W(fl)) + W(q) + (r.lost + Len(r.lines))
      /\ \E a, b, c \in Nat : InLine(sk, fl, q, r, em, a, b, c)
  BY Zenon DEF Books
<1>2. q \in Seq(Kept) /\ bytes = Bytes(fl) + Bytes(q)
  BY <1>1 DEF Held
<1>3. /\ OutEntries(sk) \in Seq(Entry) /\ Entries(fl) \in Seq(Entry) /\ Entries(q) \in Seq(Entry)
      /\ OutW(sk) \in Nat /\ W(fl) \in Nat /\ W(q) \in Nat
      /\ Bytes(fl) \in Nat /\ Bytes(q) \in Nat
  BY Zenon, <1>1, <1>2, OutEntriesAre, EntriesAre
<1>4. r \in [lines : Seq(Kept), used : Nat, lost : Nat]
  BY Zenon, <1>1 DEF InLine, RingHolds
<1>5. r.lines \in Seq(Kept) /\ r.lost \in Nat
  BY <1>4
<1>6. Len(r.lines) \in Nat
  BY <1>5
<1>7. bytes \in Nat
  BY <1>2, <1>3
<1> QED
  BY <1>1, <1>2, <1>3, <1>5, <1>6, <1>7, Zenon

(* An empty ring holds nothing, whatever the bounds.                        *)
LEMMA EmptyRingHolds ==
  ASSUME NEW lo, NEW hi, NEW b
  PROVE  RingHolds(EmptyRing, lo, hi, b)
<1>1. <<>> \in Seq(Kept) /\ Len(<<>>) = 0
  OBVIOUS
<1>2. Bytes(<<>>) = 0 /\ Entries(<<>>) = <<>> /\ 0 <= RingCapacity
  BY EntriesSmall, AuditAssumption
<1>3. Faithful(<<>>, lo, hi, b + 0)
  BY <1>1 DEF Faithful
<1>4. /\ EmptyRing \in [lines : Seq(Kept), used : Nat, lost : Nat]
      /\ EmptyRing.lines = <<>> /\ EmptyRing.used = 0 /\ EmptyRing.lost = 0
  BY Zenon, <1>1 DEF EmptyRing
<1> QED
  BY <1>1, <1>2, <1>3, <1>4 DEF RingHolds

(* A queue that took a record, in Normal mode.                              *)
LEMMA BooksQueue ==
  ASSUME NEW sk, NEW fl, NEW q, NEW bytes, NEW em, NEW ag, NEW mk,
         Books(sk, fl, q, bytes, EmptyRing, em, ag, mk), NEW d,
         \A lo, hi, b, w \in Nat :
            /\ Stands([q |-> q, bytes |-> bytes], fl, lo, hi, b, w) /\ lo <= hi /\ hi <= em
            /\ em <= b + w
            => Stands(d, fl, lo, em + 1, b, w + 1)
  PROVE  Books(sk, fl, d.q, d.bytes, EmptyRing, em + 1, ag, mk)
<1> DEFINE old == [q |-> q, bytes |-> bytes]
           base == OutW(sk) + W(fl)
<1>1. /\ sk \in Seq(Out) /\ fl \in Seq(Kept) /\ q \in Seq(Kept) /\ Held(q, bytes, fl)
      /\ OutW(sk) \in Nat /\ W(fl) \in Nat /\ W(q) \in Nat /\ bytes \in Nat
      /\ em \in Nat /\ ag \in Nat
      /\ em + ag = base + W(q) + (EmptyRing.lost + Len(EmptyRing.lines))
  BY BookTypes
<1>2. EmptyRing.lost + Len(EmptyRing.lines) = 0
  BY DEF EmptyRing
<1>3. base \in Nat /\ em + ag = base + W(q) /\ em <= base + W(q)
  BY <1>1, <1>2
<1>4. PICK a \in Nat : \E b, c \in Nat : mk <= a /\ InLine(sk, fl, q, EmptyRing, em, a, b, c)
  BY Zenon DEF Books
<1>5. PICK b \in Nat, c \in Nat : mk <= a /\ InLine(sk, fl, q, EmptyRing, em, a, b, c)
  BY Zenon, <1>4
<1>6. /\ a <= b /\ b <= c /\ c <= em /\ Faithful(OutEntries(sk), 0, a, 0)
      /\ Faithful(Entries(fl), a, b, OutW(sk)) /\ Faithful(Entries(q), b, c, base)
  BY Zenon, <1>5 DEF InLine
<1>7. Stands(old, fl, b, c, base, W(q))
  <2>1. old.q = q /\ old.bytes = bytes /\ old \in Delivery
    BY Zenon, <1>1 DEF Delivery
  <2> HIDE DEF old, base
  <2> QED BY <1>1, <1>6, <2>1 DEF Stands
<1>8. Stands(d, fl, b, em + 1, base, W(q) + 1)
  <2> HIDE DEF base
  <2> QED BY Zenon, <1>1, <1>3, <1>6, <1>7
<1>9. Held(d.q, d.bytes, fl) /\ W(d.q) = W(q) + 1 /\ Faithful(Entries(d.q), b, em + 1, base)
  <2> HIDE DEF base
  <2> QED BY Zenon, <1>8 DEF Stands
<1>10. RingHolds(EmptyRing, em + 1, em + 1, base + W(d.q))
  BY Zenon, EmptyRingHolds
<1>11. InLine(sk, fl, d.q, EmptyRing, em + 1, a, b, em + 1)
  <2>1. b <= em + 1 /\ em + 1 <= em + 1
    BY <1>1, <1>6
  <2> QED BY Zenon, <1>6, <1>9, <1>10, <2>1 DEF InLine
<1>12. /\ em + 1 \in Nat
       /\ (em + 1) + ag = base + W(d.q) + (EmptyRing.lost + Len(EmptyRing.lines))
  <2> HIDE DEF base
  <2>0. em \in Nat /\ ag \in Nat /\ W(q) \in Nat
    BY <1>1
  <2>1. (em + 1) + ag = base + (W(q) + 1) /\ em + 1 \in Nat
    BY <2>0, <1>3
  <2>2. base + W(d.q) + 0 = base + (W(q) + 1)
    BY <1>1, <1>3, <1>9
  <2> QED BY <2>1, <2>2, <1>2
<1> QED
  BY Zenon, <1>1, <1>5, <1>9, <1>11, <1>12 DEF Books

(* write_record in Normal mode: enqueued.                                   *)
LEMMA BooksEnqueue ==
  ASSUME NEW sk, NEW fl, NEW q, NEW bytes, NEW em, NEW ag, NEW mk,
         Books(sk, fl, q, bytes, EmptyRing, em, ag, mk), NEW x \in Kept, x.n = em + 1
  PROVE  LET d == Enqueue([q |-> q, bytes |-> bytes], x)
         IN Books(sk, fl, d.q, d.bytes, EmptyRing, em + 1, ag, mk)
<1> DEFINE d == Enqueue([q |-> q, bytes |-> bytes], x)
<1>1. fl \in Seq(Kept) /\ em \in Nat
  BY Zenon, BookTypes
<1>2. ASSUME NEW lo \in Nat, NEW hi \in Nat, NEW b \in Nat, NEW w \in Nat,
             Stands([q |-> q, bytes |-> bytes], fl, lo, hi, b, w), lo <= hi, hi <= em,
             em <= b + w
      PROVE  Stands(d, fl, lo, em + 1, b, w + 1)
  <2>1. IsLine(x) /\ hi < x.n /\ x.n <= 1 + b + w
    BY <1>1, <1>2 DEF IsLine
  <2>2. Stands(d, fl, lo, x.n, b, w + 1)
    BY <1>1, <1>2, <2>1, EnqueueIs
  <2> QED BY Zenon, <2>2
<1> HIDE DEF d
<1>3. Books(sk, fl, d.q, d.bytes, EmptyRing, em + 1, ag, mk)
  BY <1>2, BooksQueue
<1> QED
  BY <1>3 DEF d

(* write_record with the writer gone: lost.                                 *)
LEMMA BooksLose ==
  ASSUME NEW sk, NEW fl, NEW q, NEW bytes, NEW em, NEW ag, NEW mk,
         Books(sk, fl, q, bytes, EmptyRing, em, ag, mk)
  PROVE  Books(sk, fl, Lose(q, 1, "SinkError"), bytes, EmptyRing, em + 1, ag, mk)
<1> DEFINE p == Lose(q, 1, "SinkError")
           d == [q |-> p, bytes |-> bytes]
<1>1. fl \in Seq(Kept) /\ em \in Nat /\ q \in Seq(Kept) /\ bytes \in Nat
  BY BookTypes
<1>2. LostBehind(q, p, 1)
  BY Zenon, <1>1, LoseIs DEF Reasons
<1> HIDE DEF p
<1>3. d.q = p /\ d.bytes = bytes /\ d \in Delivery
  BY Zenon, <1>1, <1>2 DEF LostBehind, Delivery
<1> HIDE DEF d
<1>4. ASSUME NEW lo \in Nat, NEW hi \in Nat, NEW b \in Nat, NEW w \in Nat,
             Stands([q |-> q, bytes |-> bytes], fl, lo, hi, b, w), lo <= hi, hi <= em,
             em <= b + w
      PROVE  Stands(d, fl, lo, em + 1, b, w + 1)
  <2>1. Held(q, bytes, fl) /\ W(q) = w /\ Faithful(Entries(q), lo, hi, b)
    BY Zenon, <1>4 DEF Stands
  <2>2. /\ Held(p, bytes, fl) /\ W(p) = w + 1 /\ Faithful(Entries(p), lo, hi, b)
        /\ p \in Seq(Kept)
    BY <1>1, <1>2, <1>4, <2>1 DEF LostBehind
  <2>a. Entries(p) \in Seq(Entry)
    BY Zenon, <2>2, EntriesAre
  <2>b. hi <= em + 1 /\ lo <= lo /\ b <= b /\ em + 1 \in Nat
    BY <1>1, <1>4
  <2>3. Entries(p) \in Seq(Entry) /\ hi <= em + 1 /\ lo <= lo /\ b <= b /\ em + 1 \in Nat
    BY Zenon, <2>a, <2>b
  <2>4. Faithful(Entries(p), lo, em + 1, b)
    BY Zenon, <2>2, <2>3, FaithfulWider
  <2> QED BY Zenon, <1>3, <2>2, <2>4 DEF Stands
<1>5. Books(sk, fl, d.q, d.bytes, EmptyRing, em + 1, ag, mk)
  BY Zenon, <1>4, BooksQueue
<1> QED
  BY Zenon, <1>3, <1>5 DEF p

(* write_record in Ring mode.                                               *)
LEMMA BooksRing ==
  ASSUME NEW sk, NEW fl, NEW q, NEW bytes, NEW r, NEW em, NEW ag, NEW mk,
         Books(sk, fl, q, bytes, r, em, ag, mk), NEW x \in Kept, x.n = em + 1
  PROVE  Books(sk, fl, q, bytes, RingPush(r, x), em + 1, ag, mk)
<1> DEFINE base == (OutW(sk) + W(fl)) + W(q)
           s == RingPush(r, x)
<1>1. /\ sk \in Seq(Out) /\ fl \in Seq(Kept) /\ Held(q, bytes, fl)
      /\ OutW(sk) \in Nat /\ W(fl) \in Nat /\ W(q) \in Nat
      /\ r.lost \in Nat /\ Len(r.lines) \in Nat /\ em \in Nat /\ ag \in Nat
      /\ em + ag = base + (r.lost + Len(r.lines))
  BY BookTypes
<1>2. base \in Nat
  BY <1>1
<1>3. PICK a \in Nat : \E b, c \in Nat : mk <= a /\ InLine(sk, fl, q, r, em, a, b, c)
  BY Zenon DEF Books
<1>4. PICK b \in Nat, c \in Nat : mk <= a /\ InLine(sk, fl, q, r, em, a, b, c)
  BY <1>3
<1>5. /\ a <= b /\ b <= c /\ c <= em /\ Faithful(OutEntries(sk), 0, a, 0)
      /\ Faithful(Entries(fl), a, b, OutW(sk)) /\ Faithful(Entries(q), b, c, OutW(sk) + W(fl))
      /\ RingHolds(r, c, em, base)
  BY Zenon, <1>4 DEF InLine
<1> HIDE DEF base, s
<1>k. PICK k \in Nat : k = r.lost + Len(r.lines)
  BY <1>1
<1>l. em + ag = base + k
  BY Zenon, <1>1, <1>k
<1>m. em \in Nat /\ ag \in Nat
  BY Zenon, <1>1
<1>n. em < em + 1 /\ em + 1 # 0 /\ em + 1 <= 1 + base + k /\ em + 1 \in Nat
  BY <1>2, <1>l, <1>m
<1>6. IsLine(x) /\ em < x.n /\ x.n <= 1 + base + (r.lost + Len(r.lines))
  BY Zenon, <1>k, <1>n DEF IsLine
<1>7. RingHolds(s, c, x.n, base) /\ s.lost + Len(s.lines) = r.lost + Len(r.lines) + 1
  BY <1>m, <1>2, <1>5, <1>6, RingPushIs DEF s
<1>8. c <= em + 1 /\ em + 1 \in Nat
  BY <1>1, <1>5
<1>9. (em + 1) + ag = base + (s.lost + Len(s.lines))
  <2>1. (em + 1) + ag = base + (k + 1)
    BY <1>2, <1>l, <1>m
  <2> QED BY Zenon, <1>7, <1>k, <2>1
<1>10. InLine(sk, fl, q, s, em + 1, a, b, c)
  <2>1. RingHolds(s, c, em + 1, base)
    BY <1>7
  <2> QED BY Zenon, <1>5, <1>8, <2>1 DEF InLine, base
<1> QED
  BY Zenon, <1>1, <1>4, <1>8, <1>9, <1>10 DEF Books, base, s

(* flush_to_normal: the loss of the ring, then its lines, behind the queue. *)
LEMMA BooksFlush ==
  ASSUME NEW sk, NEW fl, NEW q, NEW bytes, NEW r, NEW em, NEW ag, NEW mk,
         Books(sk, fl, q, bytes, r, em, ag, mk)
  PROVE  LET start == IF r.lost > 0 THEN Lose(q, r.lost, "RingOverflow") ELSE q
             d == EnqueueAll([q |-> start, bytes |-> bytes], r.lines)
         IN Books(sk, fl, d.q, d.bytes, EmptyRing, em, ag, mk)
<1> DEFINE start == IF r.lost > 0 THEN Lose(q, r.lost, "RingOverflow") ELSE q
           first == [q |-> start, bytes |-> bytes]
           d == EnqueueAll(first, r.lines)
           base == OutW(sk) + W(fl)
<1>1. /\ sk \in Seq(Out) /\ fl \in Seq(Kept) /\ Held(q, bytes, fl) /\ q \in Seq(Kept)
      /\ OutW(sk) \in Nat /\ W(fl) \in Nat /\ W(q) \in Nat /\ bytes \in Nat
      /\ r.lines \in Seq(Kept) /\ r.lost \in Nat /\ Len(r.lines) \in Nat
      /\ em \in Nat /\ ag \in Nat
  BY Zenon, BookTypes
<1>2. em + ag = base + W(q) + (r.lost + Len(r.lines)) /\ base \in Nat
  <2>1. em + ag = ((OutW(sk) + W(fl)) + W(q)) + (r.lost + Len(r.lines))
    BY BookTypes
  <2>2. base \in Nat
    BY <1>1
  <2> QED BY Zenon, <2>1, <2>2
<1>k. PICK l \in Nat : r.lost = l
  BY Zenon, <1>1
<1>l. PICK n \in Nat : Len(r.lines) = n
  BY Zenon, <1>1
<1>m. PICK w \in Nat : W(q) = w
  BY Zenon, <1>1
<1>n. em + ag = base + w + (l + n) /\ em \in Nat /\ ag \in Nat
  BY Zenon, <1>1, <1>2, <1>k, <1>l, <1>m
<1>3. PICK a \in Nat : \E b, c \in Nat : mk <= a /\ InLine(sk, fl, q, r, em, a, b, c)
  BY Zenon DEF Books
<1>4. PICK b \in Nat, c \in Nat : mk <= a /\ InLine(sk, fl, q, r, em, a, b, c)
  BY Zenon, <1>3
<1>5. /\ a <= b /\ b <= c /\ c <= em /\ Faithful(OutEntries(sk), 0, a, 0)
      /\ Faithful(Entries(fl), a, b, OutW(sk)) /\ Faithful(Entries(q), b, c, base)
      /\ RingHolds(r, c, em, base + W(q))
  BY Zenon, <1>4 DEF InLine
<1>6. /\ \A i \in 1..Len(r.lines) : IsLine(r.lines[i])
      /\ Faithful(Entries(r.lines), c, em, (base + W(q)) + r.lost)
  <2> HIDE DEF base
  <2> QED BY Zenon, <1>5 DEF RingHolds
<1>7. Held(start, bytes, fl) /\ W(start) = W(q) + r.lost /\ Faithful(Entries(start), b, c, base)
      /\ start \in Seq(Kept)
  <2>1. CASE r.lost > 0
    <3> DEFINE p == Lose(q, r.lost, "RingOverflow")
    <3>1. LostBehind(q, p, r.lost)
      BY <1>1, LoseIs DEF Reasons
    <3>2. start = p
      BY Zenon, <2>1
    <3> HIDE DEF p, start, base
    <3>3. Held(p, bytes, fl) /\ p \in Seq(Kept) /\ W(p) = W(q) + r.lost
      BY Zenon, <1>1, <3>1 DEF LostBehind
    <3>4. Faithful(Entries(p), b, c, base)
      BY Zenon, <1>2, <1>5, <3>1 DEF LostBehind
    <3> QED BY Zenon, <3>2, <3>3, <3>4
  <2>2. CASE ~(r.lost > 0)
    <3>1. start = q /\ r.lost = 0
      BY <1>1, <2>2
    <3> HIDE DEF start, base
    <3> QED BY <1>1, <1>5, <3>1
  <2> QED BY Zenon, <2>1, <2>2
<1> HIDE DEF start, base
<1>8. Stands(first, fl, b, c, base, W(q) + r.lost)
  <2>1. first.q = start /\ first.bytes = bytes /\ first \in Delivery
    BY <1>1, <1>7 DEF Delivery
  <2> HIDE DEF first
  <2> QED BY Zenon, <1>7, <2>1 DEF Stands
<1> HIDE DEF first
<1>9. Stands(d, fl, b, em, base, (W(q) + r.lost) + Len(r.lines))
  <2>0. w + l \in Nat /\ (base + w) + l = base + (w + l)
    BY <1>2
  <2>1. W(q) + r.lost \in Nat /\ (base + W(q)) + r.lost = base + (W(q) + r.lost)
    BY <2>0, <1>k, <1>m
  <2>2. Faithful(Entries(r.lines), c, em, base + (W(q) + r.lost))
    BY Zenon, <1>6, <2>1
  <2> QED BY Zenon, <1>1, <1>2, <1>5, <1>6, <1>8, <2>1, <2>2, EnqueueAllIs
<1> HIDE DEF d
<1>10. /\ Held(d.q, d.bytes, fl) /\ W(d.q) = (W(q) + r.lost) + Len(r.lines)
       /\ Faithful(Entries(d.q), b, em, base)
  BY Zenon, <1>9 DEF Stands
<1>11. em + ag = base + W(d.q) + (EmptyRing.lost + Len(EmptyRing.lines))
  <2>1. EmptyRing.lost + Len(EmptyRing.lines) = 0
    BY DEF EmptyRing
  <2>2. em + ag = base + ((W(q) + r.lost) + Len(r.lines)) + 0
    <3>1. em + ag = base + ((w + l) + n) + 0
      BY <1>2, <1>n
    <3> QED BY Zenon, <3>1, <1>k, <1>l, <1>m
  <2> QED BY Zenon, <1>10, <2>1, <2>2
<1>12. InLine(sk, fl, d.q, EmptyRing, em, a, b, em)
  <2>1. RingHolds(EmptyRing, em, em, base + W(d.q))
    BY Zenon, EmptyRingHolds
  <2>2. b <= em /\ em <= em
    BY <1>1, <1>5
  <2> QED BY <1>5, <1>10, <2>1, <2>2 DEF InLine, base
<1> QED
  BY Zenon, <1>1, <1>4, <1>10, <1>11, <1>12 DEF Books, base, d, first, start

(* Whatever is held, a queue with one item in front of it.                  *)
LEMMA HeldTake ==
  ASSUME NEW x \in Kept, NEW t \in Seq(Kept), NEW bytes \in Nat,
         Held(<<x>> \o t, bytes, <<>>)
  PROVE  Held(t, bytes, <<x>>)
<1> DEFINE q == <<x>> \o t
<1>1. /\ q \in Seq(Kept) /\ Bytes(q) = x.len + Bytes(t) /\ Bytes(<<x>>) = x.len
      /\ Bytes(<<>>) = 0 /\ Bytes(t) \in Nat /\ x.len \in Nat
  <2>1. <<x>> \in Seq(Kept) /\ Bytes(<<x>>) = x.len /\ Bytes(<<>>) = 0
    BY Zenon, EntriesSmall
  <2>2. Bytes(t) \in Nat /\ x.len \in Nat
    BY EntriesAre, KeptFields
  <2>3. q \in Seq(Kept) /\ Bytes(q) = Bytes(<<x>>) + Bytes(t)
    BY Zenon, <2>1, EntriesConcat
  <2> QED BY <2>1, <2>2, <2>3
<1>2. Len(q) = Len(t) + 1 /\ q[1] = x /\ \A i \in 1..Len(t) : q[i + 1] = t[i]
  OBVIOUS
<1>3. /\ bytes = Bytes(<<>>) + Bytes(q) /\ OneGap(q)
      /\ bytes <= QueueCapacity \/ \E i \in 1..Len(q) : q[i].len = bytes
  BY DEF Held
<1> HIDE DEF q
<1>4. OneGap(t)
  <2> SUFFICES ASSUME NEW i \in 1..(Len(t) - 1) PROVE IsLine(t[i]) \/ IsLine(t[i + 1])
    BY Zenon DEF OneGap
  <2>1. i \in 1..Len(t) /\ i + 1 \in 1..Len(t) /\ i + 1 \in 1..(Len(q) - 1)
    BY <1>2
  <2>2. q[i + 1] = t[i] /\ q[(i + 1) + 1] = t[i + 1]
    BY Zenon, <1>2, <2>1
  <2>3. IsLine(q[i + 1]) \/ IsLine(q[(i + 1) + 1])
    BY Zenon, <1>3, <2>1 DEF OneGap
  <2> QED BY <2>2, <2>3
<1>5. bytes = Bytes(<<x>>) + Bytes(t)
  BY <1>1, <1>3
<1>6. ASSUME NEW j \in 1..Len(q), q[j].len = bytes
      PROVE  (\E i \in 1..Len(<<x>>) : <<x>>[i].len = bytes) \/ \E i \in 1..Len(t) : t[i].len = bytes
  <2>1. CASE j = 1
    <3>1. <<x>>[1].len = bytes /\ 1 \in 1..Len(<<x>>)
      BY <1>2, <1>6, <2>1
    <3> QED BY Zenon, <3>1
  <2>2. CASE j # 1
    <3>1. PICK i \in 1..Len(t) : j = i + 1
      <4>1. j - 1 \in 1..Len(t) /\ j = (j - 1) + 1
        BY <1>2, <2>2
      <4> QED BY Zenon, <4>1
    <3>2. t[i].len = bytes
      BY Zenon, <1>2, <1>6, <3>1
    <3> QED BY <3>2
  <2> QED BY Zenon, <2>1, <2>2
<1> QED
  BY Zenon, <1>3, <1>4, <1>5, <1>6 DEF Held

(* The write of the item that was taken out is over.                        *)
LEMMA HeldDone ==
  ASSUME NEW x \in Kept, NEW q, NEW bytes \in Nat, Held(q, bytes, <<x>>)
  PROVE  bytes - x.len \in Nat /\ Held(q, bytes - x.len, <<>>)
<1>1. /\ q \in Seq(Kept) /\ OneGap(q) /\ bytes = Bytes(<<x>>) + Bytes(q)
      /\ \/ bytes <= QueueCapacity
         \/ \E i \in 1..Len(<<x>>) : <<x>>[i].len = bytes
         \/ \E i \in 1..Len(q) : q[i].len = bytes
  BY DEF Held
<1>2. PICK l \in Nat : x.len = l
  BY Zenon, KeptFields
<1>3. PICK m \in Nat : Bytes(q) = m
  BY <1>1, EntriesAre
<1>4. Bytes(<<x>>) = l /\ Bytes(<<>>) = 0
  BY Zenon, <1>2, EntriesSmall
<1>5. bytes = l + m
  BY <1>1, <1>3, <1>4
<1>6. bytes - l \in Nat /\ bytes - l = Bytes(<<>>) + Bytes(q)
  BY <1>3, <1>4, <1>5
<1>7. (bytes - l) <= QueueCapacity \/ \E i \in 1..Len(q) : q[i].len = bytes - l
  <2>0. QueueCapacity \in Nat
    BY Zenon, AuditAssumption
  <2>1. CASE bytes <= QueueCapacity
    BY <1>5, <2>0, <2>1
  <2>2. CASE \E i \in 1..Len(<<x>>) : <<x>>[i].len = bytes
    <3>1. l = bytes
      BY <1>2, <2>2
    <3> QED BY <1>5, <2>0, <3>1
  <2>3. CASE \E i \in 1..Len(q) : q[i].len = bytes
    <3>1. PICK i \in 1..Len(q) : q[i].len = bytes
      BY Zenon, <2>3
    <3>2. bytes <= m
      BY <1>1, <1>3, <3>1, EntriesAre
    <3>3. bytes - l = bytes
      BY <1>5, <3>2
    <3> QED BY <3>1, <3>3
  <2> QED BY <1>1, <2>1, <2>2, <2>3
<1>8. Held(q, bytes - l, <<>>)
  BY Zenon, <1>1, <1>6, <1>7 DEF Held
<1> QED
  BY Zenon, <1>2, <1>6, <1>8

(* What stands before the ring may grow.                                    *)
LEMMA RingHoldsWider ==
  ASSUME NEW r, NEW lo \in Nat, NEW hi \in Nat, NEW b \in Nat, NEW b2 \in Nat, b <= b2,
         RingHolds(r, lo, hi, b)
  PROVE  RingHolds(r, lo, hi, b2)
<1>1. /\ r \in [lines : Seq(Kept), used : Nat, lost : Nat]
      /\ r.used = Bytes(r.lines) /\ r.used <= RingCapacity
      /\ \A i \in 1..Len(r.lines) : IsLine(r.lines[i])
      /\ Faithful(Entries(r.lines), lo, hi, b + r.lost)
  BY Zenon DEF RingHolds
<1>2. PICK l \in Nat : r.lost = l
  BY <1>1
<1>3. Entries(r.lines) \in Seq(Entry)
  BY Zenon, <1>1, EntriesAre
<1>4. b + l \in Nat /\ b2 + l \in Nat /\ b + l <= b2 + l /\ lo <= lo /\ hi <= hi
  OBVIOUS
<1>5. Faithful(Entries(r.lines), lo, hi, b2 + l)
  <2>1. Faithful(Entries(r.lines), lo, hi, b + l)
    BY Zenon, <1>1, <1>2
  <2> QED BY Zenon, <1>3, <1>4, <2>1, FaithfulWider
<1> QED
  BY Zenon, <1>1, <1>2, <1>5 DEF RingHolds

(* The writer takes the item at the head of the queue out.                  *)
LEMMA BooksTake ==
  ASSUME NEW sk, NEW q, NEW bytes, NEW r, NEW em, NEW ag, NEW mk,
         Books(sk, <<>>, q, bytes, r, em, ag, mk), q # <<>>
  PROVE  Books(sk, <<Head(q)>>, Tail(q), bytes, r, em, ag, mk)
<1>1. q \in Seq(Kept) /\ bytes \in Nat
  BY BookTypes
<1>2. PICK x \in Kept : x = Head(q)
  BY <1>1
<1>3. PICK t \in Seq(Kept) : t = Tail(q)
  <2>1. Tail(q) \in Seq(Kept)
    BY <1>1
  <2> QED BY Zenon, <2>1
<1>4. q = <<x>> \o t
  BY <1>1, <1>2, <1>3
<1>5. PICK e \in Entry : Entries(<<x>>) = <<e>> /\ W(<<x>>) = e.w /\ <<x>> \in Seq(Kept)
  BY Zenon, EntriesSmall
<1>6. Entries(q) = <<e>> \o Entries(t) /\ W(q) = e.w + W(t)
  BY Zenon, <1>4, <1>5, EntriesConcat
<1>7. W(<<>>) = 0 /\ Entries(t) \in Seq(Entry)
  BY EntriesSmall, EntriesAre
<1>8. PICK w \in Nat : OutW(sk) = w
  BY Zenon, BookTypes
<1>9. PICK v \in Nat : W(t) = v
  BY EntriesAre
<1>10. PICK u \in Nat : e.w = u
  BY Zenon DEF Entry
<1>11. (OutW(sk) + W(<<>>)) + W(q) = (OutW(sk) + W(<<x>>)) + W(t)
  <2>1. (w + 0) + (u + v) = (w + u) + v
    OBVIOUS
  <2> QED BY Zenon, <2>1, <1>5, <1>6, <1>7, <1>8, <1>9, <1>10
<1>12. OutW(sk) + W(<<>>) = w
  BY <1>7, <1>8
<1>13. /\ sk \in Seq(Out) /\ Held(q, bytes, <<>>) /\ em \in Nat /\ ag \in Nat
       /\ em + ag = (OutW(sk) + W(<<>>)) + W(q) + (r.lost + Len(r.lines))
       /\ \E a, b, c \in Nat : mk <= a /\ InLine(sk, <<>>, q, r, em, a, b, c)
  BY Zenon DEF Books
<1>14. Held(t, bytes, <<x>>)
  BY Zenon, <1>1, <1>4, <1>13, HeldTake
<1>15. PICK a \in Nat : \E b, c \in Nat : mk <= a /\ InLine(sk, <<>>, q, r, em, a, b, c)
  BY Zenon, <1>13
<1>16. PICK b \in Nat, c \in Nat : mk <= a /\ InLine(sk, <<>>, q, r, em, a, b, c)
  BY Zenon, <1>15
<1>17. /\ a <= b /\ b <= c /\ c <= em /\ Faithful(OutEntries(sk), 0, a, 0)
       /\ Faithful(Entries(q), b, c, OutW(sk) + W(<<>>))
       /\ RingHolds(r, c, em, (OutW(sk) + W(<<>>)) + W(q))
  BY Zenon, <1>16 DEF InLine
<1>18. \E d \in Nat : /\ a <= d /\ d <= c /\ Faithful(<<e>>, a, d, w)
                      /\ Faithful(Entries(t), d, c, w + u)
  <2>0. Faithful(<<e>> \o Entries(t), b, c, w)
    BY Zenon, <1>6, <1>12, <1>17
  <2>1. CASE e.n # 0
    <3>1. b < e.n /\ e.n <= c /\ Faithful(<<e>>, b, e.n, w) /\ Faithful(Entries(t), e.n, c, w + u)
      BY Zenon, <1>7, <1>10, <2>0, <2>1, FaithfulTail
    <3>2. PICK d \in Nat : e.n = d
      BY Zenon DEF Entry
    <3>3. a <= d /\ d <= c /\ d <= d /\ w <= w
      BY <1>17, <3>1, <3>2
    <3>4. <<e>> \in Seq(Entry) /\ Faithful(<<e>>, b, d, w)
      BY <3>1, <3>2
    <3>5. Faithful(<<e>>, a, d, w)
      BY Zenon, <1>17, <3>3, <3>4, FaithfulWider
    <3> QED BY Zenon, <3>1, <3>2, <3>3, <3>5
  <2>2. CASE e.n = 0
    <3>0. <<e>> \in Seq(Entry)
      OBVIOUS
    <3>1. Faithful(Entries(t), b, c, w + Weight(<<e>>))
      BY Zenon, <1>7, <2>0, <3>0, FaithfulParts
    <3>2. Weight(<<e>>) = u
      BY Zenon, <1>10, WeightSmall
    <3>3. Faithful(<<e>>, a, b, w)
      BY <2>2, FaithfulLine
    <3> QED BY Zenon, <1>17, <3>1, <3>2, <3>3
  <2> QED BY Zenon, <2>1, <2>2
<1>19. PICK d \in Nat : /\ a <= d /\ d <= c /\ Faithful(<<e>>, a, d, w)
                        /\ Faithful(Entries(t), d, c, w + u)
  BY Zenon, <1>18
<1>20. InLine(sk, <<x>>, t, r, em, a, d, c)
  <2>1. Faithful(Entries(<<x>>), a, d, OutW(sk)) /\ Faithful(Entries(t), d, c, OutW(sk) + W(<<x>>))
    BY <1>5, <1>8, <1>10, <1>19
  <2>2. RingHolds(r, c, em, (OutW(sk) + W(<<x>>)) + W(t))
    BY Zenon, <1>11, <1>17
  <2> QED BY Zenon, <1>17, <1>19, <2>1, <2>2 DEF InLine
<1>21. Books(sk, <<x>>, t, bytes, r, em, ag, mk)
  BY Zenon, <1>5, <1>11, <1>13, <1>14, <1>16, <1>20 DEF Books
<1> QED
  BY Zenon, <1>2, <1>3, <1>21

(* The sink took the item the writer had taken out.                         *)
LEMMA BooksDelivered ==
  ASSUME NEW sk, NEW x \in Kept, NEW q, NEW bytes, NEW r, NEW em, NEW ag, NEW mk \in Nat,
         Books(sk, <<x>>, q, bytes, r, em, ag, mk)
  PROVE  Books(sk \o Output(x), <<>>, q, bytes - x.len, r, em, ag, mk)
<1>0. sk \in Seq(Out) /\ bytes \in Nat /\ q \in Seq(Kept) /\ OutEntries(sk) \in Seq(Entry)
  BY BookTypes
<1>1. PICK o \in Seq(Out) : o = Output(x)
  BY Zenon, OutputIs
<1>2. PICK e \in Entry : /\ Entries(<<x>>) = <<e>> /\ W(<<x>>) = e.w
                         /\ e.w = (IF IsLine(x) THEN 1 ELSE Total(x.gap))
  BY Zenon, EntriesSmall
<1>3. PICK u \in Nat : e.w = u
  BY DEF Entry
<1>4. OutEntries(o) \in Seq(Entry) /\ Len(OutEntries(o)) = Len(o)
      /\ \A i \in 1..Len(o) : OutEntries(o)[i].n = o[i].n
  BY Zenon, OutEntriesAre
<1>5. OutW(o) = u
  <2>1. CASE IsLine(x)
    <3>1. OutEntries(o) = <<e>>
      BY Zenon, <1>1, <1>2, <2>1, OutputIs
    <3> QED BY <1>3, <3>1, WeightSmall DEF OutW
  <2>2. CASE ~IsLine(x)
    BY Zenon, <1>1, <1>2, <1>3, <2>2, OutputIs
  <2> QED BY Zenon, <2>1, <2>2
<1>6. PICK w \in Nat : OutW(sk) = w
  BY Zenon, BookTypes
<1>7. /\ Held(q, bytes, <<x>>) /\ em \in Nat /\ ag \in Nat
      /\ em + ag = (OutW(sk) + W(<<x>>)) + W(q) + (r.lost + Len(r.lines))
      /\ \E a, b, c \in Nat : mk <= a /\ InLine(sk, <<x>>, q, r, em, a, b, c)
  BY Zenon DEF Books
<1>8. Held(q, bytes - x.len, <<>>)
  BY Zenon, <1>0, <1>7, HeldDone
<1>9. /\ sk \o o \in Seq(Out) /\ OutEntries(sk \o o) = OutEntries(sk) \o OutEntries(o)
      /\ OutW(sk \o o) = w + u
  BY Zenon, <1>0, <1>5, <1>6, OutConcat
<1>10. OutW(sk \o o) + W(<<>>) = OutW(sk) + W(<<x>>)
  <2>1. (w + u) + 0 = w + u
    OBVIOUS
  <2> QED BY <2>1, <1>2, <1>3, <1>6, <1>9, EntriesSmall
<1>11. PICK a \in Nat : \E b, c \in Nat : mk <= a /\ InLine(sk, <<x>>, q, r, em, a, b, c)
  BY Zenon, <1>7
<1>12. PICK b \in Nat, c \in Nat : mk <= a /\ InLine(sk, <<x>>, q, r, em, a, b, c)
  BY Zenon, <1>11
<1>13. /\ a <= b /\ b <= c /\ c <= em /\ Faithful(OutEntries(sk), 0, a, 0)
       /\ Faithful(<<e>>, a, b, w)
       /\ Faithful(Entries(q), b, c, OutW(sk) + W(<<x>>))
       /\ RingHolds(r, c, em, (OutW(sk) + W(<<x>>)) + W(q))
  BY Zenon, <1>2, <1>6, <1>12 DEF InLine
<1>14. Faithful(OutEntries(o), a, b, w)
  <2>1. CASE IsLine(x)
    <3>1. OutEntries(o) = <<e>>
      BY Zenon, <1>1, <1>2, <2>1, OutputIs
    <3> QED BY <1>13, <3>1
  <2>2. CASE ~IsLine(x)
    <3>1. \A i \in 1..Len(o) : o[i].n = 0
      BY Zenon, <1>1, <2>2, OutputIs
    <3>2. \A i \in 1..Len(OutEntries(o)) : OutEntries(o)[i].n = 0
      BY Zenon, <1>4, <3>1
    <3> QED BY <1>4, <3>2, FaithfulLosses
  <2> QED BY Zenon, <2>1, <2>2
<1>15. Faithful(OutEntries(sk \o o), 0, b, 0)
  <2>1. 0 + Weight(OutEntries(sk)) = w /\ 0 <= a /\ 0 \in Nat
    BY <1>6 DEF OutW
  <2>2. Faithful(OutEntries(o), a, b, 0 + Weight(OutEntries(sk)))
    BY <1>14, <2>1
  <2>3. Faithful(OutEntries(sk) \o OutEntries(o), 0, b, 0)
    BY Zenon, <1>0, <1>4, <1>13, <2>1, <2>2, FaithfulConcat
  <2> QED BY Zenon, <1>9, <2>3
<1>16. InLine(sk \o o, <<>>, q, r, em, b, b, c)
  <2>1. Faithful(Entries(<<>>), b, b, OutW(sk \o o))
    BY EntriesSmall DEF Faithful
  <2>2. /\ Faithful(Entries(q), b, c, OutW(sk \o o) + W(<<>>))
        /\ RingHolds(r, c, em, (OutW(sk \o o) + W(<<>>)) + W(q))
    BY Zenon, <1>10, <1>13
  <2>3. b <= b
    OBVIOUS
  <2> QED BY Zenon, <1>13, <1>15, <2>1, <2>2, <2>3 DEF InLine
<1>17. mk <= b
  BY <1>12, <1>13
<1>18. em + ag = (OutW(sk \o o) + W(<<>>)) + W(q) + (r.lost + Len(r.lines))
  BY <1>7, <1>10
<1>19. \E a2, b2, c2 \in Nat : mk <= a2 /\ InLine(sk \o o, <<>>, q, r, em, a2, b2, c2)
  BY Zenon, <1>16, <1>17
<1>20. Books(sk \o o, <<>>, q, bytes - x.len, r, em, ag, mk)
  BY <1>7, <1>8, <1>9, <1>18, <1>19 DEF Books
<1> QED
  BY Zenon, <1>1, <1>20

(* The sink refused it: what was told of it is told again.                  *)
LEMMA BooksRefused ==
  ASSUME NEW sk, NEW x \in Kept, NEW q, NEW bytes, NEW r, NEW em, NEW ag, NEW mk \in Nat,
         Books(sk, <<x>>, q, bytes, r, em, ag, mk), NEW m \in 0..(Len(Output(x)) - 1)
  PROVE  Books(sk \o SubSeq(Output(x), 1, m), <<>>,
               LoseAtFront(q, IF IsLine(x) THEN Add(NoLoss, 1, "SinkError") ELSE x.gap),
               bytes - x.len, r, em, ag + SumOf([i \in 1..m |-> Output(x)[i].lost]), mk)
<1> DEFINE gap == IF IsLine(x) THEN Add(NoLoss, 1, "SinkError") ELSE x.gap
           p == LoseAtFront(q, gap)
           told == SumOf([i \in 1..m |-> Output(x)[i].lost])
<1>0. sk \in Seq(Out) /\ bytes \in Nat /\ q \in Seq(Kept) /\ OutEntries(sk) \in Seq(Entry)
  BY BookTypes
<1>1. PICK o \in Seq(Out) : /\ o = SubSeq(Output(x), 1, m) /\ \A i \in 1..Len(o) : o[i].n = 0
                            /\ OutW(o) = told
  BY Zenon, PartTold
<1>2. PICK k \in Nat : told = k /\ OutW(o) = k
  BY Zenon, <1>1, OutEntriesAre
<1>3. PICK e \in Entry : /\ Entries(<<x>>) = <<e>> /\ W(<<x>>) = e.w
                         /\ e.w = (IF IsLine(x) THEN 1 ELSE Total(x.gap))
  BY Zenon, EntriesSmall
<1>4. PICK u \in Nat : e.w = u
  BY DEF Entry
<1>5. gap \in [Reasons -> Nat] /\ Total(gap) = u
  <2>1. CASE IsLine(x)
    <3>1. "SinkError" \in Reasons /\ 1 \in Nat
      BY Zenon DEF Reasons
    <3>2. gap \in [Reasons -> Nat] /\ Total(gap) = 0 + 1
      BY Zenon, <2>1, <3>1, NoGap, GapGrows
    <3>3. 0 + 1 = 1
      OBVIOUS
    <3>4. u = 1
      BY Zenon, <1>3, <1>4, <2>1
    <3> HIDE DEF gap
    <3> QED BY Zenon, <3>2, <3>3, <3>4
  <2>2. CASE ~IsLine(x)
    BY Zenon, <1>3, <1>4, <2>2, KeptFields
  <2> QED BY Zenon, <2>1, <2>2
<1> HIDE DEF gap, told
<1>6. PICK w \in Nat : OutW(sk) = w
  BY Zenon, BookTypes
<1>7. PICK v \in Nat : W(q) = v
  BY Zenon, BookTypes
<1>8. /\ Held(q, bytes, <<x>>) /\ em \in Nat /\ ag \in Nat
      /\ em + ag = (OutW(sk) + W(<<x>>)) + W(q) + (r.lost + Len(r.lines))
      /\ \E a, b, c \in Nat : mk <= a /\ InLine(sk, <<x>>, q, r, em, a, b, c)
  BY Zenon DEF Books
<1>9. OneGap(q)
  BY Zenon, <1>8 DEF Held
<1>10. LostAhead(q, p, u)
  BY Zenon, <1>0, <1>5, <1>9, LoseAtFrontIs
<1> HIDE DEF p
<1>11. PICK l \in Nat : r.lost + Len(r.lines) = l
  <2>1. r.lost \in Nat /\ Len(r.lines) \in Nat
    BY Zenon, BookTypes
  <2>2. r.lost + Len(r.lines) \in Nat
    BY <2>1
  <2> QED BY Zenon, <2>2
<1>12. bytes - x.len \in Nat /\ Held(q, bytes - x.len, <<>>)
  BY Zenon, <1>0, <1>8, HeldDone
<1>13. Held(p, bytes - x.len, <<>>) /\ p \in Seq(Kept) /\ W(p) = v + u
  BY <1>7, <1>10, <1>12 DEF LostAhead
<1>14. /\ sk \o o \in Seq(Out) /\ OutEntries(sk \o o) = OutEntries(sk) \o OutEntries(o)
       /\ OutW(sk \o o) = w + k
  BY Zenon, <1>0, <1>2, <1>6, OutConcat
<1>15. /\ OutW(sk) + W(<<x>>) = w + u /\ (OutW(sk) + W(<<x>>)) + W(q) = (w + u) + v
       /\ OutW(sk \o o) + W(<<>>) = w + k
       /\ (OutW(sk \o o) + W(<<>>)) + W(p) = (w + k) + (v + u)
  BY <1>3, <1>4, <1>6, <1>7, <1>13, <1>14, EntriesSmall
<1>16. em + (ag + told) = (OutW(sk \o o) + W(<<>>)) + W(p) + (r.lost + Len(r.lines))
  <2>1. em + ag = (w + u) + v + l
    BY Zenon, <1>8, <1>11, <1>15
  <2>2. em + (ag + k) = (w + k) + (v + u) + l
    BY <1>8, <2>1
  <2> QED BY Zenon, <2>2, <1>2, <1>11, <1>15
<1>17. PICK a \in Nat : \E b, c \in Nat : mk <= a /\ InLine(sk, <<x>>, q, r, em, a, b, c)
  BY Zenon, <1>8
<1>18. PICK b \in Nat, c \in Nat : mk <= a /\ InLine(sk, <<x>>, q, r, em, a, b, c)
  BY Zenon, <1>17
<1>19. /\ a <= b /\ b <= c /\ c <= em /\ Faithful(OutEntries(sk), 0, a, 0)
       /\ Faithful(Entries(q), b, c, w + u) /\ RingHolds(r, c, em, (w + u) + v)
  BY Zenon, <1>15, <1>18 DEF InLine
<1>20. Faithful(OutEntries(sk \o o), 0, a, 0)
  <2>1. /\ OutEntries(o) \in Seq(Entry)
        /\ \A i \in 1..Len(OutEntries(o)) : OutEntries(o)[i].n = 0
    BY Zenon, <1>1, OutEntriesAre
  <2>2. Faithful(OutEntries(o), a, a, 0 + Weight(OutEntries(sk)))
    BY Zenon, <2>1, FaithfulLosses
  <2>3. 0 <= a /\ a <= a /\ 0 \in Nat
    OBVIOUS
  <2>4. Faithful(OutEntries(sk) \o OutEntries(o), 0, a, 0)
    BY Zenon, <1>0, <1>19, <2>1, <2>2, <2>3, FaithfulConcat
  <2> QED BY <1>14, <2>4
<1>21. Faithful(Entries(p), b, c, w + k)
  <2>1. Faithful(Entries(p), b, c, w)
    BY Zenon, <1>10, <1>19 DEF LostAhead
  <2>2. Entries(p) \in Seq(Entry)
    BY Zenon, <1>13, EntriesAre
  <2>3. w + k \in Nat /\ w <= w + k /\ b <= b /\ c <= c
    OBVIOUS
  <2> QED BY Zenon, <2>1, <2>2, <2>3, FaithfulWider
<1>22. RingHolds(r, c, em, (w + k) + (v + u))
  <2>1. /\ (w + u) + v \in Nat /\ (w + k) + (v + u) \in Nat
        /\ (w + u) + v <= (w + k) + (v + u)
    OBVIOUS
  <2> QED BY <1>8, <1>19, <2>1, RingHoldsWider
<1>23. InLine(sk \o o, <<>>, p, r, em, a, b, c)
  <2>1. Faithful(Entries(<<>>), a, b, OutW(sk \o o))
    BY EntriesSmall DEF Faithful
  <2>2. /\ Faithful(Entries(p), b, c, OutW(sk \o o) + W(<<>>))
        /\ RingHolds(r, c, em, (OutW(sk \o o) + W(<<>>)) + W(p))
    BY Zenon, <1>15, <1>21, <1>22
  <2> QED BY Zenon, <1>19, <1>20, <2>1, <2>2 DEF InLine
<1>24. ag + told \in Nat
  BY <1>2, <1>8
<1>25. \E a2, b2, c2 \in Nat : mk <= a2 /\ InLine(sk \o o, <<>>, p, r, em, a2, b2, c2)
  BY <1>18, <1>23
<1>26. Books(sk \o o, <<>>, p, bytes - x.len, r, em, ag + told, mk)
  <2>1. <<>> \in Seq(Kept)
    OBVIOUS
  <2> QED BY <1>8, <1>13, <1>14, <1>16, <1>24, <1>25, <2>1, Zenon DEF Books
<1> QED
  BY Zenon, <1>1, <1>26 DEF p, gap, told

(* With nothing held back, every record written so far has left.            *)
LEMMA BooksSettled ==
  ASSUME NEW sk, NEW bytes, NEW em, NEW ag, NEW mk, NEW mk2 \in Nat, mk2 <= em,
         Books(sk, <<>>, <<>>, bytes, EmptyRing, em, ag, mk)
  PROVE  Books(sk, <<>>, <<>>, bytes, EmptyRing, em, ag, mk2)
<1>1. /\ sk \in Seq(Out) /\ Held(<<>>, bytes, <<>>) /\ em \in Nat /\ ag \in Nat
      /\ em + ag = (OutW(sk) + W(<<>>)) + W(<<>>) + (EmptyRing.lost + Len(EmptyRing.lines))
      /\ \E a, b, c \in Nat : mk <= a /\ InLine(sk, <<>>, <<>>, EmptyRing, em, a, b, c)
  BY Zenon DEF Books
<1>2. PICK a \in Nat : \E b, c \in Nat : InLine(sk, <<>>, <<>>, EmptyRing, em, a, b, c)
  BY Zenon, <1>1
<1>3. PICK b \in Nat, c \in Nat : InLine(sk, <<>>, <<>>, EmptyRing, em, a, b, c)
  BY Zenon, <1>2
<1>4. a <= em /\ Faithful(OutEntries(sk), 0, a, 0)
  BY <1>1, <1>3 DEF InLine
<1>5. OutEntries(sk) \in Seq(Entry)
  BY Zenon, <1>1, OutEntriesAre
<1>6. 0 \in Nat /\ 0 <= 0 /\ em \in Nat /\ em <= em
  BY <1>1
<1>7. Faithful(OutEntries(sk), 0, em, 0)
  BY Zenon, <1>4, <1>5, <1>6, FaithfulWider
<1>8. \A lo, hi, v : Faithful(Entries(<<>>), lo, hi, v)
  BY EntriesSmall DEF Faithful
<1>9. \A v : RingHolds(EmptyRing, em, em, v)
  BY Zenon, EmptyRingHolds
<1>10. InLine(sk, <<>>, <<>>, EmptyRing, em, em, em, em)
  BY Zenon, <1>6, <1>7, <1>8, <1>9 DEF InLine
<1>11. \E a2, b2, c2 \in Nat :
         mk2 <= a2 /\ InLine(sk, <<>>, <<>>, EmptyRing, em, a2, b2, c2)
  BY Zenon, <1>6, <1>10
<1> QED
  BY Zenon, <1>1, <1>11 DEF Books

(* A later question of settle starts from nothing.                          *)
LEMMA BooksReset ==
  ASSUME NEW sk, NEW fl, NEW q, NEW bytes, NEW r, NEW em, NEW ag, NEW mk,
         Books(sk, fl, q, bytes, r, em, ag, mk)
  PROVE  Books(sk, fl, q, bytes, r, em, ag, 0)
<1>1. PICK a \in Nat : \E b, c \in Nat : InLine(sk, fl, q, r, em, a, b, c)
  BY DEF Books
<1>2. 0 <= a
  OBVIOUS
<1> QED
  BY Zenon, <1>1, <1>2 DEF Books

-----------------------------------------------------------------------------
(* The inductive invariant.  The controls are those of the writer and of   *)
(* settle; the books hold for the buffers, and the numbers up to the mark  *)
(* have left once settle said so.                                          *)

States ==
  /\ mode \in {"Normal", "Ring"} /\ writer \in {"none", "check", "parked", "writing", "gone"}
  /\ failed \in BOOLEAN /\ started \in BOOLEAN /\ exited \in BOOLEAN /\ shutdown \in BOOLEAN
  /\ settler \in {"idle", "waiting", "settled", "excused", "timeout"}

Bounds == mark \in 0..emitted /\ emitted \in 0..MaxRecords /\ refusals \in 0..MaxRefusals

Flow ==
  /\ writer = "writing" <=> inFlight # <<>>
  /\ Len(inFlight) <= 1
  /\ exited => writer \in {"none", "gone"}
  /\ writer = "gone" => shutdown /\ exited /\ (mode = "Normal" => queue = <<>>)
  /\ ParkedIsIdle

Control == States /\ Bounds /\ Flow

Settled == IF settler = "settled" THEN mark ELSE 0

Balanced == /\ Books(sink, inFlight, queue, queued, ring, emitted, again, Settled)
            /\ mode = "Normal" => ring = EmptyRing

AuditInv == Control /\ Balanced

(* The controls hold from the start (Router::build).                        *)
LEMMA ControlInit == Init => Control
<1> SUFFICES ASSUME Init PROVE Control
  OBVIOUS
<1>1. States
  BY Zenon DEF Init, States
<1>2. Bounds
  BY AuditAssumption DEF Init, Bounds
<1>3. Flow
  BY DEF Init, Flow, ParkedIsIdle
<1> QED
  BY <1>1, <1>2, <1>3 DEF Control

(* No step leaves the states of the writer and of the callers.              *)
LEMMA StatesNext == States /\ [Next]_vars => States'
<1> SUFFICES ASSUME States, [Next]_vars PROVE States'
  OBVIOUS
<1> USE DEF States, Notify
<1> USE DEF callVars, writerVars, lifeVars, sinkVars
<1>1. ASSUME NEW len \in Sizes, WriteRecord(len) PROVE States'
  BY Zenon, <1>1 DEF WriteRecord
<1>2. CASE EnterRing
  BY <1>2 DEF EnterRing
<1>3. CASE FlushToNormal
  BY Zenon, <1>3 DEF FlushToNormal
<1>4. CASE StartWriter
  BY <1>4 DEF StartWriter
<1>5. CASE Spawned
  BY Zenon, <1>5 DEF Spawned
<1>6. CASE DropLast
  BY Zenon, <1>6 DEF DropLast
<1>7. CASE Take
  BY Zenon, <1>7 DEF Take
<1>8. CASE Exit
  BY Zenon, <1>8 DEF Exit
<1>9. CASE Park
  BY <1>9 DEF Park
<1>10. CASE Delivered
  BY Zenon, <1>10 DEF Delivered
<1>11. CASE Refused
  BY Zenon, <1>11 DEF Refused
<1>12. CASE Settle
  BY Zenon, <1>12 DEF Settle
<1>13. CASE SettleReturns
  BY Zenon, <1>13 DEF SettleReturns, Idle
<1>14. CASE UNCHANGED vars
  BY Zenon, <1>14 DEF vars
<1> QED
  BY Zenon, <1>1, <1>2, <1>3, <1>4, <1>5, <1>6, <1>7, <1>8, <1>9, <1>10, <1>11, <1>12, <1>13, <1>14
     DEF Next

(* The counters stay in their bounds.                                       *)
LEMMA BoundsNext == Bounds /\ [Next]_vars => Bounds'
<1> SUFFICES ASSUME Bounds, [Next]_vars PROVE Bounds'
  OBVIOUS
<1>0. MaxRecords \in Nat /\ MaxRefusals \in Nat
  BY Zenon, AuditAssumption
<1> USE <1>0
<1> USE DEF Bounds
<1> USE DEF callVars, writerVars, lifeVars, sinkVars
<1>1. ASSUME NEW len \in Sizes, WriteRecord(len) PROVE Bounds'
  BY <1>1 DEF WriteRecord
<1>2. CASE EnterRing
  BY <1>2 DEF EnterRing
<1>3. CASE FlushToNormal
  BY Zenon, <1>3 DEF FlushToNormal
<1>4. CASE StartWriter
  BY Zenon, <1>4 DEF StartWriter
<1>5. CASE Spawned
  BY Zenon, <1>5 DEF Spawned
<1>6. CASE DropLast
  BY Zenon, <1>6 DEF DropLast
<1>7. CASE Take
  BY Zenon, <1>7 DEF Take
<1>8. CASE Exit
  BY Zenon, <1>8 DEF Exit
<1>9. CASE Park
  BY <1>9 DEF Park
<1>10. CASE Delivered
  BY Zenon, <1>10 DEF Delivered
<1>11. CASE Refused
  BY <1>11 DEF Refused
<1>12. CASE Settle
  BY <1>12 DEF Settle
<1>13. CASE SettleReturns
  BY Zenon, <1>13 DEF SettleReturns, Idle
<1>14. CASE UNCHANGED vars
  BY <1>14 DEF vars
<1> QED
  BY <1>1, <1>2, <1>3, <1>4, <1>5, <1>6, <1>7, <1>8, <1>9, <1>10, <1>11, <1>12, <1>13, <1>14
     DEF Next

(* The writer sleeps and ends only with nothing to do, whoever moves.       *)
LEMMA FlowNext == States /\ Flow /\ [Next]_vars => Flow'
<1> SUFFICES ASSUME States /\ Flow, [Next]_vars PROVE Flow'
  BY Zenon
<1> USE DEF States, Flow, ParkedIsIdle, CanTake, MustExit, Notify
<1> USE DEF callVars, writerVars, lifeVars, sinkVars
<1>1. ASSUME NEW len \in Sizes, WriteRecord(len) PROVE Flow'
  BY Zenon, <1>1 DEF WriteRecord
<1>2. CASE EnterRing
  BY <1>2 DEF EnterRing
<1>3. CASE FlushToNormal
  BY Zenon, <1>3 DEF FlushToNormal
<1>4. CASE StartWriter
  BY Zenon, <1>4 DEF StartWriter
<1>5. CASE Spawned
  BY <1>5 DEF Spawned
<1>6. CASE DropLast
  BY Zenon, <1>6 DEF DropLast
<1>7. CASE Take
  BY <1>7 DEF Take
<1>8. CASE Exit
  BY Zenon, <1>8 DEF Exit
<1>9. CASE Park
  BY Zenon, <1>9 DEF Park
<1>10. CASE Delivered
  BY <1>10 DEF Delivered
<1>11. CASE Refused
  BY <1>11 DEF Refused
<1>12. CASE Settle
  BY Zenon, <1>12 DEF Settle
<1>13. CASE SettleReturns
  BY Zenon, <1>13 DEF SettleReturns, Idle
<1>14. CASE UNCHANGED vars
  BY Zenon, <1>14 DEF vars
<1> QED
  BY Zenon, <1>1, <1>2, <1>3, <1>4, <1>5, <1>6, <1>7, <1>8, <1>9, <1>10, <1>11, <1>12, <1>13, <1>14
     DEF Next

(* The controls are kept by each step of a caller and of the writer.        *)
LEMMA ControlNext == Control /\ [Next]_vars => Control'
BY Zenon, StatesNext, BoundsNext, FlowNext DEF Control

(* The books are balanced at the start.                                     *)
LEMMA BalancedInit == Init => Balanced
<1> SUFFICES ASSUME Init PROVE Balanced
  OBVIOUS
<1>1. /\ mode = "Normal" /\ ring = EmptyRing /\ queue = <<>> /\ queued = 0 /\ inFlight = <<>>
      /\ emitted = 0 /\ sink = <<>> /\ again = 0 /\ Settled = 0
  BY DEF Init, EmptyRing, Settled
<1>2. Held(<<>>, 0, <<>>)
  <2>1. QueueCapacity \in Nat /\ Bytes(<<>>) = 0
    BY AuditAssumption, EntriesSmall
  <2>2. OneGap(<<>>)
    BY DEF OneGap
  <2> QED BY <2>1, <2>2 DEF Held
<1>3. OutEntries(<<>>) = <<>> /\ OutW(<<>>) = 0
  <2>1. OutEntries(<<>>) = <<>>
    BY DEF OutEntries
  <2> QED BY Zenon, <2>1, WeightSmall DEF OutW
<1>4. W(<<>>) = 0 /\ Entries(<<>>) = <<>>
  BY Zenon, EntriesSmall
<1>5. EmptyRing.lost + Len(EmptyRing.lines) = 0
  BY DEF EmptyRing
<1>6. \A lo, hi, b : Faithful(<<>>, lo, hi, b)
  BY DEF Faithful
<1>7. \A b : RingHolds(EmptyRing, 0, 0, b)
  BY Zenon, EmptyRingHolds
<1>8. InLine(<<>>, <<>>, <<>>, EmptyRing, 0, 0, 0, 0)
  BY <1>3, <1>4, <1>6, <1>7 DEF InLine
<1>9. <<>> \in Seq(Out) /\ <<>> \in Seq(Kept)
  OBVIOUS
<1>10. 0 + 0 = (OutW(<<>>) + W(<<>>)) + W(<<>>) + (EmptyRing.lost + Len(EmptyRing.lines))
  BY <1>3, <1>4, <1>5
<1>11. \E a, b, c \in Nat : 0 <= a /\ InLine(<<>>, <<>>, <<>>, EmptyRing, 0, a, b, c)
  BY <1>8
<1>12. Books(<<>>, <<>>, <<>>, 0, EmptyRing, 0, 0, 0)
  BY <1>2, <1>9, <1>10, <1>11 DEF Books
<1> QED
  BY Zenon, <1>1, <1>12 DEF Balanced

(* write_record keeps the books.                                            *)
LEMMA BalancedWrite ==
  ASSUME Control, Balanced, NEW len \in Sizes, WriteRecord(len) PROVE Balanced'
<1> DEFINE x == Line(emitted + 1, len)
<1>1. emitted \in Nat /\ emitted + 1 \in 1..MaxRecords
  BY AuditAssumption DEF Control, Bounds, WriteRecord
<1>2. x \in Kept /\ x.n = emitted + 1
  BY Zenon, <1>1, KeptMade DEF Line
<1>3. Books(sink, inFlight, queue, queued, ring, emitted, again, Settled)
  BY Zenon DEF Balanced
<1>4. /\ sink' = sink /\ inFlight' = inFlight /\ emitted' = emitted + 1 /\ again' = again
      /\ mode' = mode /\ Settled' = Settled
  BY Zenon DEF WriteRecord, Settled, callVars, sinkVars
<1> HIDE DEF x
<1>5. CASE mode = "Ring"
  <2>1. ring' = RingPush(ring, x) /\ queue' = queue /\ queued' = queued
    BY Zenon, <1>5 DEF WriteRecord, x
  <2>2. Books(sink, inFlight, queue, queued, RingPush(ring, x), emitted + 1, again, Settled)
    BY Zenon, <1>2, <1>3, BooksRing
  <2> QED BY Zenon, <1>4, <1>5, <2>1, <2>2 DEF Balanced
<1>6. CASE mode # "Ring"
  <2>1. mode = "Normal" /\ ring = EmptyRing
    BY Zenon, <1>6 DEF Control, States, Balanced
  <2>2. ring' = EmptyRing
    BY Zenon, <1>6, <2>1 DEF WriteRecord
  <2>3. Books(sink, inFlight, queue, queued, EmptyRing, emitted, again, Settled)
    BY Zenon, <1>3, <2>1
  <2>4. CASE exited /\ ~shutdown
    <3>1. queue' = Lose(queue, 1, "SinkError") /\ queued' = queued
      BY Zenon, <1>6, <2>4 DEF WriteRecord
    <3>2. Books(sink, inFlight, queue', queued', EmptyRing, emitted + 1, again, Settled)
      BY Zenon, <2>3, <3>1, BooksLose
    <3> QED BY Zenon, <1>4, <2>2, <3>2 DEF Balanced
  <2>5. CASE ~(exited /\ ~shutdown)
    <3> DEFINE d == Enqueue([q |-> queue, bytes |-> queued], x)
    <3>1. queue' = d.q /\ queued' = d.bytes
      BY <1>6, <2>5 DEF WriteRecord, x
    <3>2. Books(sink, inFlight, d.q, d.bytes, EmptyRing, emitted + 1, again, Settled)
      BY Zenon, <1>2, <2>3, BooksEnqueue
    <3> HIDE DEF d
    <3> QED BY Zenon, <1>4, <2>2, <3>1, <3>2 DEF Balanced
  <2> QED BY Zenon, <2>4, <2>5
<1> QED
  BY Zenon, <1>5, <1>6

(* flush_to_normal keeps the books.                                         *)
LEMMA BalancedFlush ==
  ASSUME Balanced, FlushToNormal PROVE Balanced'
<1> DEFINE start == IF ring.lost > 0 THEN Lose(queue, ring.lost, "RingOverflow") ELSE queue
           d == EnqueueAll([q |-> start, bytes |-> queued], ring.lines)
<1>1. Books(sink, inFlight, d.q, d.bytes, EmptyRing, emitted, again, Settled)
  BY Zenon, BooksFlush DEF Balanced
<1>2. /\ sink' = sink /\ inFlight' = inFlight /\ emitted' = emitted /\ again' = again
      /\ ring' = EmptyRing /\ Settled' = Settled
  BY Zenon DEF FlushToNormal, Settled, EmptyRing, callVars, sinkVars
<1>3. queue' = d.q /\ queued' = d.bytes
  BY Zenon DEF FlushToNormal
<1> HIDE DEF d
<1> QED
  BY <1>1, <1>2, <1>3 DEF Balanced

(* Taking an item out keeps the books.                                      *)
LEMMA BalancedTake ==
  ASSUME Control, Balanced, Take PROVE Balanced'
<1>1. inFlight = <<>> /\ queue # <<>>
  BY Zenon DEF Control, States, Flow, Take, CanTake
<1>2. /\ inFlight' = <<Head(queue)>> /\ queue' = Tail(queue) /\ queued' = queued /\ mode' = mode
      /\ sink' = sink /\ emitted' = emitted /\ again' = again /\ ring' = ring /\ Settled' = Settled
  BY Zenon DEF Take, Settled, callVars, sinkVars
<1>3. Books(sink, <<Head(queue)>>, Tail(queue), queued, ring, emitted, again, Settled)
  BY <1>1, BooksTake DEF Balanced
<1> QED
  BY Zenon, <1>2, <1>3 DEF Balanced

(* The end of a write keeps the books, whatever the sink said.              *)
LEMMA BalancedWritten ==
  ASSUME Control, Balanced, Delivered \/ Refused PROVE Balanced'
<1>1. writer = "writing" /\ inFlight # <<>> /\ Len(inFlight) <= 1 /\ inFlight \in Seq(Kept)
  BY Zenon, BookTypes DEF Control, Flow, Balanced, Delivered, Refused
<1>2. PICK x \in Kept : inFlight = <<x>> /\ inFlight[1] = x
  <2>0. Len(inFlight) \in Nat /\ Len(inFlight) # 0
    BY <1>1
  <2>1. Len(inFlight) = 1 /\ inFlight[1] \in Kept
    BY <1>1, <2>0
  <2>2. inFlight = <<inFlight[1]>>
    BY <1>1, <2>1
  <2> QED BY <2>1, <2>2
<1>3. Books(sink, <<x>>, queue, queued, ring, emitted, again, Settled) /\ Settled \in Nat
  BY <1>2 DEF Balanced, Control, Bounds, Settled
<1>4. CASE Delivered
  <2>1. /\ sink' = sink \o Output(x) /\ inFlight' = <<>> /\ queue' = queue
        /\ queued' = queued - x.len /\ mode' = mode /\ emitted' = emitted
        /\ again' = again /\ ring' = ring /\ Settled' = Settled
    BY Zenon, <1>2, <1>4 DEF Delivered, Settled, callVars
  <2>2. Books(sink \o Output(x), <<>>, queue, queued - x.len, ring, emitted, again, Settled)
    BY Zenon, <1>3, BooksDelivered
  <2> QED BY Zenon, <2>1, <2>2 DEF Balanced
<1>5. CASE Refused
  <2> DEFINE p == LoseAtFront(queue, IF IsLine(x) THEN Add(NoLoss, 1, "SinkError") ELSE x.gap)
  <2>1. PICK m \in 0..(Len(Output(x)) - 1) :
          /\ sink' = sink \o SubSeq(Output(x), 1, m)
          /\ again' = again + SumOf([i \in 1..m |-> Output(x)[i].lost])
    BY Zenon, <1>2, <1>5 DEF Refused
  <2>2. /\ inFlight' = <<>> /\ queue' = p /\ queued' = queued - x.len
        /\ mode' = mode /\ emitted' = emitted /\ ring' = ring /\ Settled' = Settled
    BY Zenon, <1>2, <1>5 DEF Refused, Settled, callVars
  <2>3. Books(sink \o SubSeq(Output(x), 1, m), <<>>, p, queued - x.len, ring, emitted,
              again + SumOf([i \in 1..m |-> Output(x)[i].lost]), Settled)
    BY <1>3, BooksRefused
  <2> HIDE DEF p
  <2> QED BY <2>1, <2>2, <2>3 DEF Balanced
<1> QED
  BY <1>4, <1>5

(* The questions of settle, and its answers, keep the books.                *)
LEMMA BalancedSettle ==
  ASSUME Control, Balanced, Settle \/ SettleReturns PROVE Balanced'
<1>1. /\ sink' = sink /\ inFlight' = inFlight /\ queue' = queue /\ queued' = queued
      /\ mode' = mode /\ emitted' = emitted /\ again' = again /\ ring' = ring
  BY Zenon DEF Settle, SettleReturns, writerVars, sinkVars
<1>2. Books(sink, inFlight, queue, queued, ring, emitted, again, Settled)
  BY Zenon DEF Balanced
<1>3. CASE settler' # "settled"
  <2>1. Settled' = 0
    BY Zenon, <1>3 DEF Settled
  <2>2. Books(sink, inFlight, queue, queued, ring, emitted, again, 0)
    BY Zenon, <1>2, BooksReset
  <2> QED BY <1>1, <2>1, <2>2 DEF Balanced
<1>4. CASE settler' = "settled"
  <2>1. /\ inFlight = <<>> /\ queue = <<>> /\ mode # "Ring" /\ mark' = mark
    BY Zenon, <1>4 DEF Settle, SettleReturns, Idle
  <2>2. ring = EmptyRing /\ mark \in Nat /\ mark <= emitted
    BY <2>1 DEF Control, States, Bounds, Balanced
  <2>3. Books(sink, <<>>, <<>>, queued, EmptyRing, emitted, again, mark)
    BY <1>2, <2>1, <2>2, BooksSettled
  <2>4. Settled' = mark
    BY Zenon, <1>4, <2>1 DEF Settled
  <2> QED BY Zenon, <1>1, <2>1, <2>2, <2>3, <2>4 DEF Balanced
<1> QED
  BY Zenon, <1>3, <1>4

(* The books are kept by each step of a caller and of the writer.           *)
LEMMA BalancedNext == Control /\ Balanced /\ [Next]_vars => Balanced'
<1> SUFFICES ASSUME Control, Balanced, [Next]_vars PROVE Balanced'
  BY Zenon
<1> DEFINE Same == UNCHANGED <<mode, sink, inFlight, queue, queued, ring, emitted, again,
                               settler, mark>>
<1>1. ASSUME Same PROVE Balanced'
  <2>1. Settled' = Settled
    BY <1>1 DEF Settled
  <2> QED BY Zenon, <1>1, <2>1 DEF Balanced
<1>2. ASSUME NEW len \in Sizes, WriteRecord(len) PROVE Balanced'
  BY Zenon, <1>2, BalancedWrite
<1>3. CASE EnterRing
  <2>1. Settled' = Settled
    BY <1>3 DEF EnterRing, Settled, callVars
  <2> QED BY Zenon, <1>3, <2>1 DEF EnterRing, Balanced, sinkVars
<1>4. CASE FlushToNormal
  BY Zenon, <1>4, BalancedFlush
<1>5. CASE StartWriter \/ Spawned \/ DropLast \/ Exit \/ Park \/ UNCHANGED vars
  <2>1. Same
    BY Zenon, <1>5 DEF StartWriter, Spawned, DropLast, Exit, Park, vars, callVars, writerVars,
                lifeVars, sinkVars
  <2> QED BY <1>1, <2>1
<1>6. CASE Take
  BY <1>6, BalancedTake
<1>7. CASE Delivered \/ Refused
  BY <1>7, BalancedWritten
<1>8. CASE Settle \/ SettleReturns
  BY <1>8, BalancedSettle
<1> QED
  BY Zenon, <1>2, <1>3, <1>4, <1>5, <1>6, <1>7, <1>8 DEF Next

(* The inductive invariant of the router: its controls and its books hold   *)
(* in every reachable state.                                                *)
THEOREM AuditInvHolds == Spec => []AuditInv
<1>1. Init => AuditInv
  BY ControlInit, BalancedInit DEF AuditInv
<1>2. AuditInv /\ [Next]_vars => AuditInv'
  BY ControlNext, BalancedNext DEF AuditInv
<1> QED
  BY <1>1, <1>2, PTL DEF Spec

-----------------------------------------------------------------------------
(* What follows from it.                                                   *)

(* In every reachable state the books of the router balance (Accounted):    *)
(* the bytes counted are the bytes held and within the capacities, no two   *)
(* loss markers are adjacent, and every record written is in the sink, held *)
(* or counted as lost.                                                      *)
THEOREM BooksBalance == Spec => []Accounted
<1>1. ASSUME AuditInv PROVE Accounted
  <2>0. Books(sink, inFlight, queue, queued, ring, emitted, again, Settled)
    BY Zenon, <1>1 DEF AuditInv, Balanced
  <2>1. /\ sink \in Seq(Out) /\ inFlight \in Seq(Kept) /\ queue \in Seq(Kept)
        /\ Held(queue, queued, inFlight)
        /\ OutW(sink) \in Nat /\ W(inFlight) \in Nat /\ W(queue) \in Nat /\ queued \in Nat
        /\ emitted \in Nat /\ again \in Nat
    BY Zenon, <2>0, BookTypes
  <2>2. emitted + again = (OutW(sink) + W(inFlight)) + W(queue) + (ring.lost + Len(ring.lines))
    BY Zenon, <2>0 DEF Books
  <2>3. PICK a \in Nat, b \in Nat, c \in Nat :
          InLine(sink, inFlight, queue, ring, emitted, a, b, c)
    BY <2>0 DEF Books
  <2>4. /\ ring \in [lines : Seq(Kept), used : Nat, lost : Nat]
        /\ ring.used = Bytes(ring.lines) /\ ring.used <= RingCapacity
    BY Zenon, <2>3 DEF InLine, RingHolds
  <2>5. Kept \subseteq Item
    BY Zenon DEF Kept
  <2>6. TypeOK
    <3>1. queue \in Seq(Item) /\ inFlight \in Seq(Item)
      BY <2>1, <2>5
    <3>2. ring \in [lines : Seq(Item), used : Nat, lost : Nat]
      <4>1. ring.lines \in Seq(Item)
        <5>1. ring.lines \in Seq(Kept)
          BY Zenon, <2>4
        <5> QED BY <2>5, <5>1
      <4> QED BY <2>4, <4>1
    <3>3. sink \in Seq([n : 0..MaxRecords, lost : Nat])
      BY Zenon, <2>1 DEF Out
    <3>4. {failed, started, exited, shutdown} \subseteq BOOLEAN
      BY Zenon, <1>1 DEF AuditInv, Control, States
    <3>5. (writer = "writing") = (inFlight # <<>>) /\ Len(inFlight) <= 1
      BY Zenon, <1>1 DEF AuditInv, Control, Flow
    <3>6. /\ mode \in {"Normal", "Ring"} /\ writer \in {"none", "check", "parked", "writing", "gone"}
          /\ settler \in {"idle", "waiting", "settled", "excused", "timeout"}
      BY Zenon, <1>1 DEF AuditInv, Control, States
    <3>7. mark \in 0..emitted /\ emitted \in 0..MaxRecords /\ refusals \in 0..MaxRefusals
      BY Zenon, <1>1 DEF AuditInv, Control, Bounds
    <3> QED BY <2>1, <3>1, <3>2, <3>3, <3>4, <3>5, <3>6, <3>7, Zenon DEF TypeOK
  <2>7. BytesCounted
    <3>1. queued = Bytes(queue) + Bytes(inFlight)
      <4>1. queued = Bytes(inFlight) + Bytes(queue)
        BY <2>1 DEF Held
      <4>2. Bytes(inFlight) \in Nat /\ Bytes(queue) \in Nat
        BY Zenon, <2>1, EntriesAre
      <4> QED BY <4>1, <4>2
    <3>2. queued <= QueueCapacity \/ \E item \in Range(inFlight \o queue) : item.len = queued
      <4> DEFINE all == inFlight \o queue
      <4>1. all \in Seq(Kept) /\ Len(all) = Len(inFlight) + Len(queue)
        BY <2>1
      <4>2. ASSUME NEW i \in 1..Len(inFlight), inFlight[i].len = queued
            PROVE  \E item \in Range(all) : item.len = queued
        <5>1. all[i] = inFlight[i] /\ i \in 1..Len(all)
          BY <2>1
        <5> HIDE DEF all
        <5>2. all[i] \in Range(all)
          BY <4>1, <5>1 DEF Range
        <5> QED BY Zenon, <4>2, <5>1, <5>2
      <4>3. ASSUME NEW i \in 1..Len(queue), queue[i].len = queued
            PROVE  \E item \in Range(all) : item.len = queued
        <5> DEFINE j == Len(inFlight) + i
        <5>1. all[j] = queue[i] /\ j \in 1..Len(all)
          BY <2>1
        <5> HIDE DEF all, j
        <5>2. all[j] \in Range(all)
          BY <4>1, <5>1 DEF Range
        <5> QED BY Zenon, <4>3, <5>1, <5>2
      <4> HIDE DEF all
      <4>4. \/ queued <= QueueCapacity
            \/ \E i \in 1..Len(inFlight) : inFlight[i].len = queued
            \/ \E i \in 1..Len(queue) : queue[i].len = queued
        BY <2>1 DEF Held
      <4>5. queued <= QueueCapacity \/ \E item \in Range(all) : item.len = queued
        BY Zenon, <4>2, <4>3, <4>4
      <4> QED BY Zenon, <4>5 DEF all
    <3> QED BY Zenon, <2>4, <3>1, <3>2 DEF BytesCounted
  <2>8. OneGapBetweenLines
    BY <2>1 DEF Held, OneGap, OneGapBetweenLines
  <2>9. Conservation
    <3>1. SumOf(Told(sink)) = OutW(sink)
      BY <2>1, OutEntriesAre
    <3>2. SumOf(Covered(inFlight \o queue)) = W(inFlight) + W(queue)
      BY Zenon, <2>1, EntriesConcat, EntriesAre
    <3>3. PICK l \in Nat : ring.lost = l
      BY <2>4
    <3>4. PICK n \in Nat : Len(ring.lines) = n
      <4>1. ring.lines \in Seq(Kept)
        BY Zenon, <2>4
      <4> QED BY <4>1
    <3>5. PICK s \in Nat : OutW(sink) = s
      BY Zenon, <2>1
    <3>6. PICK f \in Nat : W(inFlight) = f
      BY Zenon, <2>1
    <3>7. PICK w \in Nat : W(queue) = w
      BY Zenon, <2>1
    <3>8. (s + f) + w + (l + n) = s + (f + w) + l + n
      OBVIOUS
    <3>9. emitted + again = (s + f) + w + (l + n)
      BY Zenon, <2>2, <3>3, <3>4, <3>5, <3>6, <3>7
    <3>10. emitted + again = s + (f + w) + l + n
      BY Zenon, <3>8, <3>9
    <3> QED BY Zenon, <3>1, <3>2, <3>3, <3>4, <3>5, <3>6, <3>7, <3>10 DEF Conservation
  <2> QED BY Zenon, <2>6, <2>7, <2>8, <2>9 DEF Accounted
<1> QED
  BY <1>1, AuditInvHolds, PTL

\* es has the numbers of s.
Numbered(s, es) == Len(es) = Len(s) /\ \A i \in 1..Len(s) : es[i].n = s[i].n

(* Two numbered sequences, one behind the other.                            *)
LEMMA NumberedConcat ==
  ASSUME NEW X, NEW s \in Seq(X), NEW t \in Seq(X), NEW es \in Seq(Entry), NEW et \in Seq(Entry),
         Numbered(s, es), Numbered(t, et)
  PROVE  s \o t \in Seq(X) /\ es \o et \in Seq(Entry) /\ Numbered(s \o t, es \o et)
<1> DEFINE u == s \o t
           eu == es \o et
<1>1. u \in Seq(X) /\ eu \in Seq(Entry)
  OBVIOUS
<1>2. Len(es) = Len(s) /\ Len(et) = Len(t) /\ Len(s) \in Nat /\ Len(t) \in Nat
  BY DEF Numbered
<1>3. Len(u) = Len(s) + Len(t) /\ Len(eu) = Len(s) + Len(t)
  BY <1>2
<1>4. ASSUME NEW i \in 1..Len(u) PROVE eu[i].n = u[i].n
  <2>1. CASE i <= Len(s)
    <3>1. u[i] = s[i] /\ eu[i] = es[i] /\ i \in 1..Len(s)
      BY <1>2, <1>3, <2>1
    <3> QED BY Zenon, <3>1 DEF Numbered
  <2>2. CASE i > Len(s)
    <3>1. PICK k \in Nat : k = i - Len(s)
      BY <1>2, <1>3, <2>2
    <3>2. k \in 1..Len(t) /\ i = Len(s) + k
      BY <1>2, <1>3, <2>2, <3>1
    <3>3. u[i] = t[k] /\ eu[i] = et[k]
      BY <1>2, <3>2
    <3> QED BY Zenon, <3>2, <3>3 DEF Numbered
  <2> QED BY <1>2, <1>3, <2>1, <2>2
<1> HIDE DEF u, eu
<1>5. Numbered(u, eu)
  BY <1>3, <1>4 DEF Numbered
<1> QED
  BY Zenon, <1>1, <1>5 DEF u, eu

(* In every reachable state the sink is a faithful log (SinkFaithful):      *)
(* records are in the order in which they were written, in the sink and in  *)
(* whatever is still held, and at each line of the sink all the records     *)
(* missing before it have been announced.                                   *)
THEOREM SinkIsFaithful == Spec => []SinkFaithful
<1>1. ASSUME AuditInv PROVE SinkFaithful
  <2>0. Books(sink, inFlight, queue, queued, ring, emitted, again, Settled)
    BY <1>1 DEF AuditInv, Balanced
  <2>1. /\ sink \in Seq(Out) /\ inFlight \in Seq(Kept) /\ queue \in Seq(Kept)
        /\ OutW(sink) \in Nat /\ W(inFlight) \in Nat /\ W(queue) \in Nat /\ emitted \in Nat
        /\ ring.lines \in Seq(Kept) /\ ring.lost \in Nat
    BY Zenon, <2>0, BookTypes
  <2>2. PICK a \in Nat, b \in Nat, c \in Nat :
          InLine(sink, inFlight, queue, ring, emitted, a, b, c)
    BY <2>0 DEF Books
  <2> DEFINE e1 == OutEntries(sink)
             e2 == Entries(inFlight)
             e3 == Entries(queue)
             e4 == Entries(ring.lines)
  <2>3. /\ a <= b /\ b <= c /\ c <= emitted /\ Faithful(e1, 0, a, 0)
        /\ Faithful(e2, a, b, OutW(sink)) /\ Faithful(e3, b, c, OutW(sink) + W(inFlight))
        /\ RingHolds(ring, c, emitted, (OutW(sink) + W(inFlight)) + W(queue))
    BY Zenon, <2>2 DEF InLine
  <2>4. Faithful(e4, c, emitted, ((OutW(sink) + W(inFlight)) + W(queue)) + ring.lost)
    BY <2>3 DEF RingHolds
  <2>5. /\ e1 \in Seq(Entry) /\ e2 \in Seq(Entry) /\ e3 \in Seq(Entry) /\ e4 \in Seq(Entry)
        /\ Weight(e1) = OutW(sink) /\ Weight(e2) = W(inFlight) /\ Weight(e3) = W(queue)
    BY Zenon, <2>1, OutEntriesAre, EntriesAre DEF OutW, W
  <2>6. /\ Numbered(sink, e1) /\ Numbered(inFlight, e2) /\ Numbered(queue, e3)
        /\ Numbered(ring.lines, e4)
    BY Zenon, <2>1, OutEntriesAre, EntriesAre DEF Numbered
  <2>7. DeliveredInOrder
    <3> DEFINE X == Out \cup Kept
               all == sink \o inFlight \o queue \o ring.lines
               es == e1 \o e2 \o e3 \o e4
    <3>1. sink \in Seq(X) /\ inFlight \in Seq(X) /\ queue \in Seq(X) /\ ring.lines \in Seq(X)
      BY <2>1
    <3> HIDE DEF X, e1, e2, e3, e4
    <3>2. all \in Seq(X) /\ es \in Seq(Entry) /\ Numbered(all, es)
      <4>1. /\ sink \o inFlight \in Seq(X) /\ e1 \o e2 \in Seq(Entry)
            /\ Numbered(sink \o inFlight, e1 \o e2)
        BY <2>5, <2>6, <3>1, NumberedConcat
      <4>2. /\ sink \o inFlight \o queue \in Seq(X) /\ e1 \o e2 \o e3 \in Seq(Entry)
            /\ Numbered(sink \o inFlight \o queue, e1 \o e2 \o e3)
        BY Zenon, <2>5, <2>6, <3>1, <4>1, NumberedConcat
      <4> QED BY Zenon, <2>5, <2>6, <3>1, <4>2, NumberedConcat
    <3>3. Faithful(es, 0, emitted, ring.lost)
      <4>1. PICK w1 \in Nat : Weight(e1) = w1 /\ OutW(sink) = w1
        BY Zenon, <2>1, <2>5
      <4>2. PICK w2 \in Nat : Weight(e2) = w2 /\ W(inFlight) = w2
        BY Zenon, <2>1, <2>5
      <4>3. PICK w3 \in Nat : Weight(e3) = w3 /\ W(queue) = w3
        BY Zenon, <2>1, <2>5
      <4>4. PICK l \in Nat : ring.lost = l
        BY Zenon, <2>1
      <4>5. Faithful(e1 \o e2, 0, b, 0) /\ e1 \o e2 \in Seq(Entry) /\ Weight(e1 \o e2) = w1 + w2
        <5>1. 0 \in Nat /\ 0 <= a /\ 0 + Weight(e1) = w1
          BY <4>1
        <5>2. Faithful(e2, a, b, 0 + Weight(e1))
          BY Zenon, <2>3, <4>1, <5>1
        <5>3. Faithful(e1 \o e2, 0, b, 0)
          BY Zenon, <2>3, <2>5, <5>1, <5>2, FaithfulConcat
        <5>4. e1 \o e2 \in Seq(Entry)
          BY <2>5
        <5>5. Weight(e1 \o e2) = w1 + w2
          BY <2>5, <4>1, <4>2, WeightConcat
        <5> QED BY Zenon, <5>3, <5>4, <5>5
      <4>6. /\ Faithful(e1 \o e2 \o e3, 0, c, 0) /\ e1 \o e2 \o e3 \in Seq(Entry)
            /\ Weight(e1 \o e2 \o e3) = (w1 + w2) + w3
        <5>1. 0 \in Nat /\ 0 <= b /\ 0 + (w1 + w2) = w1 + w2
          OBVIOUS
        <5>2. Faithful(e3, b, c, 0 + Weight(e1 \o e2))
          BY <2>3, <4>1, <4>2, <4>5, <5>1
        <5>3. Faithful((e1 \o e2) \o e3, 0, c, 0)
          BY Zenon, <2>3, <2>5, <4>5, <5>1, <5>2, FaithfulConcat
        <5>4. (e1 \o e2) \o e3 \in Seq(Entry)
          BY <2>5, <4>5
        <5>5. Weight((e1 \o e2) \o e3) = (w1 + w2) + w3
          BY Zenon, <2>5, <4>3, <4>5, WeightConcat
        <5> QED BY Zenon, <5>3, <5>4, <5>5
      <4>7. Faithful(e1 \o e2 \o e3, 0, c, l)
        <5>1. 0 \in Nat /\ 0 <= 0 /\ c <= c /\ 0 <= l
          OBVIOUS
        <5> QED BY Zenon, <4>6, <5>1, FaithfulWider
      <4>8. Faithful(e4, c, emitted, l + Weight(e1 \o e2 \o e3))
        <5>1. ((w1 + w2) + w3) + l = l + ((w1 + w2) + w3)
          OBVIOUS
        <5> QED BY Zenon, <2>4, <4>1, <4>2, <4>3, <4>4, <4>6, <5>1
      <4>9. 0 \in Nat /\ 0 <= c
        OBVIOUS
      <4>10. Faithful((e1 \o e2 \o e3) \o e4, 0, emitted, l)
        BY Zenon, <2>1, <2>3, <2>5, <4>6, <4>7, <4>8, <4>9, FaithfulConcat
      <4> QED BY Zenon, <4>4, <4>10
    <3> HIDE DEF all, es
    <3>4. ASSUME NEW i \in DOMAIN all, NEW j \in DOMAIN all, i < j, IsLine(all[i]), IsLine(all[j])
          PROVE  all[i].n < all[j].n
      <4>1. i \in 1..Len(all) /\ j \in 1..Len(all) /\ i \in 1..(j - 1) /\ Len(es) = Len(all)
        BY <3>2, <3>4 DEF Numbered
      <4>2. es[i].n = all[i].n /\ es[j].n = all[j].n
        BY <3>2, <4>1 DEF Numbered
      <4>3. es[i].n # 0 /\ es[j].n # 0
        BY Zenon, <3>4, <4>2 DEF IsLine
      <4>4. Sound(es, j, 0, emitted, ring.lost)
        BY <3>3, <4>1, <4>3 DEF Faithful
      <4> QED BY Zenon, <4>1, <4>2, <4>3, <4>4 DEF Sound
    <3> QED BY Zenon, <3>4 DEF DeliveredInOrder, all
  <2>8. LossReportedAhead
    <3> SUFFICES ASSUME NEW p \in DOMAIN sink, IsLine(sink[p])
                 PROVE  sink[p].n - 1 <= SumOf(Told(SubSeq(sink, 1, p - 1)))
      BY Zenon DEF LossReportedAhead
    <3> DEFINE s == SubSeq(sink, 1, p - 1)
    <3>1. p \in 1..Len(sink) /\ Len(e1) = Len(sink) /\ e1[p].n = sink[p].n /\ sink[p].n \in Nat
      BY <2>1, OutEntriesAre
    <3>2. e1[p].n <= 1 + 0 + Weight(SubSeq(e1, 1, p - 1))
      <4> HIDE DEF e1
      <4> QED BY Zenon, <2>3, <3>1 DEF Faithful, Sound, IsLine
    <3>3. Ws(SubSeq(e1, 1, p - 1)) = Told(s)
      <4>1. Len(s) = p - 1 /\ \A i \in 1..(p - 1) : s[i] = sink[i]
        BY <2>1, <3>1
      <4>2. /\ Len(SubSeq(e1, 1, p - 1)) = p - 1
            /\ \A i \in 1..(p - 1) : SubSeq(e1, 1, p - 1)[i] = e1[i]
        <5> HIDE DEF e1
        <5> QED BY <2>5, <3>1
      <4>3. \A i \in 1..(p - 1) : e1[i].w = IF IsLine(sink[i]) THEN 1 ELSE sink[i].lost
        <5>1. \A i \in 1..(p - 1) : i \in 1..Len(sink)
          BY <2>1, <3>1
        <5> QED BY Zenon, <5>1 DEF OutEntries, Told
      <4> HIDE DEF s, e1
      <4>4. Ws(SubSeq(e1, 1, p - 1)) = [i \in 1..(p - 1) |-> e1[i].w]
        BY Zenon, <4>2 DEF Ws
      <4>5. Told(s) = [i \in 1..(p - 1) |-> IF IsLine(sink[i]) THEN 1 ELSE sink[i].lost]
        BY Zenon, <4>1 DEF Told
      <4> QED BY Zenon, <4>3, <4>4, <4>5
    <3>4. Weight(SubSeq(e1, 1, p - 1)) = SumOf(Told(s))
      BY Zenon, <3>3 DEF Weight
    <3>5. SumOf(Told(s)) \in Nat
      <4>1. s \in Seq(Out)
        BY <2>1, <3>1
      <4> HIDE DEF s
      <4> QED BY Zenon, <4>1, OutEntriesAre
    <3> HIDE DEF s, e1
    <3>6. PICK n \in Nat : sink[p].n = n
      BY Zenon, <3>1
    <3>7. n <= 1 + 0 + SumOf(Told(s))
      BY Zenon, <3>1, <3>2, <3>4, <3>6
    <3>8. n - 1 <= SumOf(Told(s))
      BY <3>5, <3>7
    <3> QED BY Zenon, <3>6, <3>8 DEF s
  <2> QED BY Zenon, <2>7, <2>8 DEF SinkFaithful
<1> QED
  BY <1>1, AuditInvHolds, PTL

(* settle tells the truth (SettledMeansDelivered): once it said that the    *)
(* records are out, none of those written before the call is still held,    *)
(* and a writer that ended outside a window left nothing in the queue.      *)
THEOREM SettleTellsTheTruth == Spec => []SettledMeansDelivered
<1>1. ASSUME AuditInv PROVE SettledMeansDelivered
  <2>0. Books(sink, inFlight, queue, queued, ring, emitted, again, Settled)
    BY <1>1 DEF AuditInv, Balanced
  <2>1. inFlight \in Seq(Kept) /\ queue \in Seq(Kept)
    BY Zenon, <2>0, BookTypes
  <2>2. PICK a \in Nat, b \in Nat, c \in Nat :
          Settled <= a /\ InLine(sink, inFlight, queue, ring, emitted, a, b, c)
    BY Zenon, <2>0 DEF Books
  <2>3. /\ a <= b /\ Faithful(Entries(inFlight), a, b, OutW(sink))
        /\ Faithful(Entries(queue), b, c, OutW(sink) + W(inFlight))
    BY Zenon, <2>2 DEF InLine
  <2>4. ASSUME settler = "settled", NEW n \in 1..mark, n \in Undelivered PROVE FALSE
    <3> DEFINE all == inFlight \o queue
    <3>1. mark \in Nat /\ mark <= a
      BY <1>1, <2>2, <2>4 DEF Settled, AuditInv, Control, Bounds
    <3>2. PICK i \in DOMAIN all : all[i].n = n
      BY Zenon, <2>4 DEF Undelivered, Range
    <3>3. all \in Seq(Kept) /\ Len(all) = Len(inFlight) + Len(queue) /\ DOMAIN all = 1..Len(all)
          /\ Len(inFlight) \in Nat /\ Len(queue) \in Nat
      BY <2>1
    <3>4. n > 0 /\ n <= a /\ n \in Nat
      BY <3>1
    <3>5. CASE i <= Len(inFlight)
      <4>1. i \in 1..Len(inFlight) /\ all[i] = inFlight[i]
        BY <2>1, <3>3, <3>5
      <4>2. i \in 1..Len(Entries(inFlight)) /\ Entries(inFlight)[i].n = n
        BY Zenon, <2>1, <3>2, <4>1, EntriesAre
      <4>3. a < n
        BY <2>3, <3>4, <4>2 DEF Faithful, Sound
      <4> QED BY <3>4, <4>3
    <3>6. CASE i > Len(inFlight)
      <4>1. PICK k \in Nat : k = i - Len(inFlight)
        BY <3>3, <3>6
      <4>2. k \in 1..Len(queue) /\ i = Len(inFlight) + k
        BY <3>3, <3>6, <4>1
      <4>3. all[i] = queue[k]
        BY <2>1, <4>2
      <4>4. k \in 1..Len(Entries(queue)) /\ Entries(queue)[k].n = n
        BY Zenon, <2>1, <3>2, <4>2, <4>3, EntriesAre
      <4>5. b < n
        BY <2>3, <3>4, <4>4 DEF Faithful, Sound
      <4> QED BY <2>3, <3>4, <4>5
    <3> QED BY <3>3, <3>5, <3>6
  <2>5. writer = "gone" /\ mode = "Normal" => queue = <<>>
    BY <1>1 DEF AuditInv, Control, Flow
  <2> QED BY Zenon, <2>4, <2>5 DEF SettledMeansDelivered
<1> QED
  BY <1>1, AuditInvHolds, PTL

(* While the router is in Ring mode no write to the sink begins: what is in *)
(* flight was in flight before (QuietWhileFrozen).                          *)
THEOREM NoWriteBeginsWhileFrozen == Spec => QuietWhileFrozen
<1>1. [Next]_vars => [mode = "Ring" /\ inFlight' # <<>> => inFlight' = inFlight]_vars
  <2> SUFFICES ASSUME Next, mode = "Ring", inFlight' # <<>> PROVE inFlight' = inFlight
    BY Zenon
  <2> USE DEF writerVars
  <2>1. CASE \E len \in Sizes : WriteRecord(len)
    BY <2>1 DEF WriteRecord
  <2>2. CASE EnterRing \/ FlushToNormal \/ StartWriter \/ Spawned \/ DropLast
    BY Zenon, <2>2 DEF EnterRing, FlushToNormal, StartWriter, Spawned, DropLast
  <2>3. CASE Take \/ Exit \/ Park
    BY <2>3 DEF Take, CanTake, Exit, Park
  <2>4. CASE Delivered \/ Refused
    BY Zenon, <2>4 DEF Delivered, Refused
  <2>5. CASE Settle \/ SettleReturns
    BY <2>5 DEF Settle, SettleReturns
  <2> QED BY Zenon, <2>1, <2>2, <2>3, <2>4, <2>5 DEF Next
<1> QED
  BY <1>1, PTL DEF Spec, QuietWhileFrozen

(* No wake-up of the writer is lost (NeverSleepsOnWork, the safety half of  *)
(* WriterServes): after any step a parked writer has nothing it could take  *)
(* and no reason to end.                                                    *)
THEOREM WriterNeverSleepsOnWork == Spec => NeverSleepsOnWork
<1>1. AuditInv => ParkedIsIdle
  BY DEF AuditInv, Control, Flow
<1> QED
  BY <1>1, AuditInvHolds, PTL DEF NeverSleepsOnWork

=============================================================================
