---------------------------- MODULE SessionProofs ----------------------------
(***************************************************************************)
(* One session for any queue, any number of control lanes, replies of any  *)
(* size and any number of commands: replies are neither lost nor reordered,*)
(* the queue keeps its bounds, side effects are serial and a session that  *)
(* ends leaves nothing half-done.                                          *)
(*                                                                         *)
(* The lemmas on the operators come first: what the loop over the finished *)
(* commands (Push) and the loop over the waiting ones (Admit) return.      *)
(***************************************************************************)
EXTENDS Session, Induction, FiniteSetTheorems

Slot == [n : 1..MaxCommands, kind : Kinds, st : {"Waiting", "Pending", "Done"},
         size : ReplySizes \cup {0}]
Replied == [n : 1..MaxCommands, left : Nat \ {0}]

(* The finished commands at the front of a queue are well defined.          *)
LEMMA DonePrefixIs ==
  ASSUME NEW s \in Seq(Slot)
  PROVE  /\ DonePrefix(s) \in 0..Len(s)
         /\ \A i \in 1..DonePrefix(s) : s[i].st = "Done"
         /\ DonePrefix(s) < Len(s) => s[DonePrefix(s) + 1].st # "Done"
<1> DEFINE Stops == {i \in 1..(Len(s) + 1) : i <= Len(s) => s[i].st # "Done"}
<1>1. Len(s) + 1 \in Stops /\ Stops \in SUBSET Nat
  OBVIOUS
<1>2. PICK m \in Stops : \A k \in Stops : m <= k
  <2> HIDE DEF Stops
  <2> QED BY <1>1, LeastNumber
<1>3. \A i \in 1..(m - 1) : s[i].st = "Done"
  BY <1>2
<1>4. /\ m - 1 \in 0..Len(s) /\ \A i \in 1..(m - 1) : s[i].st = "Done"
      /\ m - 1 < Len(s) => s[(m - 1) + 1].st # "Done"
  BY <1>2, <1>3
<1> QED
  BY Zenon, <1>4 DEF DonePrefix

(* The fields of a command in the queue.                                    *)
LEMMA SlotFields ==
  ASSUME NEW c \in Slot
  PROVE  /\ c.n \in 1..MaxCommands /\ c.n \in Int /\ c.size \in Nat
         /\ c.size > 0 => Reply(c) \in Replied
<1>1. c.n \in 1..MaxCommands /\ c.size \in ReplySizes \cup {0}
  BY DEF Slot
<1>2. ReplySizes \subseteq Nat
  BY SessionAssumption
<1>3. c.size \in Nat
  <2>1. c.size \in ReplySizes \/ c.size = 0
    BY <1>1
  <2>2. 0 \in Nat
    OBVIOUS
  <2> QED BY <1>2, <2>1, <2>2, Zenon
<1> QED
  BY <1>1, <1>3 DEF Reply, Replied

(* Pushing is a loop: one value of the outbox after each finished command.  *)
LEMMA PushLoop ==
  ASSUME NEW box \in Seq(Replied), NEW gone \in Seq(Slot)
  PROVE  \E f : /\ f[0] = box /\ f[Len(gone)] = Push(box, gone)
                /\ \A k \in 1..Len(gone) :
                      f[k] = IF gone[k].size > 0 THEN Append(f[k - 1], Reply(gone[k]))
                                                 ELSE f[k - 1]
<1> DEFINE n == Len(gone)
           X == Seq(Replied)
           G(x, i) == IF gone[i].size > 0 THEN Append(x, Reply(gone[i])) ELSE x
           F == [p \in (1..n) \X X |-> G(p[2], p[1])]
<1>1. n \in Nat /\ box \in X
  OBVIOUS
<1>2. ASSUME NEW i \in 1..n, NEW x \in X
      PROVE  G(x, i) \in X
  <2>1. gone[i] \in Slot
    OBVIOUS
  <2>2. gone[i].size > 0 => Reply(gone[i]) \in Replied
    BY <2>1, SlotFields
  <2> QED BY <2>2
<1>3. F \in Steps(n, X)
  <2> HIDE DEF n, X, G
  <2> QED BY <1>2 DEF Steps
<1>4. PICK f : Iterates(f, n, X, box, F)
  <2> HIDE DEF n, X, F
  <2> QED BY <1>1, <1>3, Iteration
<1>5. ASSUME NEW i \in 1..n PROVE f[i] = G(f[i - 1], i)
  <2> HIDE DEF n, X, G
  <2>1. f[i - 1] \in X
    BY <1>4, <1>1 DEF Iterates
  <2> QED BY Zenon, <1>4, <2>1 DEF Iterates
<1>6. f = [k \in 0..n |-> IF k = 0 THEN box ELSE G(f[k - 1], k)]
  <2> HIDE DEF n, X, G
  <2> QED BY <1>4, <1>5 DEF Iterates
<1> DEFINE pushed == CHOOSE h : h = [k \in 0..n |-> IF k = 0 THEN box ELSE G(h[k - 1], k)]
<1>7. pushed = [k \in 0..n |-> IF k = 0 THEN box ELSE G(pushed[k - 1], k)]
  BY Zenon, <1>6
<1>8. Push(box, gone) = pushed[n]
  BY DEF Push
<1>9. /\ pushed[0] = box /\ \A k \in 1..n : pushed[k] = G(pushed[k - 1], k)
  <2> HIDE DEF pushed, G, n
  <2> QED BY <1>1, <1>7
<1> HIDE DEF pushed
<1> QED
  BY <1>8, <1>9

\* p is the outbox once the first k of the finished commands were pushed: what
\* was in it stays in front, then come those that have a reply, in their order.
Pushed(p, box, gone, k) ==
  /\ p \in Seq(Replied) /\ Len(box) <= Len(p) /\ Len(p) <= Len(box) + k
  /\ \A i \in 1..Len(box) : p[i] = box[i]
  /\ \A i \in (Len(box) + 1)..Len(p) : \E a \in 1..k : p[i].n = gone[a].n
  /\ \A i, j \in (Len(box) + 1)..Len(p) :
        i < j => \E a, b \in 1..k : a < b /\ p[i].n = gone[a].n /\ p[j].n = gone[b].n
  /\ \A a \in 1..k : gone[a].size > 0 => \E i \in 1..Len(p) : p[i].n = gone[a].n

(* Every reply is pushed, behind the earlier ones and in request order.     *)
LEMMA PushIs ==
  ASSUME NEW box \in Seq(Replied), NEW gone \in Seq(Slot)
  PROVE  Pushed(Push(box, gone), box, gone, Len(gone))
<1> DEFINE n == Len(gone)
<1>1. PICK f : /\ f[0] = box /\ f[n] = Push(box, gone)
               /\ \A k \in 1..n : f[k] = IF gone[k].size > 0 THEN Append(f[k - 1], Reply(gone[k]))
                                                             ELSE f[k - 1]
  BY PushLoop
<1> DEFINE S == {k \in 0..n : Pushed(f[k], box, gone, k)}
<1>2. n \in Nat
  OBVIOUS
<1>3. 0 \in S
  BY <1>1, <1>2 DEF Pushed
<1>4. ASSUME NEW k \in 1..n, k - 1 \in S PROVE k \in S
  <2> DEFINE old == f[k - 1]
             new == f[k]
             m == Len(old)
  <2>1. Pushed(old, box, gone, k - 1)
    BY <1>4
  <2>2. gone[k] \in Slot
    OBVIOUS
  <2>3. CASE gone[k].size > 0
    <3>1. new = Append(old, Reply(gone[k])) /\ Reply(gone[k]) \in Replied
      BY Zenon, <1>1, <2>2, <2>3, SlotFields
    <3>2. old \in Seq(Replied)
      BY <2>1 DEF Pushed
    <3> HIDE DEF old, new
    <3>3. /\ new \in Seq(Replied) /\ Len(new) = m + 1 /\ m \in Nat
          /\ \A i \in 1..m : new[i] = old[i]
          /\ new[m + 1].n = gone[k].n
      BY <3>1, <3>2 DEF Reply
    <3> HIDE DEF m
    <3>4. Len(box) \in Nat /\ Len(box) <= m /\ m <= Len(box) + (k - 1)
      BY <2>1 DEF Pushed, m
    <3>5. /\ Len(new) <= Len(box) + k
          /\ \A i \in 1..Len(box) : new[i] = box[i]
      BY <2>1, <3>3, <3>4 DEF Pushed
    <3>6. ASSUME NEW i \in (Len(box) + 1)..Len(new)
          PROVE  \E a \in 1..k : new[i].n = gone[a].n
      <4>1. CASE i = m + 1
        BY <3>3, <4>1
      <4>2. CASE i # m + 1
        <5>1. i \in (Len(box) + 1)..m /\ new[i] = old[i]
          BY <3>3, <3>4, <4>2
        <5>2. PICK a \in 1..(k - 1) : old[i].n = gone[a].n
          BY <2>1, <5>1 DEF Pushed, m
        <5>3. a \in 1..k
          OBVIOUS
        <5> QED BY <5>1, <5>2, <5>3
      <4> QED BY <4>1, <4>2
    <3>7. ASSUME NEW i \in (Len(box) + 1)..Len(new), NEW j \in (Len(box) + 1)..Len(new), i < j
          PROVE  \E a, b \in 1..k : a < b /\ new[i].n = gone[a].n /\ new[j].n = gone[b].n
      <4>1. i \in (Len(box) + 1)..m /\ new[i] = old[i]
        BY <3>3, <3>4, <3>7
      <4>2. CASE j = m + 1
        <5>1. PICK a \in 1..(k - 1) : old[i].n = gone[a].n
          BY <2>1, <4>1 DEF Pushed, m
        <5>2. a \in 1..k /\ a < k /\ k \in 1..k
          OBVIOUS
        <5> QED BY Zenon, <3>3, <4>1, <4>2, <5>1, <5>2
      <4>3. CASE j # m + 1
        <5>1. j \in (Len(box) + 1)..m /\ new[j] = old[j]
          BY <3>3, <3>4, <4>3
        <5>2. PICK a \in 1..(k - 1), b \in 1..(k - 1) :
                 a < b /\ old[i].n = gone[a].n /\ old[j].n = gone[b].n
          BY <2>1, <3>7, <4>1, <5>1 DEF Pushed, m
        <5>3. a \in 1..k /\ b \in 1..k
          OBVIOUS
        <5> QED BY <4>1, <5>1, <5>2, <5>3
      <4> QED BY Zenon, <4>2, <4>3
    <3>8. ASSUME NEW a \in 1..k, gone[a].size > 0
          PROVE  \E i \in 1..Len(new) : new[i].n = gone[a].n
      <4>1. CASE a = k
        BY <3>3, <4>1
      <4>2. CASE a # k
        <5>1. PICK i \in 1..m : old[i].n = gone[a].n
          <6>1. a \in 1..(k - 1)
            BY <4>2
          <6> QED BY Zenon, <2>1, <3>8, <6>1 DEF Pushed, m
        <5>2. i \in 1..Len(new) /\ new[i] = old[i]
          BY <3>3
        <5> QED BY <5>1, <5>2
      <4> QED BY <4>1, <4>2
    <3>9. Pushed(new, box, gone, k)
      BY <3>3, <3>4, <3>5, <3>6, <3>7, <3>8 DEF Pushed
    <3> QED BY <3>9 DEF new
  <2>4. CASE ~(gone[k].size > 0)
    <3>1. f[k] = old
      BY <1>1, <2>4
    <3> HIDE DEF old
    <3>2. 1..(k - 1) \subseteq 1..k /\ \A a \in 1..k : a = k \/ a \in 1..(k - 1)
      OBVIOUS
    <3>3. /\ old \in Seq(Replied) /\ Len(box) <= Len(old) /\ Len(old) <= Len(box) + k
          /\ \A i \in 1..Len(box) : old[i] = box[i]
      BY <2>1 DEF Pushed
    <3>4. \A i \in (Len(box) + 1)..Len(old) : \E a \in 1..k : old[i].n = gone[a].n
      BY <2>1, <3>2 DEF Pushed
    <3>5. ASSUME NEW i \in (Len(box) + 1)..Len(old), NEW j \in (Len(box) + 1)..Len(old), i < j
          PROVE  \E a, b \in 1..k : a < b /\ old[i].n = gone[a].n /\ old[j].n = gone[b].n
      <4>1. PICK a \in 1..(k - 1), b \in 1..(k - 1) :
               a < b /\ old[i].n = gone[a].n /\ old[j].n = gone[b].n
        BY Zenon, <2>1, <3>5 DEF Pushed
      <4> QED BY <3>2, <4>1
    <3>6. \A a \in 1..k : gone[a].size > 0 => \E i \in 1..Len(old) : old[i].n = gone[a].n
      BY <2>1, <2>4, <3>2 DEF Pushed
    <3>7. Pushed(old, box, gone, k)
      BY Zenon, <3>3, <3>4, <3>5, <3>6 DEF Pushed
    <3> QED BY <3>1, <3>7
  <2> QED BY <2>3, <2>4
<1>5. \A k \in 0..n : k \in S
  <2> HIDE DEF S, n
  <2> QED BY Zenon, <1>2, <1>3, <1>4, InductionTo
<1>6. n \in S
  BY <1>2, <1>5
<1> QED
  BY <1>1, <1>6

-----------------------------------------------------------------------------
Lane == [controls : Nat, freeze : BOOLEAN, thawOrOrdinary : BOOLEAN]
Acc == [lanes : Lane, serialWaiting : BOOLEAN]

(* The lanes of a queue.                                                    *)
LEMMA LanesType ==
  ASSUME NEW s \in Seq(Slot)
  PROVE  /\ LanesOf(s) \in Lane
         /\ LanesOf(s).freeze <=> \E i \in 1..Len(s) : s[i].st = "Pending" /\ s[i].kind = "Freeze"
         /\ LanesOf(s).thawOrOrdinary <=>
               \E i \in 1..Len(s) : s[i].st = "Pending" /\ s[i].kind \in {"Thaw", "Ordinary"}
<1> DEFINE C == {i \in Positions(s, "Pending") : s[i].kind = "Control"}
           kinds == {s[i].kind : i \in Positions(s, "Pending")}
<1>1. DOMAIN s = 1..Len(s) /\ Len(s) \in Nat
  OBVIOUS
<1>2. Cardinality(C) \in Nat
  <2>1. C \subseteq 1..Len(s)
    BY <1>1 DEF Positions
  <2>2. IsFiniteSet(1..Len(s))
    BY <1>1, FS_Interval
  <2> HIDE DEF C
  <2> QED BY Zenon, <2>1, <2>2, FS_Subset, FS_CardinalityType
<1>3. LanesOf(s) = [controls |-> Cardinality(C), freeze |-> "Freeze" \in kinds,
                    thawOrOrdinary |-> kinds \cap {"Thaw", "Ordinary"} # {}]
  BY DEF LanesOf
<1>4. "Freeze" \in kinds <=> \E i \in 1..Len(s) : s[i].st = "Pending" /\ s[i].kind = "Freeze"
  BY <1>1 DEF Positions
<1>5. kinds \cap {"Thaw", "Ordinary"} # {} <=>
         \E i \in 1..Len(s) : s[i].st = "Pending" /\ s[i].kind \in {"Thaw", "Ordinary"}
  BY Zenon, <1>1 DEF Positions
<1> HIDE DEF C, kinds
<1>6. LanesOf(s) \in Lane
  BY <1>2, <1>3 DEF Lane
<1>7. /\ LanesOf(s).freeze = ("Freeze" \in kinds)
      /\ LanesOf(s).thawOrOrdinary = (kinds \cap {"Thaw", "Ordinary"} # {})
  BY <1>3
<1> QED
  BY Zenon, <1>4, <1>5, <1>6, <1>7

(* One more slot keeps the types.                                           *)
LEMMA AdmitOneType ==
  ASSUME NEW acc \in Acc, NEW c \in Slot
  PROVE  AdmitOne(acc, c) \in Acc
<1>1. /\ acc.lanes \in Lane /\ acc.serialWaiting \in BOOLEAN
      /\ acc.lanes.controls \in Nat /\ acc.lanes.freeze \in BOOLEAN
      /\ acc.lanes.thawOrOrdinary \in BOOLEAN
  BY DEF Acc, Lane
<1>2. Take(acc.lanes, c.kind) \in Lane
  BY <1>1 DEF Take, Lane
<1>3. [acc EXCEPT !.lanes = Take(acc.lanes, c.kind)] \in Acc
  BY <1>2 DEF Acc
<1>4. [acc EXCEPT !.serialWaiting = acc.serialWaiting \/ c.kind # "Control"] \in Acc
  BY Zenon, <1>1 DEF Acc
<1> QED
  BY <1>3, <1>4 DEF AdmitOne

\* What admitting the waiting commands among the oldest n does, g being the
\* lanes and whether a serial command waits after each of them.
AdmitRun(r, s, n, g) ==
  /\ g \in [0..n -> Acc] /\ g[0] = [lanes |-> LanesOf(s), serialWaiting |-> FALSE]
  /\ \A k \in 1..n : g[k] = AdmitOne(g[k - 1], s[k])
  /\ r = [i \in DOMAIN s |->
            IF /\ i <= n /\ s[i].st = "Waiting"
               /\ LaneFree(g[i - 1].lanes, s[i].kind, g[i - 1].serialWaiting)
            THEN [s[i] EXCEPT !.st = "Pending"] ELSE s[i]]

(* Admitting is a loop over the oldest n commands.                          *)
LEMMA AdmitLoop ==
  ASSUME NEW s \in Seq(Slot), NEW n \in 0..Len(s)
  PROVE  \E g : AdmitRun(AdmitOldest(s, n), s, n, g)
<1> DEFINE x0 == [lanes |-> LanesOf(s), serialWaiting |-> FALSE]
           G(x, i) == AdmitOne(x, s[i])
           F == [p \in (1..n) \X Acc |-> G(p[2], p[1])]
<1>1. n \in Nat /\ x0 \in Acc
  BY LanesType DEF Acc
<1>2. ASSUME NEW i \in 1..n, NEW x \in Acc PROVE G(x, i) \in Acc
  <2>1. s[i] \in Slot
    OBVIOUS
  <2> QED BY <2>1, AdmitOneType
<1>3. F \in Steps(n, Acc)
  <2> HIDE DEF G
  <2> QED BY <1>2 DEF Steps
<1>4. PICK f : Iterates(f, n, Acc, x0, F)
  <2> HIDE DEF x0, F
  <2> QED BY <1>1, <1>3, Iteration
<1>5. ASSUME NEW i \in 1..n PROVE f[i] = G(f[i - 1], i)
  <2> HIDE DEF x0, G
  <2>1. f[i - 1] \in Acc
    BY <1>4, <1>1 DEF Iterates
  <2> QED BY Zenon, <1>4, <2>1 DEF Iterates
<1>6. f = [k \in 0..n |-> IF k = 0 THEN x0 ELSE G(f[k - 1], k)]
  <2> HIDE DEF x0, G
  <2> QED BY <1>4, <1>5 DEF Iterates
<1> DEFINE g == CHOOSE h : h = [k \in 0..n |-> IF k = 0 THEN x0 ELSE G(h[k - 1], k)]
<1>7. g = [k \in 0..n |-> IF k = 0 THEN x0 ELSE G(g[k - 1], k)]
  BY Zenon, <1>6
<1>8. AdmitOldest(s, n) =
         [i \in DOMAIN s |->
            IF /\ i <= n /\ s[i].st = "Waiting"
               /\ LaneFree(g[i - 1].lanes, s[i].kind, g[i - 1].serialWaiting)
            THEN [s[i] EXCEPT !.st = "Pending"] ELSE s[i]]
  BY DEF AdmitOldest
<1> DEFINE S == {k \in 0..n : g[k] \in Acc}
<1>9. /\ g[0] = x0 /\ \A k \in 1..n : g[k] = G(g[k - 1], k)
  <2> HIDE DEF g, G, x0
  <2> QED BY <1>1, <1>7
<1>10. \A k \in 0..n : k \in S
  <2>1. 0 \in S
    <3> HIDE DEF g, x0
    <3> QED BY <1>1, <1>9
  <2>2. ASSUME NEW k \in 1..n, k - 1 \in S PROVE k \in S
    <3> HIDE DEF g, G
    <3> QED BY <1>2, <1>9, <2>2
  <2> HIDE DEF S
  <2> QED BY Zenon, <1>1, <2>1, <2>2, InductionTo
<1>11. DOMAIN g = 0..n
  <2> HIDE DEF g, G, x0
  <2> QED BY <1>7
<1>12. g \in [0..n -> Acc]
  <2>1. \A k \in 0..n : g[k] \in Acc
    <3> HIDE DEF g
    <3> QED BY <1>10
  <2>2. g = [k \in 0..n |-> g[k]]
    <3> HIDE DEF g, G, x0
    <3> QED BY <1>7
  <2> HIDE DEF g
  <2> QED BY <2>1, <2>2
<1> HIDE DEF g
<1> QED
  BY Zenon, <1>8, <1>9, <1>12 DEF AdmitRun

\* Command i holds a lane of one of the kinds after the first k were looked at.
Holds(r, s, kinds, k) ==
  \E i \in 1..Len(s) : /\ s[i].kind \in kinds
                       /\ s[i].st = "Pending" \/ (i <= k /\ r[i].st = "Pending")

\* The lanes after the first k commands are the ones held, and a serial command
\* waits among them exactly when the flag says so.
LanesRight(r, s, k, acc) ==
  /\ acc.lanes.freeze <=> Holds(r, s, {"Freeze"}, k)
  /\ acc.lanes.thawOrOrdinary <=> Holds(r, s, {"Thaw", "Ordinary"}, k)
  /\ acc.serialWaiting <=> \E i \in 1..k : s[i].kind # "Control" /\ r[i].st = "Waiting"

(* Admitting changes nothing but waiting commands, which start.             *)
LEMMA AdmitShape ==
  ASSUME NEW s \in Seq(Slot), NEW n \in 0..Len(s), NEW r, NEW g, AdmitRun(r, s, n, g)
  PROVE  /\ r \in Seq(Slot) /\ Len(r) = Len(s)
         /\ \A i \in 1..Len(s) :
              /\ r[i].n = s[i].n /\ r[i].kind = s[i].kind /\ r[i].size = s[i].size
              /\ r[i].st = IF /\ i <= n /\ s[i].st = "Waiting"
                              /\ LaneFree(g[i - 1].lanes, s[i].kind, g[i - 1].serialWaiting)
                           THEN "Pending" ELSE s[i].st
<1> DEFINE E(i) == IF /\ i <= n /\ s[i].st = "Waiting"
                      /\ LaneFree(g[i - 1].lanes, s[i].kind, g[i - 1].serialWaiting)
                   THEN [s[i] EXCEPT !.st = "Pending"] ELSE s[i]
<1>1. r = [i \in 1..Len(s) |-> E(i)]
  BY DEF AdmitRun
<1>2. \A i \in 1..Len(s) : s[i] \in Slot
  OBVIOUS
<1>3. \A i \in 1..Len(s) : E(i) \in Slot
  BY Zenon, <1>2 DEF Slot
<1>4. r \in Seq(Slot) /\ Len(r) = Len(s) /\ \A i \in 1..Len(s) : r[i] = E(i)
  <2> HIDE DEF E
  <2> QED BY <1>1, <1>3
<1>5. ASSUME NEW i \in 1..Len(s)
      PROVE  /\ r[i].n = s[i].n /\ r[i].kind = s[i].kind /\ r[i].size = s[i].size
             /\ r[i].st = IF /\ i <= n /\ s[i].st = "Waiting"
                             /\ LaneFree(g[i - 1].lanes, s[i].kind, g[i - 1].serialWaiting)
                          THEN "Pending" ELSE s[i].st
  <2>1. s[i] \in Slot /\ r[i] = E(i)
    BY <1>2, <1>4
  <2> QED BY <2>1 DEF Slot
<1> QED
  BY <1>4, <1>5

(* The loop knows the lanes that are held and the commands it passed over.  *)
LEMMA LanesFollowed ==
  ASSUME NEW s \in Seq(Slot), NEW n \in 0..Len(s), NEW r, NEW g, AdmitRun(r, s, n, g)
  PROVE  \A k \in 0..n : LanesRight(r, s, k, g[k])
<1> DEFINE S == {k \in 0..n : LanesRight(r, s, k, g[k])}
<1>1. n \in Nat /\ Len(s) \in Nat
  OBVIOUS
<1>2. 0 \in S
  <2>1. g[0].lanes = LanesOf(s) /\ g[0].serialWaiting = FALSE
    BY DEF AdmitRun
  <2> QED BY <2>1, LanesType DEF LanesRight, Holds
<1>3. ASSUME NEW k \in 1..n, k - 1 \in S PROVE k \in S
  <2>1. LanesRight(r, s, k - 1, g[k - 1])
    BY <1>3
  <2>2. k \in 1..Len(s) /\ k - 1 \in 0..n
    OBVIOUS
  <2> DEFINE c == s[k]
             old == g[k - 1]
             new == g[k]
             free == LaneFree(old.lanes, c.kind, old.serialWaiting)
  <2>3. /\ old \in Acc /\ new = AdmitOne(old, c) /\ c \in Slot
        /\ r[k].st = IF c.st = "Waiting" /\ free THEN "Pending" ELSE c.st
    <3>1. old \in Acc /\ new = AdmitOne(old, c) /\ c \in Slot
      BY <2>2 DEF AdmitRun
    <3>2. r[k].st = IF /\ k <= n /\ s[k].st = "Waiting"
                       /\ LaneFree(g[k - 1].lanes, s[k].kind, g[k - 1].serialWaiting)
                    THEN "Pending" ELSE s[k].st
      BY <2>2, AdmitShape
    <3> QED BY <3>1, <3>2
  <2>4. ASSUME NEW kinds
        PROVE  Holds(r, s, kinds, k) <=>
                  Holds(r, s, kinds, k - 1) \/ (c.kind \in kinds /\ r[k].st = "Pending")
    BY <2>2 DEF Holds
  <2>5. (\E i \in 1..k : s[i].kind # "Control" /\ r[i].st = "Waiting") <=>
           \/ \E i \in 1..(k - 1) : s[i].kind # "Control" /\ r[i].st = "Waiting"
           \/ c.kind # "Control" /\ r[k].st = "Waiting"
    BY <2>2
  <2>6. /\ old.lanes.freeze \in BOOLEAN /\ old.lanes.thawOrOrdinary \in BOOLEAN
        /\ old.serialWaiting \in BOOLEAN /\ c.kind \in Kinds
        /\ c.st \in {"Waiting", "Pending", "Done"}
        /\ new \in Acc
    BY <2>3, AdmitOneType DEF Acc, Lane, Slot
  <2>7. CASE c.st # "Waiting"
    <3>1. new = old /\ r[k].st = c.st
      BY <2>3, <2>7 DEF AdmitOne
    <3>2. ASSUME NEW kinds PROVE c.kind \in kinds /\ r[k].st = "Pending" => Holds(r, s, kinds, k - 1)
      BY Zenon, <2>2, <3>1 DEF Holds
    <3> HIDE DEF old, new, c
    <3>3. LanesRight(r, s, k, new)
      BY <2>1, <2>4, <2>5, <2>7, <3>1, <3>2 DEF LanesRight, old
    <3> QED BY <3>3 DEF new
  <2>8. CASE c.st = "Waiting" /\ free
    <3>1. r[k].st = "Pending" /\ new = [old EXCEPT !.lanes = Take(old.lanes, c.kind)]
      BY <2>3, <2>8 DEF AdmitOne
    <3>2. /\ new.serialWaiting = old.serialWaiting
          /\ new.lanes.freeze = (old.lanes.freeze \/ c.kind = "Freeze")
          /\ new.lanes.thawOrOrdinary = (old.lanes.thawOrOrdinary \/ c.kind \in {"Thaw", "Ordinary"})
      <4> HIDE DEF new, old, c, free
      <4> QED BY <2>3, <3>1 DEF Take, Acc
    <3> HIDE DEF old, new, c, free
    <3>3. LanesRight(r, s, k, new)
      BY Zenon, <2>1, <2>4, <2>5, <3>1, <3>2 DEF LanesRight, old
    <3> QED BY <3>3 DEF new
  <2>9. CASE c.st = "Waiting" /\ ~free
    <3>1. /\ r[k].st = "Waiting"
          /\ new = [old EXCEPT !.serialWaiting = old.serialWaiting \/ c.kind # "Control"]
      BY <2>3, <2>9 DEF AdmitOne
    <3>2. new.serialWaiting = (old.serialWaiting \/ c.kind # "Control") /\ new.lanes = old.lanes
      <4> HIDE DEF new, old, c, free
      <4> QED BY <2>3, <3>1 DEF Acc
    <3> HIDE DEF old, new, c, free
    <3>3. LanesRight(r, s, k, new)
      BY Zenon, <2>1, <2>4, <2>5, <3>1, <3>2 DEF LanesRight, old
    <3> QED BY <3>3 DEF new
  <2> QED BY <2>7, <2>8, <2>9
<1> HIDE DEF S
<1>4. \A k \in 0..n : k \in S
  BY <1>1, <1>2, <1>3, InductionTo
<1> QED
  BY <1>4 DEF S

\* What a command that starts finds: the lanes and the commands ahead of it.
StartsFree(r, s, j) ==
  /\ s[j].kind \in {"Freeze", "Ordinary"} =>
        \A i \in 1..(j - 1) : s[i].kind # "Control" => r[i].st # "Waiting"
  /\ \A i \in 1..Len(s) :
        /\ s[i].kind # "Control" /\ s[j].kind # "Control"
        /\ s[i].st = "Pending" \/ (i < j /\ r[i].st = "Pending")
        => s[i].kind = "Freeze" /\ s[j].kind = "Thaw"

(* What admission promises: it starts waiting commands of the window only, *)
(* each one when no other that may change the guest runs, except for a thaw *)
(* beside a freeze, and a freeze or an ordinary command only in its turn.   *)
LEMMA AdmitIs ==
  ASSUME NEW s \in Seq(Slot), NEW window \in Nat
  PROVE  LET r == Admit(s, window) IN
         /\ r \in Seq(Slot) /\ Len(r) = Len(s)
         /\ \A i \in 1..Len(s) :
              /\ r[i].n = s[i].n /\ r[i].kind = s[i].kind /\ r[i].size = s[i].size
              /\ r[i].st # s[i].st =>
                    /\ s[i].st = "Waiting" /\ r[i].st = "Pending" /\ i <= window
                    /\ StartsFree(r, s, i)
<1> DEFINE n == IF window < Len(s) THEN window ELSE Len(s)
           r == Admit(s, window)
<1>1. n \in 0..Len(s) /\ n <= window /\ Len(s) \in Nat
  OBVIOUS
<1>2. PICK g : AdmitRun(r, s, n, g)
  <2>1. r = AdmitOldest(s, n)
    BY Zenon DEF Admit
  <2> HIDE DEF n, r
  <2> QED BY <1>1, <2>1, AdmitLoop
<1> HIDE DEF n, r
<1>3. /\ r \in Seq(Slot) /\ Len(r) = Len(s)
      /\ \A i \in 1..Len(s) :
           /\ r[i].n = s[i].n /\ r[i].kind = s[i].kind /\ r[i].size = s[i].size
           /\ r[i].st = IF /\ i <= n /\ s[i].st = "Waiting"
                           /\ LaneFree(g[i - 1].lanes, s[i].kind, g[i - 1].serialWaiting)
                        THEN "Pending" ELSE s[i].st
  BY <1>1, <1>2, AdmitShape
<1>4. ASSUME NEW j \in 1..Len(s), r[j].st # s[j].st
      PROVE  /\ s[j].st = "Waiting" /\ r[j].st = "Pending" /\ j <= window
             /\ StartsFree(r, s, j)
  <2> DEFINE acc == g[j - 1]
  <2>1. /\ j <= n /\ s[j].st = "Waiting" /\ r[j].st = "Pending"
        /\ LaneFree(acc.lanes, s[j].kind, acc.serialWaiting)
    BY <1>3, <1>4
  <2>2. j - 1 \in 0..n
    BY <1>1, <2>1
  <2>3. LanesRight(r, s, j - 1, acc)
    BY <1>1, <1>2, <2>2, LanesFollowed
  <2>4. s[j].kind \in Kinds /\ \A i \in 1..Len(s) : s[i].kind \in Kinds
    <3>1. \A i \in 1..Len(s) : s[i] \in Slot
      OBVIOUS
    <3> QED BY <3>1 DEF Slot
  <2> HIDE DEF acc
  <2>5. s[j].kind # "Control" => ~acc.lanes.thawOrOrdinary
    BY <2>1, <2>4 DEF LaneFree, Kinds
  <2>6. s[j].kind \in {"Freeze", "Ordinary"} => ~acc.lanes.freeze /\ ~acc.serialWaiting
    BY Zenon, <2>1, <2>4 DEF LaneFree, Kinds
  <2>7. s[j].kind \in {"Freeze", "Ordinary"} =>
           \A i \in 1..(j - 1) : s[i].kind # "Control" => r[i].st # "Waiting"
    BY Zenon, <2>3, <2>6 DEF LanesRight
  <2>8. ASSUME NEW i \in 1..Len(s), s[i].kind # "Control", s[j].kind # "Control",
               s[i].st = "Pending" \/ (i < j /\ r[i].st = "Pending")
        PROVE  s[i].kind = "Freeze" /\ s[j].kind = "Thaw"
    <3>1. s[i].st = "Pending" \/ (i <= j - 1 /\ r[i].st = "Pending")
      BY <2>8
    <3>2. s[i].kind \notin {"Thaw", "Ordinary"}
      BY <2>3, <2>5, <2>8, <3>1 DEF LanesRight, Holds
    <3>3. s[i].kind = "Freeze"
      BY Zenon, <2>4, <2>8, <3>2 DEF Kinds
    <3>4. acc.lanes.freeze
      BY Zenon, <2>3, <3>1, <3>3 DEF LanesRight, Holds
    <3> QED BY <2>4, <2>6, <2>8, <3>3, <3>4 DEF Kinds
  <2>9. StartsFree(r, s, j)
    BY Zenon, <2>7, <2>8 DEF StartsFree
  <2> QED BY <1>1, <2>1, <2>9
<1> QED
  BY Zenon, <1>3, <1>4 DEF r

-----------------------------------------------------------------------------
(* The inductive invariant. *)

\* d, b, s: numbers delivered, replies in the outbox, commands in the queue, of
\* r received; each in increasing order and each below the next.
InLine(d, b, s, r) ==
  /\ \A i, j \in 1..Len(d) : i < j => d[i] < d[j]
  /\ \A i, j \in 1..Len(b) : i < j => b[i].n < b[j].n
  /\ \A i, j \in 1..Len(s) : i < j => s[i].n < s[j].n
  /\ \A i \in 1..Len(d), j \in 1..Len(b) : d[i] < b[j].n
  /\ \A i \in 1..Len(d), j \in 1..Len(s) : d[i] < s[j].n
  /\ \A i \in 1..Len(b), j \in 1..Len(s) : b[i].n < s[j].n
  /\ \A i \in 1..Len(d) : d[i] <= r
  /\ \A i \in 1..Len(b) : b[i].n <= r
  /\ \A i \in 1..Len(s) : s[i].n <= r

\* Every number up to r is in one of them or was answered by nothing.
NoneMissing(d, b, s, quiet, r) ==
  \A x \in 1..r : \/ x \in quiet
                  \/ \E i \in 1..Len(d) : d[i] = x
                  \/ \E i \in 1..Len(b) : b[i].n = x
                  \/ \E i \in 1..Len(s) : s[i].n = x

\* Started commands hold one of the places the outbox leaves.
InPlaces(b, s) == \A i \in 1..Len(s) : s[i].st # "Waiting" => i + Len(b) <= MaxQueued

\* Two commands that run and may change the guest are a freeze and a thaw.
Compatible(c, e) ==
  /\ c.st = "Pending" /\ e.st = "Pending" /\ c.kind # "Control" /\ e.kind # "Control"
  => (c.kind = "Freeze" /\ e.kind = "Thaw") \/ (c.kind = "Thaw" /\ e.kind = "Freeze")
Exclusives(s) == \A i, j \in 1..Len(s) : i # j => Compatible(s[i], s[j])

SessionInv ==
  /\ TypeOK
  /\ InLine(delivered, outbox, slots, received)
  /\ loc # "ended" /\ ~writeFailed => NoneMissing(delivered, outbox, slots, silent, received)
  /\ InPlaces(outbox, slots) /\ Bounded
  /\ loc = "select" /\ canRead => Len(slots) + Len(outbox) < MaxQueued
  /\ Exclusives(slots)
  /\ loc # "ended" => inputEnd # "Cancelled"
  /\ EndsClean

\* The k commands at the front, the ones behind them, and those of the front
\* that have no reply.
Front(s, k) == SubSeq(s, 1, k)
Behind(s, k) == SubSeq(s, k + 1, Len(s))
Quiet(s, k) == {Front(s, k)[i].n : i \in {j \in 1..k : Front(s, k)[j].size = 0}}

(* A queue in two parts.                                                    *)
LEMMA Split ==
  ASSUME NEW s \in Seq(Slot), NEW k \in 0..Len(s)
  PROVE  /\ Front(s, k) \in Seq(Slot) /\ Len(Front(s, k)) = k
         /\ \A i \in 1..k : Front(s, k)[i] = s[i]
         /\ Behind(s, k) \in Seq(Slot) /\ Len(Behind(s, k)) = Len(s) - k
         /\ \A i \in 1..Len(Behind(s, k)) : Behind(s, k)[i] = s[i + k]
<1>1. /\ Front(s, k) \in Seq(Slot) /\ Len(Front(s, k)) = k
      /\ \A i \in 1..k : Front(s, k)[i] = s[i]
  BY DEF Front
<1>2. /\ Behind(s, k) \in Seq(Slot) /\ Len(Behind(s, k)) = Len(s) - k
      /\ \A i \in 1..Len(Behind(s, k)) : Behind(s, k)[i] = s[i + k]
  BY DEF Behind
<1> QED
  BY <1>1, <1>2

(* The finished commands leave the queue for the outbox and stay in line.   *)
LEMMA LeaveInLine ==
  ASSUME NEW d \in Seq(1..MaxCommands), NEW b \in Seq(Replied), NEW s \in Seq(Slot),
         NEW r \in Nat, NEW k \in 0..Len(s), InLine(d, b, s, r)
  PROVE  /\ InLine(d, b, Behind(s, k), r)
         /\ InLine(d, Push(b, Front(s, k)), Behind(s, k), r)
<1> DEFINE gone == Front(s, k)
           rest == Behind(s, k)
<1>1. /\ gone \in Seq(Slot) /\ Len(gone) = k /\ \A i \in 1..k : gone[i] = s[i]
  BY Zenon, Split
<1>2. /\ rest \in Seq(Slot) /\ Len(rest) = Len(s) - k
      /\ \A i \in 1..Len(rest) : rest[i] = s[i + k]
  BY Split
<1> HIDE DEF gone, rest
<1>3. \A i \in 1..Len(rest) : i + k \in 1..Len(s) /\ i + k > k /\ i \in Int
  BY <1>2
<1>4. InLine(d, b, rest, r)
  <2>1. ASSUME NEW i \in 1..Len(rest), NEW j \in 1..Len(rest), i < j
        PROVE  rest[i].n < rest[j].n
    <3>1. i + k \in 1..Len(s) /\ j + k \in 1..Len(s) /\ i + k < j + k
      BY <1>3, <2>1
    <3> QED BY Zenon, <1>2, <3>1 DEF InLine
  <2>2. \A i \in 1..Len(d), j \in 1..Len(rest) : d[i] < rest[j].n
    BY Zenon, <1>2, <1>3 DEF InLine
  <2>3. \A i \in 1..Len(b), j \in 1..Len(rest) : b[i].n < rest[j].n
    BY <1>2, <1>3 DEF InLine
  <2>4. \A i \in 1..Len(rest) : rest[i].n <= r
    BY <1>2, <1>3 DEF InLine
  <2> QED BY <2>1, <2>2, <2>3, <2>4 DEF InLine
<1>5. InLine(d, Push(b, gone), rest, r)
  <2> DEFINE p == Push(b, gone)
             l == Len(b)
  <2>1. Pushed(p, b, gone, k)
    BY Zenon, <1>1, PushIs
  <2> HIDE DEF p
  <2>2. /\ p \in Seq(Replied) /\ Len(p) \in Nat /\ l \in Nat /\ l <= Len(p)
        /\ \A i \in 1..l : i \in 1..Len(p) /\ p[i] = b[i]
    BY <2>1 DEF Pushed
  <2>3. \A i \in (l + 1)..Len(p) : \E a \in 1..k : p[i].n = s[a].n /\ a \in 1..Len(s)
    <3> SUFFICES ASSUME NEW i \in (l + 1)..Len(p)
                 PROVE  \E a \in 1..k : p[i].n = s[a].n /\ a \in 1..Len(s)
      BY Zenon
    <3>1. PICK a \in 1..k : p[i].n = gone[a].n
      BY <2>1 DEF Pushed
    <3>2. gone[a] = s[a] /\ a \in 1..Len(s)
      BY <1>1
    <3> QED BY Zenon, <3>1, <3>2
  <2>4. \A i \in 1..Len(p) : i \in 1..l \/ i \in (l + 1)..Len(p)
    BY <2>2
  <2>5. ASSUME NEW i \in 1..Len(p), NEW j \in 1..Len(p), i < j PROVE p[i].n < p[j].n
    <3>1. CASE j \in 1..l
      <4>1. i \in 1..l
        BY <2>2, <2>5, <3>1
      <4> QED BY Zenon, <2>2, <2>5, <3>1, <4>1 DEF InLine
    <3>2. CASE i \in 1..l /\ j \in (l + 1)..Len(p)
      BY Zenon, <2>2, <2>3, <3>2 DEF InLine
    <3>3. CASE i \in (l + 1)..Len(p) /\ j \in (l + 1)..Len(p)
      <4>1. PICK x \in 1..k, y \in 1..k : x < y /\ p[i].n = gone[x].n /\ p[j].n = gone[y].n
        BY Zenon, <2>1, <2>5, <3>3 DEF Pushed
      <4>2. gone[x] = s[x] /\ gone[y] = s[y] /\ x \in 1..Len(s) /\ y \in 1..Len(s)
        BY <1>1
      <4> QED BY <4>1, <4>2 DEF InLine
    <3> QED BY Zenon, <2>2, <2>4, <2>5, <3>1, <3>2, <3>3
  <2>6. \A i \in 1..Len(d), j \in 1..Len(p) : d[i] < p[j].n
    BY Zenon, <2>2, <2>3, <2>4 DEF InLine
  <2>7. ASSUME NEW i \in 1..Len(p), NEW j \in 1..Len(rest) PROVE p[i].n < rest[j].n
    <3>1. CASE i \in 1..l
      BY Zenon, <1>4, <2>2, <3>1 DEF InLine
    <3>2. CASE i \in (l + 1)..Len(p)
      <4>1. PICK a \in 1..k : p[i].n = s[a].n /\ a \in 1..Len(s)
        BY Zenon, <2>3, <3>2
      <4>2. j + k \in 1..Len(s) /\ rest[j] = s[j + k]
        BY <1>2, <1>3
      <4>3. k \in Int /\ a \in Int /\ j \in Int /\ a <= k /\ j >= 1
        OBVIOUS
      <4>4. a < j + k
        BY <4>3
      <4> QED BY Zenon, <4>1, <4>2, <4>4 DEF InLine
    <3> QED BY Zenon, <2>4, <3>1, <3>2
  <2>8. \A i \in 1..Len(p) : p[i].n <= r
    BY Zenon, <2>2, <2>3, <2>4 DEF InLine
  <2>9. InLine(d, p, rest, r)
    BY Zenon, <1>4, <2>5, <2>6, <2>7, <2>8 DEF InLine
  <2> QED BY Zenon, <2>9 DEF p
<1> QED
  BY Zenon, <1>4, <1>5 DEF gone, rest

(* No reply is lost when the finished commands leave the queue.             *)
LEMMA LeaveNothing ==
  ASSUME NEW d \in Seq(1..MaxCommands), NEW b \in Seq(Replied), NEW s \in Seq(Slot),
         NEW r \in Nat, NEW k \in 0..Len(s), NEW quiet, NoneMissing(d, b, s, quiet, r)
  PROVE  NoneMissing(d, Push(b, Front(s, k)), Behind(s, k), quiet \cup Quiet(s, k), r)
<1> DEFINE gone == Front(s, k)
           rest == Behind(s, k)
           p == Push(b, gone)
           more == Quiet(s, k)
<1>1. /\ gone \in Seq(Slot) /\ Len(gone) = k /\ \A i \in 1..k : gone[i] = s[i]
  BY Zenon, Split
<1>2. /\ rest \in Seq(Slot) /\ Len(rest) = Len(s) - k
      /\ \A i \in 1..Len(rest) : rest[i] = s[i + k]
  BY Zenon, Split
<1>3. Pushed(p, b, gone, k)
  BY Zenon, <1>1, PushIs
<1>0. \A i \in 1..k : gone[i].size = 0 => gone[i].n \in more
  BY Zenon DEF Quiet
<1> HIDE DEF p, more, gone, rest
<1> DEFINE Kept(x) == \/ x \in quiet \cup more
                      \/ \E i \in 1..Len(d) : d[i] = x
                      \/ \E i \in 1..Len(p) : p[i].n = x
                      \/ \E i \in 1..Len(rest) : rest[i].n = x
<1> SUFFICES ASSUME NEW x \in 1..r PROVE Kept(x)
  BY Zenon DEF NoneMissing, p, more, gone, rest
<1>4. ASSUME x \in quiet \/ \E i \in 1..Len(d) : d[i] = x PROVE Kept(x)
  BY Zenon, <1>4
<1>5. ASSUME NEW i \in 1..Len(b), b[i].n = x PROVE Kept(x)
  <2>1. i \in 1..Len(p) /\ p[i] = b[i]
    BY <1>3 DEF Pushed
  <2> QED BY <1>5, <2>1
<1>6. ASSUME NEW i \in 1..Len(s), s[i].n = x PROVE Kept(x)
  <2>1. CASE i > k
    <3>1. i - k \in 1..Len(rest) /\ rest[i - k] = s[i]
      BY <1>2, <2>1
    <3> QED BY Zenon, <1>6, <3>1
  <2>2. CASE i <= k
    <3>1. i \in 1..k /\ gone[i] = s[i] /\ gone[i] \in Slot /\ gone[i].size \in Nat
      BY <1>1, <2>2, SlotFields
    <3>2. gone[i].size = 0 => x \in more
      BY <1>0, <1>6, <3>1
    <3>3. gone[i].size > 0 => \E a \in 1..Len(p) : p[a].n = x
      BY Zenon, <1>3, <1>6, <3>1 DEF Pushed
    <3>4. gone[i].size = 0 \/ gone[i].size > 0
      BY <3>1
    <3> QED BY Zenon, <3>2, <3>3, <3>4
  <2> HIDE DEF Kept
  <2> QED BY <2>1, <2>2
<1> HIDE DEF Kept
<1> QED
  BY Zenon, <1>4, <1>5, <1>6 DEF NoneMissing

(* The places and the lanes survive it too.                                 *)
LEMMA LeavePlaces ==
  ASSUME NEW b \in Seq(Replied), NEW s \in Seq(Slot), NEW k \in 0..Len(s),
         InPlaces(b, s), Exclusives(s)
  PROVE  /\ InPlaces(b, Behind(s, k)) /\ InPlaces(Push(b, Front(s, k)), Behind(s, k))
         /\ Exclusives(Behind(s, k))
         /\ Len(Behind(s, k)) + Len(Push(b, Front(s, k))) <= Len(s) + Len(b)
         /\ Len(Behind(s, k)) + Len(b) <= Len(s) + Len(b)
<1> DEFINE gone == Front(s, k)
           rest == Behind(s, k)
           p == Push(b, gone)
<1>1. gone \in Seq(Slot) /\ Len(gone) = k
  BY Zenon, Split
<1>2. /\ rest \in Seq(Slot) /\ Len(rest) = Len(s) - k
      /\ \A i \in 1..Len(rest) : rest[i] = s[i + k]
  BY Split
<1>3. Pushed(p, b, gone, k)
  BY Zenon, <1>1, PushIs
<1> HIDE DEF p, gone, rest
<1>4. Len(p) \in Nat /\ Len(p) <= Len(b) + k /\ Len(b) \in Nat /\ Len(s) \in Nat /\ k \in Nat
  BY <1>3 DEF Pushed
<1>5. \A i \in 1..Len(rest) : i + k \in 1..Len(s) /\ i \in Int
  BY <1>2, <1>4
<1>6. MaxQueued \in Nat
  BY SessionAssumption
<1>7. ASSUME NEW i \in 1..Len(rest), rest[i].st # "Waiting"
      PROVE  i + Len(b) <= MaxQueued /\ i + Len(p) <= MaxQueued
  <2>1. (i + k) + Len(b) <= MaxQueued
    BY <1>2, <1>5, <1>7 DEF InPlaces
  <2>2. i \in Int
    OBVIOUS
  <2> QED BY <1>4, <1>6, <2>1, <2>2
<1>8. Exclusives(rest)
  <2> SUFFICES ASSUME NEW i \in 1..Len(rest), NEW j \in 1..Len(rest), i # j
               PROVE  Compatible(rest[i], rest[j])
    BY Zenon DEF Exclusives
  <2>1. i \in Int /\ j \in Int /\ i + k \in 1..Len(s) /\ j + k \in 1..Len(s)
    BY Zenon, <1>5
  <2>3. i + k # j + k
    BY <1>4, <2>1
  <2>2. rest[i] = s[i + k] /\ rest[j] = s[j + k]
    BY <1>2
  <2> QED BY Zenon, <2>1, <2>2, <2>3 DEF Exclusives
<1>9. InPlaces(b, rest) /\ InPlaces(p, rest)
  BY <1>7, Zenon DEF InPlaces
<1>10. Len(rest) + Len(p) <= Len(s) + Len(b) /\ Len(rest) + Len(b) <= Len(s) + Len(b)
  BY <1>2, <1>4
<1> QED
  BY Zenon, <1>8, <1>9, <1>10 DEF p, gone, rest

(* A queue that differs only in what the commands are doing stays in line.  *)
LEMMA SameNumbers ==
  ASSUME NEW d, NEW b, NEW s, NEW q, NEW r, NEW quiet, Len(q) = Len(s),
         \A i \in 1..Len(s) : q[i].n = s[i].n
  PROVE  /\ InLine(d, b, s, r) => InLine(d, b, q, r)
         /\ NoneMissing(d, b, s, quiet, r) => NoneMissing(d, b, q, quiet, r)
<1>1. InLine(d, b, s, r) => InLine(d, b, q, r)
  BY DEF InLine
<1>2. NoneMissing(d, b, s, quiet, r) => NoneMissing(d, b, q, quiet, r)
  BY Zenon DEF NoneMissing
<1> QED
  BY Zenon, <1>1, <1>2

(* Admission keeps the places and the lanes.                                *)
LEMMA AdmitKeeps ==
  ASSUME NEW b \in Seq(Replied), NEW s \in Seq(Slot), InPlaces(b, s), Exclusives(s),
         NEW window, window = IF Len(b) < MaxQueued THEN MaxQueued - Len(b) ELSE 0
  PROVE  /\ InPlaces(b, Admit(s, window)) /\ Exclusives(Admit(s, window))
         /\ Admit(s, window) \in Seq(Slot) /\ Len(Admit(s, window)) = Len(s)
         /\ \A i \in 1..Len(s) : Admit(s, window)[i].n = s[i].n
<1> DEFINE q == Admit(s, window)
<1>1. window \in Nat /\ MaxQueued \in Nat /\ Len(b) \in Nat /\ Len(s) \in Nat
  BY SessionAssumption
<1>2. /\ q \in Seq(Slot) /\ Len(q) = Len(s)
      /\ \A i \in 1..Len(s) :
           /\ q[i].n = s[i].n /\ q[i].kind = s[i].kind /\ q[i].size = s[i].size
           /\ q[i].st # s[i].st =>
                 /\ s[i].st = "Waiting" /\ q[i].st = "Pending" /\ i <= window
                 /\ StartsFree(q, s, i)
  BY <1>1, AdmitIs
<1> HIDE DEF q
<1>3. InPlaces(b, q)
  <2> SUFFICES ASSUME NEW i \in 1..Len(s), q[i].st # "Waiting" PROVE i + Len(b) <= MaxQueued
    BY Zenon, <1>2 DEF InPlaces
  <2>1. CASE q[i].st = s[i].st
    BY Zenon, <2>1 DEF InPlaces
  <2>2. CASE q[i].st # s[i].st
    <3>1. i <= window /\ i >= 1 /\ i \in Int
      BY <1>2, <2>2
    <3> QED BY <1>1, <3>1
  <2> QED BY Zenon, <2>1, <2>2
<1>4. ASSUME NEW i \in 1..Len(s), NEW j \in 1..Len(s), i < j
      PROVE  Compatible(q[i], q[j]) /\ Compatible(q[j], q[i])
  <2>1. SUFFICES ASSUME q[i].st = "Pending", q[j].st = "Pending",
                        s[i].kind # "Control", s[j].kind # "Control"
                 PROVE  \/ s[i].kind = "Freeze" /\ s[j].kind = "Thaw"
                        \/ s[i].kind = "Thaw" /\ s[j].kind = "Freeze"
    BY Zenon, <1>2 DEF Compatible
  <2>2. CASE q[j].st # s[j].st
    <3>1. StartsFree(q, s, j)
      BY Zenon, <1>2, <2>2
    <3> QED BY Zenon, <1>4, <2>1, <3>1 DEF StartsFree
  <2>3. CASE q[j].st = s[j].st /\ q[i].st # s[i].st
    <3>1. StartsFree(q, s, i)
      BY Zenon, <1>2, <2>3
    <3> QED BY Zenon, <2>1, <2>3, <3>1 DEF StartsFree
  <2>4. CASE q[j].st = s[j].st /\ q[i].st = s[i].st
    <3>1. Compatible(s[i], s[j])
      BY <1>4 DEF Exclusives
    <3> QED BY <2>1, <2>4, <3>1 DEF Compatible
  <2> QED BY Zenon, <2>2, <2>3, <2>4
<1>5. Exclusives(q)
  <2> SUFFICES ASSUME NEW i \in 1..Len(s), NEW j \in 1..Len(s), i # j
               PROVE  Compatible(q[i], q[j])
    BY Zenon, <1>2 DEF Exclusives
  <2>1. i < j \/ j < i
    OBVIOUS
  <2> QED BY <1>4, <2>1
<1> QED
  BY <1>2, <1>3, <1>5 DEF q

-----------------------------------------------------------------------------
(* One lemma for each action that moves commands. *)

(* The types of what a session holds, in the form the steps below use. *)
LEMMA InvTypes ==
  ASSUME TypeOK
  PROVE  /\ delivered \in Seq(1..MaxCommands) /\ outbox \in Seq(Replied) /\ slots \in Seq(Slot)
         /\ received \in 0..MaxCommands /\ received \in Nat /\ MaxCommands \in Nat
         /\ MaxQueued \in Nat /\ MaxQueued > 0 /\ ReadFrames \in Nat
         /\ DOMAIN slots = 1..Len(slots) /\ DOMAIN outbox = 1..Len(outbox)
         /\ DOMAIN delivered = 1..Len(delivered)
<1>1. /\ delivered \in Seq(1..MaxCommands) /\ outbox \in Seq(Replied) /\ slots \in Seq(Slot)
      /\ received \in 0..MaxCommands
  BY DEF TypeOK, Slot, Replied
<1>2. MaxCommands \in Nat /\ MaxQueued \in Nat /\ MaxQueued > 0 /\ ReadFrames \in Nat
  BY SessionAssumption
<1> QED
  BY <1>1, <1>2

(* Two sequences joined.                                                    *)
LEMMA Joined ==
  ASSUME NEW T, NEW a \in Seq(T), NEW b \in Seq(T)
  PROVE  /\ a \o b \in Seq(T) /\ Len(a \o b) = Len(a) + Len(b) /\ Len(a) \in Nat
         /\ \A i \in 1..Len(a) : (a \o b)[i] = a[i]
         /\ \A i \in (Len(a) + 1)..(Len(a) + Len(b)) : (a \o b)[i] = b[i - Len(a)]
OBVIOUS

(* The head of the loop.                                                    *)
LEMMA TopKeeps ==
  ASSUME SessionInv, Top
  PROVE  SessionInv'
<1> DEFINE k == DonePrefix(slots)
           gone == SubSeq(slots, 1, k)
           rest == SubSeq(slots, k + 1, Len(slots))
           box == IF writeFailed THEN outbox ELSE Push(outbox, gone)
           stop == draining \/ (~Running(rest) /\ cancel /\ mayStop)
           drain == stop /\ Running(rest)
           window == IF Len(box) < MaxQueued THEN MaxQueued - Len(box) ELSE 0
           admits == ~drain /\ PendingBytes(box) < MaxReplyBytes
           queue == IF admits THEN Admit(rest, window) ELSE rest
           quiet == {gone[i].n : i \in {j \in 1..k : gone[j].size = 0}}
<1>1. /\ delivered \in Seq(1..MaxCommands) /\ outbox \in Seq(Replied) /\ slots \in Seq(Slot)
      /\ received \in 0..MaxCommands /\ received \in Nat
      /\ Len(slots) \in Nat /\ Len(outbox) \in Nat
  BY InvTypes DEF SessionInv
<1>2. k \in 0..Len(slots)
  BY Zenon, <1>1, DonePrefixIs
<1>3. /\ loc = "top" /\ silent' = silent \cup quiet
      /\ UNCHANGED <<writeFailed, cancel, mayStop, received>>
      /\ notified' = (notified /\ (draining \/ Running(rest)))
  BY DEF Top
<1>4. \/ /\ stop /\ Honoured(rest, box) /\ loc' = "ended" /\ inputEnd' = "Cancelled"
         /\ \E m \in 0..Len(box) : delivered' = delivered \o [i \in 1..m |-> box[i].n]
         /\ slots' = rest /\ outbox' = <<>> /\ draining' = TRUE
         /\ UNCHANGED <<canRead, canWrite>>
      \/ /\ draining' = drain /\ slots' = queue /\ outbox' = box /\ UNCHANGED delivered
         /\ \/ /\ queue = <<>> /\ inputEnd # "none" /\ loc' = "ended" /\ inputEnd' = inputEnd
               /\ UNCHANGED <<canRead, canWrite>>
            \/ /\ loc' = "select" /\ UNCHANGED inputEnd
               /\ canRead' = (inputEnd = "none" /\ ~drain /\ RoomToRead(queue, box))
               /\ canWrite' = (box # <<>> /\ ~writeFailed)
  BY Zenon DEF Top, End
<1>15. /\ gone = Front(slots, k) /\ rest = Behind(slots, k) /\ quiet = Quiet(slots, k)
       /\ quiet = {gone[i].n : i \in {j \in 1..k : gone[j].size = 0}}
       /\ InLine(delivered, outbox, slots, received)
       /\ InPlaces(outbox, slots) /\ Exclusives(slots)
  BY Zenon DEF SessionInv, Front, Behind, Quiet
<1> HIDE DEF k, gone, rest, quiet
<1>5. /\ gone \in Seq(Slot) /\ Len(gone) = k /\ rest \in Seq(Slot)
      /\ InLine(delivered, outbox, rest, received)
      /\ InLine(delivered, Push(outbox, gone), rest, received)
      /\ InPlaces(outbox, rest) /\ InPlaces(Push(outbox, gone), rest) /\ Exclusives(rest)
      /\ Len(rest) + Len(Push(outbox, gone)) <= Len(slots) + Len(outbox)
      /\ Len(rest) + Len(outbox) <= Len(slots) + Len(outbox)
  <2>1. /\ gone \in Seq(Slot) /\ Len(gone) = k /\ rest \in Seq(Slot)
        /\ InLine(delivered, outbox, rest, received)
        /\ InLine(delivered, Push(outbox, gone), rest, received)
    BY Zenon, <1>1, <1>2, <1>15, Split, LeaveInLine
  <2>2. /\ InPlaces(outbox, rest) /\ InPlaces(Push(outbox, gone), rest) /\ Exclusives(rest)
        /\ Len(rest) + Len(Push(outbox, gone)) <= Len(slots) + Len(outbox)
        /\ Len(rest) + Len(outbox) <= Len(slots) + Len(outbox)
    BY Zenon, <1>1, <1>2, <1>15, LeavePlaces
  <2> QED BY <2>1, <2>2
<1>6. Push(outbox, gone) \in Seq(Replied)
  BY <1>1, <1>5, PushIs DEF Pushed
<1>7. ~writeFailed => NoneMissing(delivered, Push(outbox, gone), rest, silent \cup quiet, received)
  <2> SUFFICES ASSUME ~writeFailed
               PROVE  NoneMissing(delivered, Push(outbox, gone), rest, silent \cup quiet, received)
    OBVIOUS
  <2>1. NoneMissing(delivered, outbox, slots, silent, received)
    BY Zenon, <1>3 DEF SessionInv
  <2> QED BY Zenon, <1>1, <1>2, <1>15, <2>1, LeaveNothing
<1>8. quiet \subseteq 1..MaxCommands
  <2>1. \A i \in 1..k : gone[i] \in Slot
    BY <1>5
  <2>2. \A i \in 1..k : gone[i].n \in 1..MaxCommands
    BY Zenon, <2>1, SlotFields
  <2> QED BY <1>15, <2>2
<1>9. /\ box \in Seq(Replied) /\ InLine(delivered, box, rest, received)
      /\ InPlaces(box, rest) /\ Len(rest) + Len(box) <= Len(slots) + Len(outbox)
      /\ ~writeFailed => NoneMissing(delivered, box, rest, silent \cup quiet, received)
  BY Zenon, <1>1, <1>5, <1>6, <1>7
<1> HIDE DEF box
<1>10. /\ queue \in Seq(Slot) /\ Len(queue) = Len(rest)
       /\ InPlaces(box, queue) /\ Exclusives(queue)
       /\ \A i \in 1..Len(rest) : queue[i].n = rest[i].n
  BY <1>5, <1>9, AdmitKeeps
<1> HIDE DEF queue
<1>11. /\ InLine(delivered, box, queue, received)
       /\ ~writeFailed => NoneMissing(delivered, box, queue, silent \cup quiet, received)
  BY Zenon, <1>9, <1>10, SameNumbers
<1>12. /\ loc \in {"top", "select", "ended"} /\ inputEnd \in Ends \cup {"none"}
       /\ writeFailed \in BOOLEAN /\ draining \in BOOLEAN /\ canRead \in BOOLEAN
       /\ canWrite \in BOOLEAN /\ cancel \in BOOLEAN /\ notified \in BOOLEAN
       /\ mayStop \in BOOLEAN /\ silent \subseteq 1..MaxCommands
       /\ Bounded /\ inputEnd # "Cancelled"
  BY Zenon, <1>3 DEF SessionInv, TypeOK
<1>13. CASE /\ stop /\ Honoured(rest, box) /\ loc' = "ended" /\ inputEnd' = "Cancelled"
            /\ \E m \in 0..Len(box) : delivered' = delivered \o [i \in 1..m |-> box[i].n]
            /\ slots' = rest /\ outbox' = <<>> /\ draining' = TRUE
            /\ UNCHANGED <<canRead, canWrite>>
  <2>1. PICK m \in 0..Len(box) : delivered' = delivered \o [i \in 1..m |-> box[i].n]
    BY Zenon, <1>13
  <2>2. /\ Len(box) \in Nat /\ Len(rest) \in Nat
        /\ \A i \in 1..m : i \in 1..Len(box) /\ box[i].n \in 1..MaxCommands
    <3>1. Len(box) \in Nat /\ Len(rest) \in Nat /\ \A i \in 1..Len(box) : box[i] \in Replied
      BY <1>5, <1>9
    <3>2. \A i \in 1..m : i \in 1..Len(box)
      BY <3>1
    <3> QED BY Zenon, <3>1, <3>2 DEF Replied
  <2> DEFINE sent == [i \in 1..m |-> box[i].n]
             l == Len(delivered)
  <2>3. sent \in Seq(1..MaxCommands) /\ Len(sent) = m /\ \A i \in 1..m : sent[i] = box[i].n
    BY <2>2
  <2>4. /\ delivered' \in Seq(1..MaxCommands) /\ Len(delivered') = l + m /\ l \in Nat
        /\ \A i \in 1..l : delivered'[i] = delivered[i]
        /\ \A i \in (l + 1)..(l + m) : delivered'[i] = box[i - l].n /\ i - l \in 1..Len(box)
    <3>1. delivered' = delivered \o sent
      BY <2>1
    <3> HIDE DEF sent
    <3>2. /\ delivered' \in Seq(1..MaxCommands) /\ Len(delivered') = l + m /\ l \in Nat
          /\ \A i \in 1..l : delivered'[i] = delivered[i]
          /\ \A i \in (l + 1)..(l + m) : delivered'[i] = sent[i - l]
      BY Zenon, <1>1, <2>3, <3>1, Joined
    <3>3. \A i \in (l + 1)..(l + m) : i - l \in 1..m
      BY <3>2
    <3> QED BY <2>2, <2>3, <3>2, <3>3
  <2>5. InLine(delivered', <<>>, rest, received)
    <3> HIDE DEF l
    <3>1. \A i \in 1..Len(delivered') : i \in 1..l \/ i \in (l + 1)..(l + m)
      BY <2>4
    <3>2. ASSUME NEW i \in 1..Len(delivered'), NEW j \in 1..Len(delivered'), i < j
          PROVE  delivered'[i] < delivered'[j]
      <4>1. CASE j \in 1..l
        <5>1. i \in 1..l
          BY <2>4, <3>2, <4>1
        <5> QED BY Zenon, <1>9, <2>4, <3>2, <4>1, <5>1 DEF InLine, l
      <4>2. CASE i \in 1..l /\ j \in (l + 1)..(l + m)
        BY Zenon, <1>9, <2>4, <4>2 DEF InLine, l
      <4>3. CASE i \in (l + 1)..(l + m) /\ j \in (l + 1)..(l + m)
        <5>1. i - l < j - l
          BY <2>4, <3>2, <4>3
        <5> QED BY <1>9, <2>4, <4>3, <5>1 DEF InLine
      <4> QED BY Zenon, <2>4, <3>1, <3>2, <4>1, <4>2, <4>3
    <3>3. \A i \in 1..Len(delivered'), j \in 1..Len(rest) : delivered'[i] < rest[j].n
      BY Zenon, <1>9, <2>4, <3>1 DEF InLine, l
    <3>4. \A i \in 1..Len(delivered') : delivered'[i] <= received
      BY Zenon, <1>9, <2>4, <3>1 DEF InLine, l
    <3> QED BY <1>9, <3>2, <3>3, <3>4 DEF InLine
  <2>6. ~Running(rest) /\ mayStop
    BY Zenon, <1>13 DEF Honoured
  <2>7. TypeOK'
    <3>1. /\ slots' \in Seq(Slot) /\ outbox' \in Seq(Replied) /\ received' \in 0..MaxCommands
          /\ inputEnd' \in Ends
      BY <1>1, <1>3, <1>5, <1>13 DEF Ends
    <3> QED BY Zenon, <1>3, <1>8, <1>12, <1>13, <2>4, <3>1 DEF TypeOK, Slot, Replied
  <2>8. InPlaces(<<>>, rest) /\ Bounded'
    <3>1. MaxQueued \in Nat /\ ReadFrames \in Nat
      BY SessionAssumption
    <3>2. Len(outbox') = 0 /\ Len(<<>>) = 0
      BY Zenon, <1>13
    <3>3. Bounded'
      BY <1>1, <1>9, <1>12, <1>13, <2>2, <3>1, <3>2 DEF Bounded
    <3> QED BY <1>9, <2>2, <3>1, <3>2, <3>3 DEF InPlaces
  <2>9. EndsClean'
    BY Zenon, <1>3, <1>13, <2>6 DEF EndsClean, NeverDropped, StoppedThawed
  <2> QED BY <1>3, <1>5, <1>13, <2>5, <2>7, <2>8, <2>9 DEF SessionInv
<1>14. CASE /\ draining' = drain /\ slots' = queue /\ outbox' = box /\ UNCHANGED delivered
            /\ \/ /\ queue = <<>> /\ inputEnd # "none" /\ loc' = "ended" /\ inputEnd' = inputEnd
                  /\ UNCHANGED <<canRead, canWrite>>
               \/ /\ loc' = "select" /\ UNCHANGED inputEnd
                  /\ canRead' = (inputEnd = "none" /\ ~drain /\ RoomToRead(queue, box))
                  /\ canWrite' = (box # <<>> /\ ~writeFailed)
  <2>1. TypeOK'
    BY Zenon, <1>3, <1>8, <1>9, <1>10, <1>12, <1>14, InvTypes DEF SessionInv, TypeOK, Slot, Replied
  <2>2. Bounded' /\ (loc' = "select" /\ canRead' => Len(slots') + Len(outbox') < MaxQueued)
    <3>1. MaxQueued \in Nat /\ ReadFrames \in Nat
      BY SessionAssumption
    <3>2. RoomToRead(queue, box) => Len(queue) + Len(box) < MaxQueued
      BY Zenon DEF RoomToRead
    <3>3. Bounded'
      BY <1>1, <1>5, <1>9, <1>10, <1>12, <1>14, <3>1 DEF Bounded
    <3> QED BY Zenon, <1>14, <3>2, <3>3
  <2>3. EndsClean'
    BY <1>10, <1>12, <1>14 DEF EndsClean, NeverDropped, StoppedThawed, Running, Positions
  <2>4. loc' # "ended" => inputEnd' # "Cancelled"
    BY <1>12, <1>14
  <2> QED BY <1>3, <1>10, <1>11, <1>14, <2>1, <2>2, <2>3, <2>4 DEF SessionInv
<1> QED
  BY Zenon, <1>4, <1>13, <1>14

(* The host takes a reply, or a part of it.                                 *)
LEMMA HostTakesKeeps ==
  ASSUME SessionInv, HostTakes
  PROVE  SessionInv'
<1>1. /\ delivered \in Seq(1..MaxCommands) /\ outbox \in Seq(Replied) /\ outbox # <<>>
      /\ InLine(delivered, outbox, slots, received) /\ InPlaces(outbox, slots)
      /\ slots \in Seq(Slot) /\ Len(slots) \in Nat /\ MaxQueued \in Nat /\ ReadFrames \in Nat
  BY InvTypes DEF SessionInv, HostTakes
<1>2. /\ loc = "select" /\ loc' = loc /\ slots' = slots /\ received' = received /\ silent' = silent
      /\ inputEnd' = inputEnd /\ writeFailed' = writeFailed /\ canRead' = canRead
      /\ mayStop' = mayStop
      /\ UNCHANGED <<draining, canWrite, cancel, notified>>
  BY Zenon DEF HostTakes
<1>3. /\ Len(outbox) \in Nat /\ Len(outbox) >= 1 /\ outbox[1] \in Replied
      /\ outbox[1].n \in 1..MaxCommands /\ outbox[1].left \in Nat
  <2>1. Len(outbox) \in Nat /\ Len(outbox) >= 1 /\ outbox[1] \in Replied
    BY <1>1
  <2> QED BY <2>1 DEF Replied
<1>4. CASE outbox[1].left > 1
  <2>1. outbox' = [outbox EXCEPT ![1].left = @ - 1] /\ delivered' = delivered
    BY <1>1, <1>4 DEF HostTakes
  <2>2. [outbox[1] EXCEPT !.left = @ - 1] \in Replied
    BY <1>3, <1>4 DEF Replied
  <2>3. outbox' \in Seq(Replied) /\ Len(outbox') = Len(outbox)
    BY <1>1, <1>3, <2>1, <2>2
  <2>4. \A i \in 1..Len(outbox) : outbox'[i].n = outbox[i].n
    BY <1>1, <1>3, <2>1
  <2>5. InLine(delivered', outbox', slots', received')
    BY <1>1, <1>2, <2>1, <2>3, <2>4 DEF InLine
  <2>6. ~writeFailed => NoneMissing(delivered', outbox', slots', silent', received')
    BY <1>2, <2>1, <2>3, <2>4 DEF SessionInv, NoneMissing
  <2>7. TypeOK' /\ EndsClean'
    BY Zenon, <1>2, <2>1, <2>3 DEF SessionInv, TypeOK, EndsClean, NeverDropped, StoppedThawed, Replied
  <2>8. InPlaces(outbox', slots') /\ Bounded' /\ Exclusives(slots')
        /\ (loc' = "select" /\ canRead' => Len(slots') + Len(outbox') < MaxQueued)
        /\ (loc' # "ended" => inputEnd' # "Cancelled")
    BY Zenon, <1>2, <2>3 DEF SessionInv, InPlaces, Bounded
  <2> QED BY <1>2, <2>5, <2>6, <2>7, <2>8 DEF SessionInv
<1>5. CASE ~(outbox[1].left > 1)
  <2>1. outbox' = Tail(outbox) /\ delivered' = Append(delivered, outbox[1].n)
    BY <1>1, <1>5 DEF HostTakes
  <2>2. /\ outbox' \in Seq(Replied) /\ Len(outbox') = Len(outbox) - 1
        /\ \A i \in 1..Len(outbox') : outbox'[i] = outbox[i + 1] /\ i + 1 \in 1..Len(outbox)
    BY <1>1, <2>1
  <2> DEFINE l == Len(delivered)
  <2>3. /\ delivered' \in Seq(1..MaxCommands) /\ Len(delivered') = l + 1 /\ l \in Nat
        /\ \A i \in 1..l : delivered'[i] = delivered[i]
        /\ delivered'[l + 1] = outbox[1].n
    BY <1>1, <1>3, <2>1
  <2> HIDE DEF l
  <2>4. \A i \in 1..Len(delivered') : i \in 1..l \/ i = l + 1
    BY <2>3
  <2>5. InLine(delivered', outbox', slots', received')
    <3>1. \A i, j \in 1..Len(delivered') : i < j => delivered'[i] < delivered'[j]
      <4>1. ASSUME NEW i \in 1..Len(delivered'), NEW j \in 1..Len(delivered'), i < j
            PROVE  delivered'[i] < delivered'[j]
        <5>1. i \in 1..l
          BY <2>3, <4>1
        <5>2. CASE j \in 1..l
          BY Zenon, <1>1, <2>3, <4>1, <5>1, <5>2 DEF InLine, l
        <5>3. CASE j = l + 1
          <6>1. 1 \in 1..Len(outbox)
            BY <1>3
          <6> QED BY Zenon, <1>1, <2>3, <5>1, <5>3, <6>1 DEF InLine, l
        <5> QED BY Zenon, <2>4, <5>2, <5>3
      <4> QED BY Zenon, <4>1
    <3>0. 1 \in 1..Len(outbox)
      BY <1>3
    <3>2. ASSUME NEW i \in 1..Len(outbox'), NEW j \in 1..Len(outbox'), i < j
          PROVE  outbox'[i].n < outbox'[j].n
      <4>1. i + 1 \in 1..Len(outbox) /\ j + 1 \in 1..Len(outbox) /\ i + 1 < j + 1
        BY <2>2, <3>2
      <4> QED BY Zenon, <1>1, <2>2, <4>1 DEF InLine
    <3>3. \A i \in 1..Len(delivered'), j \in 1..Len(outbox') : delivered'[i] < outbox'[j].n
      <4>1. ASSUME NEW i \in 1..Len(delivered'), NEW j \in 1..Len(outbox')
            PROVE  delivered'[i] < outbox'[j].n
        <5>1. outbox'[j] = outbox[j + 1] /\ j + 1 \in 1..Len(outbox) /\ 1 < j + 1
          BY <2>2
        <5>2. CASE i \in 1..l
          BY Zenon, <1>1, <2>3, <5>1, <5>2 DEF InLine, l
        <5>3. CASE i = l + 1
          BY Zenon, <1>1, <2>3, <3>0, <5>1, <5>3 DEF InLine
        <5> QED BY Zenon, <2>4, <5>2, <5>3
      <4> QED BY Zenon, <4>1
    <3>4. \A i \in 1..Len(delivered'), j \in 1..Len(slots) : delivered'[i] < slots[j].n
      <4>1. /\ \A i \in 1..l, j \in 1..Len(slots) : delivered[i] < slots[j].n
            /\ \A j \in 1..Len(slots) : outbox[1].n < slots[j].n
        BY Zenon, <1>1, <3>0 DEF InLine, l
      <4> QED BY Zenon, <2>3, <2>4, <4>1
    <3>5. \A i \in 1..Len(outbox'), j \in 1..Len(slots) : outbox'[i].n < slots[j].n
      BY Zenon, <1>1, <2>2 DEF InLine
    <3>6. /\ \A i \in 1..Len(delivered') : delivered'[i] <= received
          /\ \A i \in 1..Len(outbox') : outbox'[i].n <= received
      <4>1. /\ \A i \in 1..l : delivered[i] <= received
            /\ \A i \in 1..Len(outbox) : outbox[i].n <= received
        BY Zenon, <1>1 DEF InLine, l
      <4> QED BY Zenon, <2>2, <2>3, <2>4, <3>0, <4>1
    <3> QED BY Zenon, <1>1, <1>2, <3>1, <3>2, <3>3, <3>4, <3>5, <3>6 DEF InLine
  <2>6. ~writeFailed => NoneMissing(delivered', outbox', slots', silent', received')
    <3> SUFFICES ASSUME ~writeFailed, NEW x \in 1..received
                 PROVE  \/ x \in silent
                        \/ \E i \in 1..Len(delivered') : delivered'[i] = x
                        \/ \E i \in 1..Len(outbox') : outbox'[i].n = x
                        \/ \E i \in 1..Len(slots) : slots[i].n = x
      BY Zenon, <1>2 DEF NoneMissing
    <3>1. NoneMissing(delivered, outbox, slots, silent, received)
      BY Zenon, <1>2 DEF SessionInv
    <3>2. ASSUME NEW i \in 1..l, delivered[i] = x PROVE \E j \in 1..Len(delivered') : delivered'[j] = x
      BY <2>3, <3>2
    <3>3. ASSUME NEW i \in 1..Len(outbox), outbox[i].n = x
          PROVE  \/ \E j \in 1..Len(delivered') : delivered'[j] = x
                 \/ \E j \in 1..Len(outbox') : outbox'[j].n = x
      <4>1. CASE i = 1
        BY <2>3, <3>3, <4>1
      <4>2. CASE i # 1
        <5>1. i - 1 \in 1..Len(outbox') /\ outbox'[i - 1] = outbox[i]
          BY <1>3, <2>2, <4>2
        <5> QED BY Zenon, <3>3, <5>1
      <4> QED BY Zenon, <4>1, <4>2
    <3> QED BY Zenon, <3>1, <3>2, <3>3 DEF NoneMissing, l
  <2>7. TypeOK' /\ EndsClean'
    BY Zenon, <1>2, <2>2, <2>3 DEF SessionInv, TypeOK, EndsClean, NeverDropped, StoppedThawed, Replied
  <2>8. InPlaces(outbox', slots')
    BY <1>1, <1>2, <1>3, <2>2 DEF InPlaces
  <2>9. Bounded' /\ (loc' = "select" /\ canRead' => Len(slots') + Len(outbox') < MaxQueued)
        /\ Exclusives(slots') /\ (loc' # "ended" => inputEnd' # "Cancelled")
    BY <1>1, <1>2, <1>3, <2>2 DEF SessionInv, Bounded
  <2> QED BY <1>2, <2>5, <2>6, <2>7, <2>8, <2>9 DEF SessionInv
<1> QED
  BY <1>4, <1>5

(* Commands that finish keep their place in the queue.                      *)
LEMMA DriveShape ==
  ASSUME slots \in Seq(Slot), NEW done \in SUBSET DOMAIN slots, Drive(done)
  PROVE  /\ slots' \in Seq(Slot) /\ Len(slots') = Len(slots)
         /\ \A i \in 1..Len(slots) :
              /\ slots'[i].n = slots[i].n /\ slots'[i].kind = slots[i].kind
              /\ slots'[i].st = slots[i].st
                 \/ (slots[i].st = "Pending" /\ slots'[i].st = "Done")
<1>1. PICK size \in [done -> ReplySizes] :
         slots' = [i \in DOMAIN slots |->
                     IF i \in done THEN [slots[i] EXCEPT !.st = "Done", !.size = size[i]]
                                   ELSE slots[i]]
  BY Zenon DEF Drive
<1>2. /\ DOMAIN slots = 1..Len(slots) /\ Len(slots) \in Nat
      /\ \A i \in done : slots[i].st = "Pending"
  <2>1. DOMAIN slots = 1..Len(slots) /\ Len(slots) \in Nat
    OBVIOUS
  <2>2. done \subseteq Positions(slots, "Pending")
    BY Zenon DEF Drive
  <2> QED BY <2>1, <2>2 DEF Positions
<1>3. ASSUME NEW i \in 1..Len(slots)
      PROVE  /\ slots'[i] \in Slot /\ slots'[i].n = slots[i].n /\ slots'[i].kind = slots[i].kind
             /\ slots'[i].st = slots[i].st
                \/ (slots[i].st = "Pending" /\ slots'[i].st = "Done")
  <2>1. slots[i] \in Slot
    BY <1>2
  <2>2. CASE i \in done
    <3>1. slots'[i] = [slots[i] EXCEPT !.st = "Done", !.size = size[i]] /\ size[i] \in ReplySizes
      BY Zenon, <1>1, <1>2, <2>2
    <3>2. size[i] \in ReplySizes \cup {0}
      BY <3>1
    <3> QED BY Zenon, <1>2, <2>1, <2>2, <3>1, <3>2 DEF Slot
  <2>3. CASE i \notin done
    BY Zenon, <1>1, <1>2, <2>1, <2>3
  <2> QED BY Zenon, <2>2, <2>3
<1>4. slots' \in Seq(Slot) /\ Len(slots') = Len(slots)
  <2> DEFINE E(i) == IF i \in done THEN [slots[i] EXCEPT !.st = "Done", !.size = size[i]]
                                   ELSE slots[i]
  <2>1. slots' = [i \in 1..Len(slots) |-> E(i)]
    BY Zenon, <1>1, <1>2
  <2>2. \A i \in 1..Len(slots) : slots'[i] = E(i)
    BY Zenon, <2>1
  <2>3. \A i \in 1..Len(slots) : E(i) \in Slot
    <3> HIDE DEF E
    <3> QED BY Zenon, <1>3, <2>2
  <2> HIDE DEF E
  <2> QED BY <1>2, <2>1, <2>3
<1> QED
  BY <1>3, <1>4

(* Commands finish.                                                         *)
LEMMA DriveKeeps ==
  ASSUME SessionInv, NEW done \in SUBSET DOMAIN slots, Drive(done)
  PROVE  SessionInv'
<1>1. slots \in Seq(Slot)
  BY InvTypes DEF SessionInv
<1>2. /\ loc = "select" /\ loc' = "top"
      /\ UNCHANGED <<outbox, inputEnd, writeFailed, draining, canRead, canWrite, cancel,
                     notified, mayStop, received, delivered, silent>>
  BY Zenon DEF Drive, hostVars
<1>3. \A i \in 1..Len(slots) :
         /\ slots'[i].n = slots[i].n /\ slots'[i].kind = slots[i].kind
         /\ slots'[i].st = slots[i].st
            \/ (slots[i].st = "Pending" /\ slots'[i].st = "Done")
  BY Zenon, <1>1, DriveShape
<1>4. slots' \in Seq(Slot) /\ Len(slots') = Len(slots)
  BY Zenon, <1>1, DriveShape
<1>5. /\ InLine(delivered, outbox, slots', received)
      /\ ~writeFailed => NoneMissing(delivered, outbox, slots', silent, received)
  <2>1. \A i \in 1..Len(slots) : slots'[i].n = slots[i].n
    BY Zenon, <1>3
  <2> QED BY Zenon, <1>2, <1>4, <2>1, SameNumbers DEF SessionInv
<1>6. InPlaces(outbox, slots')
  BY Zenon, <1>3, <1>4 DEF SessionInv, InPlaces
<1>7. Exclusives(slots')
  <2> SUFFICES ASSUME NEW i \in 1..Len(slots), NEW j \in 1..Len(slots), i # j
               PROVE  Compatible(slots'[i], slots'[j])
    BY Zenon, <1>4 DEF Exclusives
  <2>1. Compatible(slots[i], slots[j])
    BY Zenon DEF SessionInv, Exclusives
  <2> QED BY <1>3, <2>1 DEF Compatible
<1>8. TypeOK' /\ Bounded' /\ EndsClean'
  BY <1>2, <1>4 DEF SessionInv, TypeOK, Bounded, EndsClean, NeverDropped, StoppedThawed, Slot
<1>9. inputEnd' # "Cancelled"
  BY Zenon, <1>2 DEF SessionInv
<1> QED
  BY Zenon, <1>2, <1>5, <1>6, <1>7, <1>8, <1>9 DEF SessionInv

(* New commands wait at the end of the queue, numbered as they came.        *)
LEMMA ReadShape ==
  ASSUME slots \in Seq(Slot), received \in 0..MaxCommands, ReadSome
  PROVE  \E f \in 0..ReadFrames :
           /\ received + f <= MaxCommands /\ received' = received + f
           /\ slots' \in Seq(Slot) /\ Len(slots') = Len(slots) + f
           /\ \A i \in 1..Len(slots) : slots'[i] = slots[i]
           /\ \A i \in (Len(slots) + 1)..(Len(slots) + f) :
                slots'[i].n = received + (i - Len(slots)) /\ slots'[i].st = "Waiting"
<1>0. PICK f \in 0..ReadFrames :
         /\ received + f <= MaxCommands /\ received' = received + f
         /\ \E kinds \in [1..f -> Kinds] :
              slots' = slots \o [i \in 1..f |-> [n |-> received + i, kind |-> kinds[i],
                                                 st |-> "Waiting", size |-> 0]]
  BY Zenon DEF ReadSome
<1>1. PICK kinds \in [1..f -> Kinds] :
         /\ received + f <= MaxCommands /\ received' = received + f
         /\ slots' = slots \o [i \in 1..f |-> [n |-> received + i, kind |-> kinds[i],
                                               st |-> "Waiting", size |-> 0]]
  BY Zenon, <1>0
<1>2. Len(slots) \in Nat /\ received \in Nat /\ MaxCommands \in Nat /\ ReadFrames \in Nat /\ f \in Nat
  BY SessionAssumption
<1> DEFINE C(i) == [n |-> received + i, kind |-> kinds[i], st |-> "Waiting", size |-> 0]
           new == [i \in 1..f |-> C(i)]
           l == Len(slots)
<1>3. \A i \in 1..f : C(i) \in Slot
  <2> SUFFICES ASSUME NEW i \in 1..f PROVE C(i) \in Slot
    OBVIOUS
  <2>1. received + i \in 1..MaxCommands /\ kinds[i] \in Kinds
    BY <1>1, <1>2
  <2> QED BY Zenon, <2>1 DEF Slot
<1>4. new \in Seq(Slot) /\ Len(new) = f /\ \A i \in 1..f : new[i] = C(i)
  <2> HIDE DEF C
  <2> QED BY <1>2, <1>3
<1>5. slots' = slots \o new
  BY Zenon, <1>1
<1> HIDE DEF new, l
<1>6. /\ slots' \in Seq(Slot) /\ Len(slots') = l + f /\ l \in Nat
      /\ \A i \in 1..l : slots'[i] = slots[i]
      /\ \A i \in (l + 1)..(l + f) : slots'[i] = new[i - l]
  <2>1. /\ slots \o new \in Seq(Slot) /\ Len(slots \o new) = l + Len(new) /\ l \in Nat
        /\ \A i \in 1..l : (slots \o new)[i] = slots[i]
        /\ \A i \in (l + 1)..(l + Len(new)) : (slots \o new)[i] = new[i - l]
    BY Zenon, <1>2, <1>4, Joined DEF l
  <2> QED BY Zenon, <1>4, <1>5, <2>1
<1>7. ASSUME NEW i \in (l + 1)..(l + f)
      PROVE  slots'[i].n = received + (i - l) /\ slots'[i].st = "Waiting" /\ i - l >= 1
  <2>1. i - l \in 1..f
    BY <1>2, <1>6
  <2>2. slots'[i] = C(i - l)
    BY Zenon, <1>4, <1>6, <2>1
  <2> QED BY <2>1, <2>2
<1> HIDE DEF C
<1> QED
  BY Zenon, <1>1, <1>6, <1>7 DEF l

(* A read puts new commands at the end of the queue.                        *)
LEMMA ReadSomeKeeps ==
  ASSUME SessionInv, ReadSome
  PROVE  SessionInv'
<1>2. /\ slots \in Seq(Slot) /\ Len(slots) \in Nat /\ received \in 0..MaxCommands
      /\ outbox \in Seq(Replied) /\ delivered \in Seq(1..MaxCommands) /\ Len(outbox) \in Nat
      /\ received \in Nat /\ MaxCommands \in Nat /\ MaxQueued \in Nat /\ ReadFrames \in Nat
      /\ loc = "select" /\ canRead /\ loc' = "top"
      /\ UNCHANGED <<outbox, inputEnd, writeFailed, draining, canRead, canWrite, cancel,
                     notified, mayStop, delivered, silent>>
      /\ InLine(delivered, outbox, slots, received)
      /\ InPlaces(outbox, slots) /\ Exclusives(slots)
  BY InvTypes DEF SessionInv, ReadSome
<1> DEFINE l == Len(slots)
<1>1. PICK f \in 0..ReadFrames :
           /\ received + f <= MaxCommands /\ received' = received + f
           /\ slots' \in Seq(Slot) /\ Len(slots') = l + f
           /\ \A i \in 1..l : slots'[i] = slots[i]
           /\ \A i \in (l + 1)..(l + f) :
                slots'[i].n = received + (i - l) /\ slots'[i].st = "Waiting"
  BY <1>2, ReadShape
<1> HIDE DEF l
<1>6. /\ slots' \in Seq(Slot) /\ Len(slots') = l + f /\ l \in Nat /\ f \in Nat /\ f <= ReadFrames
      /\ \A i \in 1..l : slots'[i] = slots[i]
  <2>1. l \in Nat /\ ReadFrames \in Nat
    BY <1>2 DEF l
  <2>2. f \in Nat /\ f <= ReadFrames
    BY <2>1
  <2> QED BY <1>1, <2>1, <2>2, Zenon
<1>7. ASSUME NEW i \in (l + 1)..(l + f)
      PROVE  slots'[i].n = received + (i - l) /\ slots'[i].st = "Waiting" /\ i - l >= 1
  BY <1>1, <1>6
<1>8. \A i \in 1..Len(slots') : i \in 1..l \/ i \in (l + 1)..(l + f)
  BY <1>2, <1>6
<1>9. InLine(delivered, outbox, slots', received')
  <2>0. \A i \in 1..l : slots[i].n \in Int
    BY <1>2, SlotFields DEF l
  <2>1. ASSUME NEW i \in 1..Len(slots'), NEW j \in 1..Len(slots'), i < j
        PROVE  slots'[i].n < slots'[j].n
    <3>1. CASE j \in 1..l
      <4>1. i \in 1..l
        BY <1>6, <2>1, <3>1
      <4> QED BY Zenon, <1>2, <1>6, <2>1, <3>1, <4>1 DEF InLine, l
    <3>2. CASE i \in 1..l /\ j \in (l + 1)..(l + f)
      <4>1. slots[i].n <= received
        BY Zenon, <1>2, <3>2 DEF InLine, l
      <4> QED BY <1>2, <1>6, <1>7, <2>0, <3>2, <4>1
    <3>3. CASE i \in (l + 1)..(l + f) /\ j \in (l + 1)..(l + f)
      BY <1>2, <1>6, <1>7, <2>1, <3>3
    <3> QED BY <1>6, <1>8, <2>1, <3>1, <3>2, <3>3
  <2>2. ASSUME NEW x \in Int, x <= received, NEW j \in (l + 1)..(l + f) PROVE x < slots'[j].n
    <3>1. slots'[j].n = received + (j - l) /\ j - l >= 1
      BY Zenon, <1>7
    <3>2. received \in Int
      BY <1>2
    <3>3. l \in Int /\ j \in Int
      BY <1>6
    <3>4. x < received + (j - l)
      BY <2>2, <3>1, <3>2, <3>3
    <3> QED BY Zenon, <3>1, <3>4
  <2>3. \A i \in 1..Len(delivered), j \in 1..Len(slots') : delivered[i] < slots'[j].n
    <3>1. \A i \in 1..Len(delivered) : delivered[i] \in Int /\ delivered[i] <= received
      BY <1>2 DEF InLine
    <3> QED BY Zenon, <1>2, <1>6, <1>8, <2>2, <3>1 DEF InLine, l
  <2>4. \A i \in 1..Len(outbox), j \in 1..Len(slots') : outbox[i].n < slots'[j].n
    <3>1. \A i \in 1..Len(outbox) : outbox[i] \in Replied
      BY <1>2
    <3>2. \A i \in 1..Len(outbox) : outbox[i].n \in Int /\ outbox[i].n <= received
      BY <1>2, <3>1 DEF InLine, Replied
    <3> QED BY Zenon, <1>2, <1>6, <1>8, <2>2, <3>2 DEF InLine, l
  <2>5. received' \in Nat /\ received <= received'
    BY <1>1, <1>2
  <2>6. \A i \in 1..Len(delivered) : delivered[i] <= received'
    BY <1>2, <2>5 DEF InLine
  <2>7. \A i \in 1..Len(outbox) : outbox[i].n <= received'
    <3>1. \A i \in 1..Len(outbox) : outbox[i] \in Replied
      BY <1>2
    <3> QED BY <1>2, <2>5, <3>1 DEF InLine, Replied
  <2>8. \A i \in 1..Len(slots') : slots'[i].n <= received'
    <3>1. \A i \in 1..l : slots'[i].n <= received'
      BY <1>2, <1>6, <2>0, <2>5 DEF InLine, l
    <3>2. \A i \in (l + 1)..(l + f) : slots'[i].n <= received'
      BY <1>1, <1>2, <1>6, <1>7
    <3> QED BY Zenon, <1>8, <3>1, <3>2
  <2> QED BY Zenon, <1>2, <2>1, <2>3, <2>4, <2>6, <2>7, <2>8 DEF InLine
<1>10. ~writeFailed => NoneMissing(delivered, outbox, slots', silent, received')
  <2> SUFFICES ASSUME ~writeFailed, NEW x \in 1..received'
               PROVE  \/ x \in silent
                      \/ \E i \in 1..Len(delivered) : delivered[i] = x
                      \/ \E i \in 1..Len(outbox) : outbox[i].n = x
                      \/ \E i \in 1..Len(slots') : slots'[i].n = x
    BY Zenon DEF NoneMissing
  <2>1. NoneMissing(delivered, outbox, slots, silent, received)
    BY Zenon, <1>2 DEF SessionInv
  <2>2. CASE x > received
    <3>1. l + (x - received) \in (l + 1)..(l + f) /\ l + (x - received) \in 1..Len(slots')
      BY <1>1, <1>2, <1>6, <2>2
    <3>2. slots'[l + (x - received)].n = received + ((l + (x - received)) - l)
      BY Zenon, <1>7, <3>1
    <3>3. received + ((l + (x - received)) - l) = x
      BY <1>1, <1>2, <1>6
    <3> QED BY Zenon, <3>1, <3>2, <3>3
  <2>3. CASE ~(x > received)
    <3>1. x \in 1..received
      BY <1>1, <1>2, <2>3
    <3>2. ASSUME NEW i \in 1..l, slots[i].n = x PROVE \E j \in 1..Len(slots') : slots'[j].n = x
      BY <1>2, <1>6, <3>2
    <3> QED BY Zenon, <2>1, <3>1, <3>2 DEF NoneMissing, l
  <2> QED BY Zenon, <2>2, <2>3
<1>11. InPlaces(outbox, slots')
  BY Zenon, <1>2, <1>6, <1>7, <1>8 DEF InPlaces, l
<1>12. Exclusives(slots')
  <2> SUFFICES ASSUME NEW i \in 1..Len(slots'), NEW j \in 1..Len(slots'), i # j
               PROVE  Compatible(slots'[i], slots'[j])
    BY DEF Exclusives
  <2>1. CASE i \in 1..l /\ j \in 1..l
    BY Zenon, <1>2, <1>6, <2>1 DEF Exclusives, l
  <2>2. CASE i \in (l + 1)..(l + f) \/ j \in (l + 1)..(l + f)
    BY Zenon, <1>7, <2>2 DEF Compatible
  <2> QED BY Zenon, <1>8, <2>1, <2>2
<1>13. Bounded'
  <2>1. Len(slots) + Len(outbox) < MaxQueued
    BY Zenon, <1>2 DEF SessionInv
  <2>2. Len(slots') + Len(outbox') < MaxQueued + ReadFrames
    BY <1>2, <1>6, <2>1 DEF l
  <2> QED BY Zenon, <2>2 DEF Bounded
<1>14. received' \in 0..MaxCommands
  BY <1>1, <1>2
<1>15. TypeOK' /\ EndsClean'
  BY Zenon, <1>2, <1>6, <1>14 DEF SessionInv, TypeOK, EndsClean, NeverDropped, StoppedThawed, Slot
<1>16. inputEnd' # "Cancelled"
  BY Zenon, <1>2 DEF SessionInv
<1> QED
  BY Zenon, <1>2, <1>9, <1>10, <1>11, <1>12, <1>13, <1>15, <1>16 DEF SessionInv

-----------------------------------------------------------------------------
(* The invariant is inductive.                                              *)
LEMMA SessionInvInit == Init => SessionInv
<1> SUFFICES ASSUME Init PROVE SessionInv
  BY Zenon
<1>1. /\ loc = "top" /\ slots = <<>> /\ outbox = <<>> /\ inputEnd = "none" /\ received = 0
      /\ delivered = <<>> /\ silent = {} /\ writeFailed = FALSE /\ draining = FALSE
      /\ canRead = FALSE /\ canWrite = FALSE /\ cancel = FALSE /\ notified = FALSE
      /\ mayStop \in BOOLEAN
  BY Zenon DEF Init
<1>2. MaxQueued \in Nat /\ MaxQueued > 0 /\ ReadFrames \in Nat /\ MaxCommands \in Nat
  BY SessionAssumption
<1>3. Len(slots) = 0 /\ Len(outbox) = 0 /\ Len(delivered) = 0
  BY Zenon, <1>1
<1>4. TypeOK
  <2>1. slots \in Seq(Slot) /\ outbox \in Seq(Replied) /\ delivered \in Seq(1..MaxCommands)
    BY <1>1
  <2>2. received \in 0..MaxCommands /\ silent \subseteq 1..MaxCommands
    BY <1>1, <1>2
  <2>3. {writeFailed, draining, canRead, canWrite, cancel, notified, mayStop} \subseteq BOOLEAN
    BY Zenon, <1>1
  <2> QED BY Zenon, <1>1, <2>1, <2>2, <2>3 DEF TypeOK, Slot, Replied
<1>5. /\ InLine(delivered, outbox, slots, received)
      /\ NoneMissing(delivered, outbox, slots, silent, received)
  BY <1>1, <1>3 DEF InLine, NoneMissing
<1>6. InPlaces(outbox, slots) /\ Bounded /\ Exclusives(slots)
  BY <1>2, <1>3 DEF InPlaces, Bounded, Exclusives
<1>7. EndsClean
  BY Zenon, <1>1 DEF EndsClean, NeverDropped, StoppedThawed
<1> QED
  BY <1>1, <1>4, <1>5, <1>6, <1>7 DEF SessionInv

(* Every step of a session, its host's and the restart's included, keeps   *)
(* the invariant. *)
LEMMA SessionInvNext == SessionInv /\ [Next]_vars => SessionInv'
<1> SUFFICES ASSUME SessionInv, [Next]_vars PROVE SessionInv'
  OBVIOUS
<1>1. CASE Top
  BY <1>1, TopKeeps
<1>2. CASE HostTakes
  BY Zenon, <1>2, HostTakesKeeps
<1>3. CASE ReadSome
  BY <1>3, ReadSomeKeeps
<1>4. CASE \E done \in SUBSET DOMAIN slots : Drive(done)
  BY Zenon, <1>4, DriveKeeps
<1>5. CASE CancelChanged
  <2>1. /\ loc = "select" /\ loc' = "top" /\ UNCHANGED <<slots, outbox, inputEnd, writeFailed,
             canRead, canWrite, cancel, mayStop, received, delivered, silent>>
        /\ notified' = FALSE /\ draining' \in BOOLEAN
    BY <1>5 DEF CancelChanged, hostVars, SessionInv, TypeOK
  <2>2. TypeOK'
    BY Zenon, <2>1 DEF SessionInv, TypeOK
  <2> QED BY Zenon, <2>1, <2>2 DEF SessionInv, Bounded, EndsClean, NeverDropped, StoppedThawed
<1>6. CASE WriteDone
  <2>1. /\ loc = "select" /\ loc' = "top" /\ UNCHANGED <<slots, outbox, inputEnd, writeFailed,
             draining, canRead, canWrite, cancel, notified, mayStop, received, delivered, silent>>
    BY Zenon, <1>6 DEF WriteDone, hostVars, sessionVars
  <2>2. TypeOK'
    BY Zenon, <2>1 DEF SessionInv, TypeOK
  <2> QED BY Zenon, <2>1, <2>2 DEF SessionInv, Bounded, EndsClean, NeverDropped, StoppedThawed
<1>7. CASE WriteFails
  <2>1. /\ loc = "select" /\ loc' = "top" /\ outbox' = <<>> /\ writeFailed' = TRUE
        /\ UNCHANGED <<slots, draining, canRead, canWrite, cancel, notified, mayStop, received,
                       delivered, silent>>
        /\ inputEnd' = IF inputEnd = "none" THEN "WriteError" ELSE inputEnd
    BY Zenon, <1>7 DEF WriteFails, hostVars
  <2>2. /\ slots \in Seq(Slot) /\ outbox \in Seq(Replied) /\ Len(outbox) \in Nat
        /\ Len(slots) \in Nat /\ MaxQueued \in Nat /\ ReadFrames \in Nat
    BY InvTypes DEF SessionInv
  <2>3. Len(outbox') = 0 /\ outbox' \in Seq(Replied)
    BY <2>1
  <2>4. TypeOK'
    BY Zenon, <2>1, <2>3 DEF SessionInv, TypeOK, Ends, Replied
  <2>a. /\ InLine(delivered, outbox, slots, received) /\ InPlaces(outbox, slots) /\ Bounded
    BY Zenon DEF SessionInv
  <2>b. delivered' = delivered /\ slots' = slots /\ received' = received
    BY <2>1
  <2>5. InLine(delivered', outbox', slots', received')
    <3>1. 1..Len(outbox') = {}
      BY <2>3
    <3> QED BY Zenon, <2>a, <2>b, <3>1 DEF InLine
  <2>6. InPlaces(outbox', slots') /\ Bounded'
    <3>1. InPlaces(outbox', slots')
      <4> SUFFICES ASSUME NEW i \in 1..Len(slots), slots[i].st # "Waiting"
                   PROVE  i + Len(outbox') <= MaxQueued
        BY Zenon, <2>b DEF InPlaces
      <4>1. i + Len(outbox) <= MaxQueued
        BY Zenon, <2>a DEF InPlaces
      <4> QED BY <2>2, <2>3, <4>1
    <3>2. Bounded'
      BY <2>2, <2>3, <2>a, <2>b DEF Bounded
    <3> QED BY Zenon, <3>1, <3>2
  <2>7. EndsClean' /\ inputEnd' # "Cancelled"
    BY Zenon, <2>1 DEF SessionInv, EndsClean, NeverDropped, StoppedThawed
  <2> QED BY Zenon, <2>1, <2>4, <2>5, <2>6, <2>7 DEF SessionInv
<1>8. CASE ReadEnds
  <2>1. /\ loc = "select" /\ loc' = "top" /\ inputEnd' \in {"Eof", "ReadError"}
        /\ UNCHANGED <<slots, outbox, writeFailed, draining, canRead, canWrite, cancel, notified,
                       mayStop, received, delivered, silent>>
    BY Zenon, <1>8 DEF ReadEnds, hostVars
  <2>2. TypeOK'
    BY Zenon, <2>1 DEF SessionInv, TypeOK, Ends
  <2> QED BY Zenon, <2>1, <2>2 DEF SessionInv, Bounded, EndsClean, NeverDropped, StoppedThawed
<1>9. CASE StopRequest
  <2>1. /\ cancel' = TRUE /\ notified' = TRUE
        /\ UNCHANGED <<loc, slots, outbox, inputEnd, writeFailed, draining, canRead, canWrite,
                       mayStop, received, delivered, silent>>
    BY Zenon, <1>9 DEF StopRequest, hostVars, sessionVars
  <2>2. TypeOK'
    BY Zenon, <2>1 DEF SessionInv, TypeOK
  <2> QED BY Zenon, <2>1, <2>2 DEF SessionInv, Bounded, EndsClean, NeverDropped, StoppedThawed
<1>10. CASE StateChanges
  <2>1. /\ mayStop' = ~mayStop /\ (mayStop => Positions(slots, "Pending") # {})
        /\ UNCHANGED <<loc, slots, outbox, inputEnd, writeFailed, draining, canRead, canWrite,
                       cancel, notified, received, delivered, silent>>
    BY <1>10 DEF StateChanges, hostVars, sessionVars
  <2>2. TypeOK'
    BY Zenon, <2>1 DEF SessionInv, TypeOK
  <2>3. EndsClean'
    BY Zenon, <2>1 DEF SessionInv, EndsClean, NeverDropped, StoppedThawed, Running
  <2> QED BY Zenon, <2>1, <2>2, <2>3 DEF SessionInv, Bounded
<1>11. CASE UNCHANGED vars
  <2>1. UNCHANGED <<loc, slots, outbox, inputEnd, writeFailed, draining, canRead, canWrite,
                    cancel, notified, mayStop, received, delivered, silent>>
    BY <1>11 DEF vars, hostVars, sessionVars
  <2> QED BY Zenon, <2>1 DEF SessionInv, TypeOK, Bounded, EndsClean, NeverDropped, StoppedThawed
<1> QED
  BY <1>1, <1>2, <1>3, <1>4, <1>5, <1>6, <1>7, <1>8, <1>9, <1>10, <1>11 DEF Next

(* The invariant holds throughout every session. *)
LEMMA SessionInvHolds == Spec => []SessionInv
  BY SessionInvInit, SessionInvNext, PTL DEF Spec

-----------------------------------------------------------------------------
(* The replies. *)
Parts(d, b, s) == d \o Numbers(b) \o Numbers(s)

(* The line is the three parts one behind the other.                        *)
LEMMA LineParts ==
  ASSUME NEW d \in Seq(1..MaxCommands), NEW b \in Seq(Replied), NEW s \in Seq(Slot)
  PROVE  LET l == Parts(d, b, s)
             m == Len(d)
             n == Len(d) + Len(b)
         IN /\ DOMAIN l = 1..(n + Len(s)) /\ m \in Nat /\ n \in Nat /\ m <= n /\ Len(s) \in Nat
            /\ \A i \in 1..m : l[i] = d[i]
            /\ \A i \in (m + 1)..n : l[i] = b[i - m].n /\ i - m \in 1..Len(b)
            /\ \A i \in (n + 1)..(n + Len(s)) : l[i] = s[i - n].n /\ i - n \in 1..Len(s)
<1> DEFINE nb == Numbers(b)
           ns == Numbers(s)
           m == Len(d)
           n == Len(d) + Len(b)
           T == 1..MaxCommands
<1>1. nb \in Seq(T) /\ Len(nb) = Len(b) /\ \A i \in 1..Len(b) : nb[i] = b[i].n
  <2>1. DOMAIN b = 1..Len(b) /\ Len(b) \in Nat /\ \A i \in 1..Len(b) : b[i] \in Replied
    OBVIOUS
  <2>2. \A i \in 1..Len(b) : b[i].n \in T
    BY Zenon, <2>1 DEF Replied
  <2>3. nb = [i \in 1..Len(b) |-> b[i].n]
    BY Zenon, <2>1 DEF Numbers
  <2> HIDE DEF nb, T
  <2> QED BY <2>1, <2>2, <2>3
<1>2. ns \in Seq(T) /\ Len(ns) = Len(s) /\ \A i \in 1..Len(s) : ns[i] = s[i].n
  <2>1. DOMAIN s = 1..Len(s) /\ Len(s) \in Nat /\ \A i \in 1..Len(s) : s[i] \in Slot
    OBVIOUS
  <2>2. \A i \in 1..Len(s) : s[i].n \in T
    BY Zenon, <2>1, SlotFields
  <2>3. ns = [i \in 1..Len(s) |-> s[i].n]
    BY <2>1 DEF Numbers
  <2> HIDE DEF ns, T
  <2> QED BY <2>1, <2>2, <2>3
<1>3. d \in Seq(T) /\ m \in Nat /\ Len(b) \in Nat /\ Len(s) \in Nat
  OBVIOUS
<1> HIDE DEF nb, ns, T
<1>4. /\ d \o nb \in Seq(T) /\ Len(d \o nb) = n
      /\ \A i \in 1..m : (d \o nb)[i] = d[i]
      /\ \A i \in (m + 1)..n : (d \o nb)[i] = nb[i - m]
  <2>1. /\ d \o nb \in Seq(T) /\ Len(d \o nb) = Len(d) + Len(nb)
        /\ \A i \in 1..Len(d) : (d \o nb)[i] = d[i]
        /\ \A i \in (Len(d) + 1)..(Len(d) + Len(nb)) : (d \o nb)[i] = nb[i - Len(d)]
    BY Zenon, <1>1, <1>3, Joined
  <2> QED BY <1>1, <2>1
<1> DEFINE l == (d \o nb) \o ns
<1>5. /\ l \in Seq(T) /\ Len(l) = n + Len(s)
      /\ \A i \in 1..n : l[i] = (d \o nb)[i]
      /\ \A i \in (n + 1)..(n + Len(s)) : l[i] = ns[i - n]
  <2> DEFINE dn == d \o nb
  <2>1. dn \in Seq(T) /\ ns \in Seq(T)
    BY Zenon, <1>2, <1>4
  <2> HIDE DEF dn
  <2>2. /\ dn \o ns \in Seq(T) /\ Len(dn \o ns) = Len(dn) + Len(ns)
        /\ \A i \in 1..Len(dn) : (dn \o ns)[i] = dn[i]
        /\ \A i \in (Len(dn) + 1)..(Len(dn) + Len(ns)) : (dn \o ns)[i] = ns[i - Len(dn)]
    BY <2>1, Joined
  <2>3. Len(dn) = n /\ Len(ns) = Len(s) /\ l = dn \o ns /\ dn = d \o nb
    BY <1>2, <1>4 DEF dn
  <2> HIDE DEF l
  <2> QED BY Zenon, <2>2, <2>3
<1>6. l = Parts(d, b, s)
  BY Zenon DEF Parts, nb, ns
<1> HIDE DEF l
<1>7. DOMAIN l = 1..(n + Len(s))
  BY <1>5
<1>8. \A i \in 1..m : l[i] = d[i]
  BY <1>3, <1>4, <1>5
<1>9. ASSUME NEW i \in (m + 1)..n PROVE l[i] = b[i - m].n /\ i - m \in 1..Len(b)
  <2>1. i - m \in 1..Len(b) /\ i \in 1..n
    BY <1>3
  <2> QED BY Zenon, <1>1, <1>4, <1>5, <2>1
<1>10. ASSUME NEW i \in (n + 1)..(n + Len(s)) PROVE l[i] = s[i - n].n /\ i - n \in 1..Len(s)
  <2>1. i - n \in 1..Len(s)
    BY <1>3
  <2> QED BY Zenon, <1>2, <1>5, <2>1
<1>11. n \in Nat /\ m <= n
  BY <1>3
<1> QED
  BY Zenon, <1>3, <1>6, <1>7, <1>8, <1>9, <1>10, <1>11

(* Replies leave in request order and none is lost, whatever the order in   *)
(* which the handlers finish, however little the host takes at a time and   *)
(* however long the queue is.                                               *)
THEOREM RepliesReachTheHost == Spec => []RepliesKept
<1> SUFFICES SessionInv => RepliesKept
  BY SessionInvHolds, PTL
<1> SUFFICES ASSUME SessionInv PROVE InOrder /\ NoReplyLost
  BY Zenon DEF RepliesKept
<1> DEFINE d == delivered
           b == outbox
           s == slots
           m == Len(delivered)
           n == Len(delivered) + Len(outbox)
           l == Line
<1>1. d \in Seq(1..MaxCommands) /\ b \in Seq(Replied) /\ s \in Seq(Slot)
  BY Zenon, InvTypes DEF SessionInv
<1>2. InLine(d, b, s, received)
  BY Zenon DEF SessionInv
<1>3. /\ DOMAIN l = 1..(n + Len(s)) /\ m \in Nat /\ n \in Nat /\ m <= n /\ Len(s) \in Nat
      /\ \A i \in 1..m : l[i] = d[i]
      /\ \A i \in (m + 1)..n : l[i] = b[i - m].n /\ i - m \in 1..Len(b)
      /\ \A i \in (n + 1)..(n + Len(s)) : l[i] = s[i - n].n /\ i - n \in 1..Len(s)
  <2>1. l = Parts(d, b, s)
    BY Zenon DEF Line, Parts
  <2> QED BY <1>1, <2>1, LineParts
<1> HIDE DEF l
<1>4. \A i \in DOMAIN l : i \in 1..m \/ i \in (m + 1)..n \/ i \in (n + 1)..(n + Len(s))
  BY <1>3
<1>5. Len(b) = n - m /\ Len(b) \in Nat
  BY <1>1
<1> HIDE DEF n, m
<1>6. InOrder
  <2> SUFFICES ASSUME NEW i \in DOMAIN l, NEW j \in DOMAIN l, i < j PROVE l[i] < l[j]
    BY Zenon DEF InOrder, l
  <2>1. CASE i \in 1..m /\ j \in 1..m
    BY Zenon, <1>2, <1>3, <2>1 DEF InLine, m
  <2>2. CASE i \in 1..m /\ j \in (m + 1)..n
    BY Zenon, <1>2, <1>3, <2>2 DEF InLine, m
  <2>3. CASE i \in 1..m /\ j \in (n + 1)..(n + Len(s))
    BY Zenon, <1>2, <1>3, <2>3 DEF InLine, m
  <2>4. CASE i \in (m + 1)..n /\ j \in (m + 1)..n
    <3>1. i - m < j - m
      BY <1>3, <2>4
    <3> QED BY Zenon, <1>2, <1>3, <2>4, <3>1 DEF InLine
  <2>5. CASE i \in (m + 1)..n /\ j \in (n + 1)..(n + Len(s))
    BY Zenon, <1>2, <1>3, <2>5 DEF InLine
  <2>6. CASE i \in (n + 1)..(n + Len(s)) /\ j \in (n + 1)..(n + Len(s))
    <3>1. i - n < j - n
      BY <1>3, <2>6
    <3> QED BY Zenon, <1>2, <1>3, <2>6, <3>1 DEF InLine
  <2>7. \/ i \in 1..m /\ j \in 1..m
        \/ i \in 1..m /\ j \in (m + 1)..n
        \/ i \in 1..m /\ j \in (n + 1)..(n + Len(s))
        \/ i \in (m + 1)..n /\ j \in (m + 1)..n
        \/ i \in (m + 1)..n /\ j \in (n + 1)..(n + Len(s))
        \/ i \in (n + 1)..(n + Len(s)) /\ j \in (n + 1)..(n + Len(s))
    BY <1>3, <1>4
  <2> QED BY Zenon, <2>1, <2>2, <2>3, <2>4, <2>5, <2>6, <2>7
<1>7. NoReplyLost
  <2> SUFFICES ASSUME loc # "ended", ~writeFailed, NEW x \in 1..received
               PROVE  x \in silent \/ \E i \in DOMAIN l : l[i] = x
    BY Zenon DEF NoReplyLost, Range, l
  <2>1. NoneMissing(d, b, s, silent, received)
    BY Zenon DEF SessionInv
  <2>2. ASSUME NEW i \in 1..m, d[i] = x PROVE \E j \in DOMAIN l : l[j] = x
    BY <1>3, <2>2
  <2>3. ASSUME NEW i \in 1..Len(b), b[i].n = x PROVE \E j \in DOMAIN l : l[j] = x
    <3>1. i + m \in (m + 1)..n /\ (i + m) - m = i /\ i + m \in DOMAIN l
      BY <1>3, <1>5
    <3> QED BY Zenon, <1>3, <2>3, <3>1
  <2>4. ASSUME NEW i \in 1..Len(s), s[i].n = x PROVE \E j \in DOMAIN l : l[j] = x
    <3>1. i + n \in (n + 1)..(n + Len(s)) /\ (i + n) - n = i /\ i + n \in DOMAIN l
      BY <1>3
    <3> QED BY Zenon, <1>3, <2>4, <3>1
  <2> QED BY Zenon, <2>1, <2>2, <2>3, <2>4 DEF NoneMissing, m
<1> QED
  BY <1>6, <1>7

(* The queue keeps its bounds for every MAX_QUEUED and every number of      *)
(* frames a read completes.                                                 *)
THEOREM QueueBounded == Spec => []PlacesRespected
<1>1. SessionInv => PlacesRespected
  BY Zenon, InvTypes DEF SessionInv, PlacesRespected, StartedWithinPlaces, InPlaces
<1> QED
  BY <1>1, SessionInvHolds, PTL

(* A session that ends leaves no command half-way and, if it was stopped,   *)
(* the guest thawed.                                                        *)
THEOREM SessionEndsClean == Spec => []EndsClean
<1>1. SessionInv => EndsClean
  BY Zenon DEF SessionInv
<1> QED
  BY <1>1, SessionInvHolds, PTL

-----------------------------------------------------------------------------
(* Side effects. *)

\* A command that starts in a step, at c of the queue after it, has no command
\* waiting ahead of it that it must not overtake.
StartsInTurn(s, q, c) ==
  (/\ q[c].st = "Pending" /\ q[c].kind \in {"Freeze", "Ordinary"}
   /\ \E a \in 1..Len(s) : s[a].n = q[c].n /\ s[a].st = "Waiting")
  => \A i \in 1..(c - 1) : q[i].kind # "Control" => q[i].st # "Waiting"

(* A command that was running before the step did not start in it.          *)
LEMMA AlreadyRunning ==
  ASSUME NEW s \in Seq(Slot), NEW q, NEW c, NEW e \in 1..Len(s),
         \A i, j \in 1..Len(s) : i < j => s[i].n < s[j].n,
         q[c].n = s[e].n, q[c].st = "Pending" => s[e].st = "Pending"
  PROVE  StartsInTurn(s, q, c)
<1> SUFFICES ASSUME q[c].st = "Pending", NEW a \in 1..Len(s), s[a].n = q[c].n,
                    s[a].st = "Waiting"
             PROVE  FALSE
  BY Zenon DEF StartsInTurn
<1>1. \A i \in 1..Len(s) : s[i] \in Slot
  OBVIOUS
<1>2. s[a].n \in Int /\ s[e].n \in Int /\ a \in Int /\ e \in Int
  BY <1>1, SlotFields
<1>3. a = e
  BY <1>2
<1> QED
  BY Zenon, <1>3

(* Every step starts commands in turn; only the head of the loop starts any.*)
LEMMA StepInTurn ==
  ASSUME SessionInv, [Next]_vars
  PROVE  \A c \in 1..Len(slots') : StartsInTurn(slots, slots', c)
<1>1. /\ slots \in Seq(Slot) /\ outbox \in Seq(Replied) /\ Len(slots) \in Nat
      /\ \A i, j \in 1..Len(slots) : i < j => slots[i].n < slots[j].n
      /\ \A i \in 1..Len(slots) : slots[i].n <= received
      /\ received \in 0..MaxCommands /\ received \in Nat /\ MaxQueued \in Nat
      /\ DOMAIN slots = 1..Len(slots)
  <2>1. /\ slots \in Seq(Slot) /\ outbox \in Seq(Replied) /\ DOMAIN slots = 1..Len(slots)
        /\ received \in 0..MaxCommands /\ received \in Nat /\ MaxQueued \in Nat
    BY Zenon, InvTypes DEF SessionInv
  <2>2. /\ \A i, j \in 1..Len(slots) : i < j => slots[i].n < slots[j].n
        /\ \A i \in 1..Len(slots) : slots[i].n <= received
    BY Zenon DEF SessionInv, InLine
  <2>3. Len(slots) \in Nat
    BY <2>1
  <2> QED BY Zenon, <2>1, <2>2, <2>3
<1>2. CASE slots' = slots
  <2> SUFFICES ASSUME NEW c \in 1..Len(slots) PROVE StartsInTurn(slots, slots, c)
    BY <1>2
  <2>1. slots \in Seq(Slot) /\ \A i, j \in 1..Len(slots) : i < j => slots[i].n < slots[j].n
    BY Zenon, <1>1
  <2> QED BY Zenon, <2>1, AlreadyRunning
<1>3. CASE Top
  <2> DEFINE k == DonePrefix(slots)
             rest == Behind(slots, k)
  <2>1. k \in 0..Len(slots)
    BY <1>1, DonePrefixIs
  <2>2. /\ rest \in Seq(Slot) /\ Len(rest) = Len(slots) - k
        /\ \A i \in 1..Len(rest) : rest[i] = slots[i + k]
    <3> HIDE DEF k
    <3> QED BY Zenon, <1>1, <2>1, Split
  <2>3. slots' = rest \/ \E window \in Nat : slots' = Admit(rest, window)
    <3> DEFINE box == IF writeFailed THEN outbox ELSE Push(outbox, Front(slots, k))
               window == IF Len(box) < MaxQueued THEN MaxQueued - Len(box) ELSE 0
    <3>1. slots' = rest \/ slots' = Admit(rest, window)
      BY Zenon, <1>3 DEF Top, Behind, Front
    <3>2. Front(slots, k) \in Seq(Slot)
      <4> HIDE DEF k
      <4> QED BY Zenon, <1>1, <2>1, Split
    <3>3. box \in Seq(Replied)
      <4> HIDE DEF k
      <4> QED BY Zenon, <1>1, <3>2, PushIs DEF Pushed
    <3> HIDE DEF box, rest
    <3>4. window \in Nat
      BY <1>1, <3>3
    <3> QED BY <3>1, <3>4
  <2> HIDE DEF k, rest
  <2>4. \A c \in 1..Len(rest) : c + k \in 1..Len(slots)
    BY <1>1, <2>1, <2>2
  <2>5. CASE slots' = rest
    <3> SUFFICES ASSUME NEW c \in 1..Len(rest) PROVE StartsInTurn(slots, slots', c)
      BY <2>5
    <3> QED BY Zenon, <1>1, <2>2, <2>4, <2>5, AlreadyRunning
  <2>6. CASE \E window \in Nat : slots' = Admit(rest, window)
    <3>1. PICK window \in Nat : slots' = Admit(rest, window)
      BY Zenon, <2>6
    <3>2. /\ Len(slots') = Len(rest)
          /\ \A i \in 1..Len(rest) :
               /\ slots'[i].n = rest[i].n /\ slots'[i].kind = rest[i].kind
               /\ slots'[i].st # rest[i].st => StartsFree(slots', rest, i)
      BY <2>2, <3>1, AdmitIs
    <3> SUFFICES ASSUME NEW c \in 1..Len(rest) PROVE StartsInTurn(slots, slots', c)
      BY <3>2
    <3>3. c + k \in 1..Len(slots) /\ slots'[c].n = slots[c + k].n
      BY Zenon, <2>2, <2>4, <3>2
    <3>4. CASE slots'[c].st = rest[c].st
      <4>1. slots'[c].st = "Pending" => slots[c + k].st = "Pending"
        BY Zenon, <2>2, <3>4
      <4> QED BY <1>1, <3>3, <4>1, AlreadyRunning
    <3>5. CASE slots'[c].st # rest[c].st
      <4>1. StartsFree(slots', rest, c) /\ slots'[c].kind = rest[c].kind
        BY Zenon, <3>2, <3>5
      <4>2. \A i \in 1..(c - 1) : slots'[i].kind = rest[i].kind
        BY <2>2, <3>2
      <4> QED BY Zenon, <4>1, <4>2 DEF StartsFree, StartsInTurn
    <3> QED BY Zenon, <3>4, <3>5
  <2> QED BY Zenon, <2>3, <2>5, <2>6
<1>4. CASE \E done \in SUBSET DOMAIN slots : Drive(done)
  <2>1. PICK done \in SUBSET DOMAIN slots : Drive(done)
    BY Zenon, <1>4
  <2>2. /\ Len(slots') = Len(slots)
        /\ \A c \in 1..Len(slots) :
             slots'[c].n = slots[c].n /\ (slots'[c].st = "Pending" => slots[c].st = "Pending")
    BY Zenon, <1>1, <2>1, DriveShape
  <2> QED BY Zenon, <1>1, <2>2, AlreadyRunning
<1>5. CASE ReadSome
  <2>1. PICK f \in 0..ReadFrames :
           /\ Len(slots') = Len(slots) + f
           /\ \A i \in 1..Len(slots) : slots'[i] = slots[i]
           /\ \A i \in (Len(slots) + 1)..(Len(slots) + f) : slots'[i].st = "Waiting"
    BY Zenon, <1>1, <1>5, ReadShape
  <2> SUFFICES ASSUME NEW c \in 1..Len(slots') PROVE StartsInTurn(slots, slots', c)
    BY Zenon
  <2>2. CASE c \in 1..Len(slots)
    BY Zenon, <1>1, <2>1, <2>2, AlreadyRunning
  <2>3. CASE c \in (Len(slots) + 1)..(Len(slots) + f)
    <3>1. slots'[c].st = "Waiting"
      BY Zenon, <2>1, <2>3
    <3> QED BY Zenon, <3>1 DEF StartsInTurn
  <2>4. c \in 1..Len(slots) \/ c \in (Len(slots) + 1)..(Len(slots) + f)
    BY <1>1, <2>1
  <2> QED BY <2>2, <2>3, <2>4
<1>6. CASE \/ CancelChanged \/ HostTakes \/ WriteDone \/ WriteFails
           \/ ReadEnds \/ StopRequest \/ StateChanges \/ UNCHANGED vars
  <2>1. slots' = slots
    BY <1>6 DEF CancelChanged, HostTakes, WriteDone, WriteFails, ReadEnds, StopRequest,
      StateChanges, vars, sessionVars
  <2> QED BY Zenon, <1>2, <2>1
<1> QED
  BY <1>3, <1>4, <1>5, <1>6 DEF Next

(* The commands that change the guest run one at a time, except for a thaw  *)
(* beside a freeze, and a freeze or an ordinary command starts in its turn. *)
THEOREM SideEffectsAreSerial == Spec => SideEffectsSerial
<1> DEFINE Step == \A n \in 1..received :
          Starts(n) => \A i, j \in DOMAIN slots' :
              (/\ i < j /\ slots'[j].n = n /\ slots'[j].kind \in {"Freeze", "Ordinary"}
               /\ slots'[i].kind # "Control") => slots'[i].st # "Waiting"
<1>1. SessionInv => OneExclusive
  <2> SUFFICES ASSUME SessionInv, NEW i \in Exclusive, NEW j \in Exclusive, i # j
               PROVE  {slots[i].kind, slots[j].kind} = {"Freeze", "Thaw"}
    BY Zenon DEF OneExclusive
  <2>1. DOMAIN slots = 1..Len(slots)
    BY Zenon, InvTypes DEF SessionInv
  <2>2. Compatible(slots[i], slots[j])
    BY Zenon, <2>1 DEF SessionInv, Exclusives, Exclusive, Positions
  <2> QED BY Zenon, <2>2 DEF Compatible, Exclusive, Positions
<1>2. SessionInv /\ SessionInv' /\ [Next]_vars => Step
  <2> SUFFICES ASSUME SessionInv, SessionInv', [Next]_vars, NEW n \in 1..received, Starts(n),
                      NEW i \in DOMAIN slots', NEW j \in DOMAIN slots', i < j, slots'[j].n = n,
                      slots'[j].kind \in {"Freeze", "Ordinary"}, slots'[i].kind # "Control"
               PROVE  slots'[i].st # "Waiting"
    BY Zenon
  <2>1. slots \in Seq(Slot) /\ DOMAIN slots = 1..Len(slots)
    BY Zenon, InvTypes DEF SessionInv
  <2>2. slots' \in Seq(Slot) /\ DOMAIN slots' = 1..Len(slots')
    <3>1. slots' \in Seq(Slot)
      BY Zenon DEF SessionInv, TypeOK, Slot
    <3> QED BY <3>1
  <2>3. \A a, c \in 1..Len(slots') : a < c => slots'[a].n < slots'[c].n
    <3>1. InLine(delivered', outbox', slots', received')
      BY Zenon DEF SessionInv
    <3> QED BY <3>1 DEF InLine
  <2>4. PICK a \in 1..Len(slots) : slots[a].n = n /\ slots[a].st = "Waiting"
    BY Zenon, <2>1 DEF Starts
  <2>5. PICK c \in 1..Len(slots') : slots'[c].n = n /\ slots'[c].st = "Pending"
    BY Zenon, <2>2 DEF Starts
  <2>6. c = j
    <3>1. slots'[c] \in Slot /\ slots'[j] \in Slot
      BY <2>2
    <3>2. slots'[c].n \in Int /\ slots'[j].n \in Int
      BY Zenon, <3>1, SlotFields
    <3> QED BY <2>2, <2>3, <2>5, <3>2
  <2>7. StartsInTurn(slots, slots', j)
    BY Zenon, <2>2, StepInTurn
  <2>8. i \in 1..(j - 1)
    BY <2>2
  <2> QED BY <2>4, <2>5, <2>6, <2>7, <2>8 DEF StartsInTurn
<1>3. Spec => [][Step]_vars
  <2>1. SessionInv /\ SessionInv' /\ [Next]_vars => [Step]_vars
    BY <1>2
  <2> QED BY <2>1, SessionInvHolds, PTL DEF Spec
<1>4. Spec => []OneExclusive
  BY <1>1, SessionInvHolds, PTL
<1> QED
  BY Zenon, <1>3, <1>4 DEF SideEffectsSerial, SerialInOrder

=============================================================================
