-------------------------- MODULE FreezePlanProofs --------------------------
(***************************************************************************)
(* The freeze plan for every set of paths, superblocks and requests and    *)
(* any number of mounts: nested filesystems are frozen before those that   *)
(* hold them, a request selects exactly the superblocks its names lead to, *)
(* each is frozen only by a name that leads there still, and a walk, a     *)
(* drain and a trim account for all that they found, whatever is mounted,  *)
(* hidden or moved under them.                                             *)
(***************************************************************************)
EXTENDS FreezePlan, Induction

-----------------------------------------------------------------------------
(* The tree of the mounts, over the set of its rows.                       *)

RowSet == [id : Nat, parent : Nat, at : Path, dev : Dev]

\* A pathname that goes on from another.
Below(p, q) == Under(p, q) /\ p # q

\* The mounts on a mount.
Kids(R, id) == {y \in R : y.id # Root /\ y.parent = id}

Tree(R) ==
  /\ R \subseteq RowSet
  /\ \A x, y \in R : x.id = y.id => x = y
  /\ \A x \in R : x.id >= Root /\ (x.id = Root => x.at = <<>> /\ x.parent \in {0, Root})
  /\ \E x \in R : x.id = Root
  /\ \A x \in R : x.id # Root =>
        x.at # <<>> /\ \E y \in R : y.id = x.parent /\ Under(y.at, x.at)
  /\ \A x \in R : \A y \in Kids(R, x.parent) : x.id # Root /\ x.at = y.at => x = y

\* A depth for each mount.
Depths(R, rk) ==
  rk \in [Nat -> Nat] /\ rk[Root] = 0 /\ \A x \in R : x.id # Root => rk[x.id] = rk[x.parent] + 1

\* No mount on the same one is placed over a directory above it.
Bare(R, x) == \A y \in Kids(R, x.parent) : ~Below(y.at, x.at)

\* A set of mounts that the way from the root leads through.
Open(R, D) ==
  D \subseteq R /\ \A x \in D : x.id # Root => Bare(R, x) /\ \E y \in D : y.id = x.parent

\* The way to the path that leads through a mount ends there.
Ends(R, v, q) == Under(v.at, q) /\ \A y \in Kids(R, v.id) : ~Under(y.at, q)

\* A mount that would be the next on the way without mount n.
Beyond(R, n, x) ==
  /\ x.parent = n.parent /\ Below(n.at, x.at)
  /\ \A y \in Kids(R, n.parent) : Below(n.at, y.at) => ~Below(y.at, x.at)

\* A set of mounts that the way would lead through without it.
OpenUnder(R, n, D) ==
  D \subseteq R /\ \A x \in D : x.id # Root /\ (Beyond(R, n, x) \/ (Bare(R, x) /\ \E y \in D : y.id = x.parent))

\* The way to the path would end in mount w.
Hides(R, n, w, q) ==
  \/ w.id = n.parent /\ \A y \in Kids(R, n.parent) : Below(n.at, y.at) => ~Under(y.at, q)
  \/ Ends(R, w, q) /\ \E D \in SUBSET R : w \in D /\ OpenUnder(R, n, D)

\* What the kernel shows is where the way ends.
Seen(R, view) ==
  \A q \in Path : \E v \in R, D \in SUBSET R :
    v.id = view[q] /\ v \in D /\ Open(R, D) /\ Ends(R, v, q)

\* What a mount hides is where the way would end without it.
Kept(R, hidden) ==
  \A n \in R, q \in Path : n.id # Root /\ Under(n.at, q) =>
    \E w \in R : w.id = hidden[n.id - 1][q] /\ Hides(R, n, w, q)

(* One pathname is under another if it goes on from it.                     *)
LEMMA UnderIs ==
  ASSUME NEW p \in Path, NEW q \in Path
  PROVE  Under(p, q) <=> Len(p) <= Len(q) /\ \A i \in 1..Len(p) : p[i] = q[i]
<1>1. PICK X : p \in Seq(X)
  BY PlanAssumption
<1>2. PICK Y : q \in Seq(Y)
  BY PlanAssumption
<1>3. PICK m \in Nat, n \in Nat : m = Len(p) /\ n = Len(q)
  BY <1>1, <1>2
<1>4. m <= n => /\ SubSeq(p, 1, m) = [i \in 1..m |-> p[i]]
                /\ SubSeq(q, 1, m) = [i \in 1..m |-> q[i]]
  BY <1>1, <1>2, <1>3
<1>5. Under(p, q) <=> m <= n /\ SubSeq(p, 1, m) = SubSeq(q, 1, m)
  BY <1>3 DEF Under
<1>6. ASSUME m <= n
      PROVE  SubSeq(p, 1, m) = SubSeq(q, 1, m) <=> \A i \in 1..m : p[i] = q[i]
  BY <1>4, <1>6, Zenon
<1> QED
  BY <1>3, <1>5, <1>6

(* Pathnames are ordered by what they go on from, and the beginnings of one *)
(* pathname one after the other.                                            *)
LEMMA PathOrder ==
  /\ \A p \in Path : Under(p, p) /\ Under(<<>>, p)
  /\ \A p, q \in Path : Under(p, q) /\ Under(q, p) => p = q
  /\ \A p, q, r \in Path : Under(p, q) /\ Under(q, r) => Under(p, r)
  /\ \A p, q, r \in Path : Under(p, r) /\ Under(q, r) => Under(p, q) \/ Under(q, p)
<1>0. <<>> \in Path /\ Len(<<>>) = 0
  BY PlanAssumption
<1>1. \A p \in Path : Len(p) \in Nat /\ DOMAIN p = 1..Len(p) /\ p = [i \in 1..Len(p) |-> p[i]]
  <2> SUFFICES ASSUME NEW p \in Path
               PROVE  Len(p) \in Nat /\ DOMAIN p = 1..Len(p) /\ p = [i \in 1..Len(p) |-> p[i]]
    OBVIOUS
  <2>1. PICK X : p \in Seq(X)
    BY PlanAssumption
  <2> QED BY <2>1
<1>2. ASSUME NEW p \in Path PROVE Under(p, p) /\ Under(<<>>, p)
  BY <1>0, <1>1, UnderIs
<1>3. ASSUME NEW p \in Path, NEW q \in Path, Under(p, q), Under(q, p) PROVE p = q
  <2>1. Len(p) = Len(q) /\ \A i \in 1..Len(p) : p[i] = q[i]
    BY <1>1, <1>3, UnderIs
  <2>2. PICK n \in Nat : n = Len(p) /\ n = Len(q)
    BY <1>1, <2>1
  <2>3. p = [i \in 1..n |-> p[i]] /\ q = [i \in 1..n |-> q[i]]
    BY Zenon, <1>1, <2>2
  <2>4. [i \in 1..n |-> p[i]] = [i \in 1..n |-> q[i]]
    BY <2>1, <2>2
  <2> QED BY <2>3, <2>4
<1>4. ASSUME NEW p \in Path, NEW q \in Path, NEW r \in Path, Under(p, q), Under(q, r)
      PROVE  Under(p, r)
  <2>1. /\ Len(p) <= Len(q) /\ \A i \in 1..Len(p) : p[i] = q[i]
        /\ Len(q) <= Len(r) /\ \A i \in 1..Len(q) : q[i] = r[i]
    BY <1>4, UnderIs
  <2>2. PICK l \in Nat, m \in Nat, n \in Nat : l = Len(p) /\ m = Len(q) /\ n = Len(r)
    BY <1>1
  <2>3. l <= n /\ \A i \in 1..l : p[i] = r[i]
    BY <2>1, <2>2
  <2> QED BY <2>2, <2>3, UnderIs
<1>5. ASSUME NEW p \in Path, NEW q \in Path, NEW r \in Path, Under(p, r), Under(q, r)
      PROVE  Under(p, q) \/ Under(q, p)
  <2>1. /\ Len(p) <= Len(r) /\ \A i \in 1..Len(p) : p[i] = r[i]
        /\ Len(q) <= Len(r) /\ \A i \in 1..Len(q) : q[i] = r[i]
    BY <1>5, UnderIs
  <2>2. PICK l \in Nat, m \in Nat : l = Len(p) /\ m = Len(q)
    BY <1>1
  <2>3. CASE l <= m
    <3>1. \A i \in 1..l : p[i] = q[i]
      BY <2>1, <2>2, <2>3
    <3> QED BY <2>2, <2>3, <3>1, UnderIs
  <2>4. CASE m <= l
    <3>1. \A i \in 1..m : q[i] = p[i]
      BY <2>1, <2>2, <2>4
    <3> QED BY <2>2, <2>4, <3>1, UnderIs
  <2> QED BY <2>2, <2>3, <2>4
<1> QED
  BY <1>2, <1>3, <1>4, <1>5

(* What a mount hides is not on the way.                                    *)
LEMMA HiddenApart ==
  ASSUME NEW R, Tree(R), NEW rk, Depths(R, rk), NEW D, Open(R, D),
         NEW n \in R, n.id # Root, NEW E, OpenUnder(R, n, E)
  PROVE  D \cap E = {}
<1> SUFFICES ASSUME D \cap E # {} PROVE FALSE
  OBVIOUS
<1> DEFINE S == {rk[x.id] : x \in D \cap E}
<1>0. \A x \in R : x.id \in Nat /\ x.parent \in Nat
  BY Zenon DEF Tree, RowSet
<1>1. S \in SUBSET Nat /\ S # {}
  BY <1>0 DEF Depths, Open
<1>2. PICK m \in S : \A k \in S : m <= k
  <2> HIDE DEF S
  <2> QED BY Zenon, <1>1, LeastNumber
<1>3. PICK x \in D \cap E : m = rk[x.id]
  BY Zenon, <1>2
<1>4. x \in R /\ x.id # Root
  BY Zenon, <1>3 DEF Open, OpenUnder
<1>5. Bare(R, x) /\ \E y \in D : y.id = x.parent
  BY <1>3, <1>4 DEF Open
<1>6. ~Beyond(R, n, x)
  <2> SUFFICES ASSUME Beyond(R, n, x) PROVE FALSE
    BY Zenon
  <2>1. n \in Kids(R, x.parent) /\ Below(n.at, x.at)
    BY Zenon DEF Beyond, Kids
  <2> QED BY Zenon, <1>5, <2>1 DEF Bare
<1>7. \E y \in E : y.id = x.parent
  BY Zenon, <1>3, <1>6 DEF OpenUnder
<1>8. PICK y \in D \cap E : y.id = x.parent
  BY <1>5, <1>7 DEF Open, OpenUnder, Tree
<1>9. y \in R /\ rk[y.id] \in Nat /\ rk[x.id] = rk[y.id] + 1
  BY Zenon, <1>0, <1>4, <1>8 DEF Depths, Open
<1>10. m <= rk[y.id]
  BY Zenon, <1>2, <1>8
<1> QED
  BY <1>3, <1>9, <1>10

(* On the way there is a mount of every depth down to that of its end.      *)
LEMMA EveryDepth ==
  ASSUME NEW R, Tree(R), NEW rk, Depths(R, rk), NEW D, Open(R, D), NEW v \in D
  PROVE  /\ rk[v.id] \in Nat
         /\ \A k \in 0..rk[v.id] : \E x \in D : rk[x.id] = k /\ Under(x.at, v.at)
<1>0. \A x \in R : x.id \in Nat /\ x.parent \in Nat /\ x.at \in Path
  BY DEF Tree, RowSet
<1>1. v \in R /\ rk[v.id] \in Nat
  BY Zenon, <1>0 DEF Depths, Open
<1>2. PICK n \in Nat : n = rk[v.id]
  BY Zenon, <1>1
<1> DEFINE S == {i \in 0..n : \E x \in D : rk[x.id] = n - i /\ Under(x.at, v.at)}
<1>3. 0 \in S
  BY <1>0, <1>1, <1>2, PathOrder
<1>4. ASSUME NEW i \in 1..n, i - 1 \in S PROVE i \in S
  <2>1. PICK x \in D : rk[x.id] = n - (i - 1) /\ Under(x.at, v.at)
    BY <1>4
  <2>2. x \in R /\ x.id # Root
    BY <2>1 DEF Open, Depths
  <2>3. PICK y \in D : y.id = x.parent
    BY Zenon, <2>1, <2>2 DEF Open
  <2>4. y \in R /\ Under(y.at, x.at)
    BY <2>2, <2>3 DEF Tree, Open
  <2>5. rk[x.id] = rk[y.id] + 1 /\ rk[y.id] \in Nat
    BY Zenon, <1>0, <2>2, <2>3, <2>4 DEF Depths
  <2>6. rk[y.id] = n - i
    BY <2>1, <2>5
  <2>7. Under(y.at, v.at)
    BY <1>0, <1>1, <2>1, <2>2, <2>4, PathOrder
  <2> QED BY <2>6, <2>7
<1>5. \A i \in 0..n : i \in S
  <2> HIDE DEF S
  <2> QED BY Zenon, <1>3, <1>4, InductionTo
<1>6. ASSUME NEW k \in 0..n PROVE \E x \in D : rk[x.id] = k /\ Under(x.at, v.at)
  <2>1. n - k \in 0..n /\ n - (n - k) = k
    OBVIOUS
  <2>2. n - k \in S
    BY Zenon, <1>5, <2>1
  <2> QED BY <2>1, <2>2
<1> QED
  BY <1>1, <1>2, <1>6

(* Two mounts of one depth on the way to one path are the same.             *)
LEMMA OneOfADepth ==
  ASSUME NEW R, Tree(R), NEW rk, Depths(R, rk), NEW D, Open(R, D), NEW E, Open(R, E),
         NEW q \in Path, NEW v \in D, NEW w \in E, Under(v.at, q), Under(w.at, q),
         rk[v.id] = rk[w.id]
  PROVE  v = w
<1> DEFINE Two(x, y) == Under(x.at, q) /\ Under(y.at, q) /\ rk[x.id] = rk[y.id] /\ x # y
           S == {k \in Nat : \E x \in D, y \in E : Two(x, y) /\ k = rk[x.id]}
<1>0. \A x \in R : x.id \in Nat /\ x.parent \in Nat /\ x.at \in Path /\ rk[x.id] \in Nat
  BY Zenon DEF Tree, RowSet, Depths
<1> SUFFICES ASSUME v # w PROVE FALSE
  OBVIOUS
<1>1. S \in SUBSET Nat /\ S # {}
  <2>1. Two(v, w) /\ rk[v.id] \in Nat
    BY <1>0 DEF Open
  <2> HIDE DEF Two
  <2> QED BY Zenon, <2>1
<1>2. PICK m \in S : \A k \in S : m <= k
  <2> HIDE DEF S
  <2> QED BY Zenon, <1>1, LeastNumber
<1>3. PICK x \in D, y \in E : Two(x, y) /\ m = rk[x.id]
  BY Zenon, <1>2
<1>4. x \in R /\ y \in R
  BY Zenon, <1>3 DEF Open
<1>5. x.id # Root /\ y.id # Root
  <2>1. x.id = Root <=> rk[x.id] = 0
    BY <1>0, <1>4 DEF Depths
  <2>2. y.id = Root <=> rk[y.id] = 0
    BY <1>0, <1>4 DEF Depths
  <2> QED BY Zenon, <1>3, <1>4, <2>1, <2>2 DEF Tree
<1>6. PICK a \in D : a.id = x.parent
  BY Zenon, <1>3, <1>5 DEF Open
<1>7. PICK b \in E : b.id = y.parent
  BY Zenon, <1>3, <1>5 DEF Open
<1>8. a \in R /\ b \in R /\ Under(a.at, x.at) /\ Under(b.at, y.at)
  BY <1>4, <1>5, <1>6, <1>7 DEF Tree, Open
<1>9. Under(a.at, q) /\ Under(b.at, q)
  BY Zenon, <1>0, <1>3, <1>4, <1>8, PathOrder
<1>10. rk[x.id] = rk[a.id] + 1 /\ rk[y.id] = rk[b.id] + 1
  BY Zenon, <1>4, <1>5, <1>6, <1>7 DEF Depths
<1>11. rk[a.id] \in Nat /\ rk[b.id] \in Nat /\ rk[a.id] = rk[b.id] /\ rk[a.id] < m
  <2>1. PICK i \in Nat, j \in Nat : i = rk[a.id] /\ j = rk[b.id]
    BY <1>0, <1>8
  <2>2. m = i + 1 /\ m = j + 1
    BY Zenon, <1>3, <1>10, <2>1
  <2> QED BY <2>1, <2>2
<1>12. a = b
  <2> SUFFICES ASSUME a # b PROVE FALSE
    OBVIOUS
  <2>1. Two(a, b)
    BY Zenon, <1>9, <1>11
  <2> HIDE DEF Two
  <2>2. rk[a.id] \in S
    BY Zenon, <1>11, <2>1
  <2> QED BY <1>2, <1>11, <2>2
<1>13. x \in Kids(R, y.parent) /\ y \in Kids(R, x.parent)
  BY Zenon, <1>4, <1>5, <1>6, <1>7, <1>12 DEF Kids
<1>14. x.at # y.at
  BY Zenon, <1>3, <1>4, <1>5, <1>13 DEF Tree
<1>15. Bare(R, x) /\ Bare(R, y)
  BY Zenon, <1>3, <1>5 DEF Open
<1>16. Under(x.at, y.at) \/ Under(y.at, x.at)
  BY Zenon, <1>0, <1>3, <1>4, PathOrder
<1> QED
  BY Zenon, <1>13, <1>14, <1>15, <1>16 DEF Bare, Below

(* The same for two mounts of one way.                                      *)
LEMMA SameDepth ==
  ASSUME NEW R, Tree(R), NEW rk, Depths(R, rk), NEW D, Open(R, D), NEW q \in Path
  PROVE  \A v, w \in D : Under(v.at, q) /\ Under(w.at, q) /\ rk[v.id] = rk[w.id] => v = w
BY OneOfADepth

(* Fewer mounts cover less.                                                 *)
LEMMA FewerCover ==
  ASSUME NEW R, NEW Q, Q \subseteq R
  PROVE  /\ \A i : Kids(Q, i) \subseteq Kids(R, i)
         /\ \A x : Bare(R, x) => Bare(Q, x)
         /\ \A v, q : Ends(R, v, q) => Ends(Q, v, q)
         /\ \A n, x : Beyond(R, n, x) => Beyond(Q, n, x)
<1>1. \A i : Kids(Q, i) \subseteq Kids(R, i)
  BY DEF Kids
<1>2. \A x : Bare(R, x) => Bare(Q, x)
  BY Zenon, <1>1 DEF Bare
<1>3. \A v, q : Ends(R, v, q) => Ends(Q, v, q)
  BY Zenon, <1>1 DEF Ends
<1>4. \A n, x : Beyond(R, n, x) => Beyond(Q, n, x)
  BY <1>1 DEF Beyond
<1> QED
  BY <1>1, <1>2, <1>3, <1>4

\* A mount that can be taken away, and the others.
Detaches(R, Q, m, D) ==
  /\ Tree(R) /\ Open(R, D) /\ m \in D /\ m.id # Root
  /\ Q = R \ {m} /\ \A x \in R : x.parent # m.id

(* Without a mount that carries none, the others are a tree.                *)
LEMMA DetachTree ==
  ASSUME NEW R, NEW Q, NEW m, NEW D, Detaches(R, Q, m, D)
  PROVE  Tree(Q)
<1>1. Q \subseteq R /\ \A x \in R : x \in Q <=> x # m
  BY DEF Detaches
<1>2. \A i : Kids(Q, i) \subseteq Kids(R, i)
  BY Zenon, <1>1, FewerCover
<1>3. ASSUME NEW x \in Q, x.id # Root
      PROVE  x.at # <<>> /\ \E y \in Q : y.id = x.parent /\ Under(y.at, x.at)
  <2>1. x.at # <<>> /\ x.parent # m.id
    BY Zenon, <1>1, <1>3 DEF Detaches, Tree
  <2>2. PICK y \in R : y.id = x.parent /\ Under(y.at, x.at)
    BY Zenon, <1>1, <1>3 DEF Detaches, Tree
  <2> QED BY Zenon, <1>1, <2>1, <2>2
<1>4. \E x \in Q : x.id = Root
  BY Zenon, <1>1 DEF Detaches, Tree
<1>5. \A x \in Q : \A y \in Kids(Q, x.parent) : x.id # Root /\ x.at = y.at => x = y
  BY Zenon, <1>1, <1>2 DEF Detaches, Tree
<1> QED
  BY Zenon, <1>1, <1>3, <1>4, <1>5 DEF Detaches, Tree

(* The way to the mounts that it did not cover is the same.                 *)
LEMMA DetachOpen ==
  ASSUME NEW R, NEW Q, NEW m, NEW D, Detaches(R, Q, m, D), NEW E, Open(R, E)
  PROVE  Open(Q, E \ {m})
<1>1. Q \subseteq R /\ E \ {m} \subseteq Q
  BY DEF Detaches, Open
<1>2. ASSUME NEW x \in E \ {m}, x.id # Root
      PROVE  Bare(Q, x) /\ \E y \in E \ {m} : y.id = x.parent
  <2>1. Bare(R, x) /\ \E y \in E : y.id = x.parent
    BY Zenon, <1>2 DEF Open
  <2>2. x.parent # m.id
    BY <1>2 DEF Detaches, Open
  <2> QED BY Zenon, <1>1, <2>1, <2>2, FewerCover
<1> QED
  BY Zenon, <1>1, <1>2 DEF Open

(* The way to what it covered is open now.                                  *)
LEMMA DetachUncovers ==
  ASSUME NEW R, NEW Q, NEW m, NEW D, Detaches(R, Q, m, D), NEW rk, Depths(R, rk),
         NEW E, OpenUnder(R, m, E)
  PROVE  m \notin E /\ Open(Q, E \cup (D \ {m}))
<1>1. D \cap E = {} /\ m \in R
  <2>1. Tree(R) /\ Open(R, D) /\ m \in R /\ m.id # Root
    BY Zenon DEF Detaches, Open
  <2> QED BY Zenon, <2>1, HiddenApart
<1>2. Open(Q, D \ {m})
  BY Zenon, DetachOpen DEF Detaches
<1>3. m \notin E /\ E \subseteq R /\ Q = R \ {m} /\ E \subseteq Q
  BY Zenon, <1>1 DEF Detaches, OpenUnder
<1>4. Bare(R, m) /\ \E y \in D : y.id = m.parent
  BY Zenon DEF Detaches, Open
<1>5. \A x \in R : x.at \in Path /\ x.parent # m.id
  BY DEF Detaches, Tree, RowSet
<1>6. ASSUME NEW x \in E PROVE Bare(Q, x) /\ \E y \in E \cup (D \ {m}) : y.id = x.parent
  <2>0. x \in R /\ x # m /\ x.parent # m.id /\ x.id # Root
    BY Zenon, <1>3, <1>5, <1>6 DEF OpenUnder
  <2>1. CASE Beyond(R, m, x)
    <3>1. x.parent = m.parent /\ Below(m.at, x.at)
      BY Zenon, <2>1 DEF Beyond
    <3>2. \E y \in D \ {m} : y.id = x.parent
      BY Zenon, <1>4, <2>0, <3>1
    <3>3. ASSUME NEW y \in Kids(Q, x.parent), Below(y.at, x.at) PROVE FALSE
      <4>1. y \in Kids(R, m.parent) /\ y # m /\ y \in R /\ y.id # Root /\ y.parent = m.parent
        BY <1>3, <3>1, <3>3 DEF Kids
      <4>2. ~Below(m.at, y.at)
        BY Zenon, <2>1, <3>3, <4>1 DEF Beyond
      <4>3. ~Below(y.at, m.at)
        BY <1>4, <4>1 DEF Bare
      <4>4. Under(m.at, y.at) \/ Under(y.at, m.at)
        BY Zenon, <1>1, <1>5, <2>0, <3>1, <3>3, <4>1, PathOrder DEF Below
      <4>5. y.at = m.at
        BY Zenon, <4>2, <4>3, <4>4 DEF Below
      <4>6. m \in Kids(R, y.parent)
        BY <1>1, <4>1 DEF Kids, Detaches
      <4> QED BY <4>1, <4>5, <4>6 DEF Detaches, Tree
    <3> QED BY Zenon, <3>2, <3>3 DEF Bare
  <2>2. CASE Bare(R, x) /\ \E y \in E : y.id = x.parent
    BY Zenon, <1>3, <2>2, FewerCover
  <2> QED BY Zenon, <1>6, <2>1, <2>2 DEF OpenUnder
<1>7. ASSUME NEW x \in D \ {m}, x.id # Root
      PROVE  Bare(Q, x) /\ \E y \in E \cup (D \ {m}) : y.id = x.parent
  BY <1>2, <1>7 DEF Open
<1> QED
  BY Zenon, <1>2, <1>3, <1>6, <1>7 DEF Open

(* What is shown without a mount is where the way ends then.                *)
LEMMA DetachSeen ==
  ASSUME NEW R, NEW Q, NEW m, NEW D, Detaches(R, Q, m, D), NEW rk, Depths(R, rk),
         NEW view, Seen(R, view), NEW hidden, Kept(R, hidden), NEW shown,
         \A q \in Path : shown[q] = IF Under(m.at, q) THEN hidden[m.id - 1][q] ELSE view[q]
  PROVE  Seen(Q, shown)
<1>0. m \in R /\ m.id # Root /\ m \in D /\ Tree(R) /\ Q = R \ {m} /\ Open(R, D) /\ Bare(R, m)
  BY Zenon DEF Detaches, Open
<1>1. \A x \in R : x.at \in Path /\ x.parent # m.id
  BY DEF Detaches, Tree, RowSet
<1>2. ASSUME NEW q \in Path, Under(m.at, q)
      PROVE  \E v \in Q, E \in SUBSET Q : v.id = shown[q] /\ v \in E /\ Open(Q, E) /\ Ends(Q, v, q)
  <2>1. PICK w \in R : w.id = hidden[m.id - 1][q] /\ Hides(R, m, w, q)
    BY Zenon, <1>0, <1>2 DEF Kept
  <2>2. w.id = shown[q]
    BY Zenon, <1>2, <2>1
  <2>3. CASE /\ w.id = m.parent
             /\ \A y \in Kids(R, m.parent) : Below(m.at, y.at) => ~Under(y.at, q)
    <3>1. w \in D \ {m}
      <4>1. PICK y \in D : y.id = m.parent
        BY Zenon, <1>0 DEF Open
      <4>2. y = w
        BY <1>0, <2>3, <4>1 DEF Open, Tree
      <4> QED BY Zenon, <1>0, <1>1, <2>3, <4>1, <4>2
    <3>2. Open(Q, D \ {m}) /\ D \ {m} \in SUBSET Q
      BY <1>0, DetachOpen DEF Open
    <3>3. Under(w.at, q)
      <4>1. Under(w.at, m.at)
        BY <1>0, <2>1, <2>3 DEF Tree
      <4> QED BY Zenon, <1>0, <1>1, <1>2, <2>1, <4>1, PathOrder
    <3>4. ASSUME NEW y \in Kids(Q, w.id), Under(y.at, q) PROVE FALSE
      <4>1. y \in Kids(R, m.parent) /\ y \in R /\ y # m /\ y.id # Root /\ y.parent = m.parent
        BY Zenon, <1>0, <2>3, <3>4 DEF Kids
      <4>a. y.at \in Path /\ m.at \in Path /\ Under(y.at, q) /\ Under(m.at, q)
        BY Zenon, <1>0, <1>1, <1>2, <3>4, <4>1
      <4>b. \A p, r \in Path : Under(p, q) /\ Under(r, q) => Under(p, r) \/ Under(r, p)
        BY Zenon, <1>2, PathOrder
      <4>2. Under(y.at, m.at) \/ Under(m.at, y.at)
        BY Zenon, <4>a, <4>b
      <4>3. ~Below(y.at, m.at) /\ ~Below(m.at, y.at)
        BY Zenon, <1>0, <2>3, <3>4, <4>1 DEF Bare
      <4>4. y.at = m.at
        BY Zenon, <4>2, <4>3 DEF Below
      <4>5. m \in Kids(R, y.parent)
        BY Zenon, <1>0, <4>1 DEF Kids
      <4> QED BY Zenon, <1>0, <4>1, <4>4, <4>5 DEF Tree
    <3>5. Ends(Q, w, q)
      BY Zenon, <3>3, <3>4 DEF Ends
    <3>6. w \in Q
      BY Zenon, <1>0, <3>1 DEF Open
    <3> QED BY Zenon, <2>2, <3>1, <3>2, <3>5, <3>6
  <2>4. CASE Ends(R, w, q) /\ \E E \in SUBSET R : w \in E /\ OpenUnder(R, m, E)
    <3>1. PICK E \in SUBSET R : w \in E /\ OpenUnder(R, m, E)
      BY Zenon, <2>4
    <3>2. m \notin E /\ Open(Q, E \cup (D \ {m}))
      BY Zenon, <3>1, DetachUncovers
    <3>3. Ends(Q, w, q)
      <4>1. Q \subseteq R
        BY Zenon, <1>0
      <4> QED BY Zenon, <2>4, <4>1, FewerCover
    <3>4. w \in E \cup (D \ {m}) /\ E \cup (D \ {m}) \in SUBSET Q /\ w \in Q
      BY Zenon, <1>0, <3>1, <3>2 DEF Open
    <3> QED BY Zenon, <2>2, <3>2, <3>3, <3>4
  <2> QED BY Zenon, <2>1, <2>3, <2>4 DEF Hides
<1>3. ASSUME NEW q \in Path, ~Under(m.at, q)
      PROVE  \E v \in Q, E \in SUBSET Q : v.id = shown[q] /\ v \in E /\ Open(Q, E) /\ Ends(Q, v, q)
  <2>1. PICK v \in R, E \in SUBSET R :
          v.id = view[q] /\ v \in E /\ Open(R, E) /\ Ends(R, v, q)
    BY Zenon DEF Seen
  <2>2. v # m
    BY Zenon, <1>3, <2>1 DEF Ends
  <2>3. Open(Q, E \ {m})
    BY Zenon, <2>1, DetachOpen
  <2>4. Ends(Q, v, q)
    <3>1. Q \subseteq R
      BY Zenon, <1>0
    <3> QED BY Zenon, <2>1, <3>1, FewerCover
  <2>5. v \in Q /\ E \ {m} \in SUBSET Q /\ v \in E \ {m} /\ v.id = shown[q]
    BY Zenon, <1>0, <1>3, <2>1, <2>2
  <2> QED BY Zenon, <2>3, <2>4, <2>5
<1> QED
  BY Zenon, <1>2, <1>3 DEF Seen

(* What the other mounts hide is what they hid.                             *)
LEMMA DetachKept ==
  ASSUME NEW R, NEW Q, NEW m, NEW D, Detaches(R, Q, m, D), NEW rk, Depths(R, rk),
         NEW hidden, Kept(R, hidden)
  PROVE  Kept(Q, hidden)
<1>0. Tree(R) /\ Q = R \ {m} /\ Q \subseteq R /\ Open(R, D) /\ m \in D /\ m \in R
  BY DEF Detaches, Open
<1> SUFFICES ASSUME NEW n \in Q, NEW q \in Path, n.id # Root, Under(n.at, q)
             PROVE  \E w \in Q : w.id = hidden[n.id - 1][q] /\ Hides(Q, n, w, q)
  BY Zenon DEF Kept
<1>1. PICK w \in R : w.id = hidden[n.id - 1][q] /\ Hides(R, n, w, q)
  BY Zenon, <1>0 DEF Kept
<1>2. n \in R /\ n.parent # m.id
  BY <1>0 DEF Detaches
<1>3. CASE /\ w.id = n.parent
           /\ \A y \in Kids(R, n.parent) : Below(n.at, y.at) => ~Under(y.at, q)
  <2>1. \A y \in Kids(Q, n.parent) : Below(n.at, y.at) => ~Under(y.at, q)
    BY Zenon, <1>0, <1>3, FewerCover
  <2>2. w \in Q
    BY Zenon, <1>0, <1>2, <1>3
  <2> QED BY Zenon, <1>1, <1>3, <2>1, <2>2 DEF Hides
<1>4. CASE Ends(R, w, q) /\ \E E \in SUBSET R : w \in E /\ OpenUnder(R, n, E)
  <2>1. PICK E \in SUBSET R : w \in E /\ OpenUnder(R, n, E)
    BY <1>4
  <2>2. m \notin E
    BY Zenon, <1>0, <1>2, <2>1, HiddenApart
  <2>3. E \in SUBSET Q /\ w \in Q
    BY Zenon, <1>0, <2>1, <2>2
  <2>4. Ends(Q, w, q)
    BY <1>0, <1>4, FewerCover
  <2>5. OpenUnder(Q, n, E)
    <3>1. \A x \in E : Beyond(R, n, x) => Beyond(Q, n, x)
      BY Zenon, <1>0, FewerCover
    <3>2. \A x \in E : Bare(R, x) => Bare(Q, x)
      BY Zenon, <1>0, FewerCover
    <3> QED BY Zenon, <2>1, <2>3, <3>1, <3>2 DEF OpenUnder
  <2> QED BY Zenon, <1>1, <2>1, <2>3, <2>4, <2>5 DEF Hides
<1> QED
  BY Zenon, <1>1, <1>3, <1>4 DEF Hides

\* A mount that is attached where the way to its mount point ends.
Attaches(R, Q, row, a, D) ==
  /\ Tree(R) /\ Open(R, D) /\ a \in D /\ Ends(R, a, row.at)
  /\ row \in RowSet /\ row.id > Root /\ row.at # <<>> /\ row.parent = a.id
  /\ Q = R \cup {row} /\ \A x \in R : x.id # row.id /\ x.parent # row.id

(* The mounts on a mount are those that were there and the new one.         *)
LEMMA AttachKids ==
  ASSUME NEW R, NEW Q, NEW row, NEW a, NEW D, Attaches(R, Q, row, a, D)
  PROVE  /\ \A i : \A y \in Kids(Q, i) : y \in Kids(R, i) \/ (y = row /\ i = a.id)
         /\ \A i : Kids(R, i) \subseteq Kids(Q, i)
         /\ Kids(Q, row.id) = {} /\ row.id # Root /\ a \in R /\ row \notin R
         /\ \A y \in Kids(R, a.id) : ~Under(y.at, row.at)
         /\ \A x \in R : x.at \in Path
         /\ row.at \in Path /\ Under(a.at, row.at)
<1>1. a \in R /\ row \notin R /\ row.id # Root /\ a.id # row.id
  BY DEF Attaches, Open, Root, RowSet
<1>2. \A i : \A y \in Kids(Q, i) : y \in Kids(R, i) \/ (y = row /\ i = a.id)
  BY Zenon DEF Attaches, Kids
<1>3. \A i : Kids(R, i) \subseteq Kids(Q, i)
  BY Zenon DEF Attaches, Kids
<1>4. Kids(Q, row.id) = {}
  BY Zenon, <1>1, <1>2 DEF Attaches, Kids
<1>5. Under(a.at, row.at) /\ \A y \in Kids(R, a.id) : ~Under(y.at, row.at)
  BY Zenon DEF Attaches, Ends
<1>6. row.at \in Path /\ \A x \in R : x.at \in Path
  BY DEF Attaches, Tree, RowSet
<1> QED
  BY <1>1, <1>2, <1>3, <1>4, <1>5, <1>6

(* With it the mounts are a tree.                                           *)
LEMMA AttachTree ==
  ASSUME NEW R, NEW Q, NEW row, NEW a, NEW D, Attaches(R, Q, row, a, D)
  PROVE  Tree(Q)
<1>1. Tree(R) /\ Q = R \cup {row} /\ Q \subseteq RowSet
  BY Zenon DEF Attaches, Tree
<1>2. \A x, y \in Q : x.id = y.id => x = y
  BY Zenon, <1>1 DEF Attaches, Tree
<1>3. \A x \in Q : x.id >= Root /\ (x.id = Root => x.at = <<>> /\ x.parent \in {0, Root})
  <2>1. row.id >= Root /\ row.id # Root
    BY DEF Attaches, Root, RowSet
  <2> QED BY Zenon, <1>1, <2>1 DEF Tree
<1>4. \E x \in Q : x.id = Root
  BY Zenon, <1>1 DEF Tree
<1>5. \A x \in Q : x.id # Root =>
        x.at # <<>> /\ \E y \in Q : y.id = x.parent /\ Under(y.at, x.at)
  <2>1. row.at # <<>> /\ row.parent = a.id /\ a \in Q /\ Under(a.at, row.at)
    BY Zenon, <1>1, AttachKids DEF Attaches
  <2> QED BY Zenon, <1>1, <2>1 DEF Tree
<1>6. ASSUME NEW x \in Q, NEW y \in Kids(Q, x.parent), x.id # Root, x.at = y.at
      PROVE  x = y
  <2>1. CASE x = row
    <3>0. row.parent = a.id
      BY Zenon DEF Attaches
    <3>1. y \in Kids(R, a.id) \/ y = row
      BY <2>1, <3>0, AttachKids
    <3>2. y \notin Kids(R, a.id)
      BY <1>6, <2>1, AttachKids, PathOrder
    <3> QED BY Zenon, <2>1, <3>1, <3>2
  <2>2. CASE x \in R /\ y = row
    <3>1. x.parent = a.id
      BY <2>2, AttachKids DEF Kids
    <3>2. x \in Kids(R, a.id)
      BY Zenon, <1>6, <2>2, <3>1 DEF Kids
    <3> QED BY <1>6, <2>2, <3>2, AttachKids, PathOrder
  <2>3. CASE x \in R /\ y \in Kids(R, x.parent)
    BY Zenon, <1>1, <1>6, <2>3 DEF Tree
  <2> QED BY <1>1, <2>1, <2>2, <2>3, AttachKids
<1> QED
  BY Zenon, <1>1, <1>2, <1>3, <1>4, <1>5, <1>6 DEF Tree

(* It lies one deeper than what it is attached to.                          *)
LEMMA AttachDepths ==
  ASSUME NEW R, NEW Q, NEW row, NEW a, NEW D, Attaches(R, Q, row, a, D),
         NEW rk, Depths(R, rk)
  PROVE  \E dp : Depths(Q, dp)
<1> DEFINE dp == [rk EXCEPT ![row.id] = rk[a.id] + 1]
<1>1. row.id \in Nat /\ row.parent = a.id /\ row.id # Root /\ a \in R /\ a.id # row.id
      /\ a.id \in Nat /\ Q = R \cup {row}
  <2>1. a \in R /\ row.id # Root
    BY Zenon, AttachKids
  <2> QED BY Zenon, <2>1 DEF Attaches, Tree, RowSet
<1>2. dp \in [Nat -> Nat] /\ dp[row.id] = rk[a.id] + 1
      /\ \A i \in Nat : i # row.id => dp[i] = rk[i]
  BY <1>1 DEF Depths
<1> HIDE DEF dp
<1>3. dp[Root] = 0
  BY Zenon, <1>1, <1>2 DEF Depths, Root
<1>4. ASSUME NEW x \in R, x.id # Root PROVE dp[x.id] = dp[x.parent] + 1
  <2>1. x.id \in Nat /\ x.parent \in Nat /\ x.id # row.id /\ x.parent # row.id
    BY DEF Attaches, Tree, RowSet
  <2> QED BY Zenon, <1>2, <1>4, <2>1 DEF Depths
<1>5. dp[row.id] = dp[row.parent] + 1
  BY Zenon, <1>1, <1>2
<1> QED
  BY Zenon, <1>1, <1>2, <1>3, <1>4, <1>5 DEF Depths

(* The way to a path that it does not lie above is the same.                *)
LEMMA AttachOpen ==
  ASSUME NEW R, NEW Q, NEW row, NEW a, NEW D, Attaches(R, Q, row, a, D),
         NEW E, Open(R, E), NEW q \in Path, Under(row.at, q) => q = row.at
  PROVE  Open(Q, {x \in E : Under(x.at, q)})
<1> DEFINE F == {x \in E : Under(x.at, q)}
<1>1. F \subseteq Q /\ F \subseteq R
  BY DEF Attaches, Open
<1>2. ASSUME NEW x \in F, x.id # Root PROVE Bare(Q, x) /\ \E y \in F : y.id = x.parent
  <2>1. x \in R /\ Bare(R, x) /\ Under(x.at, q) /\ x.at \in Path
    BY Zenon, <1>1, <1>2, AttachKids DEF Open
  <2>2. PICK y \in E : y.id = x.parent
    BY <1>2 DEF Open
  <2>3. y \in R /\ Under(y.at, x.at)
    BY <1>2, <2>1, <2>2 DEF Attaches, Tree, Open
  <2>4. Under(y.at, q)
    BY <2>1, <2>3, AttachKids, PathOrder
  <2>5. ~Below(row.at, x.at)
    <3> SUFFICES ASSUME Below(row.at, x.at) PROVE FALSE
      BY Zenon
    <3>1. Under(row.at, q)
      BY <2>1, AttachKids, PathOrder DEF Below
    <3> QED BY <2>1, <3>1, AttachKids, PathOrder DEF Below
  <2>6. Bare(Q, x)
    BY <2>1, <2>5, AttachKids DEF Bare
  <2> QED BY Zenon, <2>2, <2>4, <2>6
<1> QED
  BY Zenon, <1>1, <1>2 DEF Open

(* What is shown with it is where the way ends then.                        *)
LEMMA AttachSeen ==
  ASSUME NEW R, NEW Q, NEW row, NEW a, NEW D, Attaches(R, Q, row, a, D),
         NEW view, Seen(R, view), NEW shown,
         \A q \in Path : shown[q] = IF Under(row.at, q) THEN row.id ELSE view[q]
  PROVE  Seen(Q, shown)
<1>0. Q = R \cup {row} /\ Open(R, D) /\ a \in D /\ row.parent = a.id
  BY Zenon DEF Attaches
<1>1. ASSUME NEW q \in Path, Under(row.at, q)
      PROVE  \E v \in Q, E \in SUBSET Q : v.id = shown[q] /\ v \in E /\ Open(Q, E) /\ Ends(Q, v, q)
  <2> DEFINE F == {x \in D : Under(x.at, row.at)}
             E == F \cup {row}
  <2>1. Open(Q, F) /\ a \in F
    BY <1>0, AttachKids, AttachOpen
  <2>2. Bare(Q, row)
    <3>1. ASSUME NEW y \in Kids(Q, row.parent), Below(y.at, row.at) PROVE FALSE
      BY <1>0, <3>1, AttachKids DEF Below
    <3> QED BY Zenon, <3>1 DEF Bare
  <2>3. F \subseteq Q /\ \A x \in F : x.id # Root => Bare(Q, x) /\ \E y \in F : y.id = x.parent
    BY Zenon, <2>1 DEF Open
  <2> HIDE DEF F
  <2>4. Open(Q, E) /\ E \in SUBSET Q /\ row \in E
    BY Zenon, <1>0, <2>1, <2>2, <2>3 DEF Open
  <2>5. Ends(Q, row, q)
    BY Zenon, <1>1, AttachKids DEF Ends
  <2> HIDE DEF E
  <2> QED BY Zenon, <1>0, <1>1, <2>4, <2>5
<1>2. ASSUME NEW q \in Path, ~Under(row.at, q)
      PROVE  \E v \in Q, E \in SUBSET Q : v.id = shown[q] /\ v \in E /\ Open(Q, E) /\ Ends(Q, v, q)
  <2>1. PICK v \in R, E \in SUBSET R :
          v.id = view[q] /\ v \in E /\ Open(R, E) /\ Ends(R, v, q)
    BY Zenon DEF Seen
  <2> DEFINE F == {x \in E : Under(x.at, q)}
  <2>2. Open(Q, F)
    BY <1>2, <2>1, AttachOpen
  <2>3. v \in F /\ F \in SUBSET Q /\ v \in Q
    BY Zenon, <1>0, <2>1 DEF Ends
  <2>4. Ends(Q, v, q)
    <3>1. ASSUME NEW y \in Kids(Q, v.id), Under(y.at, q) PROVE FALSE
      BY <1>2, <2>1, <3>1, AttachKids DEF Ends
    <3> QED BY Zenon, <2>1, <3>1 DEF Ends
  <2> HIDE DEF F
  <2> QED BY Zenon, <1>2, <2>1, <2>2, <2>3, <2>4
<1> QED
  BY Zenon, <1>1, <1>2 DEF Seen

(* What the other mounts hide is what they hid.                             *)
LEMMA AttachKeptOld ==
  ASSUME NEW R, NEW Q, NEW row, NEW a, NEW D, Attaches(R, Q, row, a, D),
         NEW rk, Depths(R, rk), NEW n \in R, n.id # Root, NEW q \in Path, Under(n.at, q),
         NEW w \in R, Hides(R, n, w, q)
  PROVE  Hides(Q, n, w, q)
<1>0. Tree(R) /\ Open(R, D) /\ a \in D /\ Q = R \cup {row} /\ a \in R
  BY Zenon DEF Attaches, Open
<1>1. n.parent = a.id => ~Below(n.at, row.at)
  <2> SUFFICES ASSUME n.parent = a.id, Below(n.at, row.at) PROVE FALSE
    BY Zenon
  <2>1. n \in Kids(R, a.id)
    BY Zenon DEF Kids
  <2> QED BY Zenon, <2>1, AttachKids DEF Below
<1>2. CASE /\ w.id = n.parent
           /\ \A y \in Kids(R, n.parent) : Below(n.at, y.at) => ~Under(y.at, q)
  <2>1. \A y \in Kids(Q, n.parent) : Below(n.at, y.at) => ~Under(y.at, q)
    BY <1>1, <1>2, AttachKids
  <2> QED BY Zenon, <1>2, <2>1 DEF Hides
<1>3. CASE Ends(R, w, q) /\ \E E \in SUBSET R : w \in E /\ OpenUnder(R, n, E)
  <2>1. PICK E \in SUBSET R : w \in E /\ OpenUnder(R, n, E)
    BY <1>3
  <2>2. a \notin E
    BY Zenon, <1>0, <2>1, HiddenApart
  <2>3. \A y \in E : y.id # a.id
    BY Zenon, <1>0, <2>1, <2>2 DEF Tree
  <2>4. Ends(Q, w, q)
    BY <1>3, <2>1, <2>3, AttachKids DEF Ends
  <2>5. ASSUME NEW x \in E, Beyond(R, n, x) PROVE Beyond(Q, n, x)
    BY <1>1, <2>5, AttachKids DEF Beyond
  <2>6. ASSUME NEW x \in E, Bare(R, x), \E y \in E : y.id = x.parent PROVE Bare(Q, x)
    BY <2>3, <2>6, AttachKids DEF Bare
  <2>7. OpenUnder(Q, n, E)
    BY Zenon, <1>0, <2>1, <2>5, <2>6 DEF OpenUnder
  <2>8. E \in SUBSET Q
    BY Zenon, <1>0
  <2> QED BY Zenon, <2>1, <2>4, <2>7, <2>8 DEF Hides
<1> QED
  BY Zenon, <1>2, <1>3 DEF Hides

(* What it hides itself is where the way ended before.                      *)
LEMMA AttachKeptNew ==
  ASSUME NEW R, NEW Q, NEW row, NEW a, NEW D, Attaches(R, Q, row, a, D),
         NEW rk, Depths(R, rk), NEW q \in Path, Under(row.at, q),
         NEW w \in R, NEW E, Open(R, E), w \in E, Ends(R, w, q)
  PROVE  Hides(Q, row, w, q)
<1>0. /\ Tree(R) /\ Open(R, D) /\ a \in D /\ Q = R \cup {row} /\ a \in R /\ row.parent = a.id
      /\ E \subseteq R
  BY Zenon DEF Attaches, Open
<1>1. Under(a.at, q)
  BY <1>0, AttachKids, PathOrder
<1>2. \A x \in R : x.id \in Nat /\ rk[x.id] \in Nat /\ x.at \in Path
  BY Zenon, <1>0 DEF Tree, RowSet, Depths
<1>3. CASE w = a
  <2>1. \A y \in Kids(Q, row.parent) : Below(row.at, y.at) => ~Under(y.at, q)
    BY <1>0, <1>3, AttachKids DEF Ends, Below
  <2> QED BY Zenon, <1>0, <1>3, <2>1 DEF Hides
<1>4. CASE w # a
  <2>1. rk[w.id] # rk[a.id]
    <3>1. Under(w.at, q)
      BY Zenon DEF Ends
    <3> QED BY <1>0, <1>1, <1>4, <3>1, OneOfADepth
  <2>2. ~(rk[w.id] < rk[a.id])
    <3> SUFFICES ASSUME rk[w.id] < rk[a.id] PROVE FALSE
      BY Zenon
    <3>1. PICK k \in Nat, l \in Nat : k = rk[w.id] /\ l = rk[a.id]
      BY Zenon, <1>0, <1>2
    <3>2. k + 1 \in 0..l
      BY <3>1
    <3>3. PICK x \in D : rk[x.id] = k + 1 /\ Under(x.at, a.at)
      BY <1>0, <3>1, <3>2, EveryDepth
    <3>4. x \in R /\ x.id # Root
      BY <1>0, <3>1, <3>3 DEF Open, Depths
    <3>5. PICK y \in D : y.id = x.parent
      BY Zenon, <1>0, <3>3, <3>4 DEF Open
    <3>6. y \in R /\ Under(y.at, x.at)
      BY <1>0, <3>4, <3>5 DEF Tree, Open
    <3>7. rk[y.id] = k
      <4>1. rk[x.id] = rk[y.id] + 1 /\ rk[y.id] \in Nat
        BY Zenon, <1>2, <3>4, <3>5, <3>6 DEF Depths
      <4> QED BY <3>1, <3>3, <4>1
    <3>8. Under(x.at, q) /\ Under(y.at, q)
      BY Zenon, <1>0, <1>1, <1>2, <3>3, <3>4, <3>6, PathOrder
    <3>9. y = w
      <4>1. Under(w.at, q)
        BY Zenon DEF Ends
      <4> QED BY <1>0, <3>1, <3>5, <3>7, <3>8, <4>1, OneOfADepth
    <3>10. x \in Kids(R, w.id)
      BY Zenon, <3>4, <3>5, <3>9 DEF Kids
    <3> QED BY Zenon, <3>8, <3>10 DEF Ends
  <2>3. rk[w.id] > rk[a.id]
    BY <1>0, <1>2, <2>1, <2>2
  <2> DEFINE F == {x \in E : Under(x.at, q) /\ rk[x.id] > rk[a.id]}
  <2>4. F \subseteq R /\ F \in SUBSET Q /\ w \in F
    BY Zenon, <1>0, <2>3 DEF Ends
  <2>5. ASSUME NEW x \in F
        PROVE  x.id # Root /\ (Beyond(Q, row, x) \/ (Bare(Q, x) /\ \E y \in F : y.id = x.parent))
    <3>1. x \in R /\ x \in E /\ Under(x.at, q) /\ rk[x.id] > rk[a.id] /\ x.id # Root
      BY <1>0, <1>2, <2>4, <2>5 DEF Depths
    <3>2. Bare(R, x)
      BY Zenon, <3>1 DEF Open
    <3>3. PICK y \in E : y.id = x.parent
      BY Zenon, <3>1 DEF Open
    <3>4. y \in R /\ Under(y.at, x.at)
      BY <1>0, <3>1, <3>3 DEF Tree
    <3>5. Under(y.at, q)
      BY Zenon, <1>2, <3>1, <3>4, PathOrder
    <3>6. rk[x.id] = rk[y.id] + 1
      BY Zenon, <3>1, <3>3 DEF Depths
    <3>7. CASE rk[y.id] > rk[a.id]
      <4>1. y \in F
        BY Zenon, <3>5, <3>7
      <4>2. x.parent # a.id
        BY <1>2, <1>0, <3>3, <3>4, <3>7
      <4>3. Bare(Q, x)
        BY <3>2, <4>2, AttachKids DEF Bare
      <4> QED BY Zenon, <3>1, <3>3, <4>1, <4>3
    <3>8. CASE rk[y.id] = rk[a.id]
      <4>1. y = a
        BY <1>0, <1>1, <3>3, <3>5, <3>8, OneOfADepth
      <4>2. x.parent = row.parent /\ x \in Kids(R, a.id)
        BY Zenon, <1>0, <3>1, <3>3, <4>1 DEF Kids
      <4>3. ~Under(x.at, row.at)
        BY Zenon, <4>2, AttachKids
      <4>4. Under(row.at, x.at)
        BY <1>2, <3>1, <4>3, AttachKids, PathOrder
      <4>5. Below(row.at, x.at)
        BY Zenon, <4>3, <4>4 DEF Below
      <4>6. ASSUME NEW z \in Kids(Q, row.parent), Below(row.at, z.at) PROVE ~Below(z.at, x.at)
        <5>1. z # row
          BY Zenon, <4>6 DEF Below
        <5>2. z \in Kids(R, x.parent)
          BY <4>2, <4>6, <5>1, AttachKids
        <5> QED BY Zenon, <3>2, <5>2 DEF Bare
      <4>7. Beyond(Q, row, x)
        BY Zenon, <4>2, <4>5, <4>6 DEF Beyond
      <4> QED BY Zenon, <3>1, <4>7
    <3> QED
      <4>1. PICK i \in Nat, j \in Nat, k \in Nat : i = rk[x.id] /\ j = rk[y.id] /\ k = rk[a.id]
        BY Zenon, <1>0, <1>2, <3>1, <3>4
      <4>2. j > k \/ j = k
        BY <3>1, <3>6, <4>1
      <4> QED BY Zenon, <3>7, <3>8, <4>1, <4>2
  <2>6. OpenUnder(Q, row, F)
    BY Zenon, <2>4, <2>5 DEF OpenUnder
  <2>7. Ends(Q, w, q)
    <3>1. w.id # a.id
      BY Zenon, <1>0, <1>4 DEF Tree
    <3> QED BY <3>1, AttachKids DEF Ends
  <2> HIDE DEF F
  <2> QED BY Zenon, <2>4, <2>6, <2>7 DEF Hides
<1> QED
  BY Zenon, <1>3, <1>4

\* What the kernel shows and hides is what the tree says.
Agrees(R, view, hidden) ==
  Tree(R) /\ (\E rk : Depths(R, rk)) /\ Seen(R, view) /\ Kept(R, hidden)

(* A mount that goes leaves the two in agreement.                           *)
LEMMA DetachAgrees ==
  ASSUME NEW R, NEW view, NEW hidden, Agrees(R, view, hidden),
         NEW m \in R, m.id # Root, view[m.at] = m.id, \A x \in R : x.parent # m.id,
         NEW Q, Q = R \ {m}, NEW shown,
         \A q \in Path : shown[q] = IF Under(m.at, q) THEN hidden[m.id - 1][q] ELSE view[q]
  PROVE  Agrees(Q, shown, hidden)
<1>1. Tree(R) /\ Seen(R, view) /\ Kept(R, hidden)
  BY Zenon DEF Agrees
<1>2. PICK rk : Depths(R, rk)
  BY Zenon DEF Agrees
<1>3. m.at \in Path
  BY Zenon, <1>1 DEF Tree, RowSet
<1>4. PICK v \in R, D \in SUBSET R : v.id = view[m.at] /\ v \in D /\ Open(R, D)
  BY Zenon, <1>1, <1>3 DEF Seen
<1>5. v = m
  BY Zenon, <1>1, <1>4 DEF Tree
<1>6. Detaches(R, Q, m, D)
  BY Zenon, <1>1, <1>4, <1>5 DEF Detaches
<1>7. Tree(Q)
  BY Zenon, <1>6, DetachTree
<1>8. Depths(Q, rk)
  BY <1>2 DEF Depths
<1>9. Seen(Q, shown)
  BY <1>1, <1>2, <1>6, DetachSeen
<1>10. Kept(Q, hidden)
  BY Zenon, <1>1, <1>2, <1>6, DetachKept
<1> QED
  BY Zenon, <1>7, <1>8, <1>9, <1>10 DEF Agrees

(* So does one that comes.                                                  *)
LEMMA AttachAgrees ==
  ASSUME NEW R, NEW view, NEW hidden, Agrees(R, view, hidden),
         NEW row \in RowSet, row.id > Root, row.at # <<>>, row.parent = view[row.at],
         \A x \in R : x.id # row.id /\ x.parent # row.id,
         NEW Q, Q = R \cup {row}, NEW shown, NEW under,
         \A q \in Path : shown[q] = IF Under(row.at, q) THEN row.id ELSE view[q],
         under[row.id - 1] = view,
         \A x \in R : x.id # Root => under[x.id - 1] = hidden[x.id - 1]
  PROVE  Agrees(Q, shown, under)
<1>1. Tree(R) /\ Seen(R, view) /\ Kept(R, hidden)
  BY Zenon DEF Agrees
<1>2. PICK rk : Depths(R, rk)
  BY Zenon DEF Agrees
<1>3. row.at \in Path
  BY Zenon DEF RowSet
<1>4. PICK a \in R, D \in SUBSET R :
        a.id = view[row.at] /\ a \in D /\ Open(R, D) /\ Ends(R, a, row.at)
  BY Zenon, <1>1, <1>3 DEF Seen
<1>5. Attaches(R, Q, row, a, D)
  BY Zenon, <1>1, <1>4 DEF Attaches
<1>6. Tree(Q)
  BY Zenon, <1>5, AttachTree
<1>7. \E dp : Depths(Q, dp)
  BY Zenon, <1>2, <1>5, AttachDepths
<1>8. Seen(Q, shown)
  BY <1>1, <1>5, AttachSeen
<1>9. ASSUME NEW n \in Q, NEW q \in Path, n.id # Root, Under(n.at, q)
      PROVE  \E w \in Q : w.id = under[n.id - 1][q] /\ Hides(Q, n, w, q)
  <2>1. CASE n \in R
    <3>1. PICK w \in R : w.id = hidden[n.id - 1][q] /\ Hides(R, n, w, q)
      BY Zenon, <1>1, <1>9, <2>1 DEF Kept
    <3>2. Hides(Q, n, w, q)
      BY Zenon, <1>2, <1>5, <1>9, <2>1, <3>1, AttachKeptOld
    <3> QED BY Zenon, <1>9, <2>1, <3>1, <3>2
  <2>2. CASE n = row
    <3>1. PICK w \in R, E \in SUBSET R :
            w.id = view[q] /\ w \in E /\ Open(R, E) /\ Ends(R, w, q)
      BY Zenon, <1>1 DEF Seen
    <3>2. Hides(Q, row, w, q)
      BY Zenon, <1>2, <1>5, <1>9, <2>2, <3>1, AttachKeptNew
    <3> QED BY Zenon, <2>2, <3>1, <3>2
  <2> QED BY Zenon, <2>1, <2>2
<1>10. Kept(Q, under)
  BY Zenon, <1>9 DEF Kept
<1> QED
  BY Zenon, <1>6, <1>7, <1>8, <1>10 DEF Agrees

-----------------------------------------------------------------------------
(* The walk over a table.                                                  *)

(* The rows of a table are its range.                                       *)
LEMMA RowsAre ==
  ASSUME NEW t \in Seq(RowSet)
  PROVE  /\ Rows(t) = Range(t) /\ Rows(t) \subseteq RowSet
         /\ \A i \in 1..Len(t) : t[i] \in Rows(t)
         /\ \A r \in Rows(t) : \E i \in 1..Len(t) : r = t[i]
<1>1. DOMAIN t = 1..Len(t)
  OBVIOUS
<1>2. \A i \in 1..Len(t) : t[i] \in RowSet
  BY <1>1
<1> QED
  BY Zenon, <1>1, <1>2 DEF Rows, Range

(* The beginnings of a pathname.                                            *)
LEMMA AncestorsAre ==
  ASSUME NEW p \in Path, NEW q \in Path
  PROVE  /\ p \in Ancestors(q) <=> Under(p, q)
         /\ Len(p) \in Nat /\ Len(q) \in Nat
         /\ Under(p, q) => Len(p) <= Len(q)
         /\ Under(p, q) /\ Len(q) <= Len(p) => p = q
<1>1. PICK X : p \in Seq(X)
  BY PlanAssumption
<1>2. PICK Y : q \in Seq(Y)
  BY PlanAssumption
<1>3. PICK m \in Nat, n \in Nat : m = Len(p) /\ n = Len(q)
  BY <1>1, <1>2
<1>4. Under(p, q) <=> m <= n /\ \A i \in 1..m : p[i] = q[i]
  BY <1>3, UnderIs
<1>5. p = [i \in 1..m |-> p[i]]
  BY <1>1, <1>3
<1>6. \A l \in 0..n : SubSeq(q, 1, l) = [i \in 1..l |-> q[i]] /\ Len(SubSeq(q, 1, l)) = l
  BY <1>2, <1>3
<1>7. Ancestors(q) = {SubSeq(q, 1, l) : l \in 0..n}
  BY <1>3 DEF Ancestors
<1>8. ASSUME p \in Ancestors(q) PROVE Under(p, q)
  <2>1. PICK l \in 0..n : p = SubSeq(q, 1, l)
    BY <1>7, <1>8
  <2>2. l = m /\ p = [i \in 1..l |-> q[i]]
    BY <1>3, <1>6, <2>1
  <2> QED BY <1>4, <2>2
<1>9. ASSUME Under(p, q) PROVE p \in Ancestors(q)
  <2>1. m \in 0..n /\ \A i \in 1..m : p[i] = q[i]
    BY <1>4, <1>9
  <2>2. p = SubSeq(q, 1, m)
    BY Zenon, <1>5, <1>6, <2>1
  <2> QED BY Zenon, <1>7, <2>1, <2>2
<1>10. ASSUME Under(p, q), Len(q) <= Len(p) PROVE p = q
  <2>1. m = n /\ \A i \in 1..n : q[i] = p[i]
    BY <1>3, <1>4, <1>10
  <2>2. Under(q, p) <=> n <= m /\ \A i \in 1..n : q[i] = p[i]
    BY Zenon, <1>3, UnderIs
  <2>3. Under(q, p)
    BY <2>1, <2>2
  <2> QED BY <1>10, <2>3, PathOrder
<1> QED
  BY <1>3, <1>4, <1>8, <1>9, <1>10

(* The rows at a point of a mount are the mounts on it there.               *)
LEMMA ChildrenAre ==
  ASSUME NEW t, Tree(Rows(t)), NEW rk, Depths(Rows(t), rk), NEW r \in Rows(t), NEW x
  PROVE  Children(t, r.id, x) = {c \in Kids(Rows(t), r.id) : c.at = x}
<1> DEFINE R == Rows(t)
<1>0. \A c \in R : c.id \in Nat /\ c.parent \in Nat
  BY DEF Tree, RowSet
<1>1. \A c \in R : c.id >= Root /\ (c.id = Root => c.parent \in {0, Root})
  BY Zenon DEF Tree
<1>2. ASSUME NEW c \in R, c.parent = r.id, c.parent # c.id PROVE c.id # Root
  BY <1>0, <1>1, <1>2 DEF Root
<1>3. ASSUME NEW c \in R, c.id # Root PROVE c.parent # c.id
  <2>1. rk[c.id] = rk[c.parent] + 1 /\ rk[c.id] \in Nat /\ rk[c.parent] \in Nat
    BY Zenon, <1>0, <1>3 DEF Depths
  <2> QED BY <2>1
<1> QED
  BY Zenon, <1>2, <1>3 DEF Children, Kids

(* The mount points on the way from a mount.                                *)
LEMMA CrossingsAre ==
  ASSUME NEW t, Tree(Rows(t)), NEW rk, Depths(Rows(t), rk), NEW r \in Rows(t), NEW q \in Path
  PROVE  \A x : x \in Crossings(t, r, q) <=>
                  \E c \in Kids(Rows(t), r.id) : c.at = x /\ Under(c.at, q)
<1> DEFINE R == Rows(t)
<1>1. \A c \in R : c.at \in Path
  BY Zenon DEF Tree, RowSet
<1>2. \A x : Children(t, r.id, x) = {c \in Kids(R, r.id) : c.at = x}
  BY Zenon, ChildrenAre
<1>3. ASSUME NEW x, x \in Crossings(t, r, q)
      PROVE  \E c \in Kids(R, r.id) : c.at = x /\ Under(c.at, q)
  <2>1. x \in Ancestors(q) /\ Children(t, r.id, x) # {}
    BY Zenon, <1>3 DEF Crossings
  <2>2. PICK c \in Kids(R, r.id) : c.at = x
    BY Zenon, <1>2, <2>1
  <2>3. c.at \in Path
    BY Zenon, <1>1, <2>2 DEF Kids
  <2> QED BY Zenon, <2>1, <2>2, <2>3, AncestorsAre
<1>4. ASSUME NEW x, NEW c \in Kids(R, r.id), c.at = x, Under(c.at, q)
      PROVE  x \in Crossings(t, r, q)
  <2>1. c \in R /\ c.id # Root /\ c.parent = r.id
    BY Zenon DEF Kids
  <2>2. Under(r.at, c.at)
    BY Zenon, <2>1 DEF Tree
  <2>3. x \in Ancestors(q) /\ Len(x) >= Len(r.at)
    <3>1. x \in Path /\ r.at \in Path
      BY Zenon, <1>1, <1>4, <2>1
    <3>2. x \in Ancestors(q)
      BY <1>4, <3>1, AncestorsAre
    <3>3. Len(r.at) <= Len(x) /\ Len(r.at) \in Nat /\ Len(x) \in Nat
      BY Zenon, <1>4, <2>2, <3>1, AncestorsAre
    <3> QED BY <3>2, <3>3
  <2>4. Children(t, r.id, x) # {}
    BY Zenon, <1>2, <1>4
  <2> QED BY Zenon, <2>3, <2>4 DEF Crossings
<1> QED
  BY <1>3, <1>4

(* A turn of the walk goes on to the next mount on the way, and stays where *)
(* it ends.                                                                 *)
LEMMA TurnIs ==
  ASSUME NEW t, Tree(Rows(t)), NEW rk, Depths(Rows(t), rk), NEW r \in Rows(t), NEW q \in Path
  PROVE  /\ Turn(t, q, r) \subseteq Rows(t)
         /\ Ends(Rows(t), r, q) => Crossings(t, r, q) = {} /\ Turn(t, q, r) = {r}
         /\ \A c \in Kids(Rows(t), r.id) :
              Under(c.at, q) /\ Bare(Rows(t), c) => Turn(t, q, r) = {c}
<1> DEFINE R == Rows(t)
           X == Crossings(t, r, q)
<1>1. \A x : x \in X <=> \E c \in Kids(R, r.id) : c.at = x /\ Under(c.at, q)
  BY CrossingsAre
<1>2. \A x : Children(t, r.id, x) = {c \in Kids(R, r.id) : c.at = x}
  BY ChildrenAre
<1>3. Turn(t, q, r) = IF X = {} THEN {r}
                      ELSE {c \in Children(t, r.id, Crossing(t, r, q)) :
                              Children(t, r.id, Crossing(t, r, q)) = {c}}
  BY Zenon DEF Turn
<1>4. Turn(t, q, r) \subseteq R
  BY <1>3, Zenon DEF Children
<1>5. ASSUME Ends(R, r, q) PROVE X = {} /\ Turn(t, q, r) = {r}
  BY Zenon, <1>1, <1>3, <1>5 DEF Ends
<1>6. ASSUME NEW c \in Kids(R, r.id), Under(c.at, q), Bare(R, c) PROVE Turn(t, q, r) = {c}
  <2>0. \A y \in Kids(R, r.id) : y \in R /\ y.parent = r.id /\ y.at \in Path /\ y.id # Root
    BY Zenon DEF Kids, Tree, RowSet
  <2>1. c.at \in X
    BY <1>1, <1>6
  <2>2. ASSUME NEW x \in X PROVE x \in Path /\ Under(c.at, x)
    <3>1. PICK y \in Kids(R, r.id) : y.at = x /\ Under(y.at, q)
      BY <1>1, <2>2
    <3>2. ~Below(y.at, c.at)
      BY Zenon, <1>6, <2>0, <3>1 DEF Bare
    <3>3. Under(y.at, c.at) \/ Under(c.at, y.at)
      BY Zenon, <1>6, <2>0, <3>1, PathOrder
    <3> QED BY Zenon, <2>0, <3>1, <3>2, <3>3, PathOrder DEF Below
  <2>3. \A x \in X : Len(c.at) <= Len(x)
    BY Zenon, <2>0, <2>2, AncestorsAre
  <2>4. PICK z : z = Crossing(t, r, q)
    OBVIOUS
  <2>5. z \in X /\ \A x \in X : Len(z) <= Len(x)
    <3> HIDE DEF X
    <3>1. z = CHOOSE x \in X : \A y \in X : Len(x) <= Len(y)
      BY <2>4, Zenon DEF Crossing, X
    <3> QED BY <2>1, <2>3, <3>1, Zenon
  <2>6. z = c.at
    <3>1. z \in Path /\ Under(c.at, z) /\ Len(z) <= Len(c.at) /\ c.at \in Path
      BY Zenon, <2>0, <2>1, <2>2, <2>5
    <3> QED BY <3>1, AncestorsAre
  <2>7. Children(t, r.id, z) = {c}
    <3>1. ASSUME NEW y \in Kids(R, r.id), y.at = c.at PROVE y = c
      BY Zenon, <1>6, <2>0, <3>1 DEF Tree
    <3> QED BY <1>2, <2>6, <3>1
  <2>8. Turn(t, q, r) = {y \in {c} : {c} = {y}}
    BY Zenon, <1>3, <2>1, <2>4, <2>7
  <2> QED BY Zenon, <2>8
<1> QED
  BY Zenon, <1>4, <1>5, <1>6

\* The mounts the walk is at, turn by turn.
Walk(f, t, q) ==
  /\ f[0] = Start(t)
  /\ \A n \in 1..Len(t) : f[n] = UNION {Turn(t, q, r) : r \in f[n - 1]}

(* The recursion of Resolve has a solution, the last value of which decides *)
(* what it returns.                                                         *)
LEMMA WalkRecursion ==
  ASSUME NEW t \in Seq(RowSet), NEW q, \A r \in Rows(t) : Turn(t, q, r) \subseteq Rows(t)
  PROVE  \E f : /\ Walk(f, t, q)
                /\ LET S == {r \in f[Len(t)] : Crossings(t, r, q) = {} /\ r.at = q}
                   IN Resolve(t, q) = IF S = {} THEN NoDev ELSE (CHOOSE r \in S : TRUE).dev
<1> DEFINE n == Len(t)
           X == SUBSET Rows(t)
           G(x) == UNION {Turn(t, q, r) : r \in x}
           F == [p \in (1..n) \X X |-> G(p[2])]
<1>1. n \in Nat /\ Start(t) \in X
  BY DEF Start, Rows
<1>2. ASSUME NEW x \in X PROVE G(x) \in X
  OBVIOUS
<1>3. F \in Steps(n, X)
  <2> HIDE DEF n, G, X
  <2> QED BY Zenon, <1>2 DEF Steps
<1>4. PICK f : Iterates(f, n, X, Start(t), F)
  <2> HIDE DEF n, F, X
  <2> QED BY Zenon, <1>1, <1>3, Iteration
<1>5. ASSUME NEW i \in 1..n PROVE f[i] = G(f[i - 1])
  <2> HIDE DEF n, G, X
  <2>1. f[i - 1] \in X
    BY <1>4, <1>1 DEF Iterates
  <2> QED BY Zenon, <1>4, <2>1 DEF Iterates
<1>6. f = [i \in 0..n |-> IF i = 0 THEN Start(t) ELSE G(f[i - 1])]
  <2> HIDE DEF n, G, X
  <2> QED BY <1>4, <1>5 DEF Iterates
<1> DEFINE h == CHOOSE g : g = [i \in 0..n |-> IF i = 0 THEN Start(t) ELSE G(g[i - 1])]
<1>7. h = [i \in 0..n |-> IF i = 0 THEN Start(t) ELSE G(h[i - 1])]
  BY Zenon, <1>6
<1>8. LET S == {r \in h[n] : Crossings(t, r, q) = {} /\ r.at = q}
      IN Resolve(t, q) = IF S = {} THEN NoDev ELSE (CHOOSE r \in S : TRUE).dev
  BY Zenon DEF Resolve
<1>9. h[0] = Start(t) /\ \A i \in 1..n : h[i] = G(h[i - 1])
  <2> HIDE DEF h, G, n
  <2> QED BY <1>1, <1>7
<1> HIDE DEF h
<1>10. Walk(h, t, q)
  BY Zenon, <1>9 DEF Walk
<1> QED
  BY Zenon, <1>8, <1>10

-----------------------------------------------------------------------------
(* A walk over the table ends at what the kernel shows.                    *)

\* A number for every mount ever made, the root's being 1.
Made == Len(saved) + 1

\* The rows stand in the order in which the mounts were made.
Ordered ==
  /\ table \in Seq(RowSet)
  /\ \A i, j \in 1..Len(table) : i < j => table[i].id < table[j].id
  /\ \A i \in 1..Len(table) : table[i].id <= Made

\* What the kernel shows at a path, or would show without a mount.
Shown ==
  /\ vis \in [Path -> 1..Made]
  /\ saved \in Seq([Path -> Nat]) /\ \A k \in 1..Len(saved) : saved[k] \in [Path -> 1..Made]

\* The same for the state.
TreeInv == Agrees(Rows(table), vis, saved)

(* The ids of the rows, and those of their parents, have been given out.    *)
LEMMA IdsGiven ==
  ASSUME Ordered, Shown, TreeInv, NEW x \in Rows(table)
  PROVE  /\ x.id \in 1..Made /\ x.parent \in 0..Made
         /\ x.id # Root => x.id - 1 \in 1..Len(saved)
<1>1. PICK n \in Nat : n = Len(saved) /\ Made = n + 1
  BY DEF Shown, Made
<1>2. Tree(Rows(table)) /\ table \in Seq(RowSet)
  BY Zenon DEF TreeInv, Agrees, Ordered
<1>3. \A y \in Rows(table) : y.id \in Nat /\ y.id <= Made
  BY Zenon, <1>2, RowsAre DEF Ordered, RowSet
<1>4. \A y \in Rows(table) : y.id \in 1..Made
  BY <1>1, <1>2, <1>3 DEF Tree, Root
<1>5. x.parent \in 0..Made
  <2>1. CASE x.id = Root
    BY <1>1, <1>2, <2>1 DEF Tree, Root
  <2>2. CASE x.id # Root
    <3>1. PICK y \in Rows(table) : y.id = x.parent
      BY <1>2, <2>2 DEF Tree
    <3> QED BY <1>1, <1>4, <3>1
  <2> QED BY Zenon, <2>1, <2>2
<1> QED
  BY <1>1, <1>4, <1>5 DEF Root

(* The row of a mount that is shown.                                        *)
LEMMA RowOfIs ==
  ASSUME TreeInv, NEW p \in Path
  PROVE  RowOf(vis[p]) \in Rows(table) /\ RowOf(vis[p]).id = vis[p]
<1>1. PICK v \in Rows(table) : v.id = vis[p]
  BY Zenon DEF TreeInv, Agrees, Seen
<1> QED
  BY <1>1, Zenon DEF RowOf

(* The walk starts at the root.                                             *)
LEMMA StartIs ==
  ASSUME Ordered, Tree(Rows(table))
  PROVE  \E r \in Rows(table) : r.id = Root /\ Start(table) = {r}
<1> DEFINE R == Rows(table)
<1>1. \A x \in R : x.id >= Root /\ (x.id = Root => x.at = <<>> /\ x.parent \in {0, Root})
                   /\ (x.id # Root => x.at # <<>>)
  BY Zenon DEF Tree
<1>2. \A x \in R : IsRoot(table, x) <=> x.id = Root
  <2>1. 0 \notin {x.id : x \in R}
    BY <1>1 DEF Root
  <2>2. ASSUME NEW x \in R, x.id = Root PROVE IsRoot(table, x)
    BY <1>1, <2>1, <2>2, Zenon DEF IsRoot
  <2>3. ASSUME NEW x \in R, IsRoot(table, x) PROVE x.id = Root
    BY Zenon, <1>1, <2>3 DEF IsRoot
  <2> QED BY Zenon, <2>2, <2>3
<1>3. PICK r \in R : r.id = Root
  BY Zenon DEF Tree
<1>4. PICK m \in Nat : m = Len(table) /\ DOMAIN table = 1..m
  BY DEF Ordered
<1>5. /\ \A i \in 1..m : table[i] \in R
      /\ \A x \in R : \E i \in 1..m : x = table[i]
      /\ \A i \in 1..m : table[i].id \in Nat
  BY Zenon, <1>4, RowsAre DEF Ordered, RowSet
<1>6. \A x \in R : x.id = Root => x = r
  BY Zenon, <1>3 DEF Tree
<1>7. PICK i \in 1..m : r = table[i]
  BY Zenon, <1>3, <1>5
<1>8. \A j \in 1..m : IsRoot(table, table[j]) <=> table[j] = r
  BY Zenon, <1>2, <1>3, <1>5, <1>6
<1>9. \A j \in 1..(i - 1) : ~IsRoot(table, table[j])
  <2>1. ASSUME NEW j \in 1..(i - 1), table[j] = r PROVE FALSE
    <3>1. j \in 1..m /\ j < i
      BY <1>7
    <3>2. table[j].id < table[i].id
      BY <1>4, <3>1 DEF Ordered
    <3> QED BY <1>5, <1>7, <2>1, <3>2
  <2>2. \A j \in 1..(i - 1) : j \in 1..m
    BY <1>7
  <2> QED BY Zenon, <1>8, <2>1, <2>2
<1>10. Start(table) = {table[k] : k \in {j \in 1..m : /\ IsRoot(table, table[j])
                                         /\ \A l \in 1..(j - 1) : ~IsRoot(table, table[l])}}
  BY Zenon, <1>4 DEF Start
<1>11. r \in Start(table)
  BY Zenon, <1>7, <1>8, <1>9, <1>10
<1>12. \A x \in Start(table) : x = r
  BY Zenon, <1>8, <1>10
<1> QED
  BY Zenon, <1>3, <1>11, <1>12

(* A mount lies no deeper than there are rows.                              *)
LEMMA DepthBounded ==
  ASSUME Ordered, Tree(Rows(table)), NEW rk, Depths(Rows(table), rk),
         NEW D, Open(Rows(table), D), NEW v \in D
  PROVE  rk[v.id] \in 0..Len(table)
<1>1. PICK n \in Nat : n = rk[v.id] /\ \A k \in 0..n : \E x \in D : rk[x.id] = k
  BY EveryDepth
<1>2. PICK m \in Nat : m = Len(table)
  BY DEF Ordered
<1>3. \A x \in D : \E i \in 1..m : x = table[i]
  BY <1>2, RowsAre DEF Ordered, Open
<1> DEFINE f == [k \in 0..n |-> CHOOSE i \in 1..m : rk[table[i].id] = k]
<1>4. ASSUME NEW k \in 0..n PROVE f[k] \in 1..m /\ rk[table[f[k]].id] = k
  <2>1. \E i \in 1..m : rk[table[i].id] = k
    BY <1>1, <1>3
  <2> QED BY <2>1, Zenon
<1>5. f \in [0..n -> 1..m]
  <2>1. \A k \in 0..n : f[k] \in 1..m
    BY Zenon, <1>4
  <2> QED BY <2>1, Zenon
<1> HIDE DEF f
<1> SUFFICES ASSUME ~(n <= m) PROVE FALSE
  BY <1>1, <1>2
<1>6. m <= n
  BY <1>1, <1>2
<1>7. PICK j \in 0..n, k \in 0..n : j # k /\ f[j] = f[k]
  BY <1>5, <1>6, PigeonHole, Zenon
<1> QED
  BY Zenon, <1>4, <1>7

(* FreezePlan!ResolveIsVisible: the walk ends where the kernel's way does.  *)
LEMMA ResolveIs ==
  ASSUME Ordered, TreeInv
  PROVE  ResolveIsVisible
<1> DEFINE R == Rows(table)
<1>1. Tree(R) /\ Seen(R, vis)
  BY DEF TreeInv, Agrees
<1>2. PICK rk : Depths(R, rk)
  BY DEF TreeInv, Agrees
<1> SUFFICES ASSUME NEW q \in Path PROVE Resolve(table, q) = VisibleAt(q)
  BY Zenon DEF ResolveIsVisible
<1>3. PICK v \in R, D \in SUBSET R : v.id = vis[q] /\ v \in D /\ Open(R, D) /\ Ends(R, v, q)
  BY <1>1 DEF Seen
<1>4. \A x \in R : x.id \in Nat /\ rk[x.id] \in Nat /\ x.at \in Path
  BY Zenon, <1>1, <1>2 DEF Tree, RowSet, Depths
<1>5. table \in Seq(RowSet) /\ \A r \in R : Turn(table, q, r) \subseteq R
  BY Zenon, <1>1, <1>2, TurnIs DEF Ordered
<1>6. PICK f :
        /\ Walk(f, table, q)
        /\ LET S == {r \in f[Len(table)] : Crossings(table, r, q) = {} /\ r.at = q}
           IN Resolve(table, q) = IF S = {} THEN NoDev ELSE (CHOOSE r \in S : TRUE).dev
  BY Zenon, <1>5, WalkRecursion
<1>7. PICK N \in Nat, n \in Nat : N = Len(table) /\ n = rk[v.id] /\ n <= N
  BY <1>1, <1>2, <1>3, <1>5, DepthBounded
<1>8. f[0] = Start(table) /\ \A k \in 1..N : f[k] = UNION {Turn(table, q, r) : r \in f[k - 1]}
  BY Zenon, <1>6, <1>7 DEF Walk
<1>9. \A k \in 0..n : \E x \in D : rk[x.id] = k /\ Under(x.at, v.at)
  BY <1>1, <1>2, <1>3, <1>7, EveryDepth
<1>10. Under(v.at, q) /\ \A x \in D : Under(x.at, v.at) => Under(x.at, q)
  BY Zenon, <1>3, <1>4, PathOrder DEF Ends
<1> HIDE DEF R
<1> DEFINE At(k, x) == rk[x.id] = k /\ Under(x.at, q) /\ f[k] = {x}
           S == {k \in 0..n : \E x \in D : At(k, x)}
<1>11. 0 \in S
  <2>1. PICK r \in R : r.id = Root /\ Start(table) = {r}
    BY Zenon, <1>1, StartIs DEF R
  <2>2. PICK x \in D : rk[x.id] = 0 /\ Under(x.at, v.at)
    BY <1>7, <1>9
  <2>3. x \in R /\ x.id = Root
    <3>1. x \in R
      BY Zenon, <1>3
    <3>2. x.id # Root => rk[x.id] = rk[x.parent] + 1 /\ rk[x.parent] \in Nat
      BY Zenon, <1>1, <1>2, <3>1 DEF Depths, Tree, RowSet
    <3> QED BY <2>2, <3>1, <3>2
  <2>4. x = r
    BY Zenon, <1>1, <2>1, <2>3 DEF Tree
  <2>5. At(0, x)
    BY Zenon, <1>8, <1>10, <2>1, <2>2, <2>4
  <2> HIDE DEF At
  <2> QED BY <1>7, <2>5
<1>12. ASSUME NEW k \in 1..n, k - 1 \in S PROVE k \in S
  <2>1. PICK x \in D : At(k - 1, x)
    BY Zenon, <1>12
  <2>2. PICK y \in D : rk[y.id] = k /\ Under(y.at, v.at)
    BY <1>9
  <2>3. y \in R /\ y.id # Root
    BY <1>2, <1>3, <2>2 DEF Depths
  <2>4. PICK z \in D : z.id = y.parent
    BY Zenon, <1>3, <2>3 DEF Open
  <2>5. z \in R /\ Under(z.at, y.at)
    BY <1>1, <1>3, <2>3, <2>4 DEF Tree
  <2>6. rk[y.id] = rk[z.id] + 1 /\ rk[z.id] \in Nat
    BY Zenon, <1>2, <1>4, <2>3, <2>4, <2>5 DEF Depths
  <2>7. rk[z.id] = k - 1
    BY <2>2, <2>6
  <2>8. Under(y.at, q) /\ Under(z.at, q)
    BY Zenon, <1>4, <1>10, <2>2, <2>3, <2>5, PathOrder
  <2>9. z = x
    <3>1. rk[x.id] = k - 1 /\ Under(x.at, q)
      BY <2>1
    <3>2. rk[z.id] = rk[x.id]
      BY Zenon, <2>7, <3>1
    <3> QED BY <1>1, <1>2, <1>3, <2>8, <3>1, <3>2, OneOfADepth
  <2>10. Bare(R, y) /\ y \in Kids(R, x.id)
    BY Zenon, <1>3, <2>3, <2>4, <2>9 DEF Open, Kids
  <2>11. Turn(table, q, x) = {y}
    BY <1>1, <1>2, <2>5, <2>8, <2>9, <2>10, TurnIs DEF R
  <2>12. f[k] = {y}
    <3>1. f[k - 1] = {x}
      BY Zenon, <2>1
    <3>2. k \in 1..N
      BY <1>7
    <3>3. f[k] = UNION {Turn(table, q, r) : r \in {x}}
      BY Zenon, <1>8, <3>1, <3>2
    <3> QED BY Zenon, <2>11, <3>3
  <2>13. At(k, y)
    BY <2>2, <2>8, <2>12
  <2> HIDE DEF At
  <2> QED BY <2>13
<1>13. n \in S
  <2> HIDE DEF S
  <2>1. \A k \in 0..n : k \in S
    BY Zenon, <1>11, <1>12, InductionTo
  <2> QED BY <2>1
<1>14. f[n] = {v}
  <2>1. PICK x \in D : rk[x.id] = n /\ Under(x.at, q) /\ f[n] = {x}
    BY Zenon, <1>13
  <2>2. rk[x.id] = rk[v.id] /\ Under(v.at, q) /\ v \in D
    BY Zenon, <1>3, <1>7, <1>10, <2>1
  <2>3. x = v
    <3>1. Tree(R) /\ Depths(R, rk) /\ Open(R, D)
      BY Zenon, <1>1, <1>2, <1>3
    <3>2. Under(x.at, q) /\ Under(v.at, q) /\ rk[x.id] = rk[v.id] /\ v \in D
      BY Zenon, <2>1, <2>2
    <3> HIDE DEF At, S, R
    <3> QED BY Zenon, <3>1, <3>2, SameDepth
  <2> QED BY Zenon, <2>1, <2>3
<1>15. Crossings(table, v, q) = {} /\ Turn(table, q, v) = {v}
  BY Zenon, <1>1, <1>2, <1>3, TurnIs DEF R
<1> DEFINE T == {k \in 0..(N - n) : f[n + k] = {v}}
<1>16. 0 \in T
  BY <1>7, <1>14
<1>17. ASSUME NEW k \in 1..(N - n), k - 1 \in T PROVE k \in T
  <2>1. f[n + (k - 1)] = {v}
    BY Zenon, <1>17
  <2>2. n + k \in 1..N /\ (n + k) - 1 = n + (k - 1)
    BY <1>7
  <2>3. f[n + k] = UNION {Turn(table, q, r) : r \in f[(n + k) - 1]}
    BY Zenon, <1>8, <2>2
  <2>4. f[(n + k) - 1] = {v}
    BY Zenon, <2>1, <2>2
  <2>5. f[n + k] = UNION {Turn(table, q, r) : r \in {v}}
    BY Zenon, <2>3, <2>4
  <2> QED BY <1>15, <2>5
<1>18. f[N] = {v}
  <2>1. N - n \in Nat /\ n + (N - n) = N
    BY <1>7
  <2> HIDE DEF T
  <2>2. \A k \in 0..(N - n) : k \in T
    BY <1>16, <1>17, <2>1, InductionTo
  <2>3. N - n \in T
    BY <2>1, <2>2
  <2> QED BY Zenon, <2>1, <2>3 DEF T
<1>19. VisibleAt(q) = IF v.at = q THEN v.dev ELSE NoDev
  <2>1. RowOf(vis[q]) = v
    <3>1. RowOf(vis[q]) \in R /\ RowOf(vis[q]).id = vis[q]
      BY Zenon, RowOfIs DEF R
    <3> QED BY Zenon, <1>1, <1>3, <3>1 DEF Tree
  <2> QED BY <2>1 DEF VisibleAt
<1>20. {r \in f[Len(table)] : Crossings(table, r, q) = {} /\ r.at = q}
         = IF v.at = q THEN {v} ELSE {}
  BY Zenon, <1>7, <1>15, <1>18
<1>21. CASE v.at = q
  <2>1. Resolve(table, q) = (CHOOSE r \in {v} : TRUE).dev
    BY Zenon, <1>6, <1>20, <1>21
  <2> QED BY Zenon, <1>19, <1>21, <2>1
<1>22. CASE v.at # q
  BY Zenon, <1>6, <1>19, <1>20, <1>22
<1> QED
  BY <1>21, <1>22

-----------------------------------------------------------------------------
(* What of a sequence is in a set.                                         *)

\* a holds what of the first n elements of s is in S, in their order.
Selected(a, s, n, S) ==
  \E e \in [1..Len(a) -> 1..n] :
    /\ \A j, k \in 1..Len(a) : j < k => e[j] < e[k]
    /\ \A k \in 1..Len(a) : a[k] = s[e[k]] /\ s[e[k]] \in S
    /\ \A i \in 1..n : s[i] \in S => \E k \in 1..Len(a) : e[k] = i

\* The recursion of Among.
Chosen(f, s, S) ==
  /\ f[0] = <<>>
  /\ \A i \in 1..Len(s) :
       f[i] = IF s[i] \in S THEN Append(f[i - 1], s[i]) ELSE f[i - 1]

(* The recursion of Among has a solution, the last value of which is it.    *)
LEMMA AmongRecursion ==
  ASSUME NEW X, NEW s \in Seq(X), NEW S
  PROVE  \E f : Chosen(f, s, S) /\ Among(s, S) = f[Len(s)]
<1> DEFINE n == Len(s)
           G(x, i) == IF s[i] \in S THEN Append(x, s[i]) ELSE x
           F == [p \in (1..n) \X Seq(X) |-> G(p[2], p[1])]
<1>1. n \in Nat /\ <<>> \in Seq(X)
  OBVIOUS
<1>2. ASSUME NEW i \in 1..n, NEW x \in Seq(X)
      PROVE  G(x, i) \in Seq(X)
  OBVIOUS
<1>3. F \in Steps(n, Seq(X))
  <2> HIDE DEF n, G
  <2> QED BY Zenon, <1>2 DEF Steps
<1>4. PICK f : Iterates(f, n, Seq(X), <<>>, F)
  <2> HIDE DEF n, F
  <2> QED BY Zenon, <1>1, <1>3, Iteration
<1>5. ASSUME NEW i \in 1..n PROVE f[i] = G(f[i - 1], i)
  <2> HIDE DEF n, G
  <2>1. f[i - 1] \in Seq(X)
    BY <1>4, <1>1 DEF Iterates
  <2> QED BY Zenon, <1>4, <2>1 DEF Iterates
<1>6. f = [i \in 0..n |-> IF i = 0 THEN <<>> ELSE G(f[i - 1], i)]
  <2> HIDE DEF n, G
  <2> QED BY <1>4, <1>5 DEF Iterates
<1> DEFINE kept == CHOOSE h : h = [i \in 0..n |-> IF i = 0 THEN <<>> ELSE G(h[i - 1], i)]
<1>7. kept = [i \in 0..n |-> IF i = 0 THEN <<>> ELSE G(kept[i - 1], i)]
  BY Zenon, <1>6
<1>8. Among(s, S) = kept[n]
  BY DEF Among
<1>9. kept[0] = <<>> /\ \A i \in 1..n : kept[i] = G(kept[i - 1], i)
  <2> HIDE DEF kept, G, n
  <2> QED BY <1>1, <1>7
<1> HIDE DEF kept
<1> QED
  BY Zenon, <1>8, <1>9 DEF Chosen

(* Another element behind those that were looked at.                        *)
LEMMA SelectedStep ==
  ASSUME NEW X, NEW s \in Seq(X), NEW S, NEW a \in Seq(X), NEW i \in 1..Len(s),
         Selected(a, s, i - 1, S)
  PROVE  /\ s[i] \in S => Selected(Append(a, s[i]), s, i, S)
         /\ s[i] \notin S => Selected(a, s, i, S)
<1> DEFINE n == Len(a)
<1>0. n \in Nat /\ i \in Nat
  OBVIOUS
<1>1. PICK e \in [1..n -> 1..(i - 1)] :
        /\ \A j, k \in 1..n : j < k => e[j] < e[k]
        /\ \A k \in 1..n : a[k] = s[e[k]] /\ s[e[k]] \in S
        /\ \A j \in 1..(i - 1) : s[j] \in S => \E k \in 1..n : e[k] = j
  BY Zenon DEF Selected
<1>2. ASSUME s[i] \in S PROVE Selected(Append(a, s[i]), s, i, S)
  <2> DEFINE b == Append(a, s[i])
             g == [k \in 1..(n + 1) |-> IF k <= n THEN e[k] ELSE i]
  <2>1. Len(b) = n + 1 /\ b[n + 1] = s[i] /\ \A k \in 1..n : b[k] = a[k]
    OBVIOUS
  <2>2. g[n + 1] = i /\ (\A k \in 1..n : g[k] = e[k])
    BY <1>0
  <2>3. \A k \in 1..n : e[k] \in 1..(i - 1)
    BY <1>1
  <2>4. g \in [1..(n + 1) -> 1..i]
    BY <1>0, <2>3
  <2> HIDE DEF b, g, n
  <2>5. \A j, k \in 1..(n + 1) : j < k => g[j] < g[k]
    <3> SUFFICES ASSUME NEW j \in 1..(n + 1), NEW k \in 1..(n + 1), j < k PROVE g[j] < g[k]
      BY Zenon
    <3>1. CASE k <= n
      <4>1. j \in 1..n /\ k \in 1..n
        BY <1>0, <3>1
      <4> QED BY <1>1, <2>2, <4>1
    <3>2. CASE k = n + 1
      <4>1. j \in 1..n
        BY <1>0, <3>2
      <4>2. e[j] \in 1..(i - 1) /\ g[j] = e[j] /\ g[k] = i
        BY Zenon, <2>2, <2>3, <3>2, <4>1
      <4> QED BY <1>0, <4>2
    <3> QED BY <1>0, <3>1, <3>2
  <2>6. \A k \in 1..(n + 1) : b[k] = s[g[k]] /\ s[g[k]] \in S
    <3> SUFFICES ASSUME NEW k \in 1..(n + 1) PROVE b[k] = s[g[k]] /\ s[g[k]] \in S
      BY Zenon
    <3>1. CASE k \in 1..n
      BY Zenon, <1>1, <2>1, <2>2, <3>1
    <3>2. CASE k = n + 1
      BY <1>2, <2>1, <2>2, <3>2
    <3> QED BY <1>0, <3>1, <3>2
  <2>7. \A j \in 1..i : s[j] \in S => \E k \in 1..(n + 1) : g[k] = j
    <3> SUFFICES ASSUME NEW j \in 1..i, s[j] \in S PROVE \E k \in 1..(n + 1) : g[k] = j
      OBVIOUS
    <3>1. CASE j \in 1..(i - 1)
      <4>1. PICK k \in 1..n : e[k] = j
        BY <1>1, <3>1
      <4>2. k \in 1..(n + 1) /\ g[k] = j
        BY <1>0, <2>2, <4>1
      <4> QED BY Zenon, <4>2
    <3>2. CASE j = i
      <4>1. n + 1 \in 1..(n + 1)
        BY <1>0
      <4> QED BY <2>2, <3>2, <4>1
    <3> QED BY <1>0, <3>1, <3>2
  <2>8. Selected(b, s, i, S)
    <3>0. n + 1 = Len(b)
      BY <2>1
    <3>1. g \in [1..Len(b) -> 1..i]
      BY Zenon, <2>4, <3>0
    <3>2. \A j, k \in 1..Len(b) : j < k => g[j] < g[k]
      BY Zenon, <2>5, <3>0
    <3>3. \A k \in 1..Len(b) : b[k] = s[g[k]] /\ s[g[k]] \in S
      BY Zenon, <2>6, <3>0
    <3>4. \A j \in 1..i : s[j] \in S => \E k \in 1..Len(b) : g[k] = j
      BY Zenon, <2>7, <3>0
    <3> QED BY Zenon, <3>1, <3>2, <3>3, <3>4 DEF Selected
  <2> QED BY <2>8 DEF b
<1>3. ASSUME s[i] \notin S PROVE Selected(a, s, i, S)
  <2>1. e \in [1..n -> 1..i]
    BY <1>0, <1>1
  <2>2. \A j \in 1..i : s[j] \in S => j \in 1..(i - 1)
    BY <1>0, <1>3
  <2>3. \A j \in 1..i : s[j] \in S => \E k \in 1..n : e[k] = j
    BY <1>1, <2>2
  <2> QED BY Zenon, <1>1, <2>1, <2>3 DEF Selected
<1> QED
  BY <1>2, <1>3

(* Among selects what of the sequence is in the set.                        *)
LEMMA AmongIs ==
  ASSUME NEW X, NEW s \in Seq(X), NEW S
  PROVE  Among(s, S) \in Seq(X) /\ Selected(Among(s, S), s, Len(s), S)
<1>1. PICK f : Chosen(f, s, S) /\ Among(s, S) = f[Len(s)]
  BY AmongRecursion
<1> DEFINE n == Len(s)
           Good == {i \in 0..n : f[i] \in Seq(X) /\ Selected(f[i], s, i, S)}
<1>2. n \in Nat
  OBVIOUS
<1>3. 0 \in Good
  <2>1. f[0] = <<>> /\ Len(<<>>) = 0 /\ <<>> \in Seq(X)
    BY <1>1 DEF Chosen
  <2>2. 1..0 = {}
    OBVIOUS
  <2>3. [k \in 1..0 |-> 0] \in [1..0 -> 1..0]
    BY <2>2
  <2>4. Selected(<<>>, s, 0, S)
    BY Zenon, <2>1, <2>2, <2>3 DEF Selected
  <2>5. f[0] \in Seq(X) /\ Selected(f[0], s, 0, S)
    BY Zenon, <2>1, <2>4
  <2> QED BY <1>2, <2>5
<1>4. ASSUME NEW i \in 1..n, i - 1 \in Good PROVE i \in Good
  <2>1. f[i - 1] \in Seq(X) /\ Selected(f[i - 1], s, i - 1, S)
    BY <1>4
  <2>2. f[i] = IF s[i] \in S THEN Append(f[i - 1], s[i]) ELSE f[i - 1]
    BY <1>1 DEF Chosen
  <2>3. s[i] \in X
    OBVIOUS
  <2>4. f[i] \in Seq(X)
    BY <2>1, <2>2, <2>3
  <2>5. Selected(f[i], s, i, S)
    BY <2>1, <2>2, SelectedStep
  <2> QED BY <1>2, <2>4, <2>5
<1>5. \A i \in 0..n : i \in Good
  <2> HIDE DEF Good, n
  <2> QED BY Zenon, <1>2, <1>3, <1>4, InductionTo
<1> QED
  BY <1>1, <1>2, <1>5

(* It has the elements of the sequence that are in the set.                 *)
LEMMA AmongRange ==
  ASSUME NEW X, NEW s \in Seq(X), NEW S
  PROVE  Range(Among(s, S)) = Range(s) \cap S
<1> DEFINE a == Among(s, S)
<1>1. a \in Seq(X) /\ Selected(a, s, Len(s), S)
  BY AmongIs
<1> HIDE DEF a
<1>2. DOMAIN a = 1..Len(a) /\ DOMAIN s = 1..Len(s)
  BY <1>1
<1>3. PICK e \in [1..Len(a) -> 1..Len(s)] :
        /\ \A k \in 1..Len(a) : a[k] = s[e[k]] /\ s[e[k]] \in S
        /\ \A i \in 1..Len(s) : s[i] \in S => \E k \in 1..Len(a) : e[k] = i
  BY Zenon, <1>1 DEF Selected
<1>4. ASSUME NEW x \in Range(a) PROVE x \in Range(s) /\ x \in S
  <2>1. PICK k \in 1..Len(a) : x = a[k]
    BY <1>2 DEF Range
  <2>2. e[k] \in 1..Len(s)
    BY Zenon, <1>3
  <2> QED BY Zenon, <1>2, <1>3, <2>1, <2>2 DEF Range
<1>5. ASSUME NEW x \in Range(s), x \in S PROVE x \in Range(a)
  <2>1. PICK i \in 1..Len(s) : x = s[i]
    BY <1>2 DEF Range
  <2>2. PICK k \in 1..Len(a) : e[k] = i
    BY <1>3, <1>5, <2>1
  <2> QED BY <1>2, <1>3, <2>1, <2>2 DEF Range
<1>6. Range(a) = Range(s) \cap S
  BY <1>4, <1>5
<1> QED
  BY <1>6 DEF a

(* What is in a sequence is of the sequence's type.                         *)
LEMMA SeqHolds ==
  ASSUME NEW X, NEW s \in Seq(X)
  PROVE  Range(s) \subseteq X /\ \A i \in 1..Len(s) : s[i] \in X
BY DEF Range

(* The range of a sequence that grows.                                      *)
LEMMA AppendRange ==
  ASSUME NEW X, NEW s \in Seq(X), NEW x \in X
  PROVE  Append(s, x) \in Seq(X) /\ Range(Append(s, x)) = Range(s) \cup {x}
<1>1. PICK n \in Nat : n = Len(s) /\ DOMAIN s = 1..n
  OBVIOUS
<1>2. PICK a : a = Append(s, x)
  BY Zenon
<1>3. a \in Seq(X) /\ DOMAIN a = 1..(n + 1)
  BY <1>1, <1>2
<1>4. a[n + 1] = x /\ \A i \in 1..n : a[i] = s[i]
  BY <1>1, <1>2
<1>5. \A i \in 1..(n + 1) : i = n + 1 \/ i \in 1..n
  OBVIOUS
<1>6. n + 1 \in 1..(n + 1) /\ \A i \in 1..n : i \in 1..(n + 1)
  OBVIOUS
<1>7. Range(a) = {a[i] : i \in 1..(n + 1)} /\ Range(s) = {s[i] : i \in 1..n}
  BY <1>1, <1>3 DEF Range
<1>8. Range(a) \subseteq Range(s) \cup {x}
  BY Zenon, <1>4, <1>5, <1>7
<1>9. Range(s) \cup {x} \subseteq Range(a)
  BY <1>4, <1>6, <1>7
<1> QED
  BY <1>2, <1>3, <1>8, <1>9

(* An empty sequence has an empty range, and only that one.                 *)
LEMMA EmptyRange ==
  ASSUME NEW X, NEW s \in Seq(X)
  PROVE  Range(s) = {} <=> s = <<>>
<1>1. PICK n \in Nat : n = Len(s) /\ DOMAIN s = 1..n
  OBVIOUS
<1>2. Range(s) = {s[i] : i \in 1..n}
  BY <1>1 DEF Range
<1>3. CASE n = 0
  BY <1>1, <1>2, <1>3
<1>4. CASE n # 0
  <2>1. 1 \in 1..n
    BY <1>4
  <2>2. Range(s) # {}
    BY Zenon, <1>2, <2>1
  <2>3. s # <<>>
    BY <1>1, <1>4
  <2> QED BY <2>2, <2>3
<1> QED
  BY <1>3, <1>4

-----------------------------------------------------------------------------
(* What a change of the mounts makes of the tree.                          *)

Changes ==
  \/ \E p \in Path \ {<<>>}, d \in Dev : Mount(p, d)
  \/ \E p \in Path : Umount(p)
  \/ \E p \in Path, q \in Path \ {<<>>} : Move(p, q)

Operates ==
  \/ Prepare \/ FreezeTarget \/ Rollback \/ Commit \/ Restart
  \/ Discover \/ TrackedDrain \/ DrainTarget \/ DrainRest
  \/ StartTrim \/ TrimTarget \/ TrimReply

(* The kernel's steps leave the operation alone, and its steps the mounts.  *)
LEMMA StepsApart ==
  ASSUME [Next]_vars
  PROVE  \/ Changes /\ UNCHANGED opVars /\ plain' = plain
         \/ Operates /\ UNCHANGED kernelVars
         \/ UNCHANGED vars
<1>1. ASSUME Changes PROVE UNCHANGED opVars /\ plain' = plain
  BY <1>1, Zenon DEF Changes, Mount, Umount, Move
<1>2. ASSUME Operates PROVE UNCHANGED kernelVars
  BY <1>2, Zenon DEF Operates, Prepare, FreezeTarget, Rollback, Commit, Restart, Discover,
       TrackedDrain, DrainTarget, DrainRest, StartTrim, TrimTarget, TrimReply
<1>3. Next => Changes \/ Operates
  BY Zenon DEF Next, Changes, Operates
<1> QED BY <1>1, <1>2, <1>3

(* What an unmounted path shows is a mount that was made.                   *)
LEMMA UncoveredIs ==
  ASSUME Shown, NEW p \in Path, vis[p] # Root
  PROVE  vis[p] - 1 \in 1..Len(saved) /\ Uncovered(p) \in [Path -> 1..Made]
<1>1. PICK n \in Nat : n = Len(saved) /\ Made = n + 1
  BY DEF Shown, Made
<1>2. vis[p] \in 1..(n + 1) /\ vis[p] # 1
  BY <1>1 DEF Shown, Root
<1>3. vis[p] - 1 \in 1..n
  BY <1>2
<1>4. saved[vis[p] - 1] \in [Path -> 1..Made] /\ vis \in [Path -> 1..Made]
  BY <1>1, <1>3, Zenon DEF Shown
<1>5. Uncovered(p) \in [Path -> 1..Made]
  <2> HIDE DEF Made
  <2> QED BY <1>4, Zenon DEF Uncovered
<1> QED
  BY <1>1, <1>3, <1>5

(* A mount keeps the table and the kernel in agreement.                     *)
LEMMA TreeMount ==
  ASSUME Ordered, Shown, TreeInv, NEW p \in Path \ {<<>>}, NEW d \in Dev, Mount(p, d)
  PROVE  TreeInv'
<1>1. PICK n \in Nat : n = Len(saved) /\ Made = n + 1
  BY DEF Shown, Made
<1>2. PICK row : row = [id |-> n + 2, parent |-> vis[p], at |-> p, dev |-> d]
  BY Zenon
<1>3. /\ table' = Append(table, row) /\ saved' = Append(saved, vis)
      /\ vis' = [q \in Path |-> IF Under(p, q) THEN n + 2 ELSE vis[q]]
  BY <1>1, <1>2 DEF Mount
<1>4. vis[p] \in Nat
  BY <1>1 DEF Shown
<1>5. /\ row \in RowSet /\ row.id = n + 2 /\ row.id > Root /\ row.at = p /\ row.at # <<>>
      /\ row.parent = vis[row.at]
  BY <1>2, <1>4 DEF RowSet, Root
<1>6. table \in Seq(RowSet)
  BY Zenon DEF Ordered
<1>7. Rows(table') = Rows(table) \cup {row}
  <2>1. table' \in Seq(RowSet) /\ Range(table') = Range(table) \cup {row}
    BY Zenon, <1>3, <1>5, <1>6, AppendRange
  <2> QED BY Zenon, <1>6, <2>1, RowsAre
<1>8. \A x \in Rows(table) : x.id # row.id /\ x.parent # row.id
  <2>1. \A x \in Rows(table) : x.id \in 1..(n + 1) /\ x.parent \in 0..(n + 1)
    BY Zenon, <1>1, IdsGiven
  <2> QED BY <1>5, <2>1
<1>9. saved \in Seq([Path -> Nat]) /\ vis \in [Path -> Nat]
  <2>1. 1..Made \subseteq Nat
    BY <1>1
  <2> QED BY <2>1 DEF Shown
<1>10. saved'[row.id - 1] = vis
  <2>1. row.id - 1 = n + 1
    BY <1>5
  <2> QED BY <1>1, <1>3, <1>9, <2>1
<1>11. \A x \in Rows(table) : x.id # Root => saved'[x.id - 1] = saved[x.id - 1]
  <2>1. \A k \in 1..n : saved'[k] = saved[k]
    BY <1>1, <1>3, <1>9
  <2> QED BY Zenon, <1>1, <2>1, IdsGiven
<1>12. \A q \in Path : vis'[q] = IF Under(row.at, q) THEN row.id ELSE vis[q]
  BY <1>3, <1>5, Zenon
<1> QED
  BY <1>5, <1>7, <1>8, <1>10, <1>11, <1>12, AttachAgrees DEF TreeInv

(* The mount that can be taken from a path, and what is left.               *)
LEMMA Detached ==
  ASSUME Ordered, Shown, TreeInv, NEW p \in Path, Detachable(p)
  PROVE  \E m \in Rows(table) :
           /\ m = RowOf(vis[p]) /\ m.id = vis[p] /\ m.at = p /\ m.id # Root
           /\ \A x \in Rows(table) : x.parent # m.id /\ (x.id = m.id => x = m)
           /\ Agrees(Rows(table) \ {m}, Uncovered(p), saved)
<1>1. PICK m \in Rows(table) : m = RowOf(vis[p]) /\ m.id = vis[p]
  BY Zenon, RowOfIs
<1>2. m.at = p /\ m.id # Root /\ \A x \in Rows(table) : x.parent # m.id
  BY <1>1 DEF Detachable
<1>3. \A x \in Rows(table) : x.id = m.id => x = m
  BY Zenon DEF TreeInv, Agrees, Tree
<1>4. \A q \in Path :
        Uncovered(p)[q] = IF Under(m.at, q) THEN saved[m.id - 1][q] ELSE vis[q]
  BY <1>1, <1>2, Zenon DEF Uncovered
<1>5. Agrees(Rows(table) \ {m}, Uncovered(p), saved)
  BY <1>1, <1>2, <1>4, DetachAgrees DEF TreeInv
<1> QED
  BY Zenon, <1>1, <1>2, <1>3, <1>5

(* So does an unmount.                                                      *)
LEMMA TreeUmount ==
  ASSUME Ordered, Shown, TreeInv, NEW p \in Path, Umount(p)
  PROVE  TreeInv'
<1>1. /\ Detachable(p) /\ saved' = saved /\ vis' = Uncovered(p)
      /\ table' = Among(table, {r \in Rows(table) : r.id # vis[p]})
  BY Zenon DEF Umount
<1>2. PICK m \in Rows(table) :
        /\ m.id = vis[p] /\ \A x \in Rows(table) : x.id = m.id => x = m
        /\ Agrees(Rows(table) \ {m}, Uncovered(p), saved)
  BY Zenon, <1>1, Detached
<1>3. table \in Seq(RowSet)
  BY Zenon DEF Ordered
<1>4. Rows(table') = Rows(table) \cap {r \in Rows(table) : r.id # vis[p]}
  <2>1. /\ table' \in Seq(RowSet)
        /\ Range(table') = Range(table) \cap {r \in Rows(table) : r.id # vis[p]}
    BY Zenon, <1>1, <1>3, AmongIs, AmongRange
  <2> QED BY Zenon, <1>3, <2>1, RowsAre
<1>5. Rows(table') = Rows(table) \ {m}
  BY Zenon, <1>2, <1>4
<1> QED
  BY Zenon, <1>1, <1>2, <1>5 DEF TreeInv

(* And so does a move.                                                      *)
LEMMA TreeMove ==
  ASSUME Ordered, Shown, TreeInv, NEW p \in Path, NEW q \in Path \ {<<>>}, Move(p, q)
  PROVE  TreeInv'
<1> DEFINE u == Uncovered(p)
           R == Rows(table)
<1>1. /\ Detachable(p)
      /\ table' = [i \in DOMAIN table |->
                     IF table[i].id = vis[p]
                     THEN [table[i] EXCEPT !.parent = u[q], !.at = q] ELSE table[i]]
      /\ saved' = [saved EXCEPT ![vis[p] - 1] = u]
      /\ vis' = [x \in Path |-> IF Under(q, x) THEN vis[p] ELSE u[x]]
  BY Zenon DEF Move
<1>2. PICK m \in R :
        /\ m.id = vis[p] /\ m.id # Root
        /\ \A x \in R : x.parent # m.id /\ (x.id = m.id => x = m)
        /\ Agrees(R \ {m}, u, saved)
  BY Zenon, <1>1, Detached
<1>3. PICK row : row = [m EXCEPT !.parent = u[q], !.at = q]
  OBVIOUS
<1>4. table \in Seq(RowSet) /\ m \in RowSet
  BY Zenon, <1>2, RowsAre DEF Ordered
<1>5. u[q] \in Nat
  <2>1. vis[p] # Root
    BY Zenon, <1>1 DEF Detachable
  <2>2. u \in [Path -> 1..Made]
    BY Zenon, <2>1, UncoveredIs
  <2>3. Made \in Nat
    BY DEF Shown, Made
  <2> QED BY <2>2, <2>3
<1> HIDE DEF u
<1>6. /\ row \in RowSet /\ row.id = m.id /\ row.at = q /\ row.at # <<>> /\ row.parent = u[row.at]
  BY Zenon, <1>3, <1>4, <1>5 DEF RowSet
<1>7. row.id > Root
  BY <1>2, <1>6, IdsGiven DEF Root
<1>8. \A x \in R \ {m} : x.id # row.id /\ x.parent # row.id
  BY Zenon, <1>2, <1>6
<1>9. Rows(table') = (R \ {m}) \cup {row}
  <2>1. PICK k \in Nat : k = Len(table) /\ DOMAIN table = 1..k
    BY <1>4
  <2>2. Rows(table') = {table'[i] : i \in 1..k} /\ R = {table[i] : i \in 1..k}
    BY Zenon, <1>1, <2>1 DEF Rows
  <2>3. \A i \in 1..k : table[i].id = m.id => table[i] = m
    BY Zenon, <1>2, <2>2
  <2>4. \A i \in 1..k : table'[i] = IF table[i] = m THEN row ELSE table[i]
    <3>1. ASSUME NEW i \in 1..k, table[i] = m PROVE table'[i] = row
      BY Zenon, <1>1, <1>2, <1>3, <2>1, <3>1
    <3>2. ASSUME NEW i \in 1..k, table[i] # m PROVE table'[i] = table[i]
      BY Zenon, <1>1, <1>2, <2>1, <2>3, <3>2
    <3> QED BY <3>1, <3>2
  <2>5. \E i \in 1..k : table[i] = m
    BY Zenon, <1>2, <2>2
  <2> HIDE DEF R
  <2>6. ASSUME NEW i \in 1..k PROVE table'[i] \in (R \ {m}) \cup {row}
    BY Zenon, <2>2, <2>4
  <2>7. ASSUME NEW x \in (R \ {m}) \cup {row} PROVE \E i \in 1..k : x = table'[i]
    BY <2>2, <2>4, <2>5
  <2>8. PICK T : T = (R \ {m}) \cup {row}
    BY Zenon
  <2>9. \A x : x \in Rows(table') <=> \E i \in 1..k : x = table'[i]
    BY Zenon, <2>2
  <2>10. ASSUME NEW x \in Rows(table') PROVE x \in T
    <3>1. PICK i \in 1..k : x = table'[i]
      BY Zenon, <2>9
    <3>2. table'[i] \in (R \ {m}) \cup {row}
      BY Zenon, <2>6
    <3> QED BY Zenon, <2>8, <3>1, <3>2
  <2>11. ASSUME NEW x \in T PROVE x \in Rows(table')
    <3>1. x \in (R \ {m}) \cup {row}
      BY Zenon, <2>8
    <3>2. \E i \in 1..k : x = table'[i]
      BY Zenon, <2>7, <3>1
    <3> QED BY Zenon, <2>9, <3>2
  <2>12. Rows(table') = T
    BY Zenon, <2>10, <2>11
  <2> QED BY Zenon, <2>8, <2>12
<1>10. \A x \in Path : vis'[x] = IF Under(row.at, x) THEN row.id ELSE u[x]
  BY <1>1, <1>2, <1>6, Zenon
<1>11. saved'[row.id - 1] = u /\ \A x \in R \ {m} : x.id # Root => saved'[x.id - 1] = saved[x.id - 1]
  <2>0. saved \in Seq([Path -> Nat])
    BY DEF Shown
  <2>1. PICK n \in Nat : n = Len(saved) /\ DOMAIN saved = 1..n
    BY <2>0
  <2>2. \A x \in R : x.id \in Nat /\ (x.id # Root => x.id - 1 \in 1..n)
    BY <2>1, IdsGiven DEF Made
  <2>3. row.id - 1 \in 1..n /\ row.id = vis[p]
    BY <1>2, <1>6, <2>2
  <2>4. saved'[row.id - 1] = u
    BY Zenon, <1>1, <2>1, <2>3
  <2>5. ASSUME NEW x \in R \ {m}, x.id # Root PROVE saved'[x.id - 1] = saved[x.id - 1]
    <3>0. x.id \in Nat /\ x.id - 1 \in 1..n /\ x.id # vis[p] /\ vis[p] \in Nat
      BY Zenon, <1>2, <1>8, <2>2, <2>3, <2>5
    <3>1. x.id - 1 \in 1..n /\ x.id - 1 # vis[p] - 1
      BY <3>0
    <3> QED BY Zenon, <1>1, <2>1, <3>1
  <2> QED BY Zenon, <2>4, <2>5
<1> QED
  BY <1>2, <1>6, <1>7, <1>8, <1>9, <1>10, <1>11, AttachAgrees DEF TreeInv

(* The table and the kernel agree at the start.                             *)
LEMMA TreeInit == Init => TreeInv
<1> SUFFICES ASSUME Init PROVE TreeInv
  BY Zenon
<1>1. PICK parent \in {0, Root} :
        table = <<[id |-> Root, parent |-> parent, at |-> <<>>, dev |-> RootDev]>>
  BY DEF Init
<1>2. PICK row : row = [id |-> Root, parent |-> parent, at |-> <<>>, dev |-> RootDev]
  BY Zenon
<1>3. /\ row \in RowSet /\ row.id = Root /\ row.parent \in {0, Root} /\ row.at = <<>>
      /\ Root >= Root
  BY <1>2, PlanAssumption DEF RowSet, Root
<1>4. table = <<row>> /\ \A q \in Path : vis[q] = Root
  BY <1>1, <1>2 DEF Init
<1>5. Rows(table) = {row}
  BY <1>4 DEF Rows
<1>6. \A i : Kids({row}, i) = {}
  BY Zenon, <1>3 DEF Kids
<1>7. Tree({row})
  BY Zenon, <1>3, <1>6 DEF Tree
<1>8. Depths({row}, [i \in Nat |-> 0])
  BY <1>3 DEF Depths, Root
<1>9. Seen({row}, vis)
  <2>1. Open({row}, {row})
    BY Zenon, <1>3 DEF Open
  <2>2. \A q \in Path : Ends({row}, row, q)
    BY <1>3, <1>6, PathOrder DEF Ends
  <2> QED BY Zenon, <1>3, <1>4, <2>1, <2>2 DEF Seen
<1>10. Kept({row}, saved)
  BY Zenon, <1>3 DEF Kept
<1>11. \E rk : Depths({row}, rk)
  BY <1>8
<1> QED
  BY Zenon, <1>5, <1>7, <1>9, <1>10, <1>11 DEF TreeInv, Agrees

(* And ever after.                                                          *)
LEMMA TreeNext ==
  ASSUME Ordered, Shown, TreeInv, [Next]_vars
  PROVE  TreeInv'
<1>1. CASE Changes
  BY <1>1, TreeMount, TreeUmount, TreeMove, Zenon DEF Changes
<1>2. CASE UNCHANGED kernelVars
  BY Zenon, <1>2 DEF kernelVars, TreeInv
<1> QED
  BY <1>1, <1>2, StepsApart DEF vars

-----------------------------------------------------------------------------
(* The order of the table.                                                 *)

(* A mount that is made is the last and the youngest.                       *)
LEMMA OrderedMount ==
  ASSUME Ordered, Shown, NEW p \in Path, NEW d \in Dev, Mount(p, d)
  PROVE  Ordered' /\ Shown'
<1>1. PICK n \in Nat : n = Len(saved) /\ Made = n + 1
  BY DEF Shown, Made
<1>2. PICK m \in Nat : m = Len(table)
  BY DEF Ordered
<1>3. PICK row : row = [id |-> n + 2, parent |-> vis[p], at |-> p, dev |-> d]
  BY Zenon
<1>4. /\ table' = Append(table, row) /\ saved' = Append(saved, vis)
      /\ vis' = [q \in Path |-> IF Under(p, q) THEN n + 2 ELSE vis[q]]
  BY <1>1, <1>3 DEF Mount
<1>5. vis \in [Path -> 1..(n + 1)] /\ vis[p] \in 1..(n + 1)
  BY <1>1, Zenon DEF Shown
<1>6. row \in RowSet /\ row.id = n + 2 /\ row.parent <= n + 1
  BY <1>3, <1>5 DEF RowSet
<1>7. saved \in Seq([Path -> Nat]) /\ vis \in [Path -> Nat]
  BY <1>5 DEF Shown
<1>8. Len(saved') = n + 1 /\ saved' \in Seq([Path -> Nat]) /\ Made' = n + 2
  BY <1>1, <1>4, <1>7 DEF Made
<1>9. /\ table' \in Seq(RowSet) /\ Len(table') = m + 1 /\ table'[m + 1] = row
      /\ \A i \in 1..m : table'[i] = table[i]
  BY <1>2, <1>4, <1>6 DEF Ordered
<1>10. \A i \in 1..m : table[i].id \in Nat /\ table[i].id <= n + 1
  <2>1. \A i \in 1..m : table[i] \in RowSet
    BY <1>2 DEF Ordered
  <2> QED BY Zenon, <1>1, <1>2, <2>1 DEF Ordered, RowSet
<1>11. Ordered'
  <2>1. ASSUME NEW i \in 1..(m + 1), NEW j \in 1..(m + 1), i < j
        PROVE  table'[i].id < table'[j].id
    <3>1. CASE j = m + 1
      <4>1. i \in 1..m
        BY <2>1, <3>1
      <4>2. table'[i].id = table[i].id /\ table'[j].id = n + 2
        BY Zenon, <1>6, <1>9, <3>1, <4>1
      <4>3. table[i].id \in Nat /\ table[i].id <= n + 1
        BY Zenon, <1>10, <4>1
      <4> QED BY <4>2, <4>3
    <3>2. CASE j # m + 1
      <4>1. i \in 1..m /\ j \in 1..m
        BY <2>1, <3>2
      <4> QED BY <1>2, <1>9, <2>1, <4>1 DEF Ordered
    <3> QED BY Zenon, <3>1, <3>2
  <2>2. ASSUME NEW i \in 1..(m + 1) PROVE table'[i].id <= n + 2
    <3>1. CASE i = m + 1
      BY <1>6, <1>9, <3>1
    <3>2. CASE i # m + 1
      <4>1. i \in 1..m
        BY <3>2
      <4>2. table'[i].id = table[i].id /\ table[i].id \in Nat /\ table[i].id <= n + 1
        BY <1>9, <1>10, <4>1
      <4> QED BY <4>2
    <3> QED BY Zenon, <3>1, <3>2
  <2> QED BY <1>8, <1>9, <2>1, <2>2, Zenon DEF Ordered
<1>12. Shown'
  <2>1. vis' \in [Path -> 1..(n + 2)]
    BY <1>4, <1>5
  <2>2. ASSUME NEW k \in 1..(n + 1) PROVE saved'[k] \in [Path -> 1..(n + 2)]
    <3>1. CASE k = n + 1
      BY <1>1, <1>4, <1>5, <1>7, <3>1
    <3>2. CASE k # n + 1
      <4>1. k \in 1..n
        BY <3>2
      <4>2. saved'[k] = saved[k]
        BY <1>1, <1>4, <1>7, <4>1
      <4>3. saved[k] \in [Path -> 1..(n + 1)]
        BY <1>1, <4>1, Zenon DEF Shown
      <4> QED BY <4>2, <4>3
    <3> QED BY Zenon, <3>1, <3>2
  <2> QED BY <1>8, <2>1, <2>2, Zenon DEF Shown
<1> QED
  BY Zenon, <1>11, <1>12

(* What is unmounted leaves the others in their order.                      *)
LEMMA OrderedUmount ==
  ASSUME Ordered, Shown, NEW p \in Path, Umount(p)
  PROVE  Ordered' /\ Shown'
<1> DEFINE S == {r \in Rows(table) : r.id # vis[p]}
           a == Among(table, S)
<1>1. /\ table' = a /\ saved' = saved /\ vis' = Uncovered(p)
      /\ vis[p] # Root
  BY Zenon DEF Umount, Detachable
<1>2. a \in Seq(RowSet) /\ Selected(a, table, Len(table), S)
  BY Zenon, AmongIs DEF Ordered
<1> HIDE DEF a, S
<1>3. PICK m \in Nat : m = Len(table)
  BY DEF Ordered
<1>4. PICK k \in Nat : k = Len(a)
  BY <1>2
<1>5. PICK e \in [1..k -> 1..m] :
        /\ \A i, j \in 1..k : i < j => e[i] < e[j]
        /\ \A i \in 1..k : a[i] = table[e[i]]
  BY <1>2, <1>3, <1>4, Zenon DEF Selected
<1>6. \A i \in 1..k : e[i] \in 1..m
  BY <1>5
<1>7. Made' = Made
  BY <1>1 DEF Made
<1>8. Ordered'
  <2>1. \A i, j \in 1..k : i < j => a[i].id < a[j].id
    BY <1>3, <1>5, <1>6, Zenon DEF Ordered
  <2>2. \A i \in 1..k : a[i].id <= Made
    BY <1>3, <1>5, <1>6, Zenon DEF Ordered
  <2> QED BY <1>1, <1>2, <1>4, <1>7, <2>1, <2>2, Zenon DEF Ordered
<1>9. Shown'
  <2>1. Uncovered(p) \in [Path -> 1..Made]
    BY <1>1, UncoveredIs
  <2> QED BY <1>1, <1>7, <2>1, Zenon DEF Shown
<1> QED
  BY Zenon, <1>8, <1>9

(* A mount that is moved keeps its place in the table.                      *)
LEMMA OrderedMove ==
  ASSUME Ordered, Shown, NEW p \in Path, NEW q \in Path, Move(p, q)
  PROVE  Ordered' /\ Shown'
<1> DEFINE u == Uncovered(p)
           Moved(r) == IF r.id = vis[p] THEN [r EXCEPT !.parent = u[q], !.at = q] ELSE r
<1>1. /\ table' = [i \in DOMAIN table |-> Moved(table[i])]
      /\ saved' = [saved EXCEPT ![vis[p] - 1] = u]
      /\ vis' = [x \in Path |-> IF Under(q, x) THEN vis[p] ELSE u[x]]
      /\ vis[p] # Root
  BY Zenon DEF Move, Detachable
<1>2. vis[p] - 1 \in 1..Len(saved) /\ u \in [Path -> 1..Made]
  BY Zenon, <1>1, UncoveredIs
<1> HIDE DEF u
<1>3. PICK n \in Nat : n = Len(saved) /\ Made = n + 1
  BY DEF Shown, Made
<1>4. PICK m \in Nat : m = Len(table) /\ DOMAIN table = 1..m
  BY DEF Ordered
<1>5. \A i \in 1..m : table[i] \in RowSet
  BY <1>4 DEF Ordered
<1>6. u[q] \in Nat
  BY <1>2, <1>3
<1>7. \A r \in RowSet : Moved(r) \in RowSet /\ Moved(r).id = r.id
  BY Zenon, <1>6 DEF RowSet
<1> HIDE DEF Moved
<1>8. \A i \in 1..m : table'[i] \in RowSet /\ table'[i].id = table[i].id
  BY Zenon, <1>1, <1>4, <1>5, <1>7
<1>9. table' \in Seq(RowSet) /\ Len(table') = m
  BY <1>1, <1>4, <1>8
<1>10. /\ Len(saved') = n /\ saved' \in Seq([Path -> Nat])
       /\ \A k \in 1..n : saved'[k] \in [Path -> 1..Made]
  <2>1. saved \in Seq([Path -> Nat]) /\ \A k \in 1..n : saved[k] \in [Path -> 1..Made]
    BY <1>3, Zenon DEF Shown
  <2>2. 1..Made \subseteq Nat
    BY <1>3
  <2>3. u \in [Path -> Nat]
    BY <1>2, <2>2
  <2> HIDE DEF Made
  <2>4. PICK v : v = vis[p] - 1
    BY Zenon
  <2>5. v \in 1..n /\ saved' = [saved EXCEPT ![v] = u]
    BY Zenon, <1>1, <1>2, <1>3, <2>4
  <2>6. DOMAIN saved = 1..n /\ \A k \in 1..n : saved[k] \in [Path -> Nat]
    BY <1>3, <2>1
  <2>7. \A k \in 1..n : saved'[k] = IF k = v THEN u ELSE saved[k]
    BY <2>5, <2>6
  <2>8. saved' = [k \in 1..n |-> IF k = v THEN u ELSE saved[k]]
    BY Zenon, <2>5, <2>6, <2>7
  <2>9. \A k \in 1..n : saved'[k] \in [Path -> 1..Made]
    BY <1>2, <2>1, <2>7, Zenon
  <2>10. \A k \in 1..n : saved'[k] \in [Path -> Nat]
    BY <2>3, <2>6, <2>7, Zenon
  <2>11. saved' \in Seq([Path -> Nat]) /\ Len(saved') = n
    BY <2>8, <2>10
  <2> QED BY <2>9, <2>11
<1>11. Made' = Made
  BY Zenon, <1>3, <1>10 DEF Made
<1>12. Ordered'
  <2>1. \A i, j \in 1..m : i < j => table'[i].id < table'[j].id
    BY Zenon, <1>4, <1>8 DEF Ordered
  <2>2. \A i \in 1..m : table'[i].id <= Made
    BY <1>4, <1>8 DEF Ordered
  <2> QED BY <1>9, <1>11, <2>1, <2>2, Zenon DEF Ordered
<1>13. Shown'
  <2>1. vis[p] \in 1..Made
    BY Zenon DEF Shown
  <2>2. vis' \in [Path -> 1..Made]
    <3> HIDE DEF Made
    <3> QED BY <1>1, <1>2, <2>1, Zenon
  <2> QED BY <1>10, <1>11, <2>2, Zenon DEF Shown
<1> QED
  BY <1>12, <1>13

(* The order of the table is kept by every step.                            *)
LEMMA OrderedNext ==
  ASSUME Ordered, Shown, [Next]_vars
  PROVE  Ordered' /\ Shown'
<1>1. CASE Changes
  BY <1>1, OrderedMount, OrderedUmount, OrderedMove, Zenon DEF Changes
<1>2. CASE UNCHANGED kernelVars
  BY <1>2 DEF kernelVars, Ordered, Shown, Made
<1> QED
  BY <1>1, <1>2, StepsApart DEF vars

\* The order of the mounts and what the kernel shows of them.
MountInv == Ordered /\ Shown

(* The kernel starts with the root mount.                                   *)
LEMMA MountInit == Init => MountInv
<1> SUFFICES ASSUME Init PROVE Ordered /\ Shown
  BY Zenon DEF MountInv
<1>1. PICK parent \in {0, Root} :
        table = <<[id |-> Root, parent |-> parent, at |-> <<>>, dev |-> RootDev]>>
  BY DEF Init
<1>2. PICK row : row = [id |-> Root, parent |-> parent, at |-> <<>>, dev |-> RootDev]
  BY Zenon
<1>3. row \in RowSet /\ row.id = 1 /\ row.parent <= 1
  BY <1>2, PlanAssumption DEF RowSet, Root
<1>4. table = <<row>> /\ vis = [q \in Path |-> 1] /\ saved = <<>>
  BY <1>1, <1>2 DEF Init, Root
<1>5. Made = 1
  BY <1>4 DEF Made
<1>6. Ordered
  BY <1>3, <1>4, <1>5 DEF Ordered
<1>7. Shown
  BY <1>4, <1>5 DEF Shown
<1> QED BY <1>6, <1>7

-----------------------------------------------------------------------------
(* The plan.                                                               *)

TargetSet == [dev : EligibleDev, points : Seq(Path), requested : Seq(Path)]

(* The first rows of the eligible superblocks, in the order of the table.   *)
LEMMA FirstsAre ==
  ASSUME NEW t \in Seq(RowSet)
  PROVE  /\ Firsts(t) \in Seq(1..Len(t))
         /\ \A j, k \in 1..Len(Firsts(t)) : j < k => Firsts(t)[j] < Firsts(t)[k]
         /\ \A k \in 1..Len(Firsts(t)) :
              /\ t[Firsts(t)[k]].dev \in EligibleDev
              /\ \A j \in 1..(Firsts(t)[k] - 1) : t[j].dev # t[Firsts(t)[k]].dev
         /\ \A i \in 1..Len(t) : t[i].dev \in EligibleDev =>
              \E k \in 1..Len(Firsts(t)) : Firsts(t)[k] <= i /\ t[Firsts(t)[k]].dev = t[i].dev
<1> DEFINE n == Len(t)
           s == [i \in 1..n |-> i]
           S == {i \in 1..n : t[i].dev \in EligibleDev /\ \A j \in 1..(i - 1) : t[j].dev # t[i].dev}
           f == Among(s, S)
<1>0. n \in Nat /\ DOMAIN t = 1..n
  OBVIOUS
<1>1. Firsts(t) = f
  BY <1>0, Zenon DEF Firsts, IsEligible
<1>2. s \in Seq(1..n) /\ Len(s) = n
  BY <1>0
<1>3. \A i \in 1..n : s[i] = i
  BY Zenon
<1> HIDE DEF s
<1>4. f \in Seq(1..n) /\ Selected(f, s, n, S)
  BY <1>2, AmongIs
<1> HIDE DEF f, S
<1>5. PICK e \in [1..Len(f) -> 1..n] :
        /\ \A j, k \in 1..Len(f) : j < k => e[j] < e[k]
        /\ \A k \in 1..Len(f) : f[k] = s[e[k]] /\ s[e[k]] \in S
        /\ \A i \in 1..n : s[i] \in S => \E k \in 1..Len(f) : e[k] = i
  BY <1>4, Zenon DEF Selected
<1>6. \A k \in 1..Len(f) : f[k] = e[k] /\ e[k] \in S /\ e[k] \in 1..n
  BY <1>3, <1>5
<1>7. \A i \in S : i \in 1..n => \E k \in 1..Len(f) : f[k] = i
  BY <1>3, <1>5, <1>6
<1>8. \A j, k \in 1..Len(f) : j < k => f[j] < f[k]
  BY <1>5, <1>6
<1>9. \A k \in 1..Len(f) : /\ t[f[k]].dev \in EligibleDev
                           /\ \A j \in 1..(f[k] - 1) : t[j].dev # t[f[k]].dev
  BY <1>6, Zenon DEF S
<1>10. ASSUME NEW i \in 1..n, t[i].dev \in EligibleDev
       PROVE  \E k \in 1..Len(f) : f[k] <= i /\ t[f[k]].dev = t[i].dev
  <2> DEFINE Same == {j \in 1..n : t[j].dev = t[i].dev}
  <2>1. Same \in SUBSET Nat /\ i \in Same
    BY <1>0
  <2>2. PICK m \in Same : \A j \in Same : m <= j
    <3> HIDE DEF Same
    <3> QED BY Zenon, <2>1, LeastNumber
  <2>3. m \in 1..n /\ t[m].dev = t[i].dev /\ m <= i
    BY Zenon, <2>1, <2>2
  <2>4. \A j \in 1..(m - 1) : t[j].dev # t[m].dev
    <3> SUFFICES ASSUME NEW j \in 1..(m - 1), t[j].dev = t[m].dev PROVE FALSE
      OBVIOUS
    <3>1. j \in 1..n /\ ~(m <= j)
      BY <1>0, <2>3
    <3>2. j \in Same
      BY Zenon, <2>3, <3>1
    <3> QED BY <2>2, <3>1, <3>2
  <2>5. m \in S
    BY <1>10, <2>3, <2>4 DEF S
  <2>6. PICK k \in 1..Len(f) : f[k] = m
    BY Zenon, <1>7, <2>3, <2>5
  <2> QED BY Zenon, <2>3, <2>6
<1> QED
  BY <1>1, <1>4, <1>8, <1>9, <1>10, Zenon

(* A plan has a target for each eligible superblock of the table, once.     *)
LEMMA BuildIs ==
  ASSUME NEW t \in Seq(RowSet)
  PROVE  /\ Build(t) \in Seq(TargetSet) /\ Len(Build(t)) = Len(Firsts(t))
         /\ \A k \in 1..Len(Firsts(t)) : Build(t)[k].dev = t[Firsts(t)[k]].dev
         /\ Distinct(Build(t))
<1> DEFINE f == Firsts(t)
           b == Build(t)
<1>1. /\ f \in Seq(1..Len(t))
      /\ \A j, k \in 1..Len(f) : j < k => f[j] < f[k]
      /\ \A k \in 1..Len(f) :
           t[f[k]].dev \in EligibleDev /\ \A j \in 1..(f[k] - 1) : t[j].dev # t[f[k]].dev
  BY FirstsAre
<1>2. b = [k \in DOMAIN f |-> Target(t, t[f[k]].dev)]
  BY Zenon DEF Build
<1> HIDE DEF f, b
<1>3. DOMAIN f = 1..Len(f) /\ Len(f) \in Nat
  BY <1>1
<1>4. ASSUME NEW d \in EligibleDev PROVE Target(t, d) \in TargetSet /\ Target(t, d).dev = d
  <2>1. RowsOf(t, d) \in Seq(RowSet)
    BY AmongIs DEF RowsOf
  <2>2. PICK rows \in Seq(RowSet) : rows = RowsOf(t, d)
    BY <2>1
  <2>3. Points(rows) \in Seq(Path)
    <3>1. PICK m \in Nat : m = Len(rows) /\ DOMAIN rows = 1..m
      OBVIOUS
    <3>2. \A i \in 1..m : rows[i] \in RowSet
      BY <3>1
    <3>3. \A i \in 1..m : rows[i].at \in Path
      BY <3>2 DEF RowSet
    <3>4. [i \in 1..m |-> rows[i].at] \in Seq(Path)
      BY <3>3
    <3> QED BY <3>1, <3>4 DEF Points
  <2>4. <<>> \in Seq(Path)
    OBVIOUS
  <2> QED BY <2>2, <2>3, <2>4 DEF Target, TargetSet
<1>5. \A k \in 1..Len(f) : b[k] \in TargetSet /\ b[k].dev = t[f[k]].dev
  BY Zenon, <1>1, <1>2, <1>3, <1>4
<1>6. b \in Seq(TargetSet) /\ Len(b) = Len(f)
  BY <1>2, <1>3, <1>5
<1>7. Distinct(b)
  <2> SUFFICES ASSUME NEW j \in 1..Len(f), NEW k \in 1..Len(f), t[f[j]].dev = t[f[k]].dev
               PROVE  j = k
    BY <1>5, <1>6 DEF Distinct
  <2>1. ASSUME NEW p \in 1..Len(f), NEW q \in 1..Len(f), p < q PROVE t[f[p]].dev # t[f[q]].dev
    <3>0. f[p] \in 1..Len(t) /\ f[q] \in 1..Len(t)
      <4>1. f \in Seq(1..Len(t))
        BY Zenon, <1>1
      <4> QED BY Zenon, <4>1, SeqHolds
    <3>1. f[p] \in Nat /\ f[q] \in Nat /\ f[p] >= 1 /\ f[p] < f[q]
      <4>1. f[p] < f[q]
        BY Zenon, <1>1, <2>1
      <4> QED BY <3>0, <4>1
    <3>2. f[p] \in 1..(f[q] - 1)
      BY <3>1
    <3> QED BY Zenon, <1>1, <3>2
  <2> QED BY <1>3, <2>1
<1> QED
  BY Zenon, <1>5, <1>6, <1>7 DEF f, b

(* The reverse of a sequence has its elements.                              *)
LEMMA BackwardsIs ==
  ASSUME NEW X, NEW s \in Seq(X)
  PROVE  Backwards(s) \in Seq(X) /\ Range(Backwards(s)) = Range(s)
<1>1. PICK n \in Nat : n = Len(s) /\ DOMAIN s = 1..n
  OBVIOUS
<1>2. \A i \in 1..n : (n - i) + 1 \in 1..n /\ (n - ((n - i) + 1)) + 1 = i
  OBVIOUS
<1> DEFINE r == Backwards(s)
<1>3. r = [i \in 1..n |-> s[(n - i) + 1]]
  BY <1>1 DEF Backwards
<1> HIDE DEF r
<1>4. \A i \in 1..n : s[i] \in X
  BY <1>1
<1>5. \A i \in 1..n : r[i] \in X
  BY <1>2, <1>3, <1>4
<1>6. r \in Seq(X) /\ DOMAIN r = 1..n
  BY <1>3, <1>5
<1>7. ASSUME NEW i \in 1..n PROVE r[i] \in Range(s) /\ s[i] \in Range(r)
  <2>1. r[i] = s[(n - i) + 1] /\ r[(n - i) + 1] = s[i]
    BY <1>2, <1>3
  <2> QED BY <1>1, <1>2, <1>6, <2>1 DEF Range
<1>8. Range(r) = Range(s)
  BY <1>1, <1>6, <1>7, Zenon DEF Range
<1> QED
  BY <1>6, <1>8 DEF r

(* The superblocks of targets in terms of the targets, in any order.        *)
LEMMA DevsOfRange ==
  ASSUME NEW q \in Seq(TargetSet)
  PROVE  Devs(q) = {x.dev : x \in Range(q)} /\ Devs(q) \subseteq EligibleDev
<1>1. PICK n \in Nat : n = Len(q) /\ DOMAIN q = 1..n
  OBVIOUS
<1>2. \A i \in 1..n : q[i] \in TargetSet
  BY <1>1
<1>3. \A i \in 1..n : q[i].dev \in EligibleDev
  BY Zenon, <1>2 DEF TargetSet
<1> QED
  BY <1>1, <1>3 DEF Devs, Range

\* Where the names of the request lead.
Led(t, names) == {Resolve(t, names[i]) : i \in 1..Len(names)}

\* The target that a name of the request leads to, and no name before it.
Leading(t, names, d, i) ==
  Resolve(t, names[i]) = d /\ \A j \in 1..(i - 1) : Resolve(t, names[j]) # d

AskedFor(x, t, names) ==
  \E i \in 1..Len(names) : x.requested = <<names[i]>> /\ Leading(t, names, x.dev, i)

(* The name that selects a superblock is the first that leads to it.        *)
LEMMA SelectingIs ==
  ASSUME NEW t, NEW names \in Seq(Path), NEW d
  PROVE  /\ Selecting(t, names, d) # <<>> <=> \E i \in 1..Len(names) : Resolve(t, names[i]) = d
         /\ Selecting(t, names, d) # <<>> =>
              \E i \in 1..Len(names) :
                Selecting(t, names, d) = <<names[i]>> /\ Leading(t, names, d, i)
<1> DEFINE L == {p \in Range(names) : Resolve(t, p) = d}
           l == Among(names, L)
<1>1. l \in Seq(Path) /\ Selected(l, names, Len(names), L)
  BY Zenon, AmongIs
<1>2. \A i \in 1..Len(names) : names[i] \in L <=> Resolve(t, names[i]) = d
  BY DEF Range
<1>3. Selecting(t, names, d) = IF l = <<>> THEN <<>> ELSE <<l[1]>>
  BY Zenon DEF Selecting
<1> HIDE DEF l, L
<1>4. PICK k \in Nat, m \in Nat : k = Len(l) /\ m = Len(names)
  BY <1>1
<1>5. PICK e \in [1..k -> 1..m] :
        /\ \A i, j \in 1..k : i < j => e[i] < e[j]
        /\ \A i \in 1..k : l[i] = names[e[i]] /\ names[e[i]] \in L
        /\ \A i \in 1..m : names[i] \in L => \E j \in 1..k : e[j] = i
  <2>1. Selected(l, names, m, L)
    BY <1>1, <1>4
  <2> QED BY <1>4, <2>1 DEF Selected
<1>6. l = <<>> <=> k = 0
  BY <1>1, <1>4
<1>7. Selecting(t, names, d) # <<>> <=> k # 0
  BY <1>3, <1>6
<1>8. ASSUME NEW i \in 1..m, Resolve(t, names[i]) = d PROVE k # 0
  BY <1>2, <1>4, <1>5, <1>8
<1>9. ASSUME k # 0
      PROVE  \E i \in 1..m : Selecting(t, names, d) = <<names[i]>> /\ Leading(t, names, d, i)
  <2>1. 1 \in 1..k
    BY <1>9
  <2>2. e[1] \in 1..m /\ l[1] = names[e[1]] /\ names[e[1]] \in L
    BY Zenon, <1>5, <2>1
  <2>3. Selecting(t, names, d) = <<names[e[1]]>>
    BY Zenon, <1>3, <1>6, <1>9, <2>2
  <2>4. ASSUME NEW j \in 1..(e[1] - 1) PROVE Resolve(t, names[j]) # d
    <3> SUFFICES ASSUME Resolve(t, names[j]) = d PROVE FALSE
      BY Zenon
    <3>1. j \in 1..m /\ j < e[1]
      BY <2>2
    <3>2. PICK i \in 1..k : e[i] = j
      BY Zenon, <1>2, <1>4, <1>5, <3>1
    <3>3. i # 1
      BY <2>2, <3>1, <3>2
    <3>4. 1 < i
      BY <3>3
    <3>5. e[1] < e[i]
      BY Zenon, <1>5, <2>1, <3>4
    <3> QED BY <2>2, <3>1, <3>2, <3>5
  <2>5. Leading(t, names, d, e[1])
    BY Zenon, <1>2, <1>4, <2>2, <2>4 DEF Leading
  <2> QED BY <2>2, <2>3, <2>5
<1>10. k # 0 => \E i \in 1..m : Resolve(t, names[i]) = d
  BY Zenon, <1>9 DEF Leading
<1> QED
  BY Zenon, <1>4, <1>7, <1>8, <1>9, <1>10

(* A restricted plan has the targets that a name leads to, each once and    *)
(* with the first such name.                                                *)
LEMMA RestrictIs ==
  ASSUME NEW t, NEW targets \in Seq(TargetSet), NEW names \in Seq(Path), Distinct(targets)
  PROVE  /\ RestrictTo(t, targets, names) \in Seq(TargetSet)
         /\ Distinct(RestrictTo(t, targets, names))
         /\ \A x \in Range(RestrictTo(t, targets, names)) : AskedFor(x, t, names)
         /\ Devs(RestrictTo(t, targets, names)) =
              Devs(targets) \cap Led(t, names)
<1> DEFINE S == {x \in Range(targets) : Selecting(t, names, x.dev) # <<>>}
           c == Among(targets, S)
           r == RestrictTo(t, targets, names)
<1>1. r = [i \in DOMAIN c |-> [c[i] EXCEPT !.requested = Selecting(t, names, c[i].dev)]]
  BY Zenon DEF RestrictTo
<1>2. /\ c \in Seq(TargetSet) /\ Range(c) = Range(targets) \cap S
      /\ Selected(c, targets, Len(targets), S)
  BY AmongIs, AmongRange
<1>3. \A x \in Range(targets) : x \in S <=> Selecting(t, names, x.dev) # <<>>
  OBVIOUS
<1> HIDE DEF c, r, S
<1>4. PICK n \in Nat : n = Len(c) /\ DOMAIN c = 1..n
  BY <1>2
<1>5. \A i \in 1..n : c[i] \in TargetSet
  BY <1>2, <1>4
<1>6. \A i \in 1..n : Selecting(t, names, c[i].dev) # <<>>
  BY Zenon, <1>2, <1>3, <1>4 DEF Range
<1>7. ASSUME NEW i \in 1..n
      PROVE  r[i] \in TargetSet /\ r[i].dev = c[i].dev /\ AskedFor(r[i], t, names)
  <2>1. PICK j \in 1..Len(names) :
          /\ Selecting(t, names, c[i].dev) = <<names[j]>>
          /\ Leading(t, names, c[i].dev, j)
    BY Zenon, <1>6, SelectingIs
  <2>2. r[i] = [c[i] EXCEPT !.requested = <<names[j]>>]
    BY Zenon, <1>1, <1>4, <2>1
  <2>3. <<names[j]>> \in Seq(Path) /\ c[i] \in TargetSet
    BY <1>5, <2>1
  <2>4. r[i] \in TargetSet /\ r[i].requested = <<names[j]>> /\ r[i].dev = c[i].dev
    BY Zenon, <2>2, <2>3 DEF TargetSet
  <2> QED BY <2>1, <2>4 DEF AskedFor
<1>8. r \in Seq(TargetSet) /\ DOMAIN r = 1..n /\ Len(r) = n
  BY <1>1, <1>4, <1>7
<1>9. \A x \in Range(r) : AskedFor(x, t, names)
  BY Zenon, <1>7, <1>8 DEF Range
<1>10. Distinct(r)
  <2>1. PICK m \in Nat : m = Len(targets)
    OBVIOUS
  <2>2. PICK e \in [1..n -> 1..m] :
          /\ \A i, j \in 1..n : i < j => e[i] < e[j]
          /\ \A i \in 1..n : c[i] = targets[e[i]]
    BY Zenon, <1>2, <1>4, <2>1 DEF Selected
  <2>3. ASSUME NEW i \in 1..n, NEW j \in 1..n, r[i].dev = r[j].dev PROVE i = j
    <3>1. e[i] \in 1..m /\ e[j] \in 1..m /\ targets[e[i]].dev = targets[e[j]].dev
      BY Zenon, <1>7, <2>2, <2>3
    <3>2. e[i] = e[j]
      BY Zenon, <2>1, <3>1 DEF Distinct
    <3>3. ~(i < j) /\ ~(j < i)
      BY <2>2, <3>1, <3>2
    <3> QED BY <3>3
  <2> QED BY <1>8, <2>3 DEF Distinct
<1>11. Devs(r) = {c[i].dev : i \in 1..n}
  BY Zenon, <1>7, <1>8 DEF Devs
<1>12. Devs(r) = {x.dev : x \in Range(targets) \cap S}
  BY Zenon, <1>2, <1>4, <1>11 DEF Range
<1>13. Devs(targets) = {x.dev : x \in Range(targets)}
  BY Zenon, DevsOfRange
<1>14. \A x \in Range(targets) : x \in S <=> \E i \in 1..Len(names) : Resolve(t, names[i]) = x.dev
  BY <1>3, SelectingIs
<1>15. Devs(r) = Devs(targets) \cap Led(t, names)
  BY Zenon, <1>12, <1>13, <1>14 DEF Led
<1> QED
  BY <1>8, <1>9, <1>10, <1>15 DEF r

(* FreezePlan!RestrictExact: the targets of a request are what its names    *)
(* lead to.                                                                 *)
LEMMA RestrictHolds ==
  ASSUME Ordered, ResolveIsVisible
  PROVE  RestrictExact
<1> SUFFICES ASSUME NEW names \in Requests
             PROVE  LET plan == RestrictTo(table, Build(table), names)
                    IN /\ Devs(plan) = Devs(Build(table)) \cap {VisibleAt(names[i]) : i \in DOMAIN names}
                       /\ Distinct(plan)
                       /\ \A k \in DOMAIN plan :
                            \E i \in DOMAIN names :
                              /\ plan[k].requested = <<names[i]>>
                              /\ VisibleAt(names[i]) = plan[k].dev
                              /\ \A j \in 1 .. i - 1 : VisibleAt(names[j]) # plan[k].dev
  BY Zenon DEF RestrictExact
<1> DEFINE plan == RestrictTo(table, Build(table), names)
<1>1. Build(table) \in Seq(TargetSet) /\ Distinct(Build(table))
  BY Zenon, BuildIs DEF Ordered
<1>2. names \in Seq(Path)
  BY PlanAssumption
<1>3. PICK m \in Nat : m = Len(names) /\ DOMAIN names = 1..m
  BY <1>2
<1>4. \A i \in 1..m : Resolve(table, names[i]) = VisibleAt(names[i])
  BY <1>2, <1>3 DEF ResolveIsVisible
<1>5. /\ plan \in Seq(TargetSet) /\ Distinct(plan)
      /\ \A x \in Range(plan) : AskedFor(x, table, names)
      /\ Devs(plan) = Devs(Build(table)) \cap Led(table, names)
  <2>1. Build(table) \in Seq(TargetSet) /\ Distinct(Build(table)) /\ names \in Seq(Path)
    BY Zenon, <1>1, <1>2
  <2> QED BY <2>1, RestrictIs, Zenon
<1> HIDE DEF plan
<1>6. Devs(plan) = Devs(Build(table)) \cap {VisibleAt(names[i]) : i \in DOMAIN names}
  <2>1. Led(table, names) = {VisibleAt(names[i]) : i \in 1..m}
    BY <1>3, <1>4 DEF Led
  <2> QED BY Zenon, <1>3, <1>5, <2>1
<1>7. Distinct(plan)
  BY Zenon, <1>5
<1>8. ASSUME NEW k \in DOMAIN plan
      PROVE  \E i \in DOMAIN names :
               /\ plan[k].requested = <<names[i]>>
               /\ VisibleAt(names[i]) = plan[k].dev
               /\ \A j \in 1 .. i - 1 : VisibleAt(names[j]) # plan[k].dev
  <2>1. AskedFor(plan[k], table, names)
    BY Zenon, <1>5, <1>8 DEF Range
  <2>2. PICK i \in 1..m :
          /\ plan[k].requested = <<names[i]>> /\ Resolve(table, names[i]) = plan[k].dev
          /\ \A j \in 1..(i - 1) : Resolve(table, names[j]) # plan[k].dev
    BY Zenon, <1>3, <2>1 DEF AskedFor, Leading
  <2>3. \A j \in 1..(i - 1) : j \in 1..m
    BY <2>2
  <2>4. \A j \in 1..(i - 1) : VisibleAt(names[j]) # plan[k].dev
    BY Zenon, <1>4, <2>2, <2>3
  <2> QED BY <1>3, <1>4, <2>2, <2>4
<1> QED
  BY <1>6, <1>7, <1>8, Zenon DEF plan

-----------------------------------------------------------------------------
(* The operation.                                                          *)

\* The types of its state.
OpTypes ==
  /\ queue \in Seq(TargetSet) /\ held \in Seq(EligibleDev) /\ keep \in Seq(EligibleDev)
  /\ trimmed \in Seq(Dev \X BOOLEAN) /\ missed \in BOOLEAN
  /\ found \subseteq EligibleDev /\ frozen \subseteq EligibleDev \ plain
  /\ scope \in {"Tracked", "Discovery"}

\* What is in use where.
OpControl ==
  /\ pc \in {"idle", "walk", "frozen", "drain", "trim"}
  /\ pc \in {"idle", "trim"} => held = <<>>
  /\ pc # "drain" => keep = <<>> /\ missed = FALSE
  /\ keep # <<>> => missed = TRUE
  /\ pc \in {"idle", "frozen"} => queue = <<>>
  /\ pc # "trim" => trimmed = <<>>

\* A walk holds what it has passed and can be frozen.
Walking ==
  pc = "walk" =>
    Range(held) \cup (Devs(queue) \ plain) = found \ plain /\ Range(held) \subseteq frozen

\* A drain still has ahead of it whatever is frozen of what it found, or knows better.
Draining ==
  pc = "drain" /\ missed = FALSE => found \cap frozen \subseteq Devs(queue) \cup Range(held)

\* A trim has answered for what it has passed.
Passed == {trimmed[i][1] : i \in DOMAIN trimmed}

OnceEach(s) == \A i, j \in DOMAIN s : s[i][1] = s[j][1] => i = j

Trimming ==
  pc = "trim" =>
    /\ Passed \cup Devs(queue) = found /\ Passed \cap Devs(queue) = {}
    /\ OnceEach(trimmed) /\ Distinct(queue)

OpInv == OpTypes /\ OpControl /\ Walking /\ Draining /\ Trimming

(* The first target of a queue and the others.                              *)
LEMMA FirstAndRest ==
  ASSUME NEW q \in Seq(TargetSet), q # <<>>
  PROVE  /\ Tail(q) \in Seq(TargetSet) /\ Len(Tail(q)) = Len(q) - 1
         /\ q[1] \in TargetSet /\ q[1].dev \in EligibleDev
         /\ Devs(q) = {q[1].dev} \cup Devs(Tail(q))
         /\ Range(Tail(q)) \subseteq Range(q) /\ q[1] \in Range(q)
<1>1. PICK n \in Nat : n = Len(q) /\ DOMAIN q = 1..n
  OBVIOUS
<1>2. n > 0
  BY <1>1
<1>3. PICK t : t = Tail(q)
  BY Zenon
<1>4. t \in Seq(TargetSet) /\ Len(t) = n - 1 /\ DOMAIN t = 1..(n - 1)
  BY <1>1, <1>2, <1>3
<1>5. \A i \in 1..(n - 1) : t[i] = q[i + 1]
  BY <1>1, <1>2, <1>3
<1>6. 1 \in 1..n /\ \A i \in 1..n : i = 1 \/ (i - 1 \in 1..(n - 1) /\ (i - 1) + 1 = i)
  BY <1>2
<1>7. \A i \in 1..(n - 1) : i + 1 \in 1..n
  BY <1>2
<1>8. \A i \in 1..n : i = 1 \/ (i - 1 \in 1..(n - 1) /\ t[i - 1] = q[i])
  BY <1>5, <1>6
<1>9. q[1] \in TargetSet /\ q[1].dev \in EligibleDev
  <2>1. q[1] \in TargetSet
    BY <1>1, <1>6
  <2> QED BY Zenon, <2>1 DEF TargetSet
<1>10. Devs(q) = {q[i].dev : i \in 1..n} /\ Devs(t) = {t[i].dev : i \in 1..(n - 1)}
  BY <1>1, <1>4 DEF Devs
<1>11. Devs(q) = {q[1].dev} \cup Devs(t)
  <2>1. ASSUME NEW i \in 1..n PROVE q[i].dev \in {q[1].dev} \cup Devs(t)
    BY Zenon, <1>8, <1>10
  <2>2. ASSUME NEW i \in 1..(n - 1) PROVE t[i].dev \in Devs(q)
    BY Zenon, <1>5, <1>7, <1>10
  <2>3. q[1].dev \in Devs(q)
    BY Zenon, <1>6, <1>10
  <2> QED BY Zenon, <1>10, <2>1, <2>2, <2>3
<1>12. Range(t) \subseteq Range(q) /\ q[1] \in Range(q)
  BY <1>1, <1>4, <1>5, <1>6, <1>7 DEF Range
<1> QED
  BY <1>1, <1>3, <1>4, <1>9, <1>11, <1>12

(* What a drain of the handles leaves.                                      *)
LEMMA HandlesDrained ==
  ASSUME OpTypes, NEW bad \in SUBSET Range(held), DrainHeld(bad)
  PROVE  /\ held' \in Seq(EligibleDev) /\ frozen' \subseteq frozen
         /\ bad = {} => frozen' = frozen \ Range(held)
         /\ bad = {} /\ keep = <<>> => held' = <<>>
<1> DEFINE a == Among(Backwards(held), bad)
<1>1. PICK thawed \in SUBSET bad : frozen' = frozen \ ((Range(held) \ bad) \cup thawed)
  BY Zenon DEF DrainHeld
<1>2. Backwards(held) \in Seq(EligibleDev)
  BY Zenon, BackwardsIs DEF OpTypes
<1>3. a \in Seq(EligibleDev) /\ Range(a) = Range(Backwards(held)) \cap bad
  BY Zenon, <1>2, AmongIs, AmongRange
<1>4. held' = keep \o a
  BY Zenon DEF DrainHeld
<1> HIDE DEF a
<1>5. held' \in Seq(EligibleDev)
  BY <1>3, <1>4 DEF OpTypes
<1>6. ASSUME bad = {}, keep = <<>> PROVE held' = <<>>
  <2>1. a = <<>>
    BY Zenon, <1>3, <1>6, EmptyRange
  <2> QED BY <1>4, <1>6, <2>1
<1>7. ASSUME bad = {} PROVE frozen' = frozen \ Range(held)
  BY <1>1, <1>7
<1>8. frozen' \subseteq frozen
  BY <1>1
<1> QED
  BY <1>5, <1>6, <1>7, <1>8

(* The operation starts at rest.                                            *)
LEMMA OpInit == Init => OpInv
<1> SUFFICES ASSUME Init PROVE OpInv
  OBVIOUS
<1>1. /\ pc = "idle" /\ found = {} /\ queue = <<>> /\ held = <<>> /\ keep = <<>>
      /\ scope = "Discovery" /\ frozen = {} /\ missed = FALSE /\ trimmed = <<>>
  BY DEF Init
<1>2. OpTypes
  <2>1. \A X : <<>> \in Seq(X)
    OBVIOUS
  <2>2. {} \subseteq EligibleDev /\ {} \subseteq EligibleDev \ plain /\ FALSE \in BOOLEAN
    OBVIOUS
  <2> QED BY <1>1, <2>1, <2>2, Zenon DEF OpTypes
<1>3. OpControl
  BY <1>1, Zenon DEF OpControl
<1>4. Walking /\ Draining /\ Trimming
  BY <1>1 DEF Walking, Draining, Trimming
<1> QED
  BY Zenon, <1>2, <1>3, <1>4 DEF OpInv

(* The plan of a freeze, in the order of its walk.                          *)
LEMMA PlanIs ==
  ASSUME Ordered, NEW names \in Requests \cup {Everything}
  PROVE  LET q == FreezeOrder(BuildPlan(table, names))
         IN /\ q \in Seq(TargetSet) /\ Devs(q) = Devs(BuildPlan(table, names))
            /\ names # Everything => \A x \in Range(q) : AskedFor(x, table, names)
<1> DEFINE b == BuildPlan(table, names)
           q == FreezeOrder(b)
<1>1. Build(table) \in Seq(TargetSet) /\ Distinct(Build(table))
  BY Zenon, BuildIs DEF Ordered
<1>2. ASSUME names # Everything
      PROVE  b \in Seq(TargetSet) /\ \A x \in Range(b) : AskedFor(x, table, names)
  <2>1. names \in Seq(Path)
    BY Zenon, <1>2, PlanAssumption
  <2>2. b = RestrictTo(table, Build(table), names)
    BY <1>2 DEF BuildPlan
  <2>3. /\ RestrictTo(table, Build(table), names) \in Seq(TargetSet)
        /\ \A x \in Range(RestrictTo(table, Build(table), names)) : AskedFor(x, table, names)
    BY Zenon, <1>1, <2>1, RestrictIs
  <2> QED BY Zenon, <2>2, <2>3
<1>3. b \in Seq(TargetSet)
  <2>1. CASE names = Everything
    BY <1>1, <2>1 DEF BuildPlan
  <2> QED BY <1>2, <2>1
<1>4. q = Backwards(b)
  BY Zenon DEF FreezeOrder
<1> HIDE DEF b, q
<1>5. q \in Seq(TargetSet) /\ Range(q) = Range(b)
  BY Zenon, <1>3, <1>4, BackwardsIs
<1>6. Devs(q) = Devs(b)
  <2>1. Devs(q) = {x.dev : x \in Range(q)} /\ Devs(b) = {x.dev : x \in Range(b)}
    BY <1>3, <1>5, DevsOfRange
  <2> QED BY Zenon, <1>5, <2>1
<1> QED
  BY Zenon, <1>2, <1>5, <1>6 DEF q, b

(* A freeze starts with nothing held and the whole plan ahead.              *)
LEMMA PrepareKeeps ==
  ASSUME OpInv, Ordered, Prepare, UNCHANGED kernelVars
  PROVE  OpInv'
<1>1. PICK names \in Requests \cup {Everything} :
        /\ queue' = FreezeOrder(BuildPlan(table, names))
        /\ found' = Devs(BuildPlan(table, names))
  BY Zenon DEF Prepare
<1>2. queue' \in Seq(TargetSet) /\ Devs(queue') = found'
  BY <1>1, PlanIs
<1>3. Devs(queue') \subseteq EligibleDev
  BY Zenon, <1>2, DevsOfRange
<1>4. /\ pc = "idle" /\ pc' = "walk" /\ plain' = plain
      /\ UNCHANGED <<held, keep, scope, frozen, missed, trimmed>>
  BY Zenon DEF Prepare, kernelVars
<1>5. held = <<>> /\ Range(held) = {}
  <2>1. held = <<>>
    BY Zenon, <1>4 DEF OpInv, OpControl
  <2> QED BY <2>1 DEF Range
<1>6. OpTypes'
  BY Zenon, <1>2, <1>3, <1>4 DEF OpInv, OpTypes
<1>7. OpControl'
  BY Zenon, <1>4 DEF OpInv, OpControl
<1>8. Walking'
  BY Zenon, <1>2, <1>4, <1>5 DEF Walking
<1> QED
  BY Zenon, <1>4, <1>6, <1>7, <1>8 DEF OpInv, Draining, Trimming

(* A target that is passed is held, unless it cannot be frozen.             *)
LEMMA FreezeTargetKeeps ==
  ASSUME OpInv, FreezeTarget, UNCHANGED kernelVars
  PROVE  OpInv'
<1> DEFINE d == queue[1].dev
<1>1. /\ pc = "walk" /\ queue # <<>> /\ pc' = pc /\ plain' = plain /\ queue' = Tail(queue)
      /\ UNCHANGED <<found, keep, scope, missed, trimmed>>
  BY Zenon DEF FreezeTarget, kernelVars
<1>2. PICK answer \in Fifreeze(d) :
        /\ TargetOutcome(answer) # "Failed"
        /\ frozen' = IF answer = "ok" THEN frozen \cup {d} ELSE frozen
        /\ held' = IF TargetOutcome(answer) \in {"Frozen", "Busy"}
                   THEN Append(held, d) ELSE held
  BY Zenon DEF FreezeTarget
<1>3. /\ queue' \in Seq(TargetSet) /\ d \in EligibleDev
      /\ Devs(queue) = {d} \cup Devs(queue')
  BY Zenon, <1>1, FirstAndRest DEF OpInv, OpTypes
<1> HIDE DEF d
<1>4. /\ held \in Seq(EligibleDev) /\ frozen \subseteq EligibleDev \ plain
      /\ Range(held) \cup (Devs(queue) \ plain) = found \ plain /\ Range(held) \subseteq frozen
  BY <1>1 DEF OpInv, OpTypes, Walking
<1>5. /\ d \in plain => answer = "EOPNOTSUPP"
      /\ d \notin plain /\ d \in frozen => answer = "EBUSY"
      /\ d \notin plain /\ d \notin frozen => answer = "ok"
  <2>1. answer # "EIO"
    BY Zenon, <1>2 DEF TargetOutcome, IsNotSupported, IsBusy
  <2> QED BY <1>2, <2>1, Zenon DEF Fifreeze
<1>6. CASE d \in plain
  <2>1. answer = "EOPNOTSUPP"
    BY <1>5, <1>6
  <2>2. TargetOutcome(answer) = "Skipped"
    BY Zenon, <2>1 DEF TargetOutcome, IsNotSupported, IsBusy
  <2>3. held' = held /\ frozen' = frozen
    BY <1>2, <2>1, <2>2
  <2>4. Range(held') \cup (Devs(queue') \ plain) = found \ plain /\ Range(held') \subseteq frozen'
    BY <1>3, <1>4, <1>6, <2>3, Zenon
  <2> QED BY Zenon, <1>1, <1>3, <2>3, <2>4 DEF OpInv, OpTypes, OpControl, Walking, Draining, Trimming
<1>7. CASE d \notin plain
  <2>1. held' = Append(held, d) /\ frozen' = frozen \cup {d}
    <3>1. CASE d \in frozen
      <4>1. answer = "EBUSY"
        BY <1>5, <1>7, <3>1
      <4>2. TargetOutcome(answer) = "Busy"
        BY Zenon, <4>1 DEF TargetOutcome, IsNotSupported, IsBusy
      <4> QED BY Zenon, <1>2, <3>1, <4>1, <4>2
    <3>2. CASE d \notin frozen
      <4>1. answer = "ok"
        BY <1>5, <1>7, <3>2
      <4>2. TargetOutcome(answer) = "Frozen"
        BY Zenon, <4>1 DEF TargetOutcome, IsNotSupported, IsBusy
      <4> QED BY Zenon, <1>2, <4>1, <4>2
    <3> QED BY Zenon, <3>1, <3>2
  <2>2. held' \in Seq(EligibleDev) /\ Range(held') = Range(held) \cup {d}
    BY <1>3, <1>4, <2>1, AppendRange
  <2>3. Range(held') \cup (Devs(queue') \ plain) = found \ plain /\ Range(held') \subseteq frozen'
    BY Zenon, <1>3, <1>4, <1>7, <2>1, <2>2
  <2>4. frozen' \subseteq EligibleDev \ plain
    BY <1>3, <1>4, <1>7, <2>1
  <2> QED BY Zenon, <1>1, <1>3, <2>2, <2>3, <2>4
             DEF OpInv, OpTypes, OpControl, Walking, Draining, Trimming
<1> QED
  BY Zenon, <1>6, <1>7

(* What ends a freeze, in whatever way.                                     *)
LEMMA FreezeEndKeeps ==
  ASSUME OpInv, Rollback \/ Commit \/ Restart, UNCHANGED kernelVars
  PROVE  OpInv'
<1>1. CASE Rollback
  <2>1. /\ pc = "walk" /\ plain' = plain /\ queue' = <<>> /\ found' = {}
        /\ UNCHANGED <<keep, missed, trimmed>>
    BY Zenon, <1>1 DEF Rollback, kernelVars
  <2>2. PICK bad \in SUBSET Range(held) :
          /\ DrainHeld(bad)
          /\ pc' = IF bad = {} THEN "idle" ELSE "frozen"
          /\ scope' = IF bad = {} THEN "Discovery" ELSE "Tracked"
    BY Zenon, <1>1 DEF Rollback
  <2>3. keep = <<>> /\ missed = FALSE /\ trimmed = <<>>
    BY Zenon, <2>1 DEF OpInv, OpControl
  <2>4. /\ held' \in Seq(EligibleDev) /\ frozen' \subseteq frozen
        /\ bad = {} => held' = <<>>
    BY Zenon, <2>2, <2>3, HandlesDrained DEF OpInv
  <2>5. OpTypes'
    BY <2>1, <2>2, <2>4 DEF OpInv, OpTypes
  <2>6. OpControl'
    BY <2>1, <2>2, <2>3, <2>4, Zenon DEF OpControl
  <2> QED BY Zenon, <2>2, <2>5, <2>6 DEF OpInv, Walking, Draining, Trimming
<1>2. CASE Commit
  <2>1. /\ pc = "walk" /\ plain' = plain /\ queue = <<>> /\ found' = {}
        /\ UNCHANGED <<queue, held, keep, frozen, missed, trimmed>>
        /\ pc' = IF held = <<>> THEN "idle" ELSE "frozen"
        /\ scope' = IF held = <<>> THEN "Discovery" ELSE "Tracked"
    BY Zenon, <1>2 DEF Commit, kernelVars
  <2>2. OpTypes'
    BY Zenon, <2>1 DEF OpInv, OpTypes
  <2>3. OpControl'
    BY Zenon, <2>1 DEF OpInv, OpControl
  <2> QED BY Zenon, <2>1, <2>2, <2>3 DEF OpInv, Walking, Draining, Trimming
<1>3. CASE Restart
  <2>1. /\ pc' = (IF pc = "trim" THEN "idle" ELSE "frozen") /\ plain' = plain
        /\ held' = <<>> /\ keep' = <<>> /\ scope' = "Discovery" /\ frozen' = frozen
        /\ queue' = <<>> /\ missed' = FALSE /\ trimmed' = <<>> /\ found' = {}
    BY <1>3 DEF Restart, kernelVars
  <2>2. OpTypes'
    <3>1. \A X : <<>> \in Seq(X)
      OBVIOUS
    <3>2. {} \subseteq EligibleDev /\ FALSE \in BOOLEAN
      OBVIOUS
    <3> QED BY <2>1, <3>1, <3>2, Zenon DEF OpInv, OpTypes
  <2>3. OpControl'
    BY <2>1, Zenon DEF OpControl
  <2> QED BY Zenon, <2>1, <2>2, <2>3 DEF OpInv, Walking, Draining, Trimming
<1> QED
  BY Zenon, <1>1, <1>2, <1>3

(* A drain has the handles, and the table if it can read it, ahead of it.   *)
LEMMA DrainStartKeeps ==
  ASSUME OpInv, Ordered, Discover \/ TrackedDrain, UNCHANGED kernelVars
  PROVE  OpInv'
<1>1. /\ pc = "frozen" /\ pc' = "drain" /\ plain' = plain
      /\ UNCHANGED <<held, keep, scope, frozen, trimmed>>
  BY Zenon DEF Discover, TrackedDrain, kernelVars
<1>2. keep = <<>> /\ missed = FALSE /\ trimmed = <<>> /\ queue = <<>>
  BY <1>1 DEF OpInv, OpControl
<1>3. \/ queue' = Build(table) /\ missed' = FALSE /\ found' = Devs(Build(table)) \cup Range(held)
      \/ queue' = <<>> /\ missed' \in BOOLEAN /\ found' = Range(held)
  BY Zenon, <1>2 DEF Discover, TrackedDrain
<1>4. Build(table) \in Seq(TargetSet)
  BY Zenon, BuildIs DEF Ordered
<1>5. Devs(Build(table)) \subseteq EligibleDev
  BY Zenon, <1>4, DevsOfRange
<1>6. held \in Seq(EligibleDev) /\ Range(held) \subseteq EligibleDev
  <2>1. held \in Seq(EligibleDev)
    BY DEF OpInv, OpTypes
  <2> QED BY <2>1 DEF Range
<1>7. /\ queue' \in Seq(TargetSet) /\ missed' \in BOOLEAN /\ found' \subseteq EligibleDev
      /\ found' \subseteq Devs(queue') \cup Range(held')
  <2>1. <<>> \in Seq(TargetSet) /\ FALSE \in BOOLEAN
    OBVIOUS
  <2>2. CASE /\ queue' = Build(table) /\ missed' = FALSE
             /\ found' = Devs(Build(table)) \cup Range(held)
    BY Zenon, <1>1, <1>4, <1>5, <1>6, <2>1, <2>2
  <2>3. CASE queue' = <<>> /\ missed' \in BOOLEAN /\ found' = Range(held)
    BY <1>1, <1>6, <2>1, <2>3, Zenon
  <2> QED BY Zenon, <1>3, <2>2, <2>3
<1>8. OpTypes'
  BY Zenon, <1>1, <1>7 DEF OpInv, OpTypes
<1>9. OpControl'
  BY Zenon, <1>1, <1>2 DEF OpControl
<1>10. Draining'
  BY Zenon, <1>7 DEF Draining
<1> QED
  BY Zenon, <1>1, <1>8, <1>9, <1>10 DEF OpInv, Walking, Trimming

(* A target that is passed is thawed, unless the drain knows of a miss.     *)
LEMMA DrainTargetKeeps ==
  ASSUME OpInv, DrainTarget, UNCHANGED kernelVars
  PROVE  OpInv'
<1> DEFINE d == queue[1].dev
<1>1. /\ pc = "drain" /\ queue # <<>> /\ pc' = pc /\ plain' = plain /\ queue' = Tail(queue)
      /\ held' = Among(held, Range(held) \ {d})
      /\ UNCHANGED <<found, scope, trimmed>>
  BY DEF DrainTarget, kernelVars
<1>2. \/ \E answer \in Fithaw(d) :
            /\ Drained(d, answer) /\ missed' = (missed \/ Incomplete(answer))
            /\ keep' = IF Incomplete(answer) THEN Append(keep, d) ELSE keep
      \/ missed' = TRUE /\ UNCHANGED <<frozen, keep>>
  BY Zenon DEF DrainTarget
<1>3. /\ queue' \in Seq(TargetSet) /\ d \in EligibleDev
      /\ Devs(queue) = {d} \cup Devs(queue')
  BY Zenon, <1>1, FirstAndRest DEF OpInv, OpTypes
<1> HIDE DEF d
<1>4. /\ held \in Seq(EligibleDev) /\ keep \in Seq(EligibleDev) /\ missed \in BOOLEAN
      /\ frozen \subseteq EligibleDev \ plain /\ (keep # <<>> => missed = TRUE)
  BY DEF OpInv, OpTypes, OpControl
<1>5. held' \in Seq(EligibleDev) /\ Range(held') = Range(held) \ {d}
  <2>1. held' \in Seq(EligibleDev) /\ Range(held') = Range(held) \cap (Range(held) \ {d})
    BY <1>1, <1>4, AmongIs, AmongRange
  <2> QED BY Zenon, <2>1
<1>6. /\ keep' \in Seq(EligibleDev) /\ missed' \in BOOLEAN /\ frozen' \subseteq frozen
      /\ (keep' # <<>> => missed' = TRUE)
      /\ (missed' = FALSE => missed = FALSE /\ frozen' = frozen \ {d})
  <2>1. CASE missed' = TRUE /\ UNCHANGED <<frozen, keep>>
    BY <1>4, <2>1
  <2>2. CASE \E answer \in Fithaw(d) :
               /\ Drained(d, answer) /\ missed' = (missed \/ Incomplete(answer))
               /\ keep' = IF Incomplete(answer) THEN Append(keep, d) ELSE keep
    <3>1. PICK answer \in Fithaw(d) :
               /\ Drained(d, answer) /\ missed' = (missed \/ Incomplete(answer))
               /\ keep' = IF Incomplete(answer) THEN Append(keep, d) ELSE keep
      BY <2>2
    <3>2. PICK thawed \in (IF Incomplete(answer) THEN {{}, {d}} ELSE {{d}}) :
            frozen' = frozen \ thawed
      BY <3>1, Zenon DEF Drained
    <3>3. Append(keep, d) \in Seq(EligibleDev)
      BY <1>3, <1>4
    <3>4. CASE Incomplete(answer)
      <4>1. missed' = TRUE
        BY <3>1, <3>4, Zenon
      <4>2. keep' = Append(keep, d)
        BY <3>1, <3>4, Zenon
      <4> QED BY <3>2, <3>3, <4>1, <4>2
    <3>5. CASE ~Incomplete(answer)
      <4>1. missed' = missed
        BY <1>4, <3>1, <3>5, Zenon
      <4>2. keep' = keep
        BY <3>1, <3>5, Zenon
      <4>3. frozen' = frozen \ {d}
        BY Zenon, <3>2, <3>5
      <4> QED BY <1>4, <4>1, <4>2, <4>3
    <3> QED BY Zenon, <3>4, <3>5
  <2> QED BY Zenon, <1>2, <2>1, <2>2
<1>7. OpTypes'
  BY Zenon, <1>1, <1>3, <1>4, <1>5, <1>6 DEF OpInv, OpTypes
<1>8. OpControl'
  BY <1>1, <1>6 DEF OpInv, OpControl
<1>9. Draining'
  BY Zenon, <1>1, <1>3, <1>5, <1>6 DEF OpInv, Draining
<1> QED
  BY Zenon, <1>1, <1>7, <1>8, <1>9 DEF OpInv, Walking, Trimming

(* The end of a drain.                                                      *)
LEMMA DrainRestKeeps ==
  ASSUME OpInv, DrainRest, UNCHANGED kernelVars
  PROVE  OpInv' /\ (pc' = "idle" => frozen' \cap found = {})
<1>1. /\ pc = "drain" /\ queue = <<>> /\ plain' = plain
      /\ keep' = <<>> /\ missed' = FALSE /\ found' = {} /\ UNCHANGED <<queue, trimmed>>
      /\ scope' = IF pc' = "idle" THEN "Discovery" ELSE scope
  BY Zenon DEF DrainRest, kernelVars
<1>2. PICK bad \in SUBSET Range(held) :
        DrainHeld(bad) /\ pc' = IF missed \/ bad # {} THEN "frozen" ELSE "idle"
  BY Zenon DEF DrainRest
<1>3. /\ held' \in Seq(EligibleDev) /\ frozen' \subseteq frozen
      /\ bad = {} => frozen' = frozen \ Range(held)
      /\ bad = {} /\ keep = <<>> => held' = <<>>
  BY Zenon, <1>2, HandlesDrained DEF OpInv
<1>4. missed \in BOOLEAN /\ (keep # <<>> => missed = TRUE) /\ trimmed = <<>>
  BY <1>1 DEF OpInv, OpTypes, OpControl
<1>5. pc' \in {"frozen", "idle"} /\ (pc' = "idle" => missed = FALSE /\ bad = {})
  BY <1>2, <1>4, Zenon
<1>6. pc' = "idle" => held' = <<>>
  BY Zenon, <1>3, <1>4, <1>5
<1>7. pc' = "idle" => frozen' \cap found = {}
  <2> SUFFICES ASSUME pc' = "idle" PROVE frozen' \cap found = {}
    OBVIOUS
  <2>1. found \cap frozen \subseteq Devs(queue) \cup Range(held)
    BY Zenon, <1>1, <1>5 DEF OpInv, Draining
  <2>2. Devs(queue) = {}
    BY <1>1 DEF Devs
  <2> QED BY Zenon, <1>3, <1>5, <2>1, <2>2
<1>8. OpTypes'
  <2>1. <<>> \in Seq(EligibleDev) /\ FALSE \in BOOLEAN /\ {} \subseteq EligibleDev
    OBVIOUS
  <2>2. scope' \in {"Tracked", "Discovery"}
    BY Zenon, <1>1 DEF OpInv, OpTypes
  <2>3. frozen' \subseteq EligibleDev \ plain'
    BY Zenon, <1>1, <1>3 DEF OpInv, OpTypes
  <2> QED BY Zenon, <1>1, <1>3, <2>1, <2>2, <2>3 DEF OpInv, OpTypes
<1>9. OpControl'
  BY Zenon, <1>1, <1>4, <1>5, <1>6 DEF OpControl
<1> QED
  BY Zenon, <1>5, <1>7, <1>8, <1>9 DEF OpInv, Walking, Draining, Trimming

(* The first target's superblock is not that of another.                    *)
LEMMA DistinctRest ==
  ASSUME NEW q \in Seq(TargetSet), q # <<>>, Distinct(q)
  PROVE  q[1].dev \notin Devs(Tail(q)) /\ Distinct(Tail(q))
<1>1. PICK n \in Nat : n = Len(q) /\ DOMAIN q = 1..n
  OBVIOUS
<1>2. n > 0
  BY <1>1
<1>3. PICK t : t = Tail(q)
  BY Zenon
<1>4. DOMAIN t = 1..(n - 1) /\ Len(t) = n - 1 /\ \A k \in 1..(n - 1) : t[k] = q[k + 1]
  BY <1>1, <1>2, <1>3
<1>5. \A j, k \in 1..n : q[j].dev = q[k].dev => j = k
  BY Zenon, <1>1 DEF Distinct
<1>6. ASSUME NEW k \in 1..(n - 1) PROVE q[1].dev # t[k].dev
  <2>1. k + 1 \in 1..n /\ 1 \in 1..n /\ k + 1 # 1
    BY <1>2
  <2> QED BY <1>4, <1>5, <2>1
<1>7. ASSUME NEW j \in 1..(n - 1), NEW k \in 1..(n - 1), t[j].dev = t[k].dev PROVE j = k
  <2>1. j + 1 \in 1..n /\ k + 1 \in 1..n
    BY <1>2
  <2>2. j + 1 = k + 1
    BY <1>4, <1>5, <1>7, <2>1
  <2> QED BY <2>2
<1> QED
  BY <1>3, <1>4, <1>6, <1>7 DEF Devs, Distinct

(* One more entry, for a superblock that has none.                          *)
LEMMA OnceMore ==
  ASSUME NEW s \in Seq(Dev \X BOOLEAN), OnceEach(s), NEW d, NEW ok, <<d, ok>> \in Dev \X BOOLEAN,
         d \notin {s[i][1] : i \in DOMAIN s}
  PROVE  OnceEach(Append(s, <<d, ok>>))
<1>1. PICK n \in Nat : n = Len(s) /\ DOMAIN s = 1..n
  OBVIOUS
<1>2. PICK x \in Dev \X BOOLEAN : x = <<d, ok>> /\ x[1] = d
  OBVIOUS
<1>3. PICK t : t = Append(s, x)
  BY Zenon
<1>4. DOMAIN t = 1..(n + 1) /\ t[n + 1] = x /\ \A k \in 1..n : t[k] = s[k]
  BY <1>1, <1>3
<1>5. \A k \in 1..n : s[k][1] # d
  BY Zenon, <1>1
<1>6. ASSUME NEW j \in 1..(n + 1), NEW k \in 1..(n + 1), t[j][1] = t[k][1] PROVE j = k
  <2>1. CASE j \in 1..n /\ k \in 1..n
    BY <1>1, <1>4, <1>6, <2>1 DEF OnceEach
  <2>2. CASE j = n + 1 \/ k = n + 1
    BY <1>2, <1>4, <1>5, <1>6, <2>2
  <2> QED BY <2>1, <2>2
<1> QED
  BY Zenon, <1>2, <1>3, <1>4, <1>6 DEF OnceEach

(* A trim answers for one target at a time.                                 *)
LEMMA TrimKeeps ==
  ASSUME OpInv, Ordered, StartTrim \/ TrimTarget \/ TrimReply, UNCHANGED kernelVars
  PROVE  OpInv'
<1>0. plain' = plain
  BY Zenon DEF kernelVars
<1>1. CASE StartTrim
  <2>1. /\ pc = "idle" /\ pc' = "trim" /\ queue' = Build(table) /\ found' = Devs(Build(table))
        /\ UNCHANGED <<held, keep, scope, frozen, missed, trimmed>>
    BY <1>1 DEF StartTrim
  <2>2. /\ queue' \in Seq(TargetSet) /\ found' = Devs(queue')
        /\ Distinct(queue')
    <3>1. Build(table) \in Seq(TargetSet) /\ Distinct(Build(table))
      BY Zenon, BuildIs DEF Ordered
    <3> QED BY Zenon, <2>1, <3>1
  <2>3. found' \subseteq EligibleDev
    BY Zenon, <2>2, DevsOfRange
  <2>4. trimmed = <<>> /\ held = <<>> /\ keep = <<>> /\ missed = FALSE
    BY Zenon, <2>1 DEF OpInv, OpControl
  <2>5. Passed' = {} /\ OnceEach(trimmed')
    BY <2>1, <2>4 DEF Passed, OnceEach
  <2>6. OpTypes'
    BY Zenon, <1>0, <2>1, <2>2, <2>3 DEF OpInv, OpTypes
  <2>7. OpControl'
    BY Zenon, <2>1, <2>4 DEF OpControl
  <2>8. Trimming'
    BY Zenon, <2>2, <2>5 DEF Trimming
  <2> QED BY Zenon, <2>1, <2>6, <2>7, <2>8 DEF OpInv, Walking, Draining
<1>2. CASE TrimTarget
  <2> DEFINE d == queue[1].dev
  <2>1. /\ pc = "trim" /\ queue # <<>> /\ queue' = Tail(queue) /\ pc' = pc
        /\ UNCHANGED <<found, held, keep, scope, frozen, missed>>
    BY <1>2 DEF TrimTarget
  <2>2. PICK ok \in {FALSE, Opens(queue[1])} : trimmed' = Append(trimmed, <<d, ok>>)
    BY Zenon, <1>2 DEF TrimTarget
  <2>3. ok \in BOOLEAN
    BY Zenon, <2>2 DEF Opens
  <2>4. /\ queue' \in Seq(TargetSet) /\ d \in EligibleDev
        /\ Devs(queue) = {d} \cup Devs(queue') /\ Len(queue') = Len(queue) - 1
    BY Zenon, <2>1, FirstAndRest DEF OpInv, OpTypes
  <2> HIDE DEF d
  <2>5. trimmed \in Seq(Dev \X BOOLEAN) /\ queue \in Seq(TargetSet)
    BY Zenon DEF OpInv, OpTypes
  <2>6. <<d, ok>> \in Dev \X BOOLEAN
    BY Zenon, <2>3, <2>4, PlanAssumption
  <2>7. trimmed' \in Seq(Dev \X BOOLEAN) /\ Len(trimmed') = Len(trimmed) + 1
    BY <2>2, <2>5, <2>6
  <2>8. Passed' = Passed \cup {d}
    <3>0. \A a, b : <<a, b>>[1] = a
      OBVIOUS
    <3>1. PICK x : x = <<d, ok>> /\ x[1] = d
      BY <3>0, Zenon
    <3>a. PICK X : trimmed' = Append(trimmed, x) /\ x \in X /\ trimmed \in Seq(X)
      BY Zenon, <2>2, <2>5, <2>6, <3>1
    <3>2. Range(trimmed') = Range(trimmed) \cup {x}
      <4>1. Range(Append(trimmed, x)) = Range(trimmed) \cup {x}
        BY <3>a, AppendRange
      <4> QED BY Zenon, <3>a, <4>1
    <3>3. Passed = {y[1] : y \in Range(trimmed)} /\ Passed' = {y[1] : y \in Range(trimmed')}
      BY DEF Passed, Range
    <3> QED BY Zenon, <3>1, <3>2, <3>3
  <2>9. OpTypes'
    BY Zenon, <1>0, <2>1, <2>4, <2>7 DEF OpInv, OpTypes
  <2>10. OpControl'
    BY Zenon, <2>1 DEF OpInv, OpControl
  <2>11. Trimming'
    <3>1. /\ Passed \cup Devs(queue) = found /\ Passed \cap Devs(queue) = {}
          /\ OnceEach(trimmed) /\ Distinct(queue)
      BY <2>1 DEF OpInv, Trimming
    <3>2. d \notin Passed /\ d \notin Devs(queue') /\ Distinct(queue')
      BY Zenon, <2>1, <2>4, <2>5, <3>1, DistinctRest DEF d
    <3>3. OnceEach(trimmed')
      BY Zenon, <2>2, <2>5, <2>6, <3>1, <3>2, OnceMore DEF Passed
    <3>4. Passed' \cup Devs(queue') = found /\ Passed' \cap Devs(queue') = {}
      BY Zenon, <2>4, <2>8, <3>1, <3>2
    <3> QED BY Zenon, <2>1, <3>2, <3>3, <3>4 DEF Trimming
  <2> QED BY Zenon, <2>1, <2>9, <2>10, <2>11 DEF OpInv, Walking, Draining
<1>3. CASE TrimReply
  <2>1. /\ pc = "trim" /\ queue = <<>> /\ pc' = "idle" /\ trimmed' = <<>> /\ found' = {}
        /\ UNCHANGED <<queue, held, keep, scope, frozen, missed>>
    BY <1>3 DEF TrimReply
  <2>2. OpTypes'
    <3>1. <<>> \in Seq(Dev \X BOOLEAN)
      OBVIOUS
    <3> QED BY <1>0, <2>1, <3>1, Zenon DEF OpInv, OpTypes
  <2>3. OpControl'
    BY Zenon, <2>1 DEF OpInv, OpControl
  <2> QED BY Zenon, <2>1, <2>2, <2>3 DEF OpInv, Walking, Draining, Trimming
<1> QED
  BY Zenon, <1>1, <1>2, <1>3

(* The operation's invariant is kept by every step.                         *)
LEMMA OpNext ==
  ASSUME OpInv, Ordered, [Next]_vars
  PROVE  OpInv'
<1>1. CASE Operates /\ UNCHANGED kernelVars
  BY <1>1, PrepareKeeps, FreezeTargetKeeps, FreezeEndKeeps, DrainStartKeeps, DrainTargetKeeps,
     DrainRestKeeps, TrimKeeps, Zenon DEF Operates
<1>2. CASE UNCHANGED opVars /\ plain' = plain
  BY <1>2 DEF opVars, OpInv, OpTypes, OpControl, Walking, Draining, Trimming, Passed
<1> QED
  BY <1>1, <1>2, StepsApart DEF vars, kernelVars

(* Both invariants hold throughout.                                         *)
LEMMA PlanInvHolds == Spec => [](MountInv /\ OpInv)
<1>1. MountInv /\ OpInv /\ [Next]_vars => (MountInv /\ OpInv)'
  BY OrderedNext, OpNext, Zenon DEF MountInv
<1> QED
  BY <1>1, MountInit, OpInit, PTL DEF Spec

(* FreezePlan!SuccessIsThawed for every table and every request: a drain    *)
(* ends thawed only if nothing of what it found, and nothing it held, is    *)
(* still frozen (thaw_discovered, drain_and_finish).                        *)
THEOREM SuccessMeansThawed == Spec => SuccessIsThawed
<1>1. OpInv /\ [Next]_vars => [pc = "drain" /\ pc' = "idle" => frozen' \cap found = {}]_vars
  <2> SUFFICES ASSUME OpInv, Next, pc = "drain", pc' = "idle"
               PROVE  frozen' \cap found = {}
    BY Zenon
  <2>1. Operates /\ UNCHANGED kernelVars
    BY StepsApart DEF vars, opVars
  <2>2. DrainRest
    BY Zenon, <2>1 DEF Operates, Prepare, FreezeTarget, Rollback, Commit, Restart, Discover,
         TrackedDrain, DrainTarget, StartTrim, TrimTarget, TrimReply
  <2> QED BY Zenon, <2>1, <2>2, DrainRestKeeps
<1> QED
  BY <1>1, PlanInvHolds, PTL DEF Spec, SuccessIsThawed

(* FreezePlan!TrimmedOnce for every table: a trim answers with one entry    *)
(* for each eligible superblock mounted when it began (fstrim).             *)
THEOREM TrimsEachOnce == Spec => TrimmedOnce
<1>1. OpInv /\ [Next]_vars =>
        [pc = "trim" /\ queue = <<>> /\ pc' = "idle" =>
            /\ \A i, j \in DOMAIN trimmed : trimmed[i][1] = trimmed[j][1] => i = j
            /\ {trimmed[i][1] : i \in DOMAIN trimmed} = found]_vars
  <2> SUFFICES ASSUME OpInv, pc = "trim", queue = <<>>
               PROVE  OnceEach(trimmed) /\ Passed = found
    BY Zenon DEF Passed, OnceEach
  <2>1. Devs(queue) = {}
    BY DEF Devs
  <2>2. Passed \cup Devs(queue) = found /\ OnceEach(trimmed)
    BY DEF OpInv, Trimming
  <2> QED BY <2>1, <2>2, Zenon
<1> QED
  BY <1>1, PlanInvHolds, PTL DEF Spec, TrimmedOnce

(* FreezePlan!FreezesWholePlan for every table and every request: a walk    *)
(* that comes to its end has frozen, and holds, all of the plan that can be *)
(* frozen (freeze_targets).                                                 *)
THEOREM FreezesThePlan == Spec => FreezesWholePlan
<1>1. OpInv' => [pc' = "walk" /\ queue' = <<>> =>
                    Range(held') = found' \ plain' /\ Range(held') \subseteq frozen']_vars
  <2> SUFFICES ASSUME OpInv', pc' = "walk", queue' = <<>>
               PROVE  Range(held') = found' \ plain' /\ Range(held') \subseteq frozen'
    BY Zenon
  <2>1. Devs(queue') = {}
    BY DEF Devs
  <2> QED BY Zenon, <2>1 DEF OpInv, Walking
<1> QED
  BY <1>1, PlanInvHolds, PTL DEF Spec, FreezesWholePlan

-----------------------------------------------------------------------------
(* What a plan selects is what the kernel shows.                           *)

(* FreezePlan!TypeOK: the table is a tree, and every target is eligible.    *)
LEMMA TypesHold ==
  ASSUME Shown, TreeInv, OpInv
  PROVE  TypeOK
<1> DEFINE R == Rows(table)
<1>1. Tree(R) /\ Seen(R, vis)
  BY Zenon DEF TreeInv, Agrees
<1>2. \A r \in R : r.at \in Path /\ r.dev \in Dev
  BY <1>1 DEF Tree, RowSet
<1>3. ASSUME NEW r \in R, NEW s \in R, r.parent = s.parent, r.at = s.at PROVE r = s
  <2>1. CASE r.id = Root
    <3>1. s.id = Root
      BY Zenon, <1>1, <1>3, <2>1 DEF Tree
    <3> QED BY Zenon, <1>1, <2>1, <3>1 DEF Tree
  <2>2. CASE r.id # Root
    <3>1. s.id # Root
      BY Zenon, <1>1, <1>3, <2>2 DEF Tree
    <3>2. s \in Kids(R, r.parent)
      BY Zenon, <1>3, <3>1 DEF Kids
    <3> QED BY Zenon, <1>1, <1>3, <2>2, <3>2 DEF Tree
  <2> QED BY <2>1, <2>2
<1>4. vis \in [Path -> {r.id : r \in R}]
  <2>1. DOMAIN vis = Path /\ vis = [p \in DOMAIN vis |-> vis[p]]
    BY Zenon DEF Shown
  <2>2. \A p \in Path : vis[p] \in {r.id : r \in R}
    BY Zenon, <1>1 DEF Seen
  <2> QED BY <2>1, <2>2
<1>5. /\ pc \in {"idle", "walk", "frozen", "drain", "trim"}
      /\ frozen \subseteq EligibleDev \ plain /\ scope \in {"Tracked", "Discovery"}
  BY Zenon DEF OpInv, OpTypes, OpControl
<1>6. Range(held) \cup Range(keep) \subseteq EligibleDev
  <2>1. held \in Seq(EligibleDev) /\ keep \in Seq(EligibleDev)
    BY Zenon DEF OpInv, OpTypes
  <2> QED BY Zenon, <2>1, SeqHolds
<1>7. Devs(queue) \subseteq EligibleDev
  BY DevsOfRange DEF OpInv, OpTypes
<1> HIDE DEF R
<1> QED
  BY <1>2, <1>3, <1>4, <1>5, <1>6, <1>7, Zenon DEF TypeOK, R

(* FreezePlan!SelectionExact for every set of pathnames, devices and        *)
(* requests and any number of mounts and moves: what MountTree::resolve     *)
(* finds at a path is what the kernel has mounted there, and a request      *)
(* (FreezePlan::restrict_to) selects exactly the eligible superblocks its   *)
(* names lead to, each once and by the first such name.                     *)
THEOREM SelectionIsExact == Spec => []SelectionExact
<1>1. MountInv /\ TreeInv /\ [Next]_vars => TreeInv'
  BY TreeNext, Zenon DEF MountInv
<1>2. Spec => []TreeInv
  BY <1>1, TreeInit, PlanInvHolds, PTL DEF Spec
<1>3. MountInv /\ OpInv /\ TreeInv => SelectionExact
  BY TypesHold, ResolveIs, RestrictHolds, Zenon DEF MountInv, SelectionExact
<1> QED
  BY <1>2, <1>3, PlanInvHolds, PTL

-----------------------------------------------------------------------------
(* What a freeze opens is what was asked for.                              *)

\* Each target ahead goes by a name that led to it when the table was read.
Asking ==
  pc = "walk" /\ asked # {} =>
    \A x \in Range(queue) : \E n \in Path : x.requested = <<n>> /\ <<n, x.dev>> \in asked

(* A freeze-list starts with what its names lead to.                        *)
LEMMA PrepareAsks ==
  ASSUME Ordered, ResolveIsVisible, Prepare
  PROVE  Asking'
<1>1. PICK names \in Requests \cup {Everything} :
        /\ queue' = FreezeOrder(BuildPlan(table, names))
        /\ asked' = IF names = Everything THEN {}
                    ELSE {<<names[i], VisibleAt(names[i])>> : i \in DOMAIN names}
  BY Zenon DEF Prepare
<1> SUFFICES ASSUME asked' # {}, NEW x \in Range(queue')
             PROVE  \E n \in Path : x.requested = <<n>> /\ <<n, x.dev>> \in asked'
  BY Zenon DEF Asking
<1>2. names # Everything
  BY Zenon, <1>1
<1>3. names \in Seq(Path)
  BY <1>2, PlanAssumption
<1>4. AskedFor(x, table, names)
  BY Zenon, <1>1, <1>2, PlanIs
<1>5. PICK i \in 1..Len(names) : x.requested = <<names[i]>> /\ Resolve(table, names[i]) = x.dev
  BY Zenon, <1>4 DEF AskedFor, Leading
<1>6. i \in DOMAIN names /\ names[i] \in Path
  BY <1>3
<1>7. VisibleAt(names[i]) = x.dev
  BY Zenon, <1>5, <1>6 DEF ResolveIsVisible
<1> QED
  BY <1>1, <1>2, <1>5, <1>6, <1>7

(* No step puts a target ahead that was not asked for.                      *)
LEMMA AskingNext ==
  ASSUME OpInv, Ordered, ResolveIsVisible, Asking, [Next]_vars
  PROVE  Asking'
<1>1. CASE Prepare
  BY <1>1, PrepareAsks
<1>2. CASE FreezeTarget
  <2>1. queue \in Seq(TargetSet) /\ queue # <<>>
    BY Zenon, <1>2 DEF FreezeTarget, OpInv, OpTypes
  <2>2. Range(Tail(queue)) \subseteq Range(queue)
    BY Zenon, <2>1, FirstAndRest
  <2>3. queue' = Tail(queue) /\ pc = "walk" /\ pc' = pc /\ asked' = asked
    BY Zenon, <1>2 DEF FreezeTarget
  <2> QED BY Zenon, <2>2, <2>3 DEF Asking
<1>3. CASE Rollback \/ Commit \/ Restart
  BY Zenon, <1>3 DEF Rollback, Commit, Restart, Asking
<1>4. CASE Discover \/ TrackedDrain \/ StartTrim
  BY <1>4 DEF Discover, TrackedDrain, StartTrim, Asking
<1>5. CASE DrainTarget \/ TrimTarget
  BY Zenon, <1>5 DEF DrainTarget, TrimTarget, Asking
<1>6. CASE DrainRest \/ TrimReply
  BY Zenon, <1>6 DEF DrainRest, TrimReply, Asking
<1>7. CASE UNCHANGED opVars
  BY Zenon, <1>7 DEF opVars, Asking
<1>8. Operates \/ UNCHANGED opVars
  BY Zenon, StepsApart DEF vars
<1> QED
  BY <1>1, <1>2, <1>3, <1>4, <1>5, <1>6, <1>7, <1>8 DEF Operates

(* Only the walk of a freeze adds to what is frozen, and only its target.   *)
LEMMA FrozenGrows ==
  ASSUME [Next]_vars, NEW d \in frozen' \ frozen
  PROVE  FreezeTarget /\ d = queue[1].dev
<1>1. CASE FreezeTarget
  BY <1>1 DEF FreezeTarget
<1>2. CASE Rollback \/ DrainRest
  BY Zenon, <1>2 DEF Rollback, DrainRest, DrainHeld
<1>3. CASE DrainTarget
  BY <1>3 DEF DrainTarget, Drained
<1>4. CASE Prepare \/ Commit \/ Restart \/ Discover \/ TrackedDrain
  BY Zenon, <1>4 DEF Prepare, Commit, Restart, Discover, TrackedDrain
<1>5. CASE StartTrim \/ TrimTarget \/ TrimReply
  BY Zenon, <1>5 DEF StartTrim, TrimTarget, TrimReply
<1>6. CASE UNCHANGED opVars
  BY Zenon, <1>6 DEF opVars
<1>7. Operates \/ UNCHANGED opVars
  BY StepsApart DEF vars
<1> QED
  BY Zenon, <1>1, <1>2, <1>3, <1>4, <1>5, <1>6, <1>7 DEF Operates

(* FreezePlan!FrozenAsAsked for every table and every request: a            *)
(* freeze-list (freeze_one_target) freezes a superblock only through a name *)
(* of the request that led to it when the table was read, and that leads    *)
(* into it when it is opened, whatever is mounted in between.               *)
THEOREM FreezesAsAsked == Spec => FrozenAsAsked
<1>1. Init => Asking
  BY DEF Init, Asking
<1>2. MountInv /\ OpInv /\ SelectionExact /\ Asking /\ [Next]_vars => Asking'
  BY AskingNext, Zenon DEF MountInv, SelectionExact
<1>3. Spec => []Asking
  BY <1>1, <1>2, SelectionIsExact, PlanInvHolds, PTL DEF Spec
<1>4. OpInv /\ Asking /\ [Next]_vars =>
        [\A d \in frozen' \ frozen :
           asked # {} => \E n \in Path : <<n, d>> \in asked /\ OpenedDev(n) = d]_vars
  <2> SUFFICES ASSUME OpInv, Asking, [Next]_vars, NEW d \in frozen' \ frozen, asked # {}
               PROVE  \E n \in Path : <<n, d>> \in asked /\ OpenedDev(n) = d
    OBVIOUS
  <2>1. FreezeTarget /\ d = queue[1].dev
    BY Zenon, FrozenGrows
  <2>2. pc = "walk" /\ queue # <<>> /\ Opens(queue[1])
    BY Zenon, <2>1 DEF FreezeTarget
  <2>3. queue[1] \in Range(queue)
    BY <2>2, FirstAndRest DEF OpInv, OpTypes
  <2>4. PICK n \in Path : queue[1].requested = <<n>> /\ <<n, queue[1].dev>> \in asked
    BY Zenon, <2>2, <2>3 DEF Asking
  <2>5. <<n>> # <<>> /\ DOMAIN <<n>> = {1} /\ <<n>>[1] = n
    OBVIOUS
  <2>6. OpenedDev(n) = queue[1].dev
    BY <2>2, <2>4, <2>5 DEF Opens
  <2> QED BY Zenon, <2>1, <2>4, <2>6
<1> QED
  BY <1>3, <1>4, PlanInvHolds, PTL DEF Spec, FrozenAsAsked

(* FreezePlan!OpensAsPlanned: a freeze, a drain and a trim never take a     *)
(* changed mount or a failed call for what was planned.                     *)
THEOREM OpenedAsPlanned == Spec => OpensAsPlanned
<1> QED
  BY FreezesAsAsked, SuccessMeansThawed, TrimsEachOnce, FreezesThePlan DEF OpensAsPlanned

-----------------------------------------------------------------------------
(* What lies in a superblock is frozen before it.                          *)

\* No target lies in a later one, as in a plan; and in an earlier one, as in a freeze.
Outward(q, N) == \A i, j \in 1..Len(q) : i < j => <<q[j].dev, q[i].dev>> \notin N

Inward(q, N) == \A i, j \in 1..Len(q) : i < j => <<q[i].dev, q[j].dev>> \notin N

(* A plan has a superblock before those that lie in it, since a mount       *)
(* stands in the table after the mount that it was made in.                 *)
LEMMA BuildNests ==
  ASSUME Ordered
  PROVE  Outward(Build(table), Nesting(table))
<1> DEFINE b == Build(table)
           f == Firsts(table)
<1>0. table \in Seq(RowSet)
  BY Zenon DEF Ordered
<1>1. Len(b) = Len(f) /\ \A k \in 1..Len(f) : b[k].dev = table[f[k]].dev
  BY Zenon, <1>0, BuildIs
<1>2. /\ f \in Seq(1..Len(table)) /\ \A j, k \in 1..Len(f) : j < k => f[j] < f[k]
      /\ \A k \in 1..Len(f) : \A j \in 1..(f[k] - 1) : table[j].dev # table[f[k]].dev
  BY Zenon, <1>0, FirstsAre
<1> HIDE DEF b, f
<1>3. PICK n \in Nat, m \in Nat : n = Len(f) /\ m = Len(table) /\ DOMAIN table = 1..m
  BY <1>0, <1>2
<1>4. \A k \in 1..n : f[k] \in 1..m
  BY <1>2, <1>3
<1>5. ASSUME NEW i \in 1..n, NEW j \in 1..n, i < j, <<b[j].dev, b[i].dev>> \in Nesting(table)
      PROVE  FALSE
  <2>1. PICK x \in 1..m, y \in 1..m :
          /\ table[x].dev = b[j].dev /\ table[y].dev = b[i].dev
          /\ table[x].id < table[y].id
          /\ \A k \in 1..(y - 1) : table[k].dev # b[i].dev
    BY <1>3, <1>5 DEF Nesting
  <2>2. f[i] \in 1..m /\ f[j] \in 1..m /\ f[i] < f[j]
    BY Zenon, <1>2, <1>3, <1>4, <1>5
  <2>3. ~(f[i] \in 1..(y - 1)) /\ ~(x \in 1..(f[j] - 1))
    BY Zenon, <1>1, <1>2, <1>3, <2>1
  <2>4. y <= f[i] /\ f[j] <= x
    BY <2>2, <2>3
  <2>5. y < x
    BY <2>2, <2>4
  <2>6. table[y].id < table[x].id
    BY Zenon, <1>3, <2>5 DEF Ordered
  <2>7. table[x].id \in Nat /\ table[y].id \in Nat
    <3>1. table[x] \in RowSet /\ table[y] \in RowSet
      BY <1>0, <1>3
    <3> QED BY Zenon, <3>1 DEF RowSet
  <2> QED BY <2>1, <2>6, <2>7
<1> QED
  BY Zenon, <1>1, <1>3, <1>5 DEF Outward, b

(* A request keeps the order of the plan.                                   *)
LEMMA RestrictNests ==
  ASSUME NEW t, NEW targets \in Seq(TargetSet), NEW names \in Seq(Path), NEW N, Outward(targets, N)
  PROVE  Outward(RestrictTo(t, targets, names), N)
<1> DEFINE S == {x \in Range(targets) : Selecting(t, names, x.dev) # <<>>}
           c == Among(targets, S)
           r == RestrictTo(t, targets, names)
<1>1. r = [i \in DOMAIN c |-> [c[i] EXCEPT !.requested = Selecting(t, names, c[i].dev)]]
  BY Zenon DEF RestrictTo
<1>2. c \in Seq(TargetSet) /\ Selected(c, targets, Len(targets), S)
  BY Zenon, AmongIs
<1> HIDE DEF c, r, S
<1>3. PICK n \in Nat, m \in Nat : n = Len(c) /\ DOMAIN c = 1..n /\ m = Len(targets)
  BY <1>2
<1>4. PICK e \in [1..n -> 1..m] :
        /\ \A i, j \in 1..n : i < j => e[i] < e[j]
        /\ \A i \in 1..n : c[i] = targets[e[i]]
  BY Zenon, <1>2, <1>3 DEF Selected
<1>5. ASSUME NEW i \in 1..n PROVE r[i].dev = c[i].dev /\ e[i] \in 1..m
  <2>1. c[i] \in TargetSet
    BY <1>2, <1>3
  <2>2. r[i] = [c[i] EXCEPT !.requested = Selecting(t, names, c[i].dev)]
    BY Zenon, <1>1, <1>3
  <2> QED BY Zenon, <1>4, <2>1, <2>2 DEF TargetSet
<1>6. Len(r) = n
  BY <1>1, <1>3
<1>7. ASSUME NEW i \in 1..n, NEW j \in 1..n, i < j PROVE <<r[j].dev, r[i].dev>> \notin N
  <2>1. e[i] \in 1..m /\ e[j] \in 1..m /\ e[i] < e[j]
    BY Zenon, <1>4, <1>5, <1>7
  <2>2. <<targets[e[j]].dev, targets[e[i]].dev>> \notin N
    BY Zenon, <1>3, <2>1 DEF Outward
  <2> QED BY Zenon, <1>4, <1>5, <2>2
<1> QED
  BY Zenon, <1>6, <1>7 DEF Outward, r

(* The reverse of a plan goes inwards first.                                *)
LEMMA BackwardsNests ==
  ASSUME NEW q \in Seq(TargetSet), NEW N, Outward(q, N)
  PROVE  Inward(FreezeOrder(q), N)
<1>1. PICK n \in Nat : n = Len(q)
  OBVIOUS
<1> DEFINE r == FreezeOrder(q)
<1>2. r = [i \in 1..n |-> q[(n - i) + 1]]
  BY Zenon, <1>1 DEF FreezeOrder, Backwards
<1> HIDE DEF r
<1>3. Len(r) = n
  BY <1>2
<1>4. ASSUME NEW i \in 1..n, NEW j \in 1..n, i < j PROVE <<r[i].dev, r[j].dev>> \notin N
  <2>1. (n - i) + 1 \in 1..n /\ (n - j) + 1 \in 1..n /\ (n - j) + 1 < (n - i) + 1
    BY <1>4
  <2>2. <<q[(n - i) + 1].dev, q[(n - j) + 1].dev>> \notin N
    BY Zenon, <1>1, <2>1 DEF Outward
  <2> QED BY Zenon, <1>2, <2>2
<1> QED
  BY Zenon, <1>3, <1>4 DEF Inward, r

\* What is ahead of a freeze lies in none of what is ahead of it.
Nested == pc = "walk" => Inward(queue, nesting)

(* A freeze starts in the order of its plan, reversed.                      *)
LEMMA PrepareNests ==
  ASSUME Ordered, Prepare
  PROVE  Nested'
<1>1. PICK names \in Requests \cup {Everything} : queue' = FreezeOrder(BuildPlan(table, names))
  BY Zenon DEF Prepare
<1>2. nesting' = Nesting(table)
  BY Zenon DEF Prepare
<1>3. Build(table) \in Seq(TargetSet) /\ Distinct(Build(table)) /\ Outward(Build(table), nesting')
  BY Zenon, <1>2, BuildIs, BuildNests DEF Ordered
<1>4. BuildPlan(table, names) \in Seq(TargetSet) /\ Outward(BuildPlan(table, names), nesting')
  <2>1. CASE names = Everything
    BY Zenon, <1>3, <2>1 DEF BuildPlan
  <2>2. CASE names # Everything
    <3>1. names \in Seq(Path)
      BY <2>2, PlanAssumption
    <3>2. BuildPlan(table, names) = RestrictTo(table, Build(table), names)
      BY <2>2 DEF BuildPlan
    <3>3. RestrictTo(table, Build(table), names) \in Seq(TargetSet)
      BY Zenon, <1>3, <3>1, RestrictIs
    <3>4. Outward(RestrictTo(table, Build(table), names), nesting')
      BY Zenon, <1>3, <3>1, RestrictNests
    <3> QED BY Zenon, <3>2, <3>3, <3>4
  <2> QED BY Zenon, <2>1, <2>2
<1>5. Inward(queue', nesting')
  BY Zenon, <1>1, <1>4, BackwardsNests
<1> QED
  BY Zenon, <1>5 DEF Nested

(* A target that is passed lies in none of those that follow, nor do they   *)
(* in one another.                                                          *)
LEMMA InwardRest ==
  ASSUME NEW q \in Seq(TargetSet), q # <<>>, NEW N, Inward(q, N)
  PROVE  Inward(Tail(q), N) /\ \A e \in Devs(Tail(q)) : <<q[1].dev, e>> \notin N
<1>1. PICK n \in Nat : n = Len(q) /\ n > 0
  OBVIOUS
<1>2. PICK t : t = Tail(q)
  BY Zenon
<1>3. t \in Seq(TargetSet) /\ Len(t) = n - 1 /\ DOMAIN t = 1..(n - 1)
  BY <1>1, <1>2
<1>4. \A i \in 1..(n - 1) : t[i] = q[i + 1]
  BY <1>1, <1>2
<1>5. ASSUME NEW i \in 1..(n - 1), NEW j \in 1..(n - 1), i < j PROVE <<t[i].dev, t[j].dev>> \notin N
  <2>1. i + 1 \in 1..n /\ j + 1 \in 1..n /\ i + 1 < j + 1
    BY <1>1, <1>5
  <2> QED BY Zenon, <1>1, <1>4, <2>1 DEF Inward
<1>6. ASSUME NEW j \in 1..(n - 1) PROVE <<q[1].dev, t[j].dev>> \notin N
  <2>1. 1 \in 1..n /\ j + 1 \in 1..n /\ 1 < j + 1
    BY <1>1
  <2> QED BY Zenon, <1>1, <1>4, <2>1 DEF Inward
<1>7. Inward(t, N)
  BY Zenon, <1>3, <1>5 DEF Inward
<1>8. \A e \in Devs(t) : <<q[1].dev, e>> \notin N
  BY Zenon, <1>3, <1>6 DEF Devs
<1> QED
  BY Zenon, <1>2, <1>7, <1>8

(* Every step keeps what is ahead of a freeze in its order.                 *)
LEMMA NestedNext ==
  ASSUME OpInv, Ordered, Nested, [Next]_vars
  PROVE  Nested'
<1>1. CASE Prepare
  BY Zenon, <1>1, PrepareNests
<1>2. CASE FreezeTarget
  <2>1. queue \in Seq(TargetSet) /\ queue # <<>>
    BY Zenon, <1>2 DEF FreezeTarget, OpInv, OpTypes
  <2>2. queue' = Tail(queue) /\ pc = "walk" /\ nesting' = nesting
    BY Zenon, <1>2 DEF FreezeTarget
  <2>3. Inward(Tail(queue), nesting)
    BY Zenon, <2>1, <2>2, InwardRest DEF Nested
  <2> QED BY Zenon, <2>2, <2>3 DEF Nested
<1>3. CASE Rollback \/ Commit \/ Restart
  <2>1. pc' # "walk"
    BY Zenon, <1>3 DEF Rollback, Commit, Restart
  <2> QED BY Zenon, <2>1 DEF Nested
<1>4. CASE Discover \/ TrackedDrain \/ StartTrim
  BY <1>4 DEF Discover, TrackedDrain, StartTrim, Nested
<1>5. CASE DrainTarget \/ TrimTarget
  BY Zenon, <1>5 DEF DrainTarget, TrimTarget, Nested
<1>6. CASE DrainRest \/ TrimReply
  BY Zenon, <1>6 DEF DrainRest, TrimReply, Nested
<1>7. CASE UNCHANGED opVars
  BY Zenon, <1>7 DEF opVars, Nested, Inward
<1>8. Operates \/ UNCHANGED opVars
  BY Zenon, StepsApart DEF vars
<1> QED
  BY Zenon, <1>1, <1>2, <1>3, <1>4, <1>5, <1>6, <1>7, <1>8 DEF Operates

(* FreezePlan!NestedFirst for every table and every request: a superblock   *)
(* is frozen only when no target still ahead goes by a mount that lay in it *)
(* when the table was read (build_plan, restrict_to, freeze_order,          *)
(* freeze_targets).                                                         *)
THEOREM NestedAreFirst == Spec => NestedFirst
<1>1. Init => Nested
  BY DEF Init, Nested
<1>2. MountInv /\ OpInv /\ Nested /\ [Next]_vars => Nested'
  BY NestedNext, Zenon DEF MountInv
<1>3. Spec => []Nested
  BY <1>1, <1>2, PlanInvHolds, PTL DEF Spec
<1>4. OpInv /\ Nested /\ [Next]_vars =>
        [\A d \in frozen' \ frozen, e \in Devs(queue') : <<d, e>> \notin nesting]_vars
  <2> SUFFICES ASSUME OpInv, Nested, [Next]_vars, NEW d \in frozen' \ frozen, NEW e \in Devs(queue')
               PROVE  <<d, e>> \notin nesting
    BY Zenon
  <2>1. FreezeTarget /\ d = queue[1].dev
    BY Zenon, FrozenGrows
  <2>2. pc = "walk" /\ queue # <<>> /\ queue' = Tail(queue) /\ queue \in Seq(TargetSet)
    BY Zenon, <2>1 DEF FreezeTarget, OpInv, OpTypes
  <2> QED BY Zenon, <2>1, <2>2, InwardRest DEF Nested
<1> QED
  BY <1>3, <1>4, PlanInvHolds, PTL DEF Spec, NestedFirst

=============================================================================
