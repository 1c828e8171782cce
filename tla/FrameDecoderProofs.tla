------------------------- MODULE FrameDecoderProofs -------------------------
(***************************************************************************)
(* The frame decoder for every bound on a frame and streams of any length, *)
(* cut into reads in any way: what it has emitted is what the stream       *)
(* means, and what it holds is determined by the stream.                   *)
(***************************************************************************)
EXTENDS FrameDecoder, SequenceTheorems, Induction

Plain == {"data", "space"}
Stop == {"nl", "ff"}

(* A slice of a sequence, by its length and its elements.                   *)
LEMMA Slice ==
  ASSUME NEW X, NEW s \in Seq(X), NEW m \in Nat, NEW e \in Nat, m + e <= Len(s)
  PROVE  /\ SubSeq(s, 1 + m, m + e) \in Seq(X) /\ Len(SubSeq(s, 1 + m, m + e)) = e
         /\ \A i \in 1..e : SubSeq(s, 1 + m, m + e)[i] = s[m + i]
<1>1. 1 + m \in Int /\ m + e \in Int /\ \A i \in (1 + m)..(m + e) : i \in 1..Len(s)
  OBVIOUS
<1>2. \A i \in (1 + m)..(m + e) : s[i] \in X
  BY <1>1, ElementOfSeq
<1>3. /\ SubSeq(s, 1 + m, m + e) \in Seq(X)
      /\ Len(SubSeq(s, 1 + m, m + e)) = IF 1 + m <= m + e THEN (m + e) - (1 + m) + 1 ELSE 0
      /\ \A i \in 1..((m + e) - (1 + m) + 1) : SubSeq(s, 1 + m, m + e)[i] = s[(1 + m) + i - 1]
  BY <1>1, <1>2, SubSeqProperties
<1>4. (m + e) - (1 + m) + 1 = e /\ (1 + m <= m + e \/ e = 0)
  OBVIOUS
<1>5. \A i \in 1..e : (1 + m) + i - 1 = m + i
  OBVIOUS
<1> QED
  BY <1>3, <1>4, <1>5

(* A sequence ends as its last part does.                                   *)
LEMMA AppendConcat ==
  ASSUME NEW s \in Seq(Bytes), NEW t \in Seq(Bytes), NEW c \in Bytes
  PROVE  Append(s \o t, c) = s \o Append(t, c)
<1>1. s \o t \in Seq(Bytes) /\ <<c>> \in Seq(Bytes)
  OBVIOUS
<1>2. Append(s \o t, c) = (s \o t) \o <<c>> /\ Append(t, c) = t \o <<c>>
  BY <1>1, AppendIsConcat
<1>3. (s \o t) \o <<c>> = s \o (t \o <<c>>)
  BY <1>1, ConcatAssociative
<1> QED
  BY <1>2, <1>3, Zenon

-----------------------------------------------------------------------------
(* What the bytes of a stream mean, as it grows.                           *)

\* The last delimiter before a position, or 0.
Before(s, i) == Max({0} \cup {j \in Ends(s) : j < i})

(* The bytes of a stream are plain or delimiters.                           *)
LEMMA Kinds == Bytes = Plain \cup Stop /\ Plain \cap Stop = {} /\ Plain = Bytes \ {"nl", "ff"}
BY DEF Bytes, Plain, Stop

(* There is a last delimiter, or none.                                      *)
LEMMA BeforeIs ==
  ASSUME NEW s \in Seq(Bytes), NEW i \in 1..(Len(s) + 1)
  PROVE  /\ Before(s, i) \in 0..(i - 1)
         /\ Before(s, i) # 0 => s[Before(s, i)] \in Stop
         /\ \A j \in 1..(i - 1) : s[j] \in Stop => j <= Before(s, i)
<1> DEFINE S == {0} \cup {j \in Ends(s) : j < i}
<1>1. S \subseteq 0..(i - 1) /\ 0 \in S
  BY DEF Ends
<1>2. PICK n \in Nat : n = Len(s) /\ DOMAIN s = 1..n
  OBVIOUS
<1>3. \A j \in 1..(i - 1) : s[j] \in Stop <=> j \in S
  BY <1>2 DEF Ends, Stop
<1>4. \A j \in S : j # 0 => s[j] \in Stop
  BY DEF Ends, Stop
<1> HIDE DEF S
<1> DEFINE G == {k \in 0..(i - 1) : (i - 1) - k \in S}
<1>5. G \in SUBSET Nat /\ (i - 1) \in G
  BY <1>1
<1>6. PICK m \in G : \A k \in G : m <= k
  <2> HIDE DEF G
  <2> QED BY <1>5, LeastNumber
<1>7. PICK t \in 0..(i - 1) : t = (i - 1) - m /\ t \in S
  BY <1>6
<1>8. ASSUME NEW j \in S PROVE t >= j
  <2>1. j \in 0..(i - 1)
    BY <1>1
  <2>2. (i - 1) - j \in G
    BY <2>1
  <2>3. G \subseteq 0..(i - 1)
    OBVIOUS
  <2> HIDE DEF G
  <2>4. m \in 0..(i - 1) /\ m <= (i - 1) - j
    BY Zenon, <1>6, <2>2, <2>3
  <2> QED BY <1>7, <2>1, <2>4
<1>9. \E x \in S : \A y \in S : x >= y
  BY <1>7, <1>8
<1>10. Before(s, i) = CHOOSE x \in S : \A y \in S : x >= y
  BY DEF Before, S, Max
<1>11. Before(s, i) \in S /\ \A y \in S : Before(s, i) >= y
  BY <1>9, <1>10, Zenon
<1> QED
  BY Zenon, <1>1, <1>3, <1>4, <1>11

(* A longer stream has the delimiters of the shorter one where it had them. *)
LEMMA BeforeGrows ==
  ASSUME NEW s \in Seq(Bytes), NEW b \in Bytes, NEW i \in 1..(Len(s) + 1)
  PROVE  Before(Append(s, b), i) = Before(s, i)
<1>1. PICK n \in Nat : n = Len(s) /\ DOMAIN s = 1..n
  OBVIOUS
<1>2. DOMAIN Append(s, b) = 1..(n + 1) /\ \A j \in 1..n : Append(s, b)[j] = s[j]
  BY <1>1
<1>3. {j \in Ends(Append(s, b)) : j < i} = {j \in Ends(s) : j < i}
  BY <1>1, <1>2 DEF Ends
<1> QED
  BY Zenon, <1>3 DEF Before

(* And it has the segments of the shorter one.                              *)
LEMMA SegmentGrows ==
  ASSUME NEW s \in Seq(Bytes), NEW b \in Bytes, NEW i \in 1..(Len(s) + 1)
  PROVE  Segment(Append(s, b), i) = Segment(s, i)
<1>1. PICK n \in Nat : n = Len(s) /\ DOMAIN s = 1..n
  OBVIOUS
<1>2. PICK m \in 0..(i - 1) : m = Before(s, i) /\ m = Before(Append(s, b), i)
  BY BeforeIs, BeforeGrows
<1>3. Segment(s, i) = SubSeq(s, 1 + m, i - 1) /\ Segment(Append(s, b), i) = SubSeq(Append(s, b), 1 + m, i - 1)
  BY Zenon, <1>2 DEF Segment, Before
<1>4. SubSeq(Append(s, b), 1 + m, i - 1) = SubSeq(s, 1 + m, i - 1)
  BY <1>1
<1> QED
  BY <1>3, <1>4

\* What has come since the last delimiter, and whether a frame made of it
\* would be flagged.
Rest(s) == Segment(s, Len(s) + 1)
Flag(s) == Flagged(s, Len(s) + 1)

(* It starts behind the last delimiter.                                     *)
LEMMA RestIs ==
  ASSUME NEW s \in Seq(Bytes), NEW n \in Nat, n = Len(s)
  PROVE  /\ Rest(s) = SubSeq(s, 1 + Before(s, n + 1), n)
         /\ Before(s, n + 1) \in 0..n /\ (Before(s, n + 1) # 0 => s[Before(s, n + 1)] \in Stop)
         /\ \A j \in 1..n : s[j] \in Stop => j <= Before(s, n + 1)
<1>1. (n + 1) - 1 = n /\ n + 1 \in 1..(Len(s) + 1)
  OBVIOUS
<1>2. Rest(s) = SubSeq(s, 1 + Before(s, n + 1), (n + 1) - 1)
  BY Zenon DEF Rest, Segment, Before
<1>3. /\ Before(s, n + 1) \in 0..((n + 1) - 1)
      /\ Before(s, n + 1) # 0 => s[Before(s, n + 1)] \in Stop
      /\ \A j \in 1..((n + 1) - 1) : s[j] \in Stop => j <= Before(s, n + 1)
  BY Zenon, <1>1, BeforeIs
<1> QED
  BY Zenon, <1>1, <1>2, <1>3

(* What has come since the last delimiter is plain.                         *)
LEMMA RestPlain ==
  ASSUME NEW s \in Seq(Bytes)
  PROVE  Rest(s) \in Seq(Plain)
<1>1. PICK n \in Nat : n = Len(s) /\ DOMAIN s = 1..n
  OBVIOUS
<1>2. PICK m \in 0..n : m = Before(s, n + 1) /\ \A j \in 1..n : s[j] \in Stop => j <= m
  BY Zenon, <1>1, RestIs
<1>3. Rest(s) = SubSeq(s, 1 + m, n)
  BY <1>1, <1>2, RestIs
<1>4. \A j \in (1 + m)..n : s[j] \in Plain
  <2>1. \A j \in 1..n : s[j] \in Bytes
    BY <1>1
  <2>2. \A j \in (1 + m)..n : j \in 1..n /\ ~(j <= m)
    BY <1>2
  <2> QED BY <1>2, <2>1, <2>2, Kinds
<1>5. SubSeq(s, 1 + m, n) \in Seq(Plain)
  <2>1. 1 + m \in Int /\ n \in Int
    BY <1>2
  <2> QED BY <1>4, <2>1, SubSeqProperties, Zenon
<1> QED
  BY <1>3, <1>5

(* A plain byte adds to it and a delimiter starts it anew.                  *)
LEMMA RestGrows ==
  ASSUME NEW s \in Seq(Bytes), NEW b \in Bytes
  PROVE  Rest(Append(s, b)) = IF b \in Stop THEN <<>> ELSE Append(Rest(s), b)
<1>1. PICK n \in Nat : n = Len(s) /\ DOMAIN s = 1..n
  OBVIOUS
<1>2. PICK t : t = Append(s, b)
  BY Zenon
<1>3. /\ t \in Seq(Bytes) /\ Len(t) = n + 1 /\ t[n + 1] = b
      /\ \A j \in 1..n : t[j] = s[j]
  BY <1>1, <1>2
<1>4. PICK m \in 0..n :
        /\ m = Before(s, n + 1) /\ (m # 0 => s[m] \in Stop)
        /\ \A j \in 1..n : s[j] \in Stop => j <= m
  BY Zenon, <1>1, RestIs
<1>5. PICK k \in 0..(n + 1) :
        /\ k = Before(t, n + 2) /\ (k # 0 => t[k] \in Stop)
        /\ \A j \in 1..(n + 1) : t[j] \in Stop => j <= k
  <2>1. n + 1 \in Nat /\ (n + 1) + 1 = n + 2
    BY <1>1
  <2> QED BY Zenon, <1>3, <2>1, RestIs
<1>6. Rest(s) = SubSeq(s, 1 + m, n) /\ Rest(t) = SubSeq(t, 1 + k, n + 1)
  <2>1. n + 1 \in Nat /\ (n + 1) + 1 = n + 2
    BY <1>1
  <2>2. Rest(s) = SubSeq(s, 1 + m, n)
    BY Zenon, <1>1, <1>4, RestIs
  <2>3. Rest(t) = SubSeq(t, 1 + k, n + 1)
    BY Zenon, <1>3, <1>5, <2>1, RestIs
  <2> QED BY <2>2, <2>3
<1>7. CASE b \in Stop
  <2>1. k = n + 1
    BY <1>1, <1>3, <1>5, <1>7
  <2>2. SubSeq(t, 1 + k, n + 1) = <<>>
    BY <1>1, <1>3, <2>1
  <2> QED BY Zenon, <1>2, <1>6, <1>7, <2>2
<1>8. CASE b \notin Stop
  <2>1. k # n + 1
    BY <1>1, <1>3, <1>5, <1>8
  <2>2. k \in 0..n
    BY <1>1, <1>5, <2>1
  <2>3. k <= m
    BY <1>1, <1>3, <1>4, <1>5, <2>2
  <2>4. m <= k
    BY <1>1, <1>3, <1>4, <1>5
  <2>5. k = m
    BY <1>4, <2>2, <2>3, <2>4
  <2>6. SubSeq(t, 1 + m, n + 1) = Append(SubSeq(s, 1 + m, n), b)
    <3>0. PICK e \in Nat : e = n - m /\ n = m + e /\ (n + 1) - m = e + 1 /\ m + (e + 1) = n + 1
      OBVIOUS
    <3>1. PICK u : u \in Seq(Bytes) /\ u = SubSeq(s, 1 + m, n) /\ Len(u) = e /\ \A i \in 1..e : u[i] = s[m + i]
      <4>1. m \in Nat /\ m + e <= Len(s)
        BY <1>1, <3>0
      <4>2. /\ SubSeq(s, 1 + m, m + e) \in Seq(Bytes) /\ Len(SubSeq(s, 1 + m, m + e)) = e
            /\ \A i \in 1..e : SubSeq(s, 1 + m, m + e)[i] = s[m + i]
        BY <4>1, Slice, Zenon
      <4> QED BY <3>0, <4>2, Zenon
    <3>2. PICK w : /\ w = SubSeq(t, 1 + m, n + 1) /\ w \in Seq(Bytes) /\ Len(w) = e + 1
                   /\ \A i \in 1..(e + 1) : w[i] = t[m + i]
      <4>1. m \in Nat /\ e + 1 \in Nat /\ m + (e + 1) <= Len(t) /\ t \in Seq(Bytes)
        BY <1>1, <1>3, <3>0
      <4>2. PICK h \in Nat : h = e + 1
        BY <4>1
      <4>3. m \in Nat /\ t \in Seq(Bytes) /\ m + h <= Len(t)
        BY <4>1, <4>2
      <4>4. /\ SubSeq(t, 1 + m, m + h) \in Seq(Bytes) /\ Len(SubSeq(t, 1 + m, m + h)) = h
            /\ \A i \in 1..h : SubSeq(t, 1 + m, m + h)[i] = t[m + i]
        BY <4>3, Slice
      <4> QED BY <3>0, <4>2, <4>4, Zenon
    <3>3. \A i \in 1..e : m + i \in 1..n /\ i \in 1..(e + 1)
      BY <3>0
    <3>5. \A i \in 1..e : w[i] = u[i]
      BY <1>3, <3>1, <3>2, <3>3
    <3>6. w[e + 1] = b
      BY <1>3, <3>0, <3>2
    <3>7. w = Append(u, b)
      <4>0. u \in Seq(Bytes) /\ Len(u) = e /\ Len(w) = e + 1
        BY <3>1, <3>2
      <4>1. Append(u, b) \in Seq(Bytes) /\ Len(Append(u, b)) = Len(w)
        BY <4>0
      <4>2. \A i \in 1..Len(w) : w[i] = Append(u, b)[i]
        BY <3>1, <3>2, <3>5, <3>6
      <4> QED BY <3>2, <4>1, <4>2, SeqEqual, Zenon
    <3> QED BY <3>1, <3>2, <3>7
  <2> QED BY Zenon, <1>2, <1>6, <1>8, <2>5, <2>6
<1> QED
  BY <1>7, <1>8

\* A delimiter that ends a segment too long, or makes a frame.
Overflows(s) == Len(Rest(s)) > MAX_FRAME_LEN
Completes(s, b) == b = "nl" /\ ~Overflows(s) /\ "data" \in Range(Rest(s))

Emits(s, b) ==
  IF b \in Stop /\ Overflows(s) THEN <<Oversized(Len(Rest(s)))>>
  ELSE IF Completes(s, b) THEN <<Frame(Rest(s), Flag(s))>> ELSE <<>>

(* The byte that is added makes a frame of what came before it, or none.    *)
LEMMA FrameGrows ==
  ASSUME NEW s \in Seq(Bytes), NEW b \in Bytes
  PROVE  /\ \A i \in 1..Len(s) : MakesFrame(Append(s, b), i) <=> MakesFrame(s, i)
         /\ \A i \in 1..Len(s) : TooLong(Append(s, b), i) <=> TooLong(s, i)
         /\ \A i \in 1..Len(s) : i \in Ends(Append(s, b)) <=> i \in Ends(s)
         /\ MakesFrame(Append(s, b), Len(s) + 1) <=> Completes(s, b)
         /\ TooLong(Append(s, b), Len(s) + 1) <=> Overflows(s)
         /\ Len(s) + 1 \in Ends(Append(s, b)) <=> b \in Stop
<1>1. PICK n \in Nat : n = Len(s) /\ DOMAIN s = 1..n
  OBVIOUS
<1>2. PICK t : t = Append(s, b)
  BY Zenon
<1>3. /\ DOMAIN t = 1..(n + 1) /\ t[n + 1] = b
      /\ \A j \in 1..n : t[j] = s[j]
  BY <1>1, <1>2
<1>4. \A i \in 1..(n + 1) : Segment(t, i) = Segment(s, i)
  BY <1>1, <1>2, SegmentGrows
<1>5. \A i \in 1..n : i \in 1..(n + 1)
  BY <1>1
<1>6. Segment(t, n + 1) = Rest(s)
  BY <1>1, <1>4 DEF Rest
<1>7. \A i \in 1..n : TooLong(t, i) <=> TooLong(s, i)
  BY <1>4, <1>5 DEF TooLong
<1>8. \A i \in 1..n : MakesFrame(t, i) <=> MakesFrame(s, i)
  BY <1>3, <1>4, <1>5, <1>7 DEF MakesFrame
<1>9. \A i \in 1..n : i \in Ends(t) <=> i \in Ends(s)
  BY <1>1, <1>3, <1>5 DEF Ends
<1>10. TooLong(t, n + 1) <=> Overflows(s)
  BY <1>6 DEF TooLong, Overflows
<1>11. MakesFrame(t, n + 1) <=> Completes(s, b)
  BY <1>3, <1>6, <1>10 DEF MakesFrame, Completes
<1>12. n + 1 \in Ends(t) <=> b \in Stop
  BY <1>1, <1>3 DEF Ends, Stop
<1> QED
  BY <1>1, <1>2, <1>7, <1>8, <1>9, <1>10, <1>11, <1>12

(* What is flagged so far stays so, and the byte decides what comes next.   *)
LEMMA FlagGrows ==
  ASSUME NEW s \in Seq(Bytes), NEW b \in Bytes
  PROVE  /\ \A i \in 1..(Len(s) + 1) : Flagged(Append(s, b), i) <=> Flagged(s, i)
         /\ Flag(Append(s, b)) <=> b = "ff" \/ (Flag(s) /\ ~Completes(s, b))
<1>1. PICK n \in Nat : n = Len(s) /\ DOMAIN s = 1..n
  OBVIOUS
<1>2. PICK t : t = Append(s, b)
  BY Zenon
<1>3. /\ Len(t) = n + 1 /\ t[n + 1] = b
      /\ \A j \in 1..n : t[j] = s[j]
  BY <1>1, <1>2
<1>4. /\ \A i \in 1..n : MakesFrame(t, i) <=> MakesFrame(s, i)
      /\ \A i \in 1..n : i \in Ends(t) <=> i \in Ends(s)
      /\ MakesFrame(t, n + 1) <=> Completes(s, b)
      /\ n + 1 \in Ends(t) <=> b \in Stop
  BY <1>1, <1>2, FrameGrows
<1>5. ASSUME NEW i \in 1..(n + 1) PROVE Flagged(t, i) <=> Flagged(s, i)
  <2>1. \A j \in 1..(i - 1) : j \in 1..n /\ \A k \in j..(i - 1) : k \in 1..n
    BY <1>1
  <2>2. \A j \in 1..(i - 1) : t[j] = s[j]
    BY <1>3, <2>1
  <2>3. \A j \in 1..(i - 1) : \A k \in j..(i - 1) :
          (k \in Ends(t) => ~MakesFrame(t, k)) <=> (k \in Ends(s) => ~MakesFrame(s, k))
    BY <1>4, <2>1
  <2> QED BY <2>2, <2>3 DEF Flagged
<1>6. Flag(s) <=> Flagged(t, n + 1)
  <2>1. n + 1 \in 1..(n + 1)
    BY <1>1
  <2> QED BY <1>1, <1>5, <2>1 DEF Flag
<1> DEFINE Clear(j, m) == \A k \in j..m : k \in Ends(t) => ~MakesFrame(t, k)
<1>7. Flagged(t, n + 1) <=> \E j \in 1..n : t[j] = "ff" /\ Clear(j, n)
  <2>1. (n + 1) - 1 = n
    BY <1>1
  <2> QED BY <2>1 DEF Flagged
<1>8. Flag(t) <=> \E j \in 1..(n + 1) : t[j] = "ff" /\ Clear(j, n + 1)
  <2>1. (Len(t) + 1) - 1 = n + 1
    BY <1>1, <1>3
  <2> QED BY <2>1 DEF Flagged, Flag
<1>9. \A j \in 1..n : Clear(j, n + 1) <=> Clear(j, n) /\ (n + 1 \in Ends(t) => ~MakesFrame(t, n + 1))
  <2>1. \A j \in 1..n : j..(n + 1) = (j..n) \cup {n + 1}
    BY <1>1
  <2> QED BY <2>1
<1>10. Clear(n + 1, n + 1) <=> (n + 1 \in Ends(t) => ~MakesFrame(t, n + 1))
  <2>1. (n + 1)..(n + 1) = {n + 1}
    BY <1>1
  <2> QED BY <2>1
<1> HIDE DEF Clear
<1>11. 1..(n + 1) = (1..n) \cup {n + 1}
  BY <1>1
<1>12. Completes(s, b) => b = "nl" /\ b \in Stop
  BY DEF Completes, Stop
<1>13. (n + 1 \in Ends(t) => ~MakesFrame(t, n + 1)) <=> ~Completes(s, b)
  BY <1>4, <1>12
<1>14. Flag(t) <=> (\E j \in 1..n : t[j] = "ff" /\ Clear(j, n) /\ ~Completes(s, b))
                   \/ (t[n + 1] = "ff" /\ ~Completes(s, b))
  BY <1>8, <1>9, <1>10, <1>11, <1>13
<1>15. b = "ff" => ~Completes(s, b)
  BY DEF Completes
<1>16. Flag(t) <=> b = "ff" \/ (Flag(s) /\ ~Completes(s, b))
  BY <1>3, <1>6, <1>7, <1>14, <1>15
<1> QED
  BY <1>1, <1>2, <1>5, <1>16

Event == [event : {"Frame"}, bytes : Seq(Bytes), sentinel : BOOLEAN]
           \cup [event : {"Oversized"}, discarded : Nat]

(* Events that follow one another do so however they are grouped.           *)
LEMMA EventsConcat == \A s, t, u \in Seq(Event) : (s \o t) \o u = s \o (t \o u)
BY ConcatAssociative

(* A byte makes the decoder emit an event or none.                          *)
LEMMA EventsTyped ==
  ASSUME NEW s \in Seq(Bytes), NEW i \in 1..Len(s)
  PROVE  EventsAt(s, i) \in Seq(Event)
<1>1. Segment(s, i) \in Seq(Bytes)
  <2>1. PICK m \in Nat : m = Before(s, i) /\ m <= i - 1
    BY BeforeIs
  <2>2. PICK e \in Nat : i - 1 = m + e /\ m + e <= Len(s)
    <3>1. (i - 1) - m \in Nat /\ i - 1 = m + ((i - 1) - m) /\ i - 1 <= Len(s)
      BY <2>1
    <3> QED BY <3>1
  <2>3. SubSeq(s, 1 + m, m + e) \in Seq(Bytes)
    BY <2>2, Slice
  <2>4. Segment(s, i) = SubSeq(s, 1 + m, i - 1)
    BY <2>1, Zenon DEF Segment, Before
  <2> QED BY <2>2, <2>3, <2>4
<1>2. Len(Segment(s, i)) \in Nat /\ Flagged(s, i) \in BOOLEAN
  BY <1>1 DEF Flagged
<1>3. /\ Oversized(Len(Segment(s, i))) \in Event
      /\ Frame(Segment(s, i), Flagged(s, i)) \in Event
  BY <1>1, <1>2 DEF Oversized, Frame, Event
<1>4. \A x \in Event : <<x>> \in Seq(Event)
  OBVIOUS
<1>5. <<>> \in Seq(Event)
  OBVIOUS
<1> QED
  BY <1>3, <1>4, <1>5, Zenon DEF EventsAt

\* The recursion of Meaning.
Told(u, s) == u[0] = <<>> /\ \A i \in 1..Len(s) : u[i] = u[i - 1] \o EventsAt(s, i)

(* The recursion has a solution, the last value of which is the meaning.    *)
LEMMA MeaningRecursion ==
  ASSUME NEW s \in Seq(Bytes)
  PROVE  \E u \in [0..Len(s) -> Seq(Event)] : Told(u, s) /\ Meaning(s) = u[Len(s)]
<1> DEFINE n == Len(s)
           G(x, i) == x \o EventsAt(s, i)
           F == [p \in (1..n) \X Seq(Event) |-> G(p[2], p[1])]
<1>1. n \in Nat /\ <<>> \in Seq(Event)
  OBVIOUS
<1>2. ASSUME NEW i \in 1..n, NEW x \in Seq(Event)
      PROVE  G(x, i) \in Seq(Event)
  BY EventsTyped
<1>3. F \in Steps(n, Seq(Event))
  <2> HIDE DEF n, G
  <2> QED BY Zenon, <1>2 DEF Steps
<1>4. PICK f : Iterates(f, n, Seq(Event), <<>>, F)
  <2> HIDE DEF n, F
  <2> QED BY Zenon, <1>1, <1>3, Iteration
<1>5. ASSUME NEW i \in 1..n PROVE f[i] = G(f[i - 1], i)
  <2> HIDE DEF n, G
  <2>1. f[i - 1] \in Seq(Event)
    BY <1>4, <1>1 DEF Iterates
  <2> QED BY Zenon, <1>4, <2>1 DEF Iterates
<1>6. f = [i \in 0..n |-> IF i = 0 THEN <<>> ELSE G(f[i - 1], i)]
  <2> HIDE DEF n, G
  <2> QED BY <1>4, <1>5 DEF Iterates
<1> DEFINE h == CHOOSE g : g = [i \in 0..n |-> IF i = 0 THEN <<>> ELSE G(g[i - 1], i)]
<1>7. h = [i \in 0..n |-> IF i = 0 THEN <<>> ELSE G(h[i - 1], i)]
  BY Zenon, <1>6
<1>8. Meaning(s) = h[n]
  BY DEF Meaning
<1>9. h[0] = <<>> /\ \A i \in 1..n : h[i] = G(h[i - 1], i)
  <2> HIDE DEF h, G, n
  <2> QED BY <1>1, <1>7
<1> HIDE DEF h
<1>10. \A i \in 0..n : h[i] \in Seq(Event)
  <2> DEFINE S == {i \in 0..n : h[i] \in Seq(Event)}
  <2>1. 0 \in S
    <3> HIDE DEF n, G
    <3>1. 0 \in 0..n /\ h[0] \in Seq(Event)
      BY <1>1, <1>9
    <3> QED BY <3>1
  <2>2. \A i \in 1..n : i - 1 \in S => i \in S
    <3> HIDE DEF n, G
    <3> QED BY <1>1, <1>2, <1>9
  <2> HIDE DEF S
  <2>3. \A i \in 0..n : i \in S
    <3> HIDE DEF n
    <3> QED BY <1>1, <2>1, <2>2, InductionTo
  <2> QED BY <2>3 DEF S
<1>11. h \in [0..n -> Seq(Event)]
  <2>1. DOMAIN h = 0..n /\ h = [i \in DOMAIN h |-> h[i]]
    <3> HIDE DEF n, G
    <3> QED BY <1>7
  <2> HIDE DEF n
  <2> QED BY <1>10, <2>1
<1>12. Told(h, s)
  BY <1>9 DEF Told
<1> QED
  BY <1>8, <1>11, <1>12

(* The stream means what it meant before its last byte, and what that adds. *)
LEMMA MeaningGrows ==
  ASSUME NEW s \in Seq(Bytes), NEW b \in Bytes
  PROVE  Meaning(Append(s, b)) = Meaning(s) \o Emits(s, b)
<1>1. PICK n \in Nat : n = Len(s) /\ DOMAIN s = 1..n
  OBVIOUS
<1>2. PICK t \in Seq(Bytes) : t = Append(s, b) /\ Len(t) = n + 1
  <2>1. Append(s, b) \in Seq(Bytes) /\ Len(Append(s, b)) = n + 1
    BY <1>1
  <2> QED BY Zenon, <2>1
<1>3. /\ \A i \in 1..n : MakesFrame(t, i) <=> MakesFrame(s, i)
      /\ \A i \in 1..n : TooLong(t, i) <=> TooLong(s, i)
      /\ \A i \in 1..n : i \in Ends(t) <=> i \in Ends(s)
      /\ MakesFrame(t, n + 1) <=> Completes(s, b)
      /\ TooLong(t, n + 1) <=> Overflows(s)
      /\ n + 1 \in Ends(t) <=> b \in Stop
  BY <1>1, <1>2, FrameGrows
<1>4. \A i \in 1..(n + 1) : Segment(t, i) = Segment(s, i) /\ (Flagged(t, i) <=> Flagged(s, i))
  BY <1>1, <1>2, SegmentGrows, FlagGrows
<1>5. \A i \in 1..n : i \in 1..(n + 1)
  BY <1>1
<1>6. \A i \in 1..(n + 1) : Flagged(t, i) = Flagged(s, i)
  <2>1. \A i : Flagged(t, i) \in BOOLEAN /\ Flagged(s, i) \in BOOLEAN
    BY DEF Flagged
  <2> QED BY <1>4, <2>1
<1>7. \A i \in 1..n : EventsAt(t, i) = EventsAt(s, i)
  BY <1>3, <1>4, <1>5, <1>6 DEF EventsAt
<1>8. EventsAt(t, n + 1) = Emits(s, b)
  <2>1. n + 1 \in 1..(n + 1)
    BY <1>1
  <2>2. Segment(t, n + 1) = Rest(s) /\ Flagged(t, n + 1) = Flag(s)
    BY <1>1, <1>4, <1>6, <2>1 DEF Rest, Flag
  <2>3. Completes(s, b) => b \in Stop
    BY DEF Completes, Stop
  <2>4. CASE b \in Stop /\ Overflows(s)
    <3>1. EventsAt(t, n + 1) = <<Oversized(Len(Rest(s)))>>
      BY <1>3, <2>2, <2>4, Zenon DEF EventsAt
    <3> QED BY <2>4, <3>1, Zenon DEF Emits
  <2>5. CASE ~(b \in Stop /\ Overflows(s)) /\ Completes(s, b)
    <3>1. EventsAt(t, n + 1) = <<Frame(Rest(s), Flag(s))>>
      BY <1>3, <2>2, <2>3, <2>5, Zenon DEF EventsAt
    <3> QED BY <2>5, <3>1, Zenon DEF Emits
  <2>6. CASE ~(b \in Stop /\ Overflows(s)) /\ ~Completes(s, b)
    <3>1. EventsAt(t, n + 1) = <<>>
      BY <1>3, <2>6, Zenon DEF EventsAt
    <3> QED BY <2>6, <3>1, Zenon DEF Emits
  <2> QED BY <2>4, <2>5, <2>6
<1>9. PICK u \in [0..n -> Seq(Event)] : Told(u, s) /\ Meaning(s) = u[n]
  BY <1>1, MeaningRecursion
<1>10. PICK v \in [0..(n + 1) -> Seq(Event)] : Told(v, t) /\ Meaning(t) = v[n + 1]
  BY Zenon, <1>1, <1>2, MeaningRecursion
<1>11. /\ u[0] = <<>> /\ v[0] = <<>>
       /\ \A i \in 1..n : u[i] = u[i - 1] \o EventsAt(s, i)
       /\ \A i \in 1..(n + 1) : v[i] = v[i - 1] \o EventsAt(t, i)
  BY Zenon, <1>1, <1>2, <1>9, <1>10 DEF Told
<1>12. \A i \in 0..n : v[i] = u[i]
  <2> DEFINE S == {i \in 0..n : v[i] = u[i]}
  <2>1. 0 \in S
    BY <1>1, <1>11
  <2>2. ASSUME NEW i \in 1..n, i - 1 \in S PROVE i \in S
    <3>1. v[i - 1] = u[i - 1] /\ i \in 1..(n + 1)
      BY <1>1, <2>2
    <3>2. v[i] = v[i - 1] \o EventsAt(t, i) /\ u[i] = u[i - 1] \o EventsAt(s, i)
      BY Zenon, <1>11, <3>1
    <3>3. v[i] = u[i]
      BY <1>7, <3>1, <3>2, Zenon
    <3> QED BY <3>3
  <2> HIDE DEF S
  <2>3. \A i \in 0..n : i \in S
    BY Zenon, <1>1, <2>1, <2>2, InductionTo
  <2> QED BY <2>3 DEF S
<1>13. v[n + 1] = v[n] \o EventsAt(t, n + 1)
  <2>1. n + 1 \in 1..(n + 1) /\ (n + 1) - 1 = n
    BY <1>1
  <2> QED BY <1>11, <2>1, Zenon
<1>14. v[n] = u[n]
  BY <1>1, <1>12
<1> QED
  BY <1>2, <1>8, <1>9, <1>10, <1>13, <1>14, Zenon

-----------------------------------------------------------------------------
(* What the decoder holds, as bytes come.                                  *)

\* The decoder when g has come since the last delimiter.
Holding(g, f) ==
  IF Len(g) > MAX_FRAME_LEN
  THEN [buf |-> <<>>, discarding |-> TRUE, discarded |-> Len(g), sentinel_pending |-> f]
  ELSE [buf |-> g, discarding |-> FALSE, discarded |-> 0, sentinel_pending |-> f]

\* What a delimiter after g makes it emit, and the flag it then holds.
Makes(g, b) == b = "nl" /\ ~(Len(g) > MAX_FRAME_LEN) /\ "data" \in Range(g)
Emission(g, f, b) ==
  IF b \in Stop /\ Len(g) > MAX_FRAME_LEN THEN <<Oversized(Len(g))>>
  ELSE IF Makes(g, b) THEN <<Frame(g, f)>> ELSE <<>>
After(g, f, b) == b = "ff" \/ (f /\ ~Makes(g, b))

(* The decoder counts or keeps what comes, in as many slices as it likes.   *)
LEMMA ConsumeIs ==
  ASSUME NEW g \in Seq(Plain), NEW x \in Seq(Plain), NEW f
  PROVE  ConsumeData(Holding(g, f), x) = Holding(g \o x, f)
<1>1. PICK a \in Nat, c \in Nat, L \in Nat : a = Len(g) /\ c = Len(x) /\ L = MAX_FRAME_LEN
  BY BoundsAssumption
<1>2. g \o x \in Seq(Plain) /\ Len(g \o x) = a + c
  BY <1>1
<1>3. CASE x = <<>>
  <2>1. g \o x = g
    BY <1>3
  <2>2. ConsumeData(Holding(g, f), x) = Holding(g, f)
    BY <1>3, Zenon DEF ConsumeData
  <2> QED BY <2>1, <2>2
<1>4. CASE x # <<>> /\ a > L
  <2>1. PICK d : d = Holding(g, f)
    OBVIOUS
  <2>2. d = [buf |-> <<>>, discarding |-> TRUE, discarded |-> a, sentinel_pending |-> f]
    BY <1>1, <1>4, <2>1, Zenon DEF Holding
  <2>3. ConsumeData(d, x) = [d EXCEPT !.discarded = @ + Len(x)]
    BY <1>4, <2>2 DEF ConsumeData
  <2>4. ConsumeData(d, x) = [buf |-> <<>>, discarding |-> TRUE, discarded |-> a + c, sentinel_pending |-> f]
    BY Zenon, <1>1, <2>2, <2>3
  <2>5. a + c > L
    BY <1>1, <1>4
  <2>6. Holding(g \o x, f) = [buf |-> <<>>, discarding |-> TRUE, discarded |-> a + c, sentinel_pending |-> f]
    BY <1>1, <1>2, <2>5, Zenon DEF Holding
  <2> QED BY <2>1, <2>4, <2>6
<1>5. CASE x # <<>> /\ ~(a > L)
  <2>1. PICK d : d = Holding(g, f)
    OBVIOUS
  <2>2. d = [buf |-> g, discarding |-> FALSE, discarded |-> 0, sentinel_pending |-> f]
    BY <1>1, <1>5, <2>1, Zenon DEF Holding
  <2>3. ConsumeData(d, x) = IF a + c > L
                            THEN [d EXCEPT !.discarding = TRUE, !.discarded = a + c, !.buf = <<>>]
                            ELSE [d EXCEPT !.buf = @ \o x]
    BY <1>1, <1>5, <2>2 DEF ConsumeData
  <2>4. CASE a + c > L
    <3>1. ConsumeData(d, x) = [buf |-> <<>>, discarding |-> TRUE, discarded |-> a + c, sentinel_pending |-> f]
      BY Zenon, <2>2, <2>3, <2>4
    <3>2. Holding(g \o x, f) = [buf |-> <<>>, discarding |-> TRUE, discarded |-> a + c, sentinel_pending |-> f]
      BY <1>1, <1>2, <2>4, Zenon DEF Holding
    <3> QED BY <2>1, <3>1, <3>2
  <2>5. CASE ~(a + c > L)
    <3>1. ConsumeData(d, x) = [buf |-> g \o x, discarding |-> FALSE, discarded |-> 0, sentinel_pending |-> f]
      BY Zenon, <2>2, <2>3, <2>5
    <3>2. Holding(g \o x, f) = [buf |-> g \o x, discarding |-> FALSE, discarded |-> 0, sentinel_pending |-> f]
      BY <1>1, <1>2, <2>5, Zenon DEF Holding
    <3> QED BY <2>1, <3>1, <3>2
  <2> QED BY <2>4, <2>5
<1> QED
  BY <1>3, <1>4, <1>5

\* A decoder by its fields.
Dec(b, k, n, f) == [buf |-> b, discarding |-> k, discarded |-> n, sentinel_pending |-> f]

\* The decoder behind a delimiter; No and Yes keep the truth values opaque to the provers.
No == FALSE
Yes == TRUE
Fresh(f) == Dec(<<>>, No, 0, f)

\* Its buffer emptied, and its flag set or taken too.
Emptied(d) == [d EXCEPT !.buf = <<>>]
Marked(d, p) == [d EXCEPT !.buf = <<>>, !.sentinel_pending = p]

(* The changes to a decoder that the delimiters make.                       *)
LEMMA Resets ==
  ASSUME NEW b, NEW k, NEW n, NEW f, NEW p
  PROVE  /\ DiscardEnd(Dec(b, k, n, f)) = Dec(b, No, 0, f)
         /\ Emptied(Dec(b, k, n, f)) = Dec(<<>>, k, n, f)
         /\ Marked(Dec(b, k, n, f), p) = Dec(<<>>, k, n, p)
         /\ Marked(DiscardEnd(Dec(b, k, n, f)), p) = Dec(<<>>, No, 0, p)
<1> DEFINE d == Dec(b, k, n, f)
<1>1. PICK no, zero, none : no = No /\ zero = 0 /\ none = <<>>
  OBVIOUS
<1>2. DiscardEnd(d) = Dec(b, no, zero, f)
  <2>1. [Dec(b, k, n, f) EXCEPT !.discarding = no] = Dec(b, no, n, f)
    BY SMT DEF Dec
  <2>2. [Dec(b, no, n, f) EXCEPT !.discarded = zero] = Dec(b, no, zero, f)
    BY SMT DEF Dec
  <2>3. [Dec(b, k, n, f) EXCEPT !.discarding = no, !.discarded = zero] = Dec(b, no, zero, f)
    BY Zenon, <2>1, <2>2
  <2> QED BY Zenon, <1>1, <2>3 DEF DiscardEnd, No
<1>3. [d EXCEPT !.buf = none] = Dec(none, k, n, f)
  <2>1. [Dec(b, k, n, f) EXCEPT !.buf = none] = Dec(none, k, n, f)
    BY SMT DEF Dec
  <2> QED BY <2>1
<1>4. ASSUME NEW x, NEW y PROVE [Dec(b, x, y, f) EXCEPT !.buf = none, !.sentinel_pending = p] = Dec(none, x, y, p)
  <2>1. [Dec(b, x, y, f) EXCEPT !.buf = none] = Dec(none, x, y, f)
    BY SMT DEF Dec
  <2>2. [Dec(none, x, y, f) EXCEPT !.sentinel_pending = p] = Dec(none, x, y, p)
    BY SMT DEF Dec
  <2> QED BY Zenon, <2>1, <2>2
<1>5. [d EXCEPT !.buf = none, !.sentinel_pending = p] = Dec(none, k, n, p)
  BY Zenon, <1>4
<1>6. [DiscardEnd(d) EXCEPT !.buf = none, !.sentinel_pending = p] = Dec(none, no, zero, p)
  <2>1. [Dec(b, no, zero, f) EXCEPT !.buf = none, !.sentinel_pending = p] = Dec(none, no, zero, p)
    BY Zenon, <1>4
  <2> QED BY <1>2, <2>1
<1> QED
  BY <1>1, <1>2, <1>3, <1>5, <1>6 DEF Emptied, Marked

(* It holds nothing then.                                                   *)
LEMMA FreshIs == ASSUME NEW f PROVE Holding(<<>>, f) = Fresh(f)
<1>1. Len(<<>>) = 0 /\ ~(0 > MAX_FRAME_LEN)
  BY BoundsAssumption
<1> QED
  BY <1>1, Zenon DEF Holding, Fresh, Dec, No

(* A newline ends a frame, a blank line or one that was dropped.            *)
LEMMA EndIs ==
  ASSUME NEW g \in Seq(Plain), NEW f \in BOOLEAN, NEW out \in Seq(Event)
  PROVE  EndOfFrame(Holding(g, f), out) =
           [decoder |-> Holding(<<>>, After(g, f, "nl")), events |-> out \o Emission(g, f, "nl")]
<1>1. PICK d : d = Holding(g, f)
  OBVIOUS
<1>2. Holding(<<>>, After(g, f, "nl")) = Fresh(After(g, f, "nl")) /\ "nl" \in Stop
  BY FreshIs DEF Stop
<1>3. Range(g) \subseteq {"space"} <=> "data" \notin Range(g)
  <2>1. Range(g) \subseteq {"data", "space"}
    BY DEF Range, Plain
  <2> QED BY <2>1
<1>4. \A x \in Event : Append(out, x) = out \o <<x>>
  OBVIOUS
<1>5. /\ Len(g) > MAX_FRAME_LEN => Oversized(Len(g)) \in Event
      /\ Frame(g, f) \in Event
  <2>1. g \in Seq(Bytes) /\ Len(g) \in Nat
    BY Kinds, SeqMonotonic
  <2> QED BY <2>1 DEF Oversized, Frame, Event
<1>6. CASE Len(g) > MAX_FRAME_LEN
  <2>1. d = Dec(<<>>, Yes, Len(g), f)
    BY <1>1, <1>6, Zenon DEF Holding, Dec, No, Yes
  <2>2. EndOfFrame(d, out) = [decoder |-> DiscardEnd(d), events |-> Append(out, Oversized(Len(g)))]
    BY <2>1 DEF EndOfFrame, Dec, No, Yes, Emptied, Marked
  <2>3. ~Makes(g, "nl") /\ After(g, f, "nl") = f
    BY <1>6 DEF Makes, After
  <2>4. DiscardEnd(d) = Fresh(f)
    BY <2>1, Resets DEF Fresh
  <2>5. Emission(g, f, "nl") = <<Oversized(Len(g))>>
    BY <1>2, <1>6, Zenon DEF Emission
  <2> QED BY Zenon, <1>1, <1>2, <1>4, <1>5, <1>6, <2>2, <2>3, <2>4, <2>5
<1>7. CASE ~(Len(g) > MAX_FRAME_LEN) /\ "data" \in Range(g)
  <2>1. d = Dec(g, No, 0, f)
    BY <1>1, <1>7, Zenon DEF Holding, Dec, No, Yes
  <2>2. EndOfFrame(d, out) = [decoder |-> Marked(d, No),
                              events |-> Append(out, Frame(g, f))]
    BY <1>3, <1>7, <2>1 DEF EndOfFrame, Dec, No, Yes, Emptied, Marked
  <2>3. Makes(g, "nl") /\ After(g, f, "nl") = No
    BY <1>7 DEF Makes, After, No
  <2>4. Marked(d, No) = Fresh(No)
    BY <2>1, Resets DEF Fresh
  <2>5. Emission(g, f, "nl") = <<Frame(g, f)>>
    BY <1>7, <2>3, Zenon DEF Emission
  <2> QED BY Zenon, <1>1, <1>2, <1>4, <1>5, <2>2, <2>3, <2>4, <2>5
<1>8. CASE ~(Len(g) > MAX_FRAME_LEN) /\ "data" \notin Range(g)
  <2>1. d = Dec(g, No, 0, f)
    BY <1>1, <1>8, Zenon DEF Holding, Dec, No, Yes
  <2>2. EndOfFrame(d, out) = [decoder |-> Emptied(d), events |-> out]
    BY <1>3, <1>8, <2>1 DEF EndOfFrame, Dec, No, Yes, Emptied, Marked
  <2>3. ~Makes(g, "nl") /\ After(g, f, "nl") = f
    BY <1>8 DEF Makes, After
  <2>4. Emptied(d) = Fresh(f)
    BY <2>1, Resets DEF Fresh
  <2>5. Emission(g, f, "nl") = <<>> /\ out \o <<>> = out
    BY <1>8, <2>3 DEF Emission
  <2> QED BY <1>1, <1>2, <2>2, <2>3, <2>4, <2>5
<1> QED
  BY <1>6, <1>7, <1>8

(* A sentinel drops what is held, and reports it if it was too long.        *)
LEMMA SentinelIs ==
  ASSUME NEW g \in Seq(Plain), NEW f \in BOOLEAN, NEW out \in Seq(Event)
  PROVE  Sentinel(Holding(g, f), out) =
           [decoder |-> Holding(<<>>, After(g, f, "ff")), events |-> out \o Emission(g, f, "ff")]
<1>1. PICK d : d = Holding(g, f)
  OBVIOUS
<1>2. Holding(<<>>, After(g, f, "ff")) = Fresh(Yes) /\ "ff" \in Stop /\ ~Makes(g, "ff")
  BY Zenon, FreshIs DEF Stop, After, Makes, Yes
<1>3. CASE Len(g) > MAX_FRAME_LEN
  <2>1. d = Dec(<<>>, Yes, Len(g), f)
    BY <1>1, <1>3, Zenon DEF Holding, Dec, No, Yes
  <2>2. Sentinel(d, out) = [decoder |-> Fresh(Yes), events |-> Append(out, Oversized(Len(g)))]
    <3>1. d.discarding /\ d.discarded = Len(g)
      BY <2>1 DEF Dec, No, Yes
    <3>2. Marked(DiscardEnd(d), Yes) = Fresh(Yes)
      BY <2>1, Resets DEF Fresh
    <3> QED BY <3>1, <3>2, Zenon DEF Sentinel, Marked, Yes
  <2>3. Oversized(Len(g)) \in Event
    BY DEF Oversized, Event
  <2>4. Emission(g, f, "ff") = <<Oversized(Len(g))>>
    BY <1>2, <1>3, Zenon DEF Emission
  <2>5. Append(out, Oversized(Len(g))) = out \o <<Oversized(Len(g))>>
    BY <2>3
  <2> QED BY Zenon, <1>1, <1>2, <2>2, <2>4, <2>5
<1>4. CASE ~(Len(g) > MAX_FRAME_LEN)
  <2>1. d = Dec(g, No, 0, f)
    BY <1>1, <1>4, Zenon DEF Holding, Dec, No, Yes
  <2>2. Sentinel(d, out) = [decoder |-> Fresh(Yes), events |-> out]
    <3>1. ~d.discarding
      BY <2>1 DEF Dec, No, Yes
    <3>2. Marked(DiscardEnd(d), Yes) = Fresh(Yes)
      BY <2>1, Resets DEF Fresh
    <3> QED BY <3>1, <3>2, Zenon DEF Sentinel, Marked, Yes
  <2>3. Emission(g, f, "ff") = <<>> /\ out \o <<>> = out
    BY <1>2, <1>4 DEF Emission
  <2> QED BY <1>1, <1>2, <2>2, <2>3
<1> QED
  BY <1>3, <1>4

-----------------------------------------------------------------------------
(* A call of push, byte by byte.                                           *)

\* What push keeps while it goes through its input.
Acc(d, e, x) == [decoder |-> d, events |-> e, data |-> x]

(* What a delimiter makes of what the decoder holds is well formed.         *)
LEMMA EmissionTyped ==
  ASSUME NEW g \in Seq(Plain), NEW f \in BOOLEAN, NEW b \in Bytes
  PROVE  Emission(g, f, b) \in Seq(Event) /\ After(g, f, b) \in BOOLEAN
<1>1. After(g, f, b) \in BOOLEAN
  BY Zenon DEF After
<1>2. Oversized(Len(g)) \in Event /\ Frame(g, f) \in Event
  <2>1. g \in Seq(Bytes) /\ Len(g) \in Nat
    BY Kinds, SeqMonotonic
  <2> QED BY <2>1 DEF Oversized, Frame, Event
<1>3. <<Oversized(Len(g))>> \in Seq(Event) /\ <<Frame(g, f)>> \in Seq(Event) /\ <<>> \in Seq(Event)
  BY <1>2
<1>4. Emission(g, f, b) \in Seq(Event)
  BY <1>3, Zenon DEF Emission
<1> QED
  BY <1>1, <1>4

(* A delimiter ends what the slice before it adds to what is held.          *)
LEMMA AtDelimiter ==
  ASSUME NEW g \in Seq(Plain), NEW f \in BOOLEAN, NEW e \in Seq(Event), NEW x \in Seq(Plain),
         NEW b \in Stop
  PROVE  AtByte(Acc(Holding(g, f), e, x), b) =
           Acc(Holding(<<>>, After(g \o x, f, b)), e \o Emission(g \o x, f, b), <<>>)
<1>1. PICK h \in Seq(Plain) : h = g \o x
  <2>1. g \o x \in Seq(Plain)
    OBVIOUS
  <2> QED BY Zenon, <2>1
<1>2. PICK a : a = Acc(Holding(g, f), e, x)
  OBVIOUS
<1>3. a.decoder = Holding(g, f) /\ a.events = e /\ a.data = x
  BY <1>2 DEF Acc
<1>4. ConsumeData(a.decoder, a.data) = Holding(h, f)
  BY <1>1, <1>3, ConsumeIs
<1>5. CASE b = "nl"
  <2>1. PICK r : r = EndOfFrame(Holding(h, f), e)
    OBVIOUS
  <2>2. r = [decoder |-> Holding(<<>>, After(h, f, b)), events |-> e \o Emission(h, f, b)]
    BY <1>5, <2>1, EndIs, Zenon
  <2>3. r.decoder = Holding(<<>>, After(h, f, b)) /\ r.events = e \o Emission(h, f, b)
    BY <2>2
  <2>4. AtByte(a, b) = [decoder |-> r.decoder, events |-> r.events, data |-> <<>>]
    BY <1>3, <1>4, <1>5, <2>1, Zenon DEF AtByte
  <2> QED BY <1>1, <1>2, <2>3, <2>4, Zenon DEF Acc
<1>6. CASE b = "ff"
  <2>1. PICK r : r = Sentinel(Holding(h, f), e)
    OBVIOUS
  <2>2. r = [decoder |-> Holding(<<>>, After(h, f, b)), events |-> e \o Emission(h, f, b)]
    BY <1>6, <2>1, SentinelIs, Zenon
  <2>3. r.decoder = Holding(<<>>, After(h, f, b)) /\ r.events = e \o Emission(h, f, b)
    BY <2>2
  <2>4. AtByte(a, b) = [decoder |-> r.decoder, events |-> r.events, data |-> <<>>]
    <3>1. "ff" # "nl"
      OBVIOUS
    <3> QED BY <1>3, <1>4, <1>6, <2>1, <3>1, Zenon DEF AtByte
  <2> QED BY <1>1, <1>2, <2>3, <2>4, Zenon DEF Acc
<1> QED
  BY <1>5, <1>6 DEF Stop

(* Any other byte joins the slice.                                          *)
LEMMA AtPlain ==
  ASSUME NEW d, NEW e, NEW x \in Seq(Plain), NEW b \in Plain
  PROVE  AtByte(Acc(d, e, x), b) = Acc(d, e, Append(x, b))
<1>1. b \notin {"nl", "ff"}
  BY DEF Plain
<1>2. PICK a : a = Acc(d, e, x)
  OBVIOUS
<1>3. AtByte(a, b) = [a EXCEPT !.data = Append(@, b)]
  BY <1>1, Zenon DEF AtByte
<1>4. [a EXCEPT !.data = Append(@, b)] = Acc(d, e, Append(x, b))
  BY <1>2 DEF Acc
<1> QED
  BY <1>2, <1>3, <1>4

Accs == {Acc(Holding(g, f), e, x) : g \in Seq(Plain), f \in BOOLEAN, e \in Seq(Event), x \in Seq(Plain)}

(* The states push can be in, by their parts.                               *)
LEMMA AccsIs ==
  ASSUME NEW g \in Seq(Plain), NEW f \in BOOLEAN, NEW e \in Seq(Event), NEW x \in Seq(Plain)
  PROVE  Acc(Holding(g, f), e, x) \in Accs
BY SMT DEF Accs

(* Every byte leaves push with such a state.                                *)
LEMMA AtByteTyped ==
  ASSUME NEW a \in Accs, NEW b \in Bytes
  PROVE  AtByte(a, b) \in Accs
<1>1. PICK g \in Seq(Plain), f \in BOOLEAN, e \in Seq(Event), x \in Seq(Plain) :
        a = Acc(Holding(g, f), e, x)
  BY SMT DEF Accs
<1>2. g \o x \in Seq(Plain) /\ <<>> \in Seq(Plain)
  OBVIOUS
<1>3. CASE b \in Stop
  <2>1. AtByte(a, b) = Acc(Holding(<<>>, After(g \o x, f, b)), e \o Emission(g \o x, f, b), <<>>)
    BY <1>1, <1>3, AtDelimiter, Zenon
  <2>2. After(g \o x, f, b) \in BOOLEAN /\ Emission(g \o x, f, b) \in Seq(Event)
    BY <1>2, EmissionTyped, Zenon
  <2>3. PICK m \in Seq(Event) : m = e \o Emission(g \o x, f, b)
    <3>1. e \o Emission(g \o x, f, b) \in Seq(Event)
      BY <2>2
    <3> QED BY Zenon, <3>1
  <2>4. PICK k \in BOOLEAN : k = After(g \o x, f, b)
    BY <2>2
  <2>5. AtByte(a, b) = Acc(Holding(<<>>, k), m, <<>>)
    BY <2>1, <2>3, <2>4, Zenon
  <2> QED BY <1>2, <2>5, AccsIs, Zenon
<1>4. CASE b \in Plain
  <2>1. AtByte(a, b) = Acc(Holding(g, f), e, Append(x, b))
    BY <1>1, <1>4, AtPlain, Zenon
  <2>2. PICK y \in Seq(Plain) : y = Append(x, b)
    <3>1. Append(x, b) \in Seq(Plain)
      BY <1>4
    <3> QED BY Zenon, <3>1
  <2> QED BY <2>1, <2>2, AccsIs, Zenon
<1> QED
  BY <1>3, <1>4, Kinds

\* The recursion of Push, and what it returns.
Scans(u, d, input) == u[0] = Acc(d, <<>>, <<>>) /\ \A i \in 1..Len(input) : u[i] = AtByte(u[i - 1], input[i])
Result(a) == [decoder |-> ConsumeData(a.decoder, a.data), events |-> a.events]

(* The recursion has a solution, of which push returns the last value.      *)
LEMMA PushRecursion ==
  ASSUME NEW g \in Seq(Plain), NEW f \in BOOLEAN, NEW input \in Seq(Bytes), NEW d, d = Holding(g, f)
  PROVE  \E u \in [0..Len(input) -> Accs] : Scans(u, d, input) /\ Push(d, input) = Result(u[Len(input)])
<1> DEFINE n == Len(input)
           G(x, i) == AtByte(x, input[i])
           F == [p \in (1..n) \X Accs |-> G(p[2], p[1])]
           z == [decoder |-> d, events |-> <<>>, data |-> <<>>]
<1>1. n \in Nat /\ z \in Accs
  <2>1. <<>> \in Seq(Event) /\ <<>> \in Seq(Plain)
    OBVIOUS
  <2>2. z = Acc(Holding(g, f), <<>>, <<>>)
    BY DEF Acc
  <2>3. z \in Accs
    <3> HIDE DEF z
    <3> QED BY <2>1, <2>2, AccsIs, Zenon
  <2> QED BY <2>3
<1>2. ASSUME NEW i \in 1..n, NEW x \in Accs
      PROVE  G(x, i) \in Accs
  <2>1. input[i] \in Bytes
    BY ElementOfSeq
  <2> QED BY <2>1, AtByteTyped
<1> HIDE DEF z
<1>3. F \in Steps(n, Accs)
  <2> HIDE DEF n, G
  <2> QED BY Zenon, <1>2 DEF Steps
<1>4. PICK v : Iterates(v, n, Accs, z, F)
  <2> HIDE DEF n, F
  <2> QED BY Zenon, <1>1, <1>3, Iteration
<1>5. ASSUME NEW i \in 1..n PROVE v[i] = G(v[i - 1], i)
  <2> HIDE DEF n, G
  <2>1. v[i - 1] \in Accs
    BY <1>4, <1>1 DEF Iterates
  <2> QED BY Zenon, <1>4, <2>1 DEF Iterates
<1>6. v = [i \in 0..n |-> IF i = 0 THEN z ELSE G(v[i - 1], i)]
  <2> HIDE DEF n, G
  <2> QED BY <1>4, <1>5 DEF Iterates
<1> DEFINE h == CHOOSE w : w = [i \in 0..n |-> IF i = 0 THEN z ELSE G(w[i - 1], i)]
<1>7. h = [i \in 0..n |-> IF i = 0 THEN z ELSE G(h[i - 1], i)]
  BY Zenon, <1>6
<1>8. Push(d, input) = Result(h[n])
  BY DEF Push, Result, z
<1>9. h[0] = z /\ \A i \in 1..n : h[i] = G(h[i - 1], i)
  <2> HIDE DEF h, G, n
  <2> QED BY <1>1, <1>7
<1> HIDE DEF h
<1>10. \A i \in 0..n : h[i] \in Accs
  <2> DEFINE S == {i \in 0..n : h[i] \in Accs}
  <2>1. 0 \in S
    <3> HIDE DEF n, G
    <3>1. 0 \in 0..n /\ h[0] \in Accs
      BY <1>1, <1>9
    <3> QED BY <3>1
  <2>2. \A i \in 1..n : i - 1 \in S => i \in S
    <3> HIDE DEF n, G
    <3> QED BY <1>1, <1>2, <1>9
  <2> HIDE DEF S
  <2>3. \A i \in 0..n : i \in S
    <3> HIDE DEF n
    <3> QED BY Zenon, <1>1, <2>1, <2>2, InductionTo
  <2> QED BY <2>3 DEF S
<1>11. h \in [0..n -> Accs]
  <2>1. DOMAIN h = 0..n /\ h = [i \in DOMAIN h |-> h[i]]
    <3> HIDE DEF n, G
    <3> QED BY <1>7
  <2> HIDE DEF n
  <2> QED BY <1>10, <2>1
<1>12. Scans(h, d, input)
  BY <1>9, Zenon DEF Scans, z, Acc
<1> QED
  BY <1>8, <1>11, <1>12

-----------------------------------------------------------------------------
(* The decoder after a stream.                                             *)

State(s) == Holding(Rest(s), Flag(s))

(* What a byte adds to a stream, in terms of what is held.                  *)
LEMMA Grows ==
  ASSUME NEW s \in Seq(Bytes), NEW b \in Bytes
  PROVE  /\ Rest(s) \in Seq(Plain) /\ Flag(s) \in BOOLEAN /\ Meaning(s) \in Seq(Event)
         /\ Append(s, b) \in Seq(Bytes)
         /\ b \in Stop => /\ Rest(Append(s, b)) = <<>>
                          /\ Flag(Append(s, b)) = After(Rest(s), Flag(s), b)
                          /\ Meaning(Append(s, b)) = Meaning(s) \o Emission(Rest(s), Flag(s), b)
         /\ b \in Plain => /\ Rest(Append(s, b)) = Append(Rest(s), b)
                           /\ Flag(Append(s, b)) = Flag(s)
                           /\ Meaning(Append(s, b)) = Meaning(s)
<1>1. Rest(s) \in Seq(Plain) /\ Append(s, b) \in Seq(Bytes)
  BY RestPlain
<1>2. \A t : Flag(t) \in BOOLEAN
  BY Zenon DEF Flag, Flagged
<1>3. Meaning(s) \in Seq(Event)
  <2>1. PICK u \in [0..Len(s) -> Seq(Event)] : Meaning(s) = u[Len(s)]
    BY MeaningRecursion
  <2>2. Len(s) \in 0..Len(s)
    OBVIOUS
  <2> QED BY <2>1, <2>2, Zenon
<1>4. Completes(s, b) <=> Makes(Rest(s), b)
  BY Zenon DEF Completes, Makes, Overflows
<1>5. Emits(s, b) = Emission(Rest(s), Flag(s), b)
  BY <1>4, Zenon DEF Emits, Emission, Overflows
<1>6. Flag(Append(s, b)) = After(Rest(s), Flag(s), b)
  <2>1. After(Rest(s), Flag(s), b) \in BOOLEAN
    BY Zenon DEF After
  <2>2. Flag(Append(s, b)) <=> After(Rest(s), Flag(s), b)
    BY <1>4, FlagGrows, Zenon DEF After
  <2> QED BY <1>2, <2>1, <2>2
<1>7. CASE b \in Stop
  <2>1. Rest(Append(s, b)) = <<>>
    BY <1>7, RestGrows, Zenon
  <2>2. b \notin Plain
    BY <1>7, Kinds, Zenon
  <2>3. Meaning(Append(s, b)) = Meaning(s) \o Emission(Rest(s), Flag(s), b)
    BY <1>5, MeaningGrows, Zenon
  <2> QED BY <1>1, <1>2, <1>3, <1>6, <2>1, <2>2, <2>3, Zenon
<1>8. CASE b \in Plain
  <2>1. b \notin Stop /\ b # "ff" /\ b # "nl"
    BY <1>8 DEF Plain, Stop
  <2>2. Rest(Append(s, b)) = Append(Rest(s), b)
    BY <2>1, RestGrows, Zenon
  <2>3. ~Makes(Rest(s), b)
    BY <2>1, Zenon DEF Makes
  <2>4. Emission(Rest(s), Flag(s), b) = <<>>
    BY <2>1, <2>3, Zenon DEF Emission
  <2>5. Meaning(s) \o <<>> = Meaning(s)
    BY <1>3
  <2>6. Meaning(Append(s, b)) = Meaning(s)
    BY <1>5, <2>4, <2>5, MeaningGrows, Zenon
  <2>7. After(Rest(s), Flag(s), b) <=> Flag(s)
    BY <2>1, <2>3, Zenon DEF After
  <2>8. Flag(Append(s, b)) = Flag(s)
    <3>1. Flag(Append(s, b)) <=> Flag(s)
      BY <1>6, <2>7, Zenon
    <3> QED BY <1>2, <3>1
  <2> QED BY <1>1, <1>2, <1>3, <2>1, <2>2, <2>6, <2>8, Zenon
<1> QED
  BY <1>7, <1>8, Kinds

\* push is at the end of t, and began at the end of s.
Tracks(a, s, t) ==
  \E g \in Seq(Plain), e \in Seq(Event), x \in Seq(Plain) :
    a = Acc(Holding(g, Flag(t)), e, x) /\ Rest(t) = g \o x /\ Meaning(t) = Meaning(s) \o e

(* The next byte keeps it so.                                               *)
LEMMA TracksOn ==
  ASSUME NEW s \in Seq(Bytes), NEW t \in Seq(Bytes), NEW b \in Bytes, NEW a, Tracks(a, s, t)
  PROVE  Tracks(AtByte(a, b), s, Append(t, b))
<1>1. PICK g \in Seq(Plain), e \in Seq(Event), x \in Seq(Plain) :
        a = Acc(Holding(g, Flag(t)), e, x) /\ Rest(t) = g \o x /\ Meaning(t) = Meaning(s) \o e
  BY Zenon DEF Tracks
<1>2. PICK f \in BOOLEAN : f = Flag(t)
  BY Grows, Zenon
<1>3. Rest(t) \in Seq(Plain) /\ Meaning(s) \in Seq(Event)
  BY Grows, Zenon
<1>4. g \in Seq(Bytes) /\ x \in Seq(Bytes)
  BY Kinds, SeqMonotonic
<1>5. CASE b \in Stop
  <2>1. PICK m \in Seq(Event) : m = Emission(Rest(t), f, b)
    BY <1>3, EmissionTyped, Zenon
  <2>2. PICK k : k = e \o m
    BY Zenon
  <2>3. AtByte(a, b) = Acc(Holding(<<>>, After(Rest(t), f, b)), k, <<>>)
    <3>1. AtByte(Acc(Holding(g, f), e, x), b) =
            Acc(Holding(<<>>, After(g \o x, f, b)), e \o Emission(g \o x, f, b), <<>>)
      BY <1>5, AtDelimiter, Zenon
    <3> QED BY <1>1, <1>2, <2>1, <2>2, <3>1, Zenon
  <2>4. Rest(Append(t, b)) = <<>> /\ Flag(Append(t, b)) = After(Rest(t), f, b)
        /\ Meaning(Append(t, b)) = Meaning(t) \o m
    BY <1>2, <1>5, <2>1, Grows, Zenon
  <2>5. <<>> \in Seq(Plain) /\ <<>> \o <<>> = <<>> /\ k \in Seq(Event)
    BY <2>2
  <2>6. Meaning(Append(t, b)) = Meaning(s) \o k
    <3>1. (Meaning(s) \o e) \o m = Meaning(s) \o (e \o m)
      BY <1>3, EventsConcat, Zenon
    <3> QED BY <1>1, <2>2, <2>4, <3>1, Zenon
  <2>7. AtByte(a, b) = Acc(Holding(<<>>, Flag(Append(t, b))), k, <<>>) /\ Rest(Append(t, b)) = <<>> \o <<>>
    BY <2>3, <2>4, <2>5, Zenon
  <2> QED BY <2>5, <2>6, <2>7, Zenon DEF Tracks
<1>6. CASE b \in Plain
  <2>1. PICK y \in Seq(Plain) : y = Append(x, b)
    <3>1. Append(x, b) \in Seq(Plain)
      BY <1>6
    <3> QED BY Zenon, <3>1
  <2>2. AtByte(a, b) = Acc(Holding(g, f), e, y)
    BY <1>1, <1>2, <1>6, <2>1, AtPlain, Zenon
  <2>3. Rest(Append(t, b)) = Append(Rest(t), b) /\ Flag(Append(t, b)) = f
        /\ Meaning(Append(t, b)) = Meaning(t)
    <3>1. Rest(Append(t, b)) = Append(Rest(t), b) /\ Meaning(Append(t, b)) = Meaning(t)
          /\ Flag(Append(t, b)) = Flag(t)
      BY <1>6, Grows
    <3> QED BY <1>2, <3>1
  <2>4. Append(g \o x, b) = g \o Append(x, b)
    BY <1>4, AppendConcat, Zenon
  <2> QED BY <1>1, <2>1, <2>2, <2>3, <2>4, Zenon DEF Tracks
<1> QED
  BY <1>5, <1>6, Kinds

\* The stream as far as push has come in its input.
UpTo(s, x, i) == s \o SubSeq(x, 1, i)

(* It grows by a byte at a time, from the stream before to the stream after. *)
LEMMA UpToGrows ==
  ASSUME NEW s \in Seq(Bytes), NEW x \in Seq(Bytes)
  PROVE  /\ UpTo(s, x, 0) = s /\ UpTo(s, x, Len(x)) = s \o x
         /\ \A i \in 0..Len(x) : UpTo(s, x, i) \in Seq(Bytes)
         /\ \A i \in 1..Len(x) : UpTo(s, x, i) = Append(UpTo(s, x, i - 1), x[i])
<1>1. PICK n \in Nat : n = Len(x)
  OBVIOUS
<1>2. ASSUME NEW i \in 0..n
      PROVE  /\ SubSeq(x, 1, i) \in Seq(Bytes) /\ Len(SubSeq(x, 1, i)) = i
             /\ \A j \in 1..i : SubSeq(x, 1, i)[j] = x[j]
  <2>1. 1 + 0 = 1 /\ 0 + i = i /\ \A j \in 1..i : 0 + j = j
    OBVIOUS
  <2>2. i \in Nat /\ 0 + i <= Len(x)
    BY <1>1
  <2>3. /\ SubSeq(x, 1 + 0, 0 + i) \in Seq(Bytes) /\ Len(SubSeq(x, 1 + 0, 0 + i)) = i
        /\ \A j \in 1..i : SubSeq(x, 1 + 0, 0 + i)[j] = x[0 + j]
    BY <2>2, Slice
  <2> QED BY <2>1, <2>3
<1>3. UpTo(s, x, 0) = s
  <2>1. SubSeq(x, 1, 0) = <<>>
    BY SubSeqEmpty
  <2> QED BY <2>1 DEF UpTo
<1>4. UpTo(s, x, n) = s \o x
  <2>1. SubSeq(x, 1, n) \in Seq(Bytes) /\ Len(SubSeq(x, 1, n)) = n
        /\ \A j \in 1..n : SubSeq(x, 1, n)[j] = x[j]
    BY <1>1, <1>2
  <2>2. SubSeq(x, 1, n) = x
    BY <1>1, <2>1, SeqEqual
  <2> QED BY <2>2 DEF UpTo
<1>5. ASSUME NEW i \in 0..n PROVE UpTo(s, x, i) \in Seq(Bytes)
  <2>1. SubSeq(x, 1, i) \in Seq(Bytes)
    BY <1>2
  <2> QED BY <2>1 DEF UpTo
<1>6. ASSUME NEW i \in 1..n PROVE UpTo(s, x, i) = Append(UpTo(s, x, i - 1), x[i])
  <2>1. PICK h \in 0..n : h = i - 1 /\ i = h + 1 /\ i \in 0..n
    <3>1. i - 1 \in 0..n /\ i = (i - 1) + 1 /\ i \in 0..n
      OBVIOUS
    <3> QED BY <3>1
  <2>2. PICK p \in Seq(Bytes), q \in Seq(Bytes) : p = SubSeq(x, 1, h) /\ q = SubSeq(x, 1, i)
    BY Zenon, <1>2, <2>1
  <2>3. /\ Len(p) = h /\ Len(q) = h + 1 /\ \A j \in 1..h : p[j] = x[j]
        /\ \A j \in 1..(h + 1) : q[j] = x[j]
    BY <1>2, <2>1, <2>2
  <2>4. x[i] \in Bytes
    BY <1>1, ElementOfSeq
  <2>5. PICK r \in Seq(Bytes) : r = Append(p, x[i])
    <3>1. Append(p, x[i]) \in Seq(Bytes)
      BY <2>4
    <3> QED BY Zenon, <3>1
  <2>6. Len(r) = h + 1 /\ \A j \in 1..(h + 1) : r[j] = q[j]
    BY <2>1, <2>3, <2>5
  <2>7. q = r
    BY <2>3, <2>6, SeqEqual
  <2>8. Append(s \o p, x[i]) = s \o Append(p, x[i])
    BY <2>4, AppendConcat, Zenon
  <2> QED BY <2>1, <2>2, <2>5, <2>7, <2>8, Zenon DEF UpTo
<1> QED
  BY <1>1, <1>3, <1>4, <1>5, <1>6

(* push takes the decoder from one stream to the longer one, and returns     *)
(* what is new in what the longer one means.                                *)
LEMMA PushIs ==
  ASSUME NEW s \in Seq(Bytes), NEW x \in Seq(Bytes)
  PROVE  /\ Push(State(s), x).decoder = State(s \o x)
         /\ Push(State(s), x).events \in Seq(Event)
         /\ Meaning(s \o x) = Meaning(s) \o Push(State(s), x).events
<1>1. PICK n \in Nat : n = Len(x)
  OBVIOUS
<1>2. PICK g \in Seq(Plain), f \in BOOLEAN : g = Rest(s) /\ f = Flag(s)
  <2>1. "nl" \in Bytes
    BY DEF Bytes
  <2> QED BY <2>1, Grows, Zenon
<1>3. PICK u \in [0..n -> Accs] : Scans(u, State(s), x) /\ Push(State(s), x) = Result(u[n])
  <2>1. State(s) = Holding(g, f)
    BY <1>2 DEF State
  <2> QED BY <1>1, <2>1, PushRecursion
<1>4. u[0] = Acc(State(s), <<>>, <<>>) /\ \A i \in 1..n : u[i] = AtByte(u[i - 1], x[i])
  BY <1>1, <1>3, Zenon DEF Scans
<1>5. /\ UpTo(s, x, 0) = s /\ UpTo(s, x, n) = s \o x
      /\ \A i \in 0..n : UpTo(s, x, i) \in Seq(Bytes)
      /\ \A i \in 1..n : UpTo(s, x, i) = Append(UpTo(s, x, i - 1), x[i])
  BY Zenon, <1>1, UpToGrows
<1> DEFINE S == {i \in 0..n : Tracks(u[i], s, UpTo(s, x, i))}
<1>6. 0 \in S
  <2>1. Meaning(s) \in Seq(Event)
    BY Grows, Zenon DEF Bytes
  <2>2. <<>> \in Seq(Plain) /\ <<>> \in Seq(Event) /\ g \o <<>> = g /\ Meaning(s) \o <<>> = Meaning(s)
    BY <2>1
  <2>3. Tracks(u[0], s, s)
    BY <1>2, <1>4, <2>2, Zenon DEF Tracks, State
  <2> QED BY <1>1, <1>5, <2>3
<1>7. ASSUME NEW i \in 1..n, i - 1 \in S PROVE i \in S
  <2>1. i - 1 \in 0..n /\ i \in 0..n /\ x[i] \in Bytes
    BY <1>1, ElementOfSeq
  <2>2. Tracks(u[i - 1], s, UpTo(s, x, i - 1)) /\ UpTo(s, x, i - 1) \in Seq(Bytes)
    BY <1>5, <1>7, <2>1, Zenon
  <2>3. Tracks(AtByte(u[i - 1], x[i]), s, Append(UpTo(s, x, i - 1), x[i]))
    BY <2>1, <2>2, TracksOn, Zenon
  <2>4. Tracks(u[i], s, UpTo(s, x, i))
    BY <1>4, <1>5, <2>3, Zenon
  <2> QED BY <2>1, <2>4
<1> HIDE DEF S
<1>8. n \in S
  <2>1. \A i \in 0..n : i \in S
    BY Zenon, <1>6, <1>7, InductionTo
  <2> QED BY <1>1, <2>1
<1>9. Tracks(u[n], s, s \o x)
  BY <1>5, <1>8, Zenon DEF S
<1>10. PICK h \in Seq(Plain), e \in Seq(Event), y \in Seq(Plain) :
         /\ u[n] = Acc(Holding(h, Flag(s \o x)), e, y)
         /\ Rest(s \o x) = h \o y /\ Meaning(s \o x) = Meaning(s) \o e
  BY <1>9, Zenon DEF Tracks
<1>11. u[n].decoder = Holding(h, Flag(s \o x)) /\ u[n].events = e /\ u[n].data = y
  BY <1>10 DEF Acc
<1>12. Push(State(s), x) = [decoder |-> Holding(h \o y, Flag(s \o x)), events |-> e]
  <2>1. ConsumeData(Holding(h, Flag(s \o x)), y) = Holding(h \o y, Flag(s \o x))
    BY ConsumeIs, Zenon
  <2> QED BY <1>3, <1>11, <2>1, Zenon DEF Result
<1>13. Push(State(s), x).decoder = Holding(h \o y, Flag(s \o x)) /\ Push(State(s), x).events = e
  BY <1>12
<1> QED
  BY <1>10, <1>13, Zenon DEF State

-----------------------------------------------------------------------------
(* The start of a session, and a start at a sentinel.                      *)

(* A new decoder has seen nothing.                                          *)
LEMMA Starts == State(<<>>) = New /\ Meaning(<<>>) = <<>> /\ <<>> \in Seq(Bytes)
<1>1. PICK s \in Seq(Bytes) : s = <<>> /\ Len(s) = 0
  <2>1. <<>> \in Seq(Bytes) /\ Len(<<>>) = 0
    OBVIOUS
  <2> QED BY Zenon, <2>1
<1>2. Rest(s) = <<>>
  <2>1. PICK m \in 0..0 : m = Before(s, 0 + 1)
    BY Zenon, <1>1, RestIs
  <2>2. Rest(s) = SubSeq(s, 1 + m, 0)
    BY Zenon, <1>1, <2>1, RestIs
  <2>3. 1 + m \in Int /\ 0 < 1 + m
    BY <2>1
  <2> QED BY <2>2, <2>3, SubSeqEmpty
<1>3. Flag(s) = FALSE
  BY <1>1 DEF Flag, Flagged
<1>4. Meaning(s) = <<>>
  <2>1. PICK u \in [0..Len(s) -> Seq(Event)] : Told(u, s) /\ Meaning(s) = u[Len(s)]
    BY MeaningRecursion
  <2> QED BY <1>1, <2>1, Zenon DEF Told
<1>5. Holding(<<>>, FALSE) = New
  BY FreshIs, Zenon DEF Fresh, Dec, No, New
<1> QED
  BY Zenon, <1>1, <1>2, <1>3, <1>4, <1>5 DEF State

(* What is held after a byte follows from what was held before it, and       *)
(* after a sentinel from nothing.                                           *)
LEMMA Forgets ==
  ASSUME NEW s \in Seq(Bytes), NEW t \in Seq(Bytes), NEW b \in Bytes,
         b = "ff" \/ (Rest(s) = Rest(t) /\ Flag(s) = Flag(t))
  PROVE  Rest(Append(s, b)) = Rest(Append(t, b)) /\ Flag(Append(s, b)) = Flag(Append(t, b))
<1>1. ASSUME NEW w \in Seq(Bytes), b \in Stop
      PROVE  Rest(Append(w, b)) = <<>> /\ Flag(Append(w, b)) = After(Rest(w), Flag(w), b)
  BY <1>1, Grows, Zenon
<1>2. CASE b = "ff"
  <2>1. b \in Stop
    BY <1>2 DEF Stop
  <2>2. \A g, f : After(g, f, b) = TRUE
    BY <1>2 DEF After
  <2>3. Rest(Append(s, b)) = <<>> /\ Flag(Append(s, b)) = After(Rest(s), Flag(s), b)
    BY <2>1, <1>1, Zenon
  <2>4. Rest(Append(t, b)) = <<>> /\ Flag(Append(t, b)) = After(Rest(t), Flag(t), b)
    BY <2>1, <1>1, Zenon
  <2> QED BY <2>2, <2>3, <2>4, Zenon
<1>3. CASE Rest(s) = Rest(t) /\ Flag(s) = Flag(t)
  <2>1. CASE b \in Stop
    <3>1. Rest(Append(s, b)) = <<>> /\ Flag(Append(s, b)) = After(Rest(s), Flag(s), b)
      BY <2>1, <1>1, Zenon
    <3>2. Rest(Append(t, b)) = <<>> /\ Flag(Append(t, b)) = After(Rest(t), Flag(t), b)
      BY <2>1, <1>1, Zenon
    <3> QED BY <1>3, <3>1, <3>2, Zenon
  <2>2. CASE b \in Plain
    <3>1. Rest(Append(s, b)) = Append(Rest(s), b) /\ Flag(Append(s, b)) = Flag(s)
      BY <2>2, Grows
    <3>2. Rest(Append(t, b)) = Append(Rest(t), b) /\ Flag(Append(t, b)) = Flag(t)
      BY <2>2, Grows
    <3> QED BY <1>3, <3>1, <3>2, Zenon
  <2> QED BY <2>1, <2>2, Kinds
<1> QED
  BY <1>2, <1>3

(* From a sentinel on, what came before it does not matter.                 *)
LEMMA Restarts ==
  ASSUME NEW s \in Seq(Bytes), NEW x \in Seq(Bytes), x # <<>>, x[1] = "ff"
  PROVE  Rest(s \o x) = Rest(x) /\ Flag(s \o x) = Flag(x)
<1>1. PICK n \in Nat : n = Len(x) /\ n # 0
  OBVIOUS
<1>2. PICK z \in Seq(Bytes) : z = <<>>
  <2>1. <<>> \in Seq(Bytes)
    OBVIOUS
  <2> QED BY Zenon, <2>1
<1>3. /\ UpTo(s, x, n) = s \o x
      /\ \A i \in 0..n : UpTo(s, x, i) \in Seq(Bytes)
      /\ \A i \in 1..n : UpTo(s, x, i) = Append(UpTo(s, x, i - 1), x[i])
  BY Zenon, <1>1, UpToGrows
<1>4. /\ UpTo(z, x, n) = z \o x
      /\ \A i \in 0..n : UpTo(z, x, i) \in Seq(Bytes)
      /\ \A i \in 1..n : UpTo(z, x, i) = Append(UpTo(z, x, i - 1), x[i])
  BY Zenon, <1>1, UpToGrows
<1> DEFINE Same(i) == Rest(UpTo(s, x, i)) = Rest(UpTo(z, x, i)) /\ Flag(UpTo(s, x, i)) = Flag(UpTo(z, x, i))
           S == {i \in 0..n : i = 0 \/ Same(i)}
<1>5. 0 \in S
  BY <1>1
<1>6. ASSUME NEW i \in 1..n, i - 1 \in S PROVE i \in S
  <2>1. i - 1 \in 0..n /\ i \in 0..n /\ x[i] \in Bytes /\ (i - 1 = 0 => x[i] = "ff")
    BY <1>1, ElementOfSeq
  <2>2. x[i] = "ff" \/ Same(i - 1)
    BY <1>6, <2>1
  <2>3. PICK p \in Seq(Bytes), q \in Seq(Bytes) : p = UpTo(s, x, i - 1) /\ q = UpTo(z, x, i - 1)
    BY <1>3, <1>4, <2>1, Zenon
  <2>4. Rest(Append(p, x[i])) = Rest(Append(q, x[i])) /\ Flag(Append(p, x[i])) = Flag(Append(q, x[i]))
    <3>1. x[i] \in Bytes
      BY <2>1, Zenon
    <3>2. x[i] = "ff" \/ (Rest(p) = Rest(q) /\ Flag(p) = Flag(q))
      BY <2>2, <2>3, Zenon
    <3> HIDE DEF Same, S
    <3> QED BY <3>1, <3>2, Forgets, ZenonT(30)
  <2>5. UpTo(s, x, i) = Append(p, x[i]) /\ UpTo(z, x, i) = Append(q, x[i])
    BY <1>3, <1>4, <2>3, Zenon
  <2>6. Same(i)
    BY <2>4, <2>5, Zenon
  <2> QED BY <2>1, <2>6
<1> HIDE DEF S
<1>7. n \in S
  <2>1. \A i \in 0..n : i \in S
    BY Zenon, <1>5, <1>6, InductionTo
  <2> QED BY <1>1, <2>1
<1>8. Same(n)
  BY <1>1, <1>7, Zenon DEF S
<1>9. z \o x = x
  BY <1>2
<1> QED
  BY <1>3, <1>4, <1>8, <1>9, Zenon

(* Text behind a sentinel is all that is held, and is flagged.              *)
LEMMA HeldText ==
  ASSUME NEW t \in Seq(Plain)
  PROVE  /\ <<"ff">> \o t \in Seq(Bytes) /\ Rest(<<"ff">> \o t) = t /\ Flag(<<"ff">> \o t) = TRUE
         /\ <<"ff">> \o t # <<>> /\ (<<"ff">> \o t)[1] = "ff"
<1>1. PICK k \in Nat : k = Len(t)
  OBVIOUS
<1>2. PICK x \in Seq(Bytes) : x = <<"ff">> \o t
  <2>1. t \in Seq(Bytes) /\ <<"ff">> \in Seq(Bytes)
    <3>1. t \in Seq(Bytes)
      BY Kinds, SeqMonotonic
    <3>2. "ff" \in Bytes
      BY DEF Bytes
    <3> QED BY <3>1, <3>2
  <2>2. <<"ff">> \o t \in Seq(Bytes)
    BY <2>1
  <2> QED BY Zenon, <2>2
<1>3. /\ Len(x) = 1 + k /\ x[1] = "ff" /\ \A i \in 1..k : x[1 + i] = t[i]
  BY <1>1, <1>2
<1>4. \A j \in 1..(1 + k) : x[j] \in Stop => j = 1
  <2> SUFFICES ASSUME NEW j \in 1..(1 + k), j # 1 PROVE x[j] \notin Stop
    OBVIOUS
  <2>1. PICK i \in 1..k : j = 1 + i
    <3>1. j - 1 \in 1..k /\ j = 1 + (j - 1)
      BY <1>1
    <3> QED BY <3>1
  <2>2. x[j] = t[i] /\ t[i] \in Plain
    BY <1>1, <1>3, <2>1, ElementOfSeq
  <2> QED BY <2>2, Kinds
<1>5. Rest(x) = t
  <2>1. PICK m \in 0..(1 + k) : /\ Rest(x) = SubSeq(x, 1 + m, 1 + k) /\ (m # 0 => x[m] \in Stop)
                                /\ \A j \in 1..(1 + k) : x[j] \in Stop => j <= m
    <3>1. 1 + k \in Nat /\ 1 + k = Len(x)
      BY <1>1, <1>3
    <3>2. /\ Rest(x) = SubSeq(x, 1 + Before(x, (1 + k) + 1), 1 + k)
          /\ Before(x, (1 + k) + 1) \in 0..(1 + k)
          /\ Before(x, (1 + k) + 1) # 0 => x[Before(x, (1 + k) + 1)] \in Stop
          /\ \A j \in 1..(1 + k) : x[j] \in Stop => j <= Before(x, (1 + k) + 1)
      BY <3>1, RestIs
    <3> QED BY <3>2, Zenon
  <2>2. m = 1
    <3>1. 1 \in 1..(1 + k) /\ x[1] \in Stop
      BY <1>1, <1>3 DEF Stop
    <3>2. 1 <= m
      BY <2>1, <3>1
    <3>3. m \in 1..(1 + k) /\ x[m] \in Stop
      BY <1>1, <2>1, <3>2
    <3> QED BY <1>4, <3>3
  <2>3. /\ SubSeq(x, 1 + 1, 1 + k) \in Seq(Bytes) /\ Len(SubSeq(x, 1 + 1, 1 + k)) = k
        /\ \A i \in 1..k : SubSeq(x, 1 + 1, 1 + k)[i] = x[1 + i]
    <3>1. 1 + k <= Len(x) /\ 1 \in Nat
      BY <1>1, <1>3
    <3> QED BY <1>1, <3>1, Slice
  <2>4. PICK y \in Seq(Bytes) : y = Rest(x) /\ Len(y) = k /\ \A i \in 1..k : y[i] = t[i]
    BY Zenon, <1>3, <2>1, <2>2, <2>3
  <2>5. t \in Seq(Bytes)
    BY Kinds, SeqMonotonic
  <2>6. y = t
    BY <1>1, <2>4, <2>5, SeqEqual
  <2> QED BY <2>4, <2>6
<1>6. Flag(x) = TRUE
  <2>1. 1 \in 1..((1 + k) + 1 - 1)
    BY <1>1
  <2>2. \A j \in Ends(x) : ~MakesFrame(x, j)
    <3> SUFFICES ASSUME NEW j \in Ends(x) PROVE ~MakesFrame(x, j)
      OBVIOUS
    <3>1. j \in 1..(1 + k) /\ x[j] \in Stop
      BY <1>3 DEF Ends, Stop
    <3>2. x[j] = "ff"
      BY <1>3, <1>4, <3>1
    <3>3. x[j] # "nl"
      BY <3>2
    <3> QED BY <3>3, Zenon DEF MakesFrame
  <2>3. Flagged(x, (1 + k) + 1)
    <3>1. PICK q : q = (1 + k) + 1 /\ 1 \in 1..(q - 1)
      BY <2>1
    <3>2. x[1] = "ff" /\ \A j \in 1..(q - 1) : j \in Ends(x) => ~MakesFrame(x, j)
      BY <1>3, <2>2, Zenon
    <3> QED BY <3>1, <3>2, Zenon DEF Flagged
  <2> QED BY <1>3, <2>3 DEF Flag, Flagged
<1> QED
  BY <1>2, <1>3, <1>5, <1>6

\* A sequence in two parts.
Joins(y, m, w) == y = m \o w

(* The second part of it.                                                   *)
LEMMA SecondPart ==
  ASSUME NEW X, NEW m \in Seq(X), NEW w \in Seq(X), NEW a \in Nat, NEW k \in Nat, a = Len(m), k = Len(w),
         NEW y, Joins(y, m, w)
  PROVE  Len(y) = a + k /\ \A i \in 1..k : y[a + i] = w[i]
<1>1. Len(m \o w) = a + k /\ \A i \in 1..k : (m \o w)[a + i] = w[i]
  OBVIOUS
<1> QED
  BY <1>1, Zenon DEF Joins

(* What follows a prefix, when it ends in an element.                        *)
LEMMA EndsWith ==
  ASSUME NEW X, NEW m \in Seq(X), NEW e \in Seq(X), NEW w \in Seq(X), NEW c \in X,
         NEW y, Joins(y, m, w), Joins(y, m \o e, <<c>>)
  PROVE  w = Append(e, c)
<1>1. PICK a \in Nat, n \in Nat, k \in Nat : a = Len(m) /\ n = Len(e) /\ k = Len(w)
  OBVIOUS
<1>2. Len(y) = a + k /\ \A i \in 1..k : y[a + i] = w[i]
  BY <1>1, SecondPart
<1>3. PICK h \in Seq(X) : h = m \o e /\ Len(h) = a + n /\ \A i \in 1..n : h[a + i] = e[i]
  <2>1. m \o e \in Seq(X) /\ Len(m \o e) = a + n /\ \A i \in 1..n : (m \o e)[a + i] = e[i]
    BY <1>1
  <2> QED BY Zenon, <2>1
<1>4. y = h \o <<c>>
  BY <1>3, Zenon DEF Joins
<1>5. Len(y) = (a + n) + 1 /\ y[(a + n) + 1] = c /\ \A i \in 1..n : y[a + i] = e[i]
  BY <1>1, <1>3, <1>4
<1>6. k = n + 1
  BY <1>1, <1>2, <1>5
<1>7. w[n + 1] = c /\ \A i \in 1..n : w[i] = e[i]
  <2>1. n + 1 \in 1..k /\ a + (n + 1) = (a + n) + 1 /\ \A i \in 1..n : i \in 1..k
    BY <1>1, <1>6
  <2>2. y[a + (n + 1)] = w[n + 1] /\ y[a + (n + 1)] = c
    BY <1>2, <1>5, <2>1, Zenon
  <2>3. \A i \in 1..n : y[a + i] = w[i] /\ y[a + i] = e[i]
    BY <1>2, <1>5, <2>1, Zenon
  <2> QED BY <2>2, <2>3, Zenon
<1>8. PICK z \in Seq(X) : z = Append(e, c) /\ Len(z) = n + 1 /\ z[n + 1] = c /\ \A i \in 1..n : z[i] = e[i]
  <2>1. /\ Append(e, c) \in Seq(X) /\ Len(Append(e, c)) = n + 1 /\ Append(e, c)[n + 1] = c
        /\ \A i \in 1..n : Append(e, c)[i] = e[i]
    BY <1>1
  <2> QED BY Zenon, <2>1
<1>9. \A i \in 1..(n + 1) : w[i] = z[i]
  BY <1>1, <1>7, <1>8
<1>10. w = z
  BY Zenon, <1>1, <1>6, <1>8, <1>9, SeqEqual
<1> QED
  BY <1>8, <1>10

(* The last element is the one that was appended.                            *)
LEMMA LastIs ==
  ASSUME NEW X, NEW e \in Seq(X), NEW c \in X
  PROVE  Append(e, c) # <<>> /\ Append(e, c)[Len(Append(e, c))] = c
OBVIOUS

(* Such text, ended by a newline, is the last frame the decoder emits.       *)
LEMMA Arrives ==
  ASSUME NEW s \in Seq(Bytes), NEW t \in Seq(Plain),
         ~(Len(t) > MAX_FRAME_LEN), "data" \in Range(t)
  PROVE  LET r == Push(State(s), Encode(t, TRUE))
         IN  r.events # <<>> /\ r.events[Len(r.events)] = Frame(t, TRUE) /\ r.decoder = New
<1>1. PICK x \in Seq(Bytes) : x = <<"ff">> \o t /\ x # <<>> /\ x[1] = "ff" /\ Rest(x) = t /\ Flag(x) = TRUE
  BY Zenon, HeldText
<1>2. "nl" \in Bytes /\ "nl" \in Stop
  BY DEF Bytes, Stop
<1>3. PICK v \in Seq(Bytes) : v = s \o x
  <2>1. s \o x \in Seq(Bytes)
    OBVIOUS
  <2> QED BY Zenon, <2>1
<1>4. PICK y \in Seq(Bytes) : y = Encode(t, TRUE) /\ y = Append(x, "nl") /\ s \o y = Append(v, "nl")
  <2>1. Encode(t, TRUE) = x \o <<"nl">>
    BY <1>1, Zenon DEF Encode
  <2>2. Append(x, "nl") = x \o <<"nl">> /\ Append(x, "nl") \in Seq(Bytes)
    BY <1>2, AppendIsConcat, AppendProperties
  <2>3. Append(s \o x, "nl") = s \o Append(x, "nl")
    BY <1>2, AppendConcat, Zenon
  <2> QED BY <1>3, <2>1, <2>2, <2>3, Zenon
<1>5. Rest(v) = t /\ Flag(v) = TRUE
  BY <1>1, <1>3, Restarts, Zenon
<1>6. PICK e \in Seq(Event) : Meaning(v) = Meaning(s) \o e
  BY <1>3, PushIs, Zenon
<1>7. PICK r : r = Push(State(s), y)
  OBVIOUS
<1>8. /\ r.decoder = State(Append(v, "nl")) /\ r.events \in Seq(Event)
      /\ Meaning(Append(v, "nl")) = Meaning(s) \o r.events
  <2>1. /\ Push(State(s), y).decoder = State(s \o y) /\ Push(State(s), y).events \in Seq(Event)
        /\ Meaning(s \o y) = Meaning(s) \o Push(State(s), y).events
    BY PushIs, Zenon
  <2> QED BY <1>4, <1>7, <2>1, Zenon
<1>9. Makes(t, "nl")
  BY Zenon DEF Makes
<1>10. /\ Rest(Append(v, "nl")) = <<>> /\ Flag(Append(v, "nl")) = After(t, TRUE, "nl")
       /\ Meaning(Append(v, "nl")) = Meaning(v) \o Emission(t, TRUE, "nl")
  <2>1. /\ Rest(Append(v, "nl")) = <<>> /\ Flag(Append(v, "nl")) = After(Rest(v), Flag(v), "nl")
        /\ Meaning(Append(v, "nl")) = Meaning(v) \o Emission(Rest(v), Flag(v), "nl")
    BY <1>2, Grows, Zenon
  <2> QED BY <1>5, <2>1, Zenon
<1>11. After(t, TRUE, "nl") = FALSE
  BY <1>9 DEF After
<1>12. r.decoder = New
  <2>1. State(Append(v, "nl")) = Holding(<<>>, FALSE)
    BY Zenon, <1>10, <1>11 DEF State
  <2>2. Holding(<<>>, FALSE) = New
    BY FreshIs, Zenon DEF Fresh, Dec, No, New
  <2> QED BY <1>8, <2>1, <2>2, Zenon
<1>13. PICK c \in Event : c = Frame(t, TRUE)
  <2>1. t \in Seq(Bytes)
    BY Kinds, SeqMonotonic
  <2>2. Frame(t, TRUE) \in Event
    BY <2>1 DEF Frame, Event
  <2> QED BY Zenon, <2>2
<1>14. Emission(t, TRUE, "nl") = <<c>>
  BY <1>9, <1>13, Zenon DEF Emission, Makes
<1>15. r.events = Append(e, c)
  <2>1. PICK m \in Seq(Event) : m = Meaning(s)
    BY Grows, <1>2, Zenon
  <2>2. PICK w \in Seq(Event) : w = r.events
    BY <1>8
  <2>3. m \o w = (m \o e) \o <<c>>
    BY <1>6, <1>8, <1>10, <1>14, <2>1, <2>2, Zenon
  <2>4. PICK z : Joins(z, m, w) /\ Joins(z, m \o e, <<c>>)
    BY <2>3, Zenon DEF Joins
  <2>5. w = Append(e, c)
    BY <2>4, EndsWith
  <2> QED BY <2>2, <2>5
<1>16. r.events # <<>> /\ r.events[Len(r.events)] = c
  BY <1>6, <1>13, <1>15, LastIs, Zenon
<1> QED
  BY <1>4, <1>7, <1>12, <1>13, <1>16, Zenon

-----------------------------------------------------------------------------
(* The decoder is determined by the stream: the inductive invariant.       *)

Determined ==
  /\ stream \in Seq(Bytes) /\ decoder = State(stream) /\ events = Meaning(stream)
  /\ sessions \in 1..MaxSessions

(* A session starts so.                                                      *)
LEMMA DeterminedInit == Init => Determined
<1> SUFFICES ASSUME Init PROVE Determined
  OBVIOUS
<1>1. 1 \in 1..MaxSessions
  BY BoundsAssumption
<1> QED
  BY <1>1, Starts, Zenon DEF Init, Determined

(* Every read and every new session keeps it.                                *)
LEMMA DeterminedNext == Determined /\ [Next]_vars => Determined'
<1> SUFFICES ASSUME Determined, [Next]_vars PROVE Determined'
  OBVIOUS
<1>1. CASE Read
  <2>1. PICK n \in 1..MaxChunk : \E chunk \in [1..n -> Bytes] :
          /\ decoder' = Push(decoder, chunk).decoder
          /\ events' = events \o Push(decoder, chunk).events
          /\ stream' = stream \o chunk
          /\ sessions' = sessions
    BY <1>1, Zenon DEF Read
  <2>2. PICK x \in Seq(Bytes) :
          /\ decoder' = Push(decoder, x).decoder
          /\ events' = events \o Push(decoder, x).events
          /\ stream' = stream \o x
          /\ sessions' = sessions
    <3>1. n \in Nat
      BY BoundsAssumption
    <3>2. [1..n -> Bytes] \subseteq Seq(Bytes)
      BY <3>1
    <3> QED BY <2>1, <3>2, Zenon
  <2>3. stream \in Seq(Bytes) /\ decoder = State(stream) /\ events = Meaning(stream)
    BY Zenon DEF Determined
  <2>4. /\ Push(State(stream), x).decoder = State(stream \o x)
        /\ Meaning(stream \o x) = Meaning(stream) \o Push(State(stream), x).events
    BY <2>3, PushIs, Zenon
  <2>5. stream \o x \in Seq(Bytes)
    BY <2>3
  <2>6. stream' \in Seq(Bytes) /\ decoder' = State(stream \o x) /\ events' = Meaning(stream \o x)
        /\ stream' = stream \o x
    BY <2>2, <2>3, <2>4, <2>5, Zenon
  <2>7. decoder' = State(stream') /\ events' = Meaning(stream')
    BY <2>6, Zenon
  <2>8. sessions' \in 1..MaxSessions
    BY <2>2, Zenon DEF Determined
  <2> QED BY <2>6, <2>7, <2>8 DEF Determined
<1>2. CASE Reopen
  <2>1. sessions' \in 1..MaxSessions
    BY <1>2, BoundsAssumption DEF Reopen, Determined
  <2>2. decoder' = New /\ events' = <<>> /\ stream' = <<>>
    BY <1>2, Zenon DEF Reopen
  <2>3. stream' \in Seq(Bytes) /\ decoder' = State(stream') /\ events' = Meaning(stream')
    BY <2>2, Starts, Zenon
  <2> QED BY <2>1, <2>3 DEF Determined
<1>3. CASE UNCHANGED vars
  BY <1>3 DEF vars, Determined
<1> QED
  BY <1>1, <1>2, <1>3, Zenon DEF Next

(* What is held is well formed and within the bound.                         *)
LEMMA HeldTyped ==
  ASSUME Determined
  PROVE  TypeOK
<1>1. PICK g \in Seq(Plain), f \in BOOLEAN : decoder = Holding(g, f)
  <2>1. stream \in Seq(Bytes) /\ decoder = State(stream) /\ "nl" \in Bytes
    BY DEF Determined, Bytes
  <2> QED BY <2>1, Grows, Zenon DEF State
<1>2. Plain = Bytes \ {"nl", "ff"} /\ sessions \in 1..MaxSessions /\ MAX_FRAME_LEN \in Nat
  BY BoundsAssumption, Kinds DEF Determined
<1>3. CASE Len(g) > MAX_FRAME_LEN
  <2>1. decoder = [buf |-> <<>>, discarding |-> TRUE, discarded |-> Len(g), sentinel_pending |-> f]
    BY <1>1, <1>3, Zenon DEF Holding
  <2>2. <<>> \in Seq(Plain) /\ Len(<<>>) = 0 /\ 0 <= MAX_FRAME_LEN /\ Len(g) \in Nat
    BY <1>2
  <2>3. decoder \in [buf : Seq(Plain), discarding : BOOLEAN, discarded : Nat, sentinel_pending : BOOLEAN]
    BY <2>1, <2>2
  <2>4. decoder.buf = <<>> /\ decoder.discarding /\ decoder.discarded = Len(g)
    BY <2>1
  <2> QED BY <1>2, <1>3, <2>2, <2>3, <2>4 DEF TypeOK
<1>4. CASE ~(Len(g) > MAX_FRAME_LEN)
  <2>1. decoder = [buf |-> g, discarding |-> FALSE, discarded |-> 0, sentinel_pending |-> f]
    BY <1>1, <1>4, Zenon DEF Holding
  <2>2. decoder \in [buf : Seq(Plain), discarding : BOOLEAN, discarded : Nat, sentinel_pending : BOOLEAN]
    BY <2>1
  <2>3. decoder.buf = g /\ ~decoder.discarding /\ decoder.discarded = 0
    BY <2>1
  <2>4. Len(g) <= MAX_FRAME_LEN
    BY <1>2, <1>4
  <2> QED BY <1>2, <2>2, <2>3, <2>4 DEF TypeOK
<1> QED
  BY <1>3, <1>4

(* The bytes of a stream in two parts.                                      *)
LEMMA TwoParts ==
  ASSUME NEW p \in Seq(Bytes), NEW q \in Seq(Bytes)
  PROVE  /\ Len(p \o q) = Len(p) + Len(q)
         /\ \A j \in 1..Len(q) : (p \o q)[Len(p) + j] = q[j]
OBVIOUS

(* A stream in two parts, the second starting at a position.                *)
LEMMA Splits ==
  ASSUME NEW s \in Seq(Bytes), NEW i \in 1..Len(s)
  PROVE  /\ SubSeq(s, 1, i - 1) \in Seq(Bytes) /\ SubSeq(s, i, Len(s)) \in Seq(Bytes)
         /\ SubSeq(s, i, Len(s)) # <<>> /\ SubSeq(s, i, Len(s))[1] = s[i]
         /\ SubSeq(s, 1, i - 1) \o SubSeq(s, i, Len(s)) = s
<1>1. PICK m \in Nat, e \in Nat : i = 1 + m /\ i - 1 = 0 + m /\ m + e = Len(s) /\ e # 0
  <2>1. i - 1 \in Nat /\ Len(s) - (i - 1) \in Nat /\ i = 1 + (i - 1) /\ i - 1 = 0 + (i - 1)
        /\ (i - 1) + (Len(s) - (i - 1)) = Len(s) /\ Len(s) - (i - 1) # 0
    OBVIOUS
  <2> QED BY Zenon, <2>1
<1>2. PICK p \in Seq(Bytes) : p = SubSeq(s, 1, i - 1) /\ Len(p) = m /\ \A j \in 1..m : p[j] = s[j]
  <2>1. 0 + m <= Len(s) /\ 1 + 0 = 1 /\ \A j \in 1..m : 0 + j = j
    BY <1>1
  <2>2. /\ SubSeq(s, 1 + 0, 0 + m) \in Seq(Bytes) /\ Len(SubSeq(s, 1 + 0, 0 + m)) = m
        /\ \A j \in 1..m : SubSeq(s, 1 + 0, 0 + m)[j] = s[0 + j]
    BY <1>1, <2>1, Slice
  <2> QED BY Zenon, <1>1, <2>1, <2>2
<1>3. PICK q \in Seq(Bytes) : q = SubSeq(s, i, Len(s)) /\ Len(q) = e /\ \A j \in 1..e : q[j] = s[m + j]
  <2>1. m + e <= Len(s)
    BY <1>1
  <2>2. /\ SubSeq(s, 1 + m, m + e) \in Seq(Bytes) /\ Len(SubSeq(s, 1 + m, m + e)) = e
        /\ \A j \in 1..e : SubSeq(s, 1 + m, m + e)[j] = s[m + j]
    BY <1>1, <2>1, Slice
  <2> QED BY Zenon, <1>1, <2>2
<1>4. q # <<>> /\ q[1] = s[i]
  <2>1. 1 \in 1..e /\ m + 1 = i
    BY <1>1
  <2> QED BY Zenon, <1>1, <1>3, <2>1
<1>5. p \o q = s
  <2>1. PICK r \in Seq(Bytes) : r = p \o q
    <3>1. p \o q \in Seq(Bytes)
      OBVIOUS
    <3> QED BY Zenon, <3>1
  <2>2. Len(r) = m + e /\ \A j \in 1..e : r[m + j] = q[j]
    <3>1. Len(p \o q) = Len(p) + Len(q) /\ \A j \in 1..Len(q) : (p \o q)[Len(p) + j] = q[j]
      BY TwoParts, Zenon
    <3> QED BY <1>2, <1>3, <2>1, <3>1, Zenon
  <2>3. \A j \in 1..m : r[j] = p[j]
    BY <1>2, <1>3, <2>1
  <2>4. ASSUME NEW j \in 1..(m + e) PROVE r[j] = s[j]
    <3>1. CASE j <= m
      BY <1>1, <1>2, <2>3, <3>1
    <3>2. CASE ~(j <= m)
      <4>1. PICK k \in 1..e : j = m + k
        <5>1. j - m \in 1..e /\ j = m + (j - m)
          BY <1>1, <3>2
        <5> QED BY <5>1
      <4>2. r[m + k] = q[k] /\ q[k] = s[m + k]
        BY <1>3, <2>2, <4>1
      <4> QED BY <4>1, <4>2
    <3> QED BY <3>1, <3>2
  <2>5. r = s
    BY <1>1, <2>2, <2>4, SeqEqual
  <2> QED BY <2>1, <2>5
<1> QED
  BY <1>2, <1>3, <1>4, <1>5, Zenon

(* A decoder that the stream determines is right about the stream.           *)
LEMMA DeterminedExact == Determined => DecoderExact
<1> SUFFICES ASSUME Determined PROVE DecoderExact
  OBVIOUS
<1>1. stream \in Seq(Bytes) /\ decoder = State(stream) /\ events = Meaning(stream)
  BY Zenon DEF Determined
<1>2. TypeOK
  BY HeldTyped
<1>3. ChunkingIrrelevant
  BY <1>1, Zenon DEF ChunkingIrrelevant
<1>4. Resynchronises
  <2> SUFFICES ASSUME NEW i \in DOMAIN stream, stream[i] = "ff"
               PROVE  decoder = Push(New, SubSeq(stream, i, Len(stream))).decoder
    BY Zenon DEF Resynchronises
  <2>1. i \in 1..Len(stream)
    BY <1>1
  <2>2. PICK p \in Seq(Bytes), q \in Seq(Bytes) :
          q = SubSeq(stream, i, Len(stream)) /\ q # <<>> /\ q[1] = "ff" /\ p \o q = stream
    <3>1. PICK s \in Seq(Bytes) : s = stream /\ i \in 1..Len(s)
      BY <1>1, <2>1
    <3>2. /\ SubSeq(s, 1, i - 1) \in Seq(Bytes) /\ SubSeq(s, i, Len(s)) \in Seq(Bytes)
          /\ SubSeq(s, i, Len(s)) # <<>> /\ SubSeq(s, i, Len(s))[1] = s[i]
          /\ SubSeq(s, 1, i - 1) \o SubSeq(s, i, Len(s)) = s
      BY Zenon, <3>1, Splits
    <3> QED BY <3>1, <3>2, Zenon
  <2>3. Rest(stream) = Rest(q) /\ Flag(stream) = Flag(q)
    <3>1. Rest(p \o q) = Rest(q) /\ Flag(p \o q) = Flag(q)
      BY Zenon, <2>2, Restarts
    <3> QED BY <2>2, <3>1, Zenon
  <2>4. State(stream) = State(q)
    BY <2>3, Zenon DEF State
  <2>5. PICK z \in Seq(Bytes) : z = <<>> /\ State(z) = New
    BY Starts, Zenon
  <2>6. Push(State(z), q).decoder = State(z \o q)
    BY PushIs, Zenon
  <2>7. z \o q = q
    BY <2>5
  <2> QED BY <1>1, <2>2, <2>4, <2>5, <2>6, <2>7, Zenon
<1>5. DelimitedArrives
  <2> SUFFICES ASSUME NEW t \in Texts
               PROVE  LET r == Push(decoder, Encode(t, TRUE))
                      IN  r.events # <<>> /\ r.events[Len(r.events)] = Frame(t, TRUE) /\ r.decoder = New
    BY Zenon DEF DelimitedArrives
  <2>1. PICK n \in 1..MAX_FRAME_LEN : t \in [1..n -> Plain]
    BY Zenon DEF Texts, Plain
  <2>2. "data" \in Range(t)
    BY Zenon DEF Texts
  <2>3. t \in Seq(Plain) /\ Len(t) = n
    BY <2>1, BoundsAssumption
  <2>4. ~(Len(t) > MAX_FRAME_LEN)
    BY <2>1, <2>3, BoundsAssumption
  <2> QED BY <1>1, <2>2, <2>3, <2>4, Arrives, Zenon
<1> QED
  BY <1>2, <1>3, <1>4, <1>5, Zenon DEF DecoderExact

(***************************************************************************)
(* Whatever the bound on a frame, the bytes of a session and the reads      *)
(* that deliver them: push has emitted exactly what the stream means, a     *)
(* sentinel starts the decoder over, delimited text arrives next whole and  *)
(* flagged, and what is buffered stays within the bound.                    *)
(***************************************************************************)
THEOREM DecodesExactly == Spec => []DecoderExact
<1>1. Init => Determined
  BY DeterminedInit
<1>2. Determined /\ [Next]_vars => Determined'
  BY DeterminedNext
<1>3. Determined => DecoderExact
  BY DeterminedExact
<1> QED
  BY <1>1, <1>2, <1>3, PTL DEF Spec

=============================================================================
