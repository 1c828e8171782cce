----------------------------- MODULE AuditRouter -----------------------------
(***************************************************************************)
(* The audit router (audit.rs): callers hand over formatted records        *)
(* without ever touching the sink, a writer thread delivers them one at a  *)
(* time, and while filesystems are frozen they wait in a bounded ring.     *)
(* Whatever is dropped is counted where it was dropped.                    *)
(*                                                                         *)
(* Every action but the sink write runs under the one lock.  A record is   *)
(* its number and its length; the time and the text of a record are left   *)
(* out.  The push counter that keeps the writer off a dead sink is         *)
(* compared for equality only: failed says that it has not moved since the *)
(* sink refused a write.                                                   *)
(***************************************************************************)
EXTENDS FiniteSetsExt, Naturals, Sequences

CONSTANTS
    RingCapacity,   \* RING_CAPACITY
    QueueCapacity,  \* SINK_QUEUE_CAPACITY
    Sizes,          \* lengths a record can have
    MaxRecords,     \* bound: records written
    MaxRefusals     \* bound: writes the sink refuses

ASSUME AuditAssumption ==
    /\ RingCapacity \in Nat /\ QueueCapacity \in Nat
    /\ Sizes \subseteq Nat \ {0}
    /\ MaxRecords \in Nat /\ MaxRefusals \in Nat

VARIABLES
    mode,                \* "Normal" or "Ring"
    ring,                \* LineRing: its lines, the bytes used, the lines lost
    queue, queued,       \* the delivery queue and the bytes of its lines
    inFlight,            \* the items the writer has taken out: none or one
    failed,              \* failed_at = Some(pushes)
    started, exited, shutdown,
    writer,              \* "none", "check", "parked", "writing", "gone"
    settler, mark,       \* a caller of settle, the records written before
    emitted, sink,       \* records written so far, what the sink was given
    again, refusals      \* losses reported twice, refused writes

callVars == <<settler, mark>>
writerVars == <<writer, inFlight, failed>>
lifeVars == <<started, exited, shutdown>>
sinkVars == <<sink, again, refusals>>
vars == <<mode, ring, queue, queued, writerVars, lifeVars, callVars, emitted, sinkVars>>

Reasons == {"RingOverflow", "SinkBackpressure", "SinkError"}
NoLoss == [r \in Reasons |-> 0]

\* Item::Line, Item::Lost.
Line(n, len) == [n |-> n, len |-> len, gap |-> NoLoss]
Lost(gap) == [n |-> 0, len |-> 0, gap |-> gap]
IsLine(item) == item.n # 0

\* The sum of a sequence of numbers, and the bytes of a sequence of items.
SumOf(s) ==
    LET sum[i \in 0..Len(s)] == IF i = 0 THEN 0 ELSE sum[i - 1] + s[i]
    IN sum[Len(s)]
Bytes(items) == SumOf([i \in 1..Len(items) |-> items[i].len])

\* LossGap: of and add, merge, total.
Add(gap, count, reason) == [gap EXCEPT ![reason] = @ + count]
Merge(gap, other) == [r \in Reasons |-> gap[r] + other[r]]
Total(gap) == gap["RingOverflow"] + gap["SinkBackpressure"] + gap["SinkError"]

\* LossGap::records: one loss record per reason with a count, in this order.
Records(gap) ==
    LET record(reason) == IF gap[reason] > 0 THEN <<gap[reason]>> ELSE <<>>
    IN record("RingOverflow") \o record("SinkBackpressure") \o record("SinkError")

-----------------------------------------------------------------------------
\* LineRing::push.
RingPush(r, line) ==
    LET fits(k) == r.used - Bytes(SubSeq(r.lines, 1, k)) + line.len <= RingCapacity
        k == Min({j \in 0..Len(r.lines) : fits(j)})
    IN IF line.len > RingCapacity
       THEN [r EXCEPT !.lost = @ + 1]
       ELSE [lines |-> Append(SubSeq(r.lines, k + 1, Len(r.lines)), line),
             used |-> r.used - Bytes(SubSeq(r.lines, 1, k)) + line.len,
             lost |-> r.lost + k]

\* State::lose: into the gap at the tail, or a new one.
LoseApart(q, count, reason) == Append(q, Lost(Add(NoLoss, count, reason)))
Lose(q, count, reason) ==
    IF q # <<>> /\ ~IsLine(q[Len(q)])
    THEN [q EXCEPT ![Len(q)].gap = Add(@, count, reason)]
    ELSE Append(q, Lost(Add(NoLoss, count, reason)))

\* State::lose_at_front.
LoseAtFrontOverwriting(q, gap) ==
    IF q # <<>> /\ ~IsLine(Head(q)) THEN [q EXCEPT ![1].gap = gap] ELSE <<Lost(gap)>> \o q
LoseAtFront(q, gap) ==
    IF q # <<>> /\ ~IsLine(Head(q))
    THEN [q EXCEPT ![1].gap = Merge(@, gap)]
    ELSE <<Lost(gap)>> \o q

\* State::enqueue, on the queue and its byte count.
EnqueueAlways(d, line) == [q |-> Append(d.q, line), bytes |-> d.bytes + line.len]
Enqueue(d, line) ==
    IF d.bytes + line.len > QueueCapacity /\ d.bytes > 0
    THEN [d EXCEPT !.q = Lose(@, 1, "SinkBackpressure")]
    ELSE [q |-> Append(d.q, line), bytes |-> d.bytes + line.len]

\* The enqueue of each line in turn.
EnqueueAll(d, lines) ==
    LET after[i \in 0..Len(lines)] == IF i = 0 THEN d ELSE Enqueue(after[i - 1], lines[i])
    IN after[Len(lines)]

\* Condvar::notify_all: a parked writer looks again.
NotifyNobody == UNCHANGED writer
Notify == writer' = IF writer = "parked" THEN "check" ELSE writer

-----------------------------------------------------------------------------
\* Router::build.
Init ==
    /\ mode = "Normal" /\ ring = [lines |-> <<>>, used |-> 0, lost |-> 0]
    /\ queue = <<>> /\ queued = 0 /\ inFlight = <<>> /\ failed = FALSE
    /\ started = FALSE /\ exited = FALSE /\ shutdown = FALSE /\ writer = "none"
    /\ settler = "idle" /\ mark = 0
    /\ emitted = 0 /\ sink = <<>> /\ again = 0 /\ refusals = 0

\* write_record.
WriteRecord(len) ==
    LET line == Line(emitted + 1, len)
        next == IF exited /\ ~shutdown
                THEN [q |-> Lose(queue, 1, "SinkError"), bytes |-> queued]
                ELSE Enqueue([q |-> queue, bytes |-> queued], line)
    IN
    /\ ~shutdown /\ emitted < MaxRecords /\ emitted' = emitted + 1
    /\ IF mode = "Ring"
       THEN ring' = RingPush(ring, line) /\ UNCHANGED <<queue, queued, failed>>
       ELSE queue' = next.q /\ queued' = next.bytes /\ failed' = FALSE /\ UNCHANGED ring
    /\ Notify
    /\ UNCHANGED <<mode, inFlight, lifeVars, callVars, sinkVars>>

EnterRing ==
    /\ ~shutdown /\ mode' = "Ring" /\ Notify
    /\ UNCHANGED <<ring, queue, queued, inFlight, failed, lifeVars, callVars, emitted,
                   sinkVars>>

\* flush_to_normal: the loss of the ring first, then its lines.
FlushLossLast ==
    LET next == EnqueueAll([q |-> queue, bytes |-> queued], ring.lines)
    IN
    /\ ~shutdown /\ mode' = "Normal"
    /\ queue' = IF ring.lost > 0 THEN Lose(next.q, ring.lost, "RingOverflow") ELSE next.q
    /\ queued' = next.bytes
    /\ failed' = (failed /\ ring.lost = 0 /\ ring.lines = <<>>)
    /\ ring' = [lines |-> <<>>, used |-> 0, lost |-> 0] /\ Notify
    /\ UNCHANGED <<inFlight, lifeVars, callVars, emitted, sinkVars>>
FlushToFront ==
    LET next == EnqueueAll([q |-> <<>>, bytes |-> queued], ring.lines)
    IN
    /\ ~shutdown /\ mode' = "Normal"
    /\ queue' = (IF ring.lost > 0 THEN Lose(<<>>, ring.lost, "RingOverflow") ELSE <<>>)
                  \o next.q \o queue
    /\ queued' = next.bytes
    /\ failed' = (failed /\ ring.lost = 0 /\ ring.lines = <<>>)
    /\ ring' = [lines |-> <<>>, used |-> 0, lost |-> 0] /\ Notify
    /\ UNCHANGED <<inFlight, lifeVars, callVars, emitted, sinkVars>>
FlushToNormal ==
    LET start == IF ring.lost > 0 THEN Lose(queue, ring.lost, "RingOverflow") ELSE queue
        next == EnqueueAll([q |-> start, bytes |-> queued], ring.lines)
    IN
    /\ ~shutdown /\ mode' = "Normal" /\ queue' = next.q /\ queued' = next.bytes
    /\ failed' = (failed /\ ring.lost = 0 /\ ring.lines = <<>>)
    /\ ring' = [lines |-> <<>>, used |-> 0, lost |-> 0] /\ Notify
    /\ UNCHANGED <<inFlight, lifeVars, callVars, emitted, sinkVars>>

\* start_writer: the thread is spawned outside the lock.
StartWriter ==
    /\ ~shutdown /\ ~started /\ started' = TRUE
    /\ UNCHANGED <<mode, ring, queue, queued, writerVars, exited, shutdown, callVars,
                   emitted, sinkVars>>

Spawned ==
    /\ started /\ writer = "none" /\ ~exited
    /\ \/ writer' = "check" /\ UNCHANGED exited
       \/ exited' = TRUE /\ UNCHANGED writer
    /\ UNCHANGED <<mode, ring, queue, queued, inFlight, failed, started, shutdown, callVars,
                   emitted, sinkVars>>

\* The drop of the last handle.
DropLast ==
    /\ ~shutdown /\ settler # "waiting" /\ shutdown' = TRUE /\ Notify
    /\ started /\ writer = "none" => exited
    /\ UNCHANGED <<mode, ring, queue, queued, inFlight, failed, started, exited, callVars,
                   emitted, sinkVars>>

-----------------------------------------------------------------------------
(* writer_thread.  At "check" it holds the lock and decides.               *)
CanTakeAnyMode == queue # <<>> /\ ~failed
CanTake == mode = "Normal" /\ queue # <<>> /\ ~failed
MustExit == shutdown /\ (queue = <<>> \/ mode = "Ring")

Take ==
    /\ writer = "check" /\ ~exited /\ CanTake
    /\ inFlight' = <<Head(queue)>> /\ queue' = Tail(queue) /\ writer' = "writing"
    /\ UNCHANGED <<mode, ring, queued, failed, lifeVars, callVars, emitted, sinkVars>>

Exit ==
    /\ writer = "check" /\ (exited \/ (~CanTake /\ MustExit))
    /\ exited' = TRUE /\ writer' = "gone"
    /\ UNCHANGED <<mode, ring, queue, queued, inFlight, failed, started, shutdown, callVars,
                   emitted, sinkVars>>

Park ==
    /\ writer = "check" /\ ~exited /\ ~CanTake /\ ~MustExit /\ writer' = "parked"
    /\ UNCHANGED <<mode, ring, queue, queued, inFlight, failed, lifeVars, callVars, emitted,
                   sinkVars>>

\* What the sink is given for an item: the line, or the loss records.
Output(item) ==
    IF IsLine(item) THEN <<[n |-> item.n, lost |-> 0]>>
    ELSE [i \in 1..Len(Records(item.gap)) |-> [n |-> 0, lost |-> Records(item.gap)[i]]]

Delivered ==
    /\ writer = "writing" /\ writer' = "check"
    /\ sink' = sink \o Output(inFlight[1])
    /\ queued' = queued - inFlight[1].len /\ inFlight' = <<>> /\ failed' = FALSE
    /\ UNCHANGED <<mode, ring, queue, lifeVars, callVars, emitted, again, refusals>>

\* A refused write leaves less than all of the output in the sink.
Refused ==
    LET item == inFlight[1] IN
    /\ writer = "writing" /\ refusals < MaxRefusals /\ refusals' = refusals + 1
    /\ \E m \in 0..(Len(Output(item)) - 1) :
         /\ sink' = sink \o SubSeq(Output(item), 1, m)
         /\ again' = again + SumOf([i \in 1..m |-> Output(item)[i].lost])
    /\ queue' = LoseAtFront(queue, IF IsLine(item) THEN Add(NoLoss, 1, "SinkError")
                                                   ELSE item.gap)
    /\ queued' = queued - item.len /\ inFlight' = <<>> /\ failed' = TRUE
    /\ writer' = "check"
    /\ UNCHANGED <<mode, ring, lifeVars, callVars, emitted>>

-----------------------------------------------------------------------------
(* settle, on the way out of the process (shutdown, the daemon's exit).    *)
IdleIgnoringWrite == exited \/ ~started \/ mode = "Ring" \/ queue = <<>>
Idle == exited \/ ~started \/ mode = "Ring" \/ (queue = <<>> /\ inFlight = <<>>)

Settle ==
    /\ ~shutdown /\ settler # "waiting" /\ settler' = "waiting" /\ mark' = emitted
    /\ UNCHANGED <<mode, ring, queue, queued, writerVars, lifeVars, emitted, sinkVars>>

\* "excused": there is no writer that may write.
SettleReturns ==
    /\ settler = "waiting"
    /\ \/ Idle /\ settler' = IF exited \/ ~started \/ mode = "Ring" THEN "excused" ELSE "settled"
       \/ ~Idle /\ settler' = "timeout"
    /\ UNCHANGED <<mode, ring, queue, queued, writerVars, lifeVars, mark, emitted, sinkVars>>

Next ==
    \/ \E len \in Sizes : WriteRecord(len)
    \/ EnterRing \/ FlushToNormal \/ StartWriter \/ Spawned \/ DropLast
    \/ Take \/ Exit \/ Park \/ Delivered \/ Refused
    \/ Settle \/ SettleReturns

Spec == Init /\ [][Next]_vars

\* The writer thread runs, and a write to the sink returns.
Fairness == WF_vars(Take \/ Exit \/ Park) /\ WF_vars(Delivered \/ Refused)

FairSpec == Spec /\ Fairness

-----------------------------------------------------------------------------
Item == [n : 0..MaxRecords, len : Sizes \cup {0}, gap : [Reasons -> Nat]]

(* Types of the variables. *)
TypeOK ==
    /\ mode \in {"Normal", "Ring"} /\ writer \in {"none", "check", "parked", "writing", "gone"}
    /\ queue \in Seq(Item) /\ inFlight \in Seq(Item)
    /\ ring \in [lines : Seq(Item), used : Nat, lost : Nat]
    /\ sink \in Seq([n : 0..MaxRecords, lost : Nat])
    /\ {failed, started, exited, shutdown} \subseteq BOOLEAN
    /\ (writer = "writing") = (inFlight # <<>>) /\ Len(inFlight) <= 1
    /\ queued \in Nat /\ again \in Nat /\ refusals \in 0..MaxRefusals
    /\ settler \in {"idle", "waiting", "settled", "excused", "timeout"}
    /\ mark \in 0..emitted /\ emitted \in 0..MaxRecords

(* Whatever the order of windows, refusals and drops, the bytes the router    *)
(* believes it holds are those it holds, neither buffer exceeds its capacity, *)
(* but for a single line that alone is all there is and larger than the queue.*)
BytesCounted ==
    /\ queued = Bytes(queue) + Bytes(inFlight)
    /\ queued <= QueueCapacity \/ \E item \in Range(inFlight \o queue) : item.len = queued
    /\ ring.used = Bytes(ring.lines) /\ ring.used <= RingCapacity

(* Loss markers take no budget, so their number is bounded by the lines: no   *)
(* two of them are adjacent, also when a refused gap returns to the head.     *)
OneGapBetweenLines ==
    \A i \in 1..(Len(queue) - 1) : IsLine(queue[i]) \/ IsLine(queue[i + 1])

(* The records each item stands for: its own, or those it says were lost.    *)
Covered(items) ==
    [i \in 1..Len(items) |-> IF IsLine(items[i]) THEN 1 ELSE Total(items[i].gap)]
Told(outputs) ==
    [i \in 1..Len(outputs) |-> IF IsLine(outputs[i]) THEN 1 ELSE outputs[i].lost]

(* Every record is delivered, still held, or counted in exactly one place as  *)
(* lost; a loss is counted again only when the sink took its loss record and  *)
(* then refused another one of the same gap.                                  *)
Conservation ==
    emitted + again = SumOf(Told(sink)) + SumOf(Covered(inFlight \o queue))
                        + ring.lost + Len(ring.lines)

(* The books of the router balance: bytes, loss markers and records.          *)
Accounted == TypeOK /\ BytesCounted /\ OneGapBetweenLines /\ Conservation

(* Records reach the sink in the order in which they were written, across     *)
(* windows, refusals and drops.                                               *)
DeliveredInOrder ==
    LET all == sink \o inFlight \o queue \o ring.lines
    IN \A i, j \in DOMAIN all :
          i < j /\ IsLine(all[i]) /\ IsLine(all[j]) => all[i].n < all[j].n

(* A gap is announced before the line that follows it: whoever reads the sink *)
(* knows, at each line, of all the records missing before it.                 *)
LossReportedAhead ==
    \A p \in DOMAIN sink :
        IsLine(sink[p]) => sink[p].n - 1 <= SumOf(Told(SubSeq(sink, 1, p - 1)))

(* The sink is a faithful log: in order, and no record missing unannounced.   *)
SinkFaithful == DeliveredInOrder /\ LossReportedAhead

(* The writer sleeps only when it has nothing to do: no wake-up is lost.      *)
ParkedIsIdle == writer = "parked" => ~CanTake /\ ~MustExit /\ ~exited
NeverSleepsOnWork == [][ParkedIsIdle']_vars

(* When settle says so, every record written before the call has left the     *)
(* queue and the writer, and a writer that ends leaves nothing behind.        *)
Undelivered == {item.n : item \in Range(inFlight \o queue)} \ {0}
SettledMeansDelivered ==
    /\ settler = "settled" => \A n \in 1..mark : n \notin Undelivered
    /\ writer = "gone" /\ mode = "Normal" => queue = <<>>

(* From the first FIFREEZE to the thaw no write begins; the one in flight     *)
(* when the window opened completes by itself.                                *)
QuietWhileFrozen == [][mode = "Ring" /\ inFlight' # <<>> => inFlight' = inFlight]_vars

(* A record in the queue is delivered while the sink accepts: it does not     *)
(* stay there unless a window opens, the sink refuses or the writer is gone.  *)
QueueDrains ==
    \A n \in 1..MaxRecords :
        (n \in Undelivered) ~> \/ n \notin Undelivered \/ mode = "Ring" \/ failed
                               \/ writer \in {"none", "gone"}

(* The writer does its work: it neither sleeps on it nor leaves it behind.    *)
WriterServes == NeverSleepsOnWork /\ QueueDrains

=============================================================================
