------------------------------- MODULE Session -------------------------------
(***************************************************************************)
(* One session on the channel (channel.rs, run_session_until): admission   *)
(* of commands to lanes (admit), their completion (drive_any), delivery of *)
(* the replies in request order (Outbox), and the deferred stop.           *)
(*                                                                         *)
(* The session is one task: Top is the part of its loop up to the select,  *)
(* the other actions of the session are the branches of the select.  The   *)
(* host, the handlers, the stopper of the daemon and the threads that      *)
(* change the freeze state act in between.  A command is its number, its   *)
(* kind and, once finished, the size of its reply (0: none).               *)
(***************************************************************************)
EXTENDS FiniteSets, FiniteSetsExt, Naturals, Sequences

CONSTANTS
    MaxQueued,      \* MAX_QUEUED
    MaxControls,    \* MAX_CONTROLS
    MaxReplyBytes,  \* MAX_REPLY_BYTES, in units of the host's smallest read
    ReplySizes,     \* sizes a reply can have, 0 for no reply
    ReadFrames,     \* bound: frames one read completes
    MaxCommands     \* bound: frames sent in a session

ASSUME SessionAssumption ==
    /\ MaxQueued \in Nat \ {0} /\ MaxControls \in Nat \ {0}
    /\ MaxReplyBytes \in Nat \ {0}
    /\ ReplySizes \subseteq Nat /\ ReplySizes # {}
    /\ ReadFrames \in Nat \ {0} /\ MaxCommands \in Nat

VARIABLES
    loc,          \* "top" of the loop, at the "select", or "ended"
    slots,        \* commands in request order until their reply has left
    outbox,       \* replies not accepted yet: number and bytes left
    inputEnd,     \* why the input ended, or how the session did
    writeFailed, draining,
    canRead, canWrite,  \* the guards of the select, computed by Top
    cancel, notified,   \* the watch channel: its value, an unseen send
    mayStop,      \* the freeze state is Thawed
    received,     \* frames decoded so far
    delivered,    \* numbers of the replies the host has accepted, in order
    silent        \* numbers of the commands that finished without a reply

sessionVars == <<slots, outbox, inputEnd, writeFailed, draining, canRead, canWrite>>
hostVars == <<received, delivered, silent>>
vars == <<loc, sessionVars, cancel, notified, mayStop, hostVars>>

Kinds == {"Control", "Thaw", "Freeze", "Ordinary"}
Ends == {"Eof", "ReadError", "WriteError", "Cancelled"}

-----------------------------------------------------------------------------
Positions(s, st) == {i \in DOMAIN s : s[i].st = st}
Running(s) == Positions(s, "Pending") # {}

\* Lanes::of, Lanes::take, Lanes::exclusive.
LanesOf(s) ==
    LET kinds == {s[i].kind : i \in Positions(s, "Pending")}
    IN [controls |-> Cardinality({i \in Positions(s, "Pending") : s[i].kind = "Control"}),
        freeze |-> "Freeze" \in kinds,
        thawOrOrdinary |-> kinds \cap {"Thaw", "Ordinary"} # {}]

Take(lanes, kind) ==
    [controls |-> lanes.controls + (IF kind = "Control" THEN 1 ELSE 0),
     freeze |-> lanes.freeze \/ kind = "Freeze",
     thawOrOrdinary |-> lanes.thawOrOrdinary \/ kind \in {"Thaw", "Ordinary"}]

LaneFreeThawAnyway(lanes, kind, serialWaiting) ==
    CASE kind = "Control" -> lanes.controls < MaxControls
      [] kind = "Thaw" -> TRUE
      [] OTHER -> ~lanes.freeze /\ ~lanes.thawOrOrdinary /\ ~serialWaiting
LaneFreeThawInTurn(lanes, kind, serialWaiting) ==
    CASE kind = "Control" -> lanes.controls < MaxControls
      [] kind = "Thaw" -> ~lanes.thawOrOrdinary /\ ~serialWaiting
      [] OTHER -> ~lanes.freeze /\ ~lanes.thawOrOrdinary /\ ~serialWaiting
LaneFree(lanes, kind, serialWaiting) ==
    CASE kind = "Control" -> lanes.controls < MaxControls
      [] kind = "Thaw" -> ~lanes.thawOrOrdinary
      [] OTHER -> ~lanes.freeze /\ ~lanes.thawOrOrdinary /\ ~serialWaiting

\* admit: the lanes and whether a serial command waits, after one more slot.
AdmitOne(acc, slot) ==
    IF slot.st # "Waiting" THEN acc
    ELSE IF LaneFree(acc.lanes, slot.kind, acc.serialWaiting)
         THEN [acc EXCEPT !.lanes = Take(@, slot.kind)]
         ELSE [acc EXCEPT !.serialWaiting = @ \/ slot.kind # "Control"]

\* Start the waiting commands among the oldest n that find their lane free.
AdmitOldest(s, n) ==
    LET after[i \in 0..n] ==
            IF i = 0 THEN [lanes |-> LanesOf(s), serialWaiting |-> FALSE]
            ELSE AdmitOne(after[i - 1], s[i])
        starts(i) ==
            /\ i <= n /\ s[i].st = "Waiting"
            /\ LaneFree(after[i - 1].lanes, s[i].kind, after[i - 1].serialWaiting)
    IN [i \in DOMAIN s |-> IF starts(i) THEN [s[i] EXCEPT !.st = "Pending"] ELSE s[i]]

AdmitBeyond(s, window) == AdmitOldest(s, Len(s))
AdmitNewestFirst(s, window) ==
    LET back(q) == [i \in 1..Len(q) |-> q[Len(q) + 1 - i]]
    IN back(AdmitOldest(back(s), Len(s)))
Admit(s, window) == AdmitOldest(s, IF window < Len(s) THEN window ELSE Len(s))

\* Outbox::pending_bytes, and the bytes of the replies behind earlier ones.
PendingBytes(box) == MapThenSumSet(LAMBDA i : box[i].left, DOMAIN box)
FinishedBytes(s) == MapThenSumSet(LAMBDA i : s[i].size, Positions(s, "Done"))

\* The finished commands at the front of the queue.
DonePrefix(s) ==
    CHOOSE k \in 0..Len(s) : /\ \A i \in 1..k : s[i].st = "Done"
                             /\ k < Len(s) => s[k + 1].st # "Done"

\* Outbox::push of every finished command that has a reply.
Reply(slot) == [n |-> slot.n, left |-> slot.size]
PushFront(box, gone) ==
    LET pushed[k \in 0..Len(gone)] ==
            IF k = 0 THEN box
            ELSE IF gone[k].size > 0 THEN <<Reply(gone[k])>> \o pushed[k - 1] ELSE pushed[k - 1]
    IN pushed[Len(gone)]
PushNothing(box, gone) == box
PushSilent(box, gone) == box \o [i \in DOMAIN gone |-> Reply(gone[i])]
Push(box, gone) ==
    LET pushed[k \in 0..Len(gone)] ==
            IF k = 0 THEN box
            ELSE IF gone[k].size > 0 THEN Append(pushed[k - 1], Reply(gone[k])) ELSE pushed[k - 1]
    IN pushed[Len(gone)]

\* The guard of the read.
RoomOneMore(s, box) == /\ Len(s) + Len(box) <= MaxQueued
                       /\ PendingBytes(box) + FinishedBytes(s) < MaxReplyBytes
RoomToRead(s, box) == /\ Len(s) + Len(box) < MaxQueued
                      /\ PendingBytes(box) + FinishedBytes(s) < MaxReplyBytes

\* A stop takes effect once no command is running, if the guest is thawed,
\* whether or not the host accepts the replies.
HonouredWhileRunning(s, box) == mayStop
HonouredWhileFrozen(s, box) == ~Running(s)
HonouredOnceDelivered(s, box) == ~Running(s) /\ mayStop /\ box = <<>>
Honoured(s, box) == ~Running(s) /\ mayStop

-----------------------------------------------------------------------------
Init ==
    /\ loc = "top" /\ slots = <<>> /\ outbox = <<>> /\ inputEnd = "none"
    /\ writeFailed = FALSE /\ draining = FALSE /\ canRead = FALSE /\ canWrite = FALSE
    /\ cancel = FALSE /\ notified = FALSE /\ mayStop \in BOOLEAN
    /\ received = 0 /\ delivered = <<>> /\ silent = {}

End(why) == loc' = "ended" /\ inputEnd' = why

\* From the head of the loop to the select: replies leave in request order, a
\* stop is honoured or withdrawn, commands are admitted.
Top ==
    LET k == DonePrefix(slots)
        gone == SubSeq(slots, 1, k)
        rest == SubSeq(slots, k + 1, Len(slots))
        box == IF writeFailed THEN outbox ELSE Push(outbox, gone)
        stop == draining \/ (~Running(rest) /\ cancel /\ mayStop)
        drain == stop /\ Running(rest)
        window == IF Len(box) < MaxQueued THEN MaxQueued - Len(box) ELSE 0
        queue == IF ~drain /\ PendingBytes(box) < MaxReplyBytes THEN Admit(rest, window)
                                                                ELSE rest
    IN
    /\ loc = "top"
    /\ silent' = silent \cup {gone[i].n : i \in {j \in 1..k : gone[j].size = 0}}
    /\ notified' = (notified /\ (draining \/ Running(rest)))
    /\ IF stop /\ Honoured(rest, box)
       THEN /\ End("Cancelled")
            /\ \E m \in 0..Len(box) :        \* what the host accepts right now
                 delivered' = delivered \o [i \in 1..m |-> box[i].n]
            /\ slots' = rest /\ outbox' = <<>> /\ draining' = TRUE
            /\ UNCHANGED <<canRead, canWrite>>
       ELSE /\ draining' = drain /\ slots' = queue /\ outbox' = box
            /\ UNCHANGED delivered
            /\ IF queue = <<>> /\ (box = <<>> \/ writeFailed) /\ inputEnd # "none"
               THEN End(inputEnd) /\ UNCHANGED <<canRead, canWrite>>
               ELSE /\ loc' = "select" /\ UNCHANGED inputEnd
                    /\ canRead' = (inputEnd = "none" /\ ~drain /\ RoomToRead(queue, box))
                    /\ canWrite' = (box # <<>> /\ ~writeFailed)
    /\ UNCHANGED <<writeFailed, cancel, mayStop, received>>

-----------------------------------------------------------------------------
(* The branches of the select. *)
CancelChanged ==
    /\ loc = "select" /\ notified
    /\ notified' = FALSE /\ loc' = "top"
    /\ draining' = (draining \/ (cancel /\ mayStop))
    /\ UNCHANGED <<slots, outbox, inputEnd, writeFailed, canRead, canWrite, cancel, mayStop,
                   hostVars>>

\* drive_any: the commands in done have finished.
Drive(done) ==
    /\ loc = "select" /\ loc' = "top"
    /\ done # {} /\ done \subseteq Positions(slots, "Pending")
    /\ \E size \in [done -> ReplySizes] :
         slots' = [i \in DOMAIN slots |->
                     IF i \in done THEN [slots[i] EXCEPT !.st = "Done", !.size = size[i]]
                                   ELSE slots[i]]
    /\ UNCHANGED <<outbox, inputEnd, writeFailed, draining, canRead, canWrite, cancel,
                   notified, mayStop, hostVars>>

\* Outbox::drain takes what the host accepts and stays pending, ...
HostTakes ==
    /\ loc = "select" /\ canWrite /\ outbox # <<>>
    /\ IF Head(outbox).left > 1
       THEN outbox' = [outbox EXCEPT ![1].left = @ - 1] /\ UNCHANGED delivered
       ELSE outbox' = Tail(outbox) /\ delivered' = Append(delivered, Head(outbox).n)
    /\ UNCHANGED <<loc, slots, inputEnd, writeFailed, draining, canRead, canWrite, cancel,
                   notified, mayStop, received, silent>>

\* ... and resolves when everything was accepted, or fails.
WriteDone ==
    /\ loc = "select" /\ canWrite /\ outbox = <<>> /\ loc' = "top"
    /\ UNCHANGED <<sessionVars, cancel, notified, mayStop, hostVars>>

WriteFails ==
    /\ loc = "select" /\ canWrite /\ loc' = "top"
    /\ writeFailed' = TRUE /\ outbox' = <<>>
    /\ inputEnd' = IF inputEnd = "none" THEN "WriteError" ELSE inputEnd
    /\ UNCHANGED <<slots, draining, canRead, canWrite, cancel, notified, mayStop, hostVars>>

\* A read completes any number of frames, in one go.
ReadSome ==
    /\ loc = "select" /\ canRead /\ loc' = "top"
    /\ \E f \in 0..ReadFrames :
         /\ received + f <= MaxCommands /\ received' = received + f
         /\ \E kinds \in [1..f -> Kinds] :
              slots' = slots \o [i \in 1..f |-> [n |-> received + i, kind |-> kinds[i],
                                                 st |-> "Waiting", size |-> 0]]
    /\ UNCHANGED <<outbox, inputEnd, writeFailed, draining, canRead, canWrite, cancel,
                   notified, mayStop, delivered, silent>>

ReadEnds ==
    /\ loc = "select" /\ canRead /\ loc' = "top"
    /\ inputEnd' \in {"Eof", "ReadError"}
    /\ UNCHANGED <<slots, outbox, writeFailed, draining, canRead, canWrite, cancel, notified,
                   mayStop, hostVars>>

-----------------------------------------------------------------------------
(* Around the session. *)
\* The daemon's stopper asks, again and again, for the stop.
StopRequest ==
    /\ cancel' = TRUE /\ notified' = TRUE
    /\ UNCHANGED <<loc, sessionVars, mayStop, hostVars>>

\* The state leaves Thawed only through a freeze or a thaw that is running; a
\* driver or a watchdog thaws at any time.
StateChanges ==
    /\ mayStop' = ~mayStop
    /\ mayStop => \E i \in Positions(slots, "Pending") : slots[i].kind \in {"Freeze", "Thaw"}
    /\ UNCHANGED <<loc, sessionVars, cancel, notified, hostVars>>

Next == \/ Top \/ CancelChanged \/ HostTakes \/ WriteDone \/ WriteFails \/ ReadSome
        \/ ReadEnds \/ StopRequest \/ StateChanges
        \/ \E done \in SUBSET DOMAIN slots : Drive(done)

Spec == Init /\ [][Next]_vars

(***************************************************************************)
(* Fairness.  The select polls every branch in its fixed order whenever it *)
(* is reached, so a branch that is ready again and again is taken, hence   *)
(* strong fairness: the loop leaves the select and returns to it.          *)
(* That handlers finish, that the stopper repeats its request (daemon.rs)  *)
(* and that the host accepts replies are premises of the properties that   *)
(* need them.                                                              *)
(***************************************************************************)
Finish(n, kinds) ==
    \E done \in SUBSET DOMAIN slots :
        Drive(done) /\ \E i \in done : slots[i].n = n /\ slots[i].kind \in kinds

LoopFairness == WF_vars(Top) /\ SF_vars(CancelChanged) /\ SF_vars(WriteDone)
Handlers(kinds) == \A n \in 1..MaxCommands : SF_vars(Finish(n, kinds))
HostReads == SF_vars(HostTakes)

StopRepeated == WF_vars(cancel /\ StopRequest)

LiveSpec == Spec /\ LoopFairness

-----------------------------------------------------------------------------
(* Types of the variables. *)
TypeOK ==
    /\ loc \in {"top", "select", "ended"}
    /\ slots \in Seq([n : 1..MaxCommands, kind : Kinds, st : {"Waiting", "Pending", "Done"},
                      size : ReplySizes \cup {0}])
    /\ outbox \in Seq([n : 1..MaxCommands, left : Nat \ {0}])
    /\ inputEnd \in Ends \cup {"none"}
    /\ {writeFailed, draining, canRead, canWrite, cancel, notified, mayStop} \subseteq BOOLEAN
    /\ received \in 0..MaxCommands /\ silent \subseteq 1..MaxCommands
    /\ delivered \in Seq(1..MaxCommands)

Numbers(s) == [i \in DOMAIN s |-> s[i].n]
Line == delivered \o Numbers(outbox) \o Numbers(slots)

(* Replies leave in request order, whatever the order in which the commands   *)
(* are admitted and finish: what was delivered, what waits in the outbox and  *)
(* what is still in the queue form one increasing line.                       *)
InOrder == \A i, j \in DOMAIN Line : i < j => Line[i] < Line[j]

(* As long as the peer is there every command received is answered, answered  *)
(* by nothing on purpose, or still held: no reply is lost or dropped on the   *)
(* way from the handler to the outbox to the host.                            *)
NoReplyLost ==
    loc # "ended" /\ ~writeFailed => 1..received \subseteq Range(Line) \cup silent

(* The reply of every command received reaches the host, in its turn.         *)
RepliesKept == InOrder /\ NoReplyLost

(* Side effects never overlap: of the commands that may change the guest one  *)
(* runs at a time, except for one thaw beside a freeze.                       *)
Exclusive == {i \in Positions(slots, "Pending") : slots[i].kind # "Control"}
OneExclusive ==
    \A i, j \in Exclusive :
        i # j => {slots[i].kind, slots[j].kind} = {"Freeze", "Thaw"}

(* Side effects happen in the order the host asked for them: a freeze or an   *)
(* ordinary command starts only when no command that may change the guest is  *)
(* still waiting ahead of it.                                                 *)
Starts(n) == /\ \E i \in DOMAIN slots : slots[i].n = n /\ slots[i].st = "Waiting"
             /\ \E i \in DOMAIN slots' : slots'[i].n = n /\ slots'[i].st = "Pending"
SerialInOrder ==
    [][\A n \in 1..received :
          Starts(n) => \A i, j \in DOMAIN slots' :
              (/\ i < j /\ slots'[j].n = n /\ slots'[j].kind \in {"Freeze", "Ordinary"}
               /\ slots'[i].kind # "Control") => slots'[i].st # "Waiting"]_vars

(* The commands that change the guest do so one at a time and in turn.        *)
SideEffectsSerial == []OneExclusive /\ SerialInOrder

(* A started command is among the oldest MAX_QUEUED whose replies the host    *)
(* has not taken: one that overtakes an earlier command never uses up the     *)
(* place the earlier one needs to start.                                      *)
StartedWithinPlaces ==
    \A i \in DOMAIN slots : slots[i].st # "Waiting" => i + Len(outbox) <= MaxQueued

(* The memory a peer can take by sending without reading is bounded: the      *)
(* places of the queue and the frames of one read.                            *)
Bounded == Len(slots) + Len(outbox) < MaxQueued + ReadFrames

(* The queue keeps its types and its two bounds.                              *)
PlacesRespected == TypeOK /\ StartedWithinPlaces /\ Bounded

(* No command is dropped half-way: a session ends only when nothing runs, and *)
(* after the end of its input only when every command received was handled.   *)
NeverDropped ==
    loc = "ended" => ~Running(slots) /\ (inputEnd # "Cancelled" => slots = <<>>)

(* A stop ends the session only when the guest is thawed, and it is thawed    *)
(* for good as far as this session can tell: nothing is running.              *)
StoppedThawed == loc = "ended" /\ inputEnd = "Cancelled" => mayStop

(* However a session ends, it leaves nothing half-done and nothing frozen.    *)
EndsClean == NeverDropped /\ StoppedThawed

(* A stop that is asked for while the guest stays thawed is honoured, also    *)
(* when the host keeps the port open but reads no reply.                      *)
StopHonoured ==
    Handlers(Kinds) /\ StopRepeated /\ <>[]mayStop => (cancel ~> (loc = "ended"))

(* Every command received is answered in the end if the host takes the        *)
(* replies, unless the session ends.                                          *)
Served ==
    Handlers(Kinds) /\ HostReads => \A n \in 1..MaxCommands :
        (received >= n) ~> (n \in Range(delivered) \cup silent \/ writeFailed \/ loc = "ended")

(* A thaw that owns a place reaches a freeze that never ends on its own,      *)
(* whatever is queued between them, unless the session is stopping.           *)
ThawWaits(n) ==
    /\ loc # "ended" /\ ~draining
    /\ \E i \in DOMAIN slots : slots[i].kind = "Freeze" /\ slots[i].st = "Pending"
    /\ \E i \in DOMAIN slots : /\ slots[i].n = n /\ slots[i].kind = "Thaw"
                                /\ slots[i].st = "Waiting" /\ i <= MaxQueued
ThawReaches ==
    Handlers(Kinds \ {"Freeze"}) /\ HostReads =>
        \A n \in 1..MaxCommands : ThawWaits(n) ~> ~ThawWaits(n)

(* Nothing received waits for ever, neither behind a full queue nor, if it is *)
(* the thaw that would help, behind a freeze that is stuck.                   *)
CommandsServed == Served /\ ThawReaches

=============================================================================
