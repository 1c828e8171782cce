---------------------------- MODULE FrameDecoder ----------------------------
(***************************************************************************)
(* The incremental frame decoder of framing.rs.  A session feeds it the    *)
(* bytes of the channel in whatever chunks the reads return; it emits a    *)
(* frame for every newline, drops frames that are too long, and starts     *)
(* over at a sentinel byte.                                                *)
(*                                                                         *)
(* A byte is one of four kinds: "data", "space" (ASCII whitespace other    *)
(* than the newline), "nl" (the delimiter) and "ff" (the sentinel).        *)
(***************************************************************************)
EXTENDS Integers, Sequences, Functions, FiniteSetsExt

CONSTANTS MAX_FRAME_LEN,  \* bound on a frame, excluding the delimiter
          MaxChunk,       \* bound on what one read returns
          MaxStream,      \* bound on the bytes of one connection
          MaxSessions     \* bound on the connections

ASSUME BoundsAssumption ==
    /\ MAX_FRAME_LEN \in Nat \ {0}
    /\ MaxChunk \in Nat \ {0}
    /\ MaxStream \in Nat
    /\ MaxSessions \in Nat \ {0}

VARIABLES
    decoder,   \* the decoder of the session
    events,    \* what push has returned in the session, in order
    stream,    \* every byte of the session so far
    sessions   \* connections made

vars == <<decoder, events, stream, sessions>>

Bytes == {"data", "space", "nl", "ff"}

Frame(bytes, sentinel) ==
    [event |-> "Frame", bytes |-> bytes, sentinel |-> sentinel]

Oversized(discarded) == [event |-> "Oversized", discarded |-> discarded]

New == [buf |-> <<>>, discarding |-> FALSE, discarded |-> 0,
        sentinel_pending |-> FALSE]

-----------------------------------------------------------------------------
(* A result of the operators below is a decoder and the events it emitted. *)

DiscardEnd(d) ==
    [d EXCEPT !.discarding = FALSE, !.discarded = 0]

(* Mutant: only the length of the new bytes is compared and counted.       *)
ConsumeDataAlone(d, data) ==
    CASE data = <<>> -> d
      [] data # <<>> /\ d.discarding ->
            [d EXCEPT !.discarded = @ + Len(data)]
      [] data # <<>> /\ ~d.discarding ->
            IF Len(data) > MAX_FRAME_LEN
            THEN [d EXCEPT !.discarding = TRUE,
                           !.discarded = Len(data),
                           !.buf = <<>>]
            ELSE [d EXCEPT !.buf = @ \o data]

ConsumeData(d, data) ==
    CASE data = <<>> -> d
      [] data # <<>> /\ d.discarding ->
            [d EXCEPT !.discarded = @ + Len(data)]
      [] data # <<>> /\ ~d.discarding ->
            IF Len(d.buf) + Len(data) > MAX_FRAME_LEN
            THEN [d EXCEPT !.discarding = TRUE,
                           !.discarded = Len(d.buf) + Len(data),
                           !.buf = <<>>]
            ELSE [d EXCEPT !.buf = @ \o data]

(* Mutant: an oversized frame takes the flag that belongs to the next one. *)
EndOfFrameUnflagged(d, out) ==
    CASE d.discarding ->
            [decoder |-> [DiscardEnd(d) EXCEPT !.sentinel_pending = FALSE],
             events |-> Append(out, Oversized(d.discarded))]
      [] ~d.discarding /\ Range(d.buf) \subseteq {"space"} ->
            [decoder |-> [d EXCEPT !.buf = <<>>], events |-> out]
      [] ~d.discarding /\ ~(Range(d.buf) \subseteq {"space"}) ->
            [decoder |-> [d EXCEPT !.buf = <<>>, !.sentinel_pending = FALSE],
             events |-> Append(out, Frame(d.buf, d.sentinel_pending))]

EndOfFrame(d, out) ==
    CASE d.discarding ->
            [decoder |-> DiscardEnd(d),
             events |-> Append(out, Oversized(d.discarded))]
      [] ~d.discarding /\ Range(d.buf) \subseteq {"space"} ->
            [decoder |-> [d EXCEPT !.buf = <<>>], events |-> out]
      [] ~d.discarding /\ ~(Range(d.buf) \subseteq {"space"}) ->
            [decoder |-> [d EXCEPT !.buf = <<>>, !.sentinel_pending = FALSE],
             events |-> Append(out, Frame(d.buf, d.sentinel_pending))]

(* Mutant: the sentinel ends discard mode but keeps what is buffered.      *)
SentinelKeepingBuffer(d, out) ==
    [decoder |-> [DiscardEnd(d) EXCEPT !.sentinel_pending = TRUE],
     events |-> IF d.discarding THEN Append(out, Oversized(d.discarded))
                                ELSE out]

Sentinel(d, out) ==
    [decoder |-> [DiscardEnd(d) EXCEPT !.buf = <<>>,
                                       !.sentinel_pending = TRUE],
     events |-> IF d.discarding THEN Append(out, Oversized(d.discarded))
                                ELSE out]

(***************************************************************************)
(* push: one pass over the input.  `data` is the slice from the last       *)
(* delimiter to the current position, consumed at a delimiter and at the   *)
(* end of the input.                                                       *)
(***************************************************************************)
AtByte(acc, byte) ==
    LET d == ConsumeData(acc.decoder, acc.data)
        r == IF byte = "nl" THEN EndOfFrame(d, acc.events)
                            ELSE Sentinel(d, acc.events)
    IN IF byte \in {"nl", "ff"}
       THEN [decoder |-> r.decoder, events |-> r.events, data |-> <<>>]
       ELSE [acc EXCEPT !.data = Append(@, byte)]

Push(d, input) ==
    LET acc[i \in 0 .. Len(input)] ==
            IF i = 0 THEN [decoder |-> d, events |-> <<>>, data |-> <<>>]
            ELSE AtByte(acc[i - 1], input[i])
        end == acc[Len(input)]
    IN [decoder |-> ConsumeData(end.decoder, end.data), events |-> end.events]

(* Mutant: the sentinel follows the text instead of leading it.            *)
EncodeTrailing(json, sentinel) ==
    json \o (IF sentinel THEN <<"ff">> ELSE <<>>) \o <<"nl">>

Encode(json, sentinel) ==
    (IF sentinel THEN <<"ff">> ELSE <<>>) \o json \o <<"nl">>

-----------------------------------------------------------------------------
Init ==
    /\ decoder = New
    /\ events = <<>>
    /\ stream = <<>>
    /\ sessions = 1

(* A read of the session returns a chunk; its events join the queue.       *)
Read ==
    \E n \in 1 .. MaxChunk :
        /\ Len(stream) + n <= MaxStream
        /\ \E chunk \in [1 .. n -> Bytes] :
            LET r == Push(decoder, chunk) IN
            /\ decoder' = r.decoder
            /\ events' = events \o r.events
            /\ stream' = stream \o chunk
    /\ UNCHANGED sessions

(* The channel is reopened after an end of file or an error: every session *)
(* starts with a decoder of its own.                                       *)
Reopen ==
    /\ sessions < MaxSessions
    /\ sessions' = sessions + 1
    /\ decoder' = New
    /\ events' = <<>>
    /\ stream' = <<>>

Next == Read \/ Reopen

Spec == Init /\ [][Next]_vars

-----------------------------------------------------------------------------
(* Types, and the bound the module documentation gives: the buffer never   *)
(* outgrows MAX_FRAME_LEN, and in discard mode nothing is buffered and     *)
(* more than MAX_FRAME_LEN bytes have been counted.                        *)
TypeOK ==
    /\ decoder \in [buf : Seq(Bytes \ {"nl", "ff"}), discarding : BOOLEAN,
                    discarded : Nat, sentinel_pending : BOOLEAN]
    /\ Len(decoder.buf) <= MAX_FRAME_LEN
    /\ IF decoder.discarding
       THEN decoder.buf = <<>> /\ decoder.discarded > MAX_FRAME_LEN
       ELSE decoder.discarded = 0
    /\ sessions \in 1 .. MaxSessions

(***************************************************************************)
(* The reference: what a byte stream means, without a decoder.  A segment  *)
(* is what lies between two delimiters.  One that is too long is reported  *)
(* whichever delimiter ends it; otherwise a newline makes a frame of it    *)
(* unless it is blank.                                                     *)
(***************************************************************************)
Ends(s) == {i \in DOMAIN s : s[i] \in {"nl", "ff"}}

Segment(s, i) == SubSeq(s, 1 + Max({0} \cup {j \in Ends(s) : j < i}), i - 1)

TooLong(s, i) == Len(Segment(s, i)) > MAX_FRAME_LEN

MakesFrame(s, i) ==
    /\ s[i] = "nl"
    /\ ~TooLong(s, i)
    /\ "data" \in Range(Segment(s, i))

(* A frame is flagged when a sentinel came after the frame before it.      *)
Flagged(s, i) ==
    \E j \in 1 .. i - 1 :
        s[j] = "ff" /\ \A k \in j .. i - 1 : k \in Ends(s) => ~MakesFrame(s, k)

(* What the byte at a position makes the decoder emit.                     *)
EventsAt(s, i) ==
    IF i \in Ends(s) /\ TooLong(s, i) THEN <<Oversized(Len(Segment(s, i)))>>
    ELSE IF i \in Ends(s) /\ MakesFrame(s, i) THEN <<Frame(Segment(s, i), Flagged(s, i))>>
    ELSE <<>>

Meaning(s) ==
    LET upTo[i \in 0 .. Len(s)] ==
            IF i = 0 THEN <<>> ELSE upTo[i - 1] \o EventsAt(s, i)
    IN upTo[Len(s)]

(* However the reads cut the stream, push has returned exactly the events  *)
(* the stream means ("Splitting the input into chunks in any way yields    *)
(* the same events as feeding it at once").                                *)
ChunkingIrrelevant == events = Meaning(stream)

(* Resynchronisation: from a sentinel on, the decoder is where a fresh one *)
(* would be that had seen only the sentinel and what followed, whatever    *)
(* came before it: a frame cut off, or one that was being dropped.         *)
Resynchronises ==
    \A i \in DOMAIN stream :
        stream[i] = "ff" =>
            decoder = Push(New, SubSeq(stream, i, Len(stream))).decoder

(* guest-sync-delimited: text encoded with a leading sentinel arrives      *)
(* whole and flagged at any decoder, and as the last event it causes.      *)
Texts == {t \in UNION {[1 .. n -> {"data", "space"}] : n \in 1 .. MAX_FRAME_LEN} :
             "data" \in Range(t)}

DelimitedArrives ==
    \A t \in Texts :
        LET r == Push(decoder, Encode(t, TRUE)) IN
        /\ r.events # <<>>
        /\ r.events[Len(r.events)] = Frame(t, TRUE)
        /\ r.decoder = New

(* The decoder is right about the whole stream, from any point on and for     *)
(* what is sent to it next.                                                   *)
DecoderExact == TypeOK /\ ChunkingIrrelevant /\ Resynchronises /\ DelimitedArrives

=============================================================================
