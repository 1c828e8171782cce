-------------------------------- MODULE Wire --------------------------------
(* What the agent makes of the bytes of the channel: the frames it cuts    *)
(* them into and what it reads in a frame.                                 *)
EXTENDS FrameDecoder, Protocol

(* A frame is read the same way whatever came before it in its session:    *)
(* the bounds, the request, the reply, its length and the record are       *)
(* functions of its text, and are looked at where a session begins.        *)
ProtocolExact ==
    stream = <<>> => /\ BoundsExact /\ RepliesExact /\ RepliesBounded
                     /\ MethodsBounded /\ RecordsPass /\ DatesExact

=============================================================================
