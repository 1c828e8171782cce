------------------------------ MODULE Protocol ------------------------------
(***************************************************************************)
(* From the bytes of a frame to the reply: the bounds that are checked     *)
(* before anything is parsed (proto/bounds.rs), the request object and the *)
(* reply (proto.rs), and the commands of handlers/ping, sync and shutdown.  *)
(* Pure functions, compared with what they are to compute.                 *)
(*                                                                         *)
(* A byte is "quote", "backslash", "open", "close" (a bracket or a brace), *)
(* "bad" (no UTF-8) or "other".  A parsed object is the sequence of its    *)
(* members; a value has a kind and a content.                              *)
(***************************************************************************)
EXTENDS AuditRecord

CONSTANTS MAX_DEPTH, MAX_STRING_BYTES,  \* the two bounds
          MaxText,                      \* longest text that is checked
          MaxMembers                    \* most members of an object

-----------------------------------------------------------------------------
(* check_bounds: one pass over the bytes.                                  *)

ScanStart == [depth |-> 0, inString |-> FALSE, escaped |-> FALSE,
              length |-> 0, result |-> "ok"]

(* Mutant: a byte that is escaped leaves the flag up.                      *)
ScanStringSticky(s, b) ==
    IF ~s.escaped /\ b = "quote" THEN [s EXCEPT !.inString = FALSE]
    ELSE [s EXCEPT !.escaped = @ \/ b = "backslash",
                   !.length = @ + 1,
                   !.result = IF s.length + 1 > MAX_STRING_BYTES
                              THEN "StringTooLong" ELSE @]

ScanString(s, b) ==
    IF ~s.escaped /\ b = "quote" THEN [s EXCEPT !.inString = FALSE]
    ELSE [s EXCEPT !.escaped = ~@ /\ b = "backslash",
                   !.length = @ + 1,
                   !.result = IF s.length + 1 > MAX_STRING_BYTES
                              THEN "StringTooLong" ELSE @]

ScanOutside(s, b) ==
    CASE b = "quote" -> [s EXCEPT !.inString = TRUE, !.length = 0]
      [] b = "open" -> [s EXCEPT !.depth = @ + 1,
                                 !.result = IF s.depth + 1 > MAX_DEPTH
                                            THEN "DepthExceeded" ELSE @]
      [] b = "close" -> [s EXCEPT !.depth = IF @ = 0 THEN 0 ELSE @ - 1]
      [] OTHER -> s

Scan(s, b) ==
    IF s.result # "ok" THEN s
    ELSE IF s.inString THEN ScanString(s, b) ELSE ScanOutside(s, b)

CheckBounds(text) ==
    IF "bad" \in Range(text) THEN "InvalidUtf8"
    ELSE FoldLeft(Scan, ScanStart, text).result

-----------------------------------------------------------------------------
(* The request object.                                                     *)

Absent == "absent"

Keys == {"execute", "arguments", "id"}

(* The type each key asks for; a null is no object and no integer.         *)
Fits(m) ==
    CASE m.key = "execute" -> m.kind = "text"
      [] m.key = "arguments" -> m.kind = "object"
      [] m.key = "id" -> m.kind = "integer"

(* One round of visit_map.                                                 *)
Visit(request, m) ==
    IF request.ok /\ m.key \in Keys /\ Fits(m) /\ request[m.key] = Absent
    THEN [request EXCEPT ![m.key] = m.content]
    ELSE [request EXCEPT !.ok = FALSE]

(* A frame that is out of bounds or no JSON object never gets here.        *)
ParseRequest(frame) ==
    LET r == FoldLeft(Visit, [ok |-> frame.wellFormed, execute |-> Absent,
                              arguments |-> Absent, id |-> Absent],
                      frame.members)
    IN [r EXCEPT !.ok = @ /\ r.execute # Absent]

(* An object of arguments is "empty", the id it carries, or "unknown": one *)
(* the command does not take.                                              *)
Arguments(request, shapes) ==
    LET given == IF request.arguments = Absent THEN "empty" ELSE request.arguments
    IN IF given \in shapes THEN given ELSE "InvalidArguments"

ErrorClass(error) ==
    IF error \in {"CommandNotFound", "Disabled"} THEN "CommandNotFound"
    ELSE "GenericError"

Response(id, result, errors) ==
    IF result \in errors THEN [id |-> id, class |-> ErrorClass(result)]
    ELSE [id |-> id, return |-> result]

-----------------------------------------------------------------------------
(* The commands that only answer.                                          *)

Numbers == {"n1", "n2"}

Ping(request) == Arguments(request, {"empty"})

Sync(request) == Arguments(request, Numbers)

(* The kernel's command for a mode; a request without one powers off.      *)
Modes == {"halt", "powerdown", "reboot"}

RebootCommand(mode) ==
    CASE mode = "halt" -> "Halt"
      [] mode = "powerdown" -> "PowerOff"
      [] mode = "reboot" -> "Restart"

RebootMode(command) ==
    CASE command = "PowerOff" -> "RB_POWER_OFF"
      [] command = "Restart" -> "RB_AUTOBOOT"
      [] command = "Halt" -> "RB_HALT_SYSTEM"

(* What reboot is called with.                                             *)
Mode(request) ==
    LET mode == Arguments(request, Modes \cup {"empty"}) IN
    IF mode = "InvalidArguments" THEN mode
    ELSE RebootMode(RebootCommand(IF mode = "empty" THEN "powerdown" ELSE mode))

Shutdown(request, refused) ==
    IF Mode(request) # "InvalidArguments" /\ refused THEN "Internal" ELSE Mode(request)

Errors == {"InvalidArguments", "CommandNotFound", "Internal"}

IsAllowlisted(method) ==
    method \in {"guest-ping", "guest-shutdown", "guest-sync", "guest-sync-delimited"}

(* refused: the kernel refuses to reboot.                                  *)
Result(request, refused) ==
    CASE request.execute = "guest-ping" -> Ping(request)
      [] request.execute = "guest-shutdown" -> Shutdown(request, refused)
      [] request.execute \in {"guest-sync", "guest-sync-delimited"} -> Sync(request)
      [] OTHER -> "CommandNotFound"

SuppressSuccess(method) == method \in {"guest-shutdown", "guest-suspend-ram"}

(* The reply, if any: the object and whether a sentinel leads it.          *)
Handle(frame, refused) ==
    LET request == ParseRequest(frame)
        result == Result(request, refused)
        Reply(json, sentinel) == <<[json |-> json, sentinel |-> sentinel]>>
    IN IF frame.oversized THEN <<>>
       ELSE IF ~request.ok
       THEN Reply([id |-> Absent, class |-> ErrorClass("InvalidRequest")], FALSE)
       ELSE IF result \notin Errors /\ SuppressSuccess(request.execute) THEN <<>>
       ELSE Reply(Response(request.id, result, Errors), request.execute = "guest-sync-delimited")

(* The one record that is made of a frame, before anything is executed.    *)
Audited(frame) ==
    LET request == ParseRequest(frame) IN
    IF frame.oversized THEN Record(Absent, "oversized_frame")
    ELSE IF ~request.ok THEN Record(Absent, "parse_error")
    ELSE Record(request.id, IF IsAllowlisted(request.execute) THEN NoReason
                            ELSE "command_not_found")

(* The bytes of a reply line around a value, with an id of so many digits, *)
(* the sign included; 0 for none.                                          *)
LineBytes(value, digits) ==
    10 + value + (IF digits = 0 THEN 0 ELSE 6 + digits) + 1 + 1

MAX_RESPONSE_ENVELOPE_BYTES == 10 + (6 + 20 + 1 + 1)

(* bounded_reply: TRUE if the value is sent.                               *)
BoundedReply(value, bound) == value + MAX_RESPONSE_ENVELOPE_BYTES <= bound

-----------------------------------------------------------------------------
(***************************************************************************)
(* The reference for the bounds.  The quotes that delimit strings are the  *)
(* one set that makes sense of the text: outside of a string every quote   *)
(* does, inside of one the quotes that no odd run of backslashes precedes. *)
(***************************************************************************)
Quotes(t) == {i \in DOMAIN t : t[i] = "quote"}

Before(Q, i) == {q \in Q : q < i}

InsideString(Q, i) == i \notin Q /\ Cardinality(Before(Q, i)) % 2 = 1

RunOfBackslashes(t, from, i) ==
    (i - 1) - Max({from} \cup {j \in from + 1 .. i - 1 : t[j] # "backslash"})

Delimits(t, Q) ==
    \A i \in Quotes(t) :
        i \in Q <=> \/ Cardinality(Before(Q, i)) % 2 = 0
                    \/ RunOfBackslashes(t, Max(Before(Q, i)), i) % 2 = 0

Delimiters(t) == CHOOSE Q \in SUBSET Quotes(t) : Delimits(t, Q)

(* The containers opened and not closed since some point before i.         *)
Open(t, Q, kind, j, i) ==
    Cardinality({k \in j .. i : t[k] = kind /\ ~InsideString(Q, k)})

Faults(t) ==
    LET Q == Delimiters(t) IN
    [i \in DOMAIN t |->
        CASE InsideString(Q, i) /\ i - Max(Before(Q, i)) > MAX_STRING_BYTES -> "StringTooLong"
          [] t[i] = "open" /\ ~InsideString(Q, i) /\ \E j \in 1 .. i :
                Open(t, Q, "open", j, i) > MAX_DEPTH + Open(t, Q, "close", j, i) -> "DepthExceeded"
          [] OTHER -> "ok"]

Verdict(t) ==
    LET f == Faults(t)
        at == {i \in DOMAIN t : f[i] # "ok"}
    IN CASE "bad" \in Range(t) -> "InvalidUtf8"
         [] "bad" \notin Range(t) /\ at = {} -> "ok"
         [] "bad" \notin Range(t) /\ at # {} -> f[Min(at)]

ByteTexts ==
    UNION {[1 .. n -> {"quote", "backslash", "open", "close", "other"}] : n \in 0 .. MaxText}
    \cup {<<"quote", "bad">>, <<"bad", "open", "open", "open">>}

(* The pass over the bytes finds the first string that is too long or the  *)
(* first container nested too deep, whatever quotes, escapes and brackets  *)
(* precede it, and no other (check_bounds).                                *)
BoundsExact == \A t \in ByteTexts : CheckBounds(t) = Verdict(t)

Members ==
    {[key |-> "execute", kind |-> "text", content |-> m] :
        m \in {"guest-ping", "guest-sync", "guest-sync-delimited", "guest-shutdown", "guest-exec"}}
    \cup {[key |-> "arguments", kind |-> "object", content |-> c] :
        c \in Numbers \cup Modes \cup {"empty", "unknown"}}
    \cup {[key |-> "id", kind |-> "integer", content |-> n] : n \in Numbers}
    \cup {[key |-> k, kind |-> "other", content |-> "null"] : k \in Keys \cup {"unknown"}}

Frames ==
    {[oversized |-> o, wellFormed |-> w, members |-> s] :
        o \in BOOLEAN, w \in BOOLEAN,
        s \in UNION {[1 .. n -> Members] : n \in 0 .. MaxMembers}}

(* A request is an object with a method, each key at most once and of its  *)
(* type, in any order.  Its id comes back in whatever answers it, and in   *)
(* nothing else; the reply to guest-sync carries the argument; a sentinel  *)
(* leads every reply to guest-sync-delimited, a failure included.  The     *)
(* only silence is that of an oversized frame and of a shutdown that       *)
(* reaches the kernel, with the command that was asked for.  What is       *)
(* recorded agrees with the reply: its id, and allowed if a handler ran.   *)
RepliesExact ==
    \A f \in Frames, refused \in BOOLEAN :
        LET s == f.members
            Value(k) == LET at == {i \in DOMAIN s : s[i].key = k}
                        IN IF at = {} THEN Absent ELSE s[Min(at)].content
            method == Value("execute")
            given == Value("arguments")
            accepted == /\ f.wellFormed /\ method # Absent
                        /\ \A i \in DOMAIN s : s[i].key \in Keys /\ s[i].kind # "other"
                        /\ \A i, j \in DOMAIN s : s[i].key = s[j].key => i = j
            served == \/ method = "guest-ping" /\ given \in {Absent, "empty"}
                      \/ method \in {"guest-sync", "guest-sync-delimited"} /\ given \in Numbers
            down == /\ accepted /\ method = "guest-shutdown"
                    /\ given \in Modes \cup {Absent, "empty"}
            replies == Handle(f, refused)
            reply == replies[1]
        IN /\ replies = <<>> <=> f.oversized \/ (down /\ ~refused)
           /\ replies # <<>> =>
                /\ reply.json.id = IF accepted THEN Value("id") ELSE Absent
                /\ reply.sentinel = (accepted /\ method = "guest-sync-delimited")
                /\ "return" \in DOMAIN reply.json <=> accepted /\ served
                /\ "return" \in DOMAIN reply.json /\ method # "guest-ping"
                      => reply.json.return = given
                /\ Audited(f).id = reply.json.id
           /\ Audited(f).disposition = "denied" <=>
                \/ f.oversized \/ ~accepted
                \/ replies # <<>> /\ "class" \in DOMAIN reply.json
                                 /\ reply.json.class = "CommandNotFound"
           /\ down => Mode(ParseRequest(f)) =
                CASE given = "reboot" -> "RB_AUTOBOOT"
                  [] given = "halt" -> "RB_HALT_SYSTEM"
                  [] OTHER -> "RB_POWER_OFF"

(* A value that is sent fits its line into the bound with every id, and    *)
(* one that would fit with the longest id is sent (bounded_reply).         *)
RepliesBounded ==
    \A bound \in 0 .. 60, value \in 0 .. 60 :
        BoundedReply(value, bound) <=> \A digits \in 0 .. 20 : LineBytes(value, digits) <= bound

=============================================================================
