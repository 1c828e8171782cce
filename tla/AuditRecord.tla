---------------------------- MODULE AuditRecord -----------------------------
(***************************************************************************)
(* The record that audit.rs writes about a command: the bounded name, the  *)
(* level and the filter in front of the router, and the date.  Pure        *)
(* functions, compared with what they are to compute.  The digest of a     *)
(* long name is left out.                                                  *)
(***************************************************************************)
EXTENDS Integers, Sequences, SequencesExt, FiniteSetsExt

CONSTANTS MAX_METHOD_BYTES,  \* bytes of a name that are recorded
          MaxMethod,         \* most characters of a name that is looked at
          LastDay            \* last day that is looked at

-----------------------------------------------------------------------------
(* A name is the sequence of its characters, each by its number of bytes.  *)

MethodBytes(method) == FoldLeft(LAMBDA sum, c : sum + c, 0, method)

CharBoundaries(method) == {MethodBytes(SubSeq(method, 1, n)) : n \in 0 .. Len(method)}

(* Mutant: a name is cut without regard to its characters.                 *)
CutAnywhere(method) == MAX_METHOD_BYTES

Cut(method) == Max({cut \in 0 .. MAX_METHOD_BYTES : cut \in CharBoundaries(method)})

(* The bytes that are kept, and the length of a name that is cut.          *)
ProjectMethod(method) ==
    IF MethodBytes(method) <= MAX_METHOD_BYTES
    THEN [kept |-> MethodBytes(method), length |-> <<>>]
    ELSE [kept |-> Cut(method), length |-> <<MethodBytes(method)>>]

-----------------------------------------------------------------------------
NoReason == "none"

Record(id, reason) ==
    [id |-> id, reason |-> reason,
     disposition |-> IF reason = NoReason THEN "allowed" ELSE "denied"]

Emitted(record) == IF record.disposition = "allowed" THEN "INFO" ELSE "WARN"

Levels == <<"TRACE", "DEBUG", "INFO", "WARN", "ERROR">>

Rank(level) == CHOOSE i \in DOMAIN Levels : Levels[i] = level

LogLevels == {"trace", "debug", "info", "warn", "error"}

AsTracing(name) ==
    CASE name = "trace" -> "TRACE"
      [] name = "debug" -> "DEBUG"
      [] name = "info" -> "INFO"
      [] name = "warn" -> "WARN"
      [] name = "error" -> "ERROR"

(* The filter of the subscriber: the audit target stays at INFO.           *)
Passes(target, level, configured) ==
    Rank(level) >= Rank(IF target = "audit" THEN "INFO" ELSE AsTracing(configured))

-----------------------------------------------------------------------------
(* Days since 1970-01-01 as year, month and day.                           *)
CivilFromDays(days) ==
    LET z == days + 719468
        era == z \div 146097
        doe == z - era * 146097
        yoe == (doe - doe \div 1460 + doe \div 36524 - doe \div 146096) \div 365
        doy == doe - (365 * yoe + yoe \div 4 - yoe \div 100)
        mp == (5 * doy + 2) \div 153
        d == doy - (153 * mp + 2) \div 5 + 1
        m == IF mp < 10 THEN mp + 3 ELSE mp - 9
        y == yoe + era * 400
    IN <<IF m <= 2 THEN y + 1 ELSE y, m, d>>

(* A clock that is behind the epoch shows the epoch.                       *)
FormatUtc(time) ==
    LET secs == Max({time, 0})
        ofDay == secs % 86400
    IN CivilFromDays(secs \div 86400)
         \o <<ofDay \div 3600, (ofDay % 3600) \div 60, ofDay % 60>>

-----------------------------------------------------------------------------
(* What a record should say.                                               *)

(* A name is recorded whole if it fits, and else cut after as many whole   *)
(* characters as fit, never inside of one (project_method).                *)
MethodsBounded ==
    \A method \in SeqOf(1 .. 4, MaxMethod) :
        LET field == ProjectMethod(method)
            First(n) == MethodBytes(SubSeq(method, 1, n))
        IN /\ field.kept <= MAX_METHOD_BYTES
           /\ field.length = <<>> <=> First(Len(method)) <= MAX_METHOD_BYTES
           /\ \E n \in 0 .. Len(method) :
                /\ field.kept = First(n)
                /\ n < Len(method) => First(n + 1) > MAX_METHOD_BYTES

(* No configured log level keeps a record, of an allowed or of a denied    *)
(* command, from being written, and none but the level decides about the   *)
(* other lines (subscriber).                                               *)
RecordsPass ==
    \A name \in LogLevels :
        /\ \A reason \in {NoReason, "frozen"} :
              Passes("audit", Emitted(Record("n1", reason)), name)
        /\ \A level \in Range(Levels) :
              Passes("other", level, name) <=> Rank(level) >= Rank(AsTracing(name))

IsLeap(y) == y % 4 = 0 /\ (y % 100 # 0 \/ y % 400 = 0)

DaysOf(y, m) ==
    IF m = 2 THEN IF IsLeap(y) THEN 29 ELSE 28
    ELSE IF m \in {4, 6, 9, 11} THEN 30 ELSE 31

NextDay(date) ==
    LET y == date[1]  m == date[2]  d == date[3] IN
    IF d < DaysOf(y, m) THEN <<y, m, d + 1>>
    ELSE IF m < 12 THEN <<y, m + 1, 1>> ELSE <<y + 1, 1, 1>>

(* A record is dated by the calendar, day after day through all of its     *)
(* 400 years, and by the clock of that day (format_utc).                   *)
DatesExact ==
    /\ CivilFromDays(0) = <<1970, 1, 1>>
    /\ \A day \in 0 .. LastDay : CivilFromDays(day + 1) = NextDay(CivilFromDays(day))
    /\ \A day \in {0, 364, 19782}, s \in {-1, 0, 59, 60, 3599, 3600, 86399} :
          LET t == FormatUtc(day * 86400 + s)
              shown == Max({day * 86400 + s, 0})
          IN /\ <<t[1], t[2], t[3]>> = CivilFromDays(shown \div 86400)
             /\ t[4] * 3600 + t[5] * 60 + t[6] = shown % 86400
             /\ t[4] < 24 /\ t[5] < 60 /\ t[6] < 60

=============================================================================
