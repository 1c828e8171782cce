----------------------------- MODULE MountTable -----------------------------
(***************************************************************************)
(* Reading /proc/self/mountinfo (mountinfo.rs), whose rows FreezePlan      *)
(* starts from.  A byte is its number; how the kernel writes the table is  *)
(* external.  Pure functions, and the reading undoes the writing.          *)
(***************************************************************************)
EXTENDS Naturals, Sequences, SequencesExt, FiniteSetsExt

Tab == 9
Newline == 10
Space == 32
Plus == 43
Dash == 45
Digit(n) == 48 + n
Colon == 58
Backslash == 92

(* A line that is skipped contributes no row.                              *)
Skipped == <<>>

-----------------------------------------------------------------------------
Value(digits) == FoldLeft(LAMBDA acc, d : acc * 8 + (d - 48), 0, digits)

(* Three octal digits that make a byte follow a backslash.                 *)
IsEscape(s, i) ==
    /\ s[i] = Backslash /\ i + 3 <= Len(s)
    /\ \A k \in 1 .. 3 : s[i + k] \in Digit(0) .. Digit(7)
    /\ Value(SubSeq(s, i + 1, i + 3)) < 256

(* Mutant: what an escape has produced is looked at again.                 *)
UnescapeAgain(s) ==
    LET from[i \in 1 .. Len(s) + 1] ==
            IF i > Len(s) THEN <<>>
            ELSE IF IsEscape(s, i)
            THEN <<Value(SubSeq(s, i + 1, i + 3))>> \o from[i + 4]
            ELSE <<s[i]>> \o from[i + 1]
        once == from[1]
        again[i \in 1 .. Len(once) + 1] ==
            IF i > Len(once) THEN <<>>
            ELSE IF IsEscape(once, i)
            THEN <<Value(SubSeq(once, i + 1, i + 3))>> \o again[i + 4]
            ELSE <<once[i]>> \o again[i + 1]
    IN again[1]

Unescape(s) ==
    LET from[i \in 1 .. Len(s) + 1] ==
            IF i > Len(s) THEN <<>>
            ELSE IF IsEscape(s, i)
            THEN <<Value(SubSeq(s, i + 1, i + 3))>> \o from[i + 4]
            ELSE <<s[i]>> \o from[i + 1]
    IN from[1]

(* The parts of a sequence between the bytes b.                            *)
SplitAt(s, b) ==
    LET ends == SelectSeq([i \in DOMAIN s |-> i], LAMBDA i : s[i] = b)
        cuts == <<0>> \o ends \o <<Len(s) + 1>>
    IN [k \in 1 .. Len(cuts) - 1 |-> SubSeq(s, cuts[k] + 1, cuts[k + 1] - 1)]

Fields(line) == SelectSeq(SplitAt(line, Space), LAMBDA f : f # <<>>)

(* A number is the digits it has without a sign and without leading zeros. *)
Digits(f) == IF f # <<>> /\ f[1] = Plus THEN Tail(f) ELSE f

Number(f) ==
    LET d == Digits(f)
        significant == {i \in DOMAIN d : d[i] # Digit(0)}
    IN IF significant = {} THEN <<Digit(0)>> ELSE SubSeq(d, Min(significant), Len(d))

AtMost(a, b) ==
    \/ Len(a) < Len(b)
    \/ /\ Len(a) = Len(b)
       /\ \A i \in DOMAIN a : a[i] > b[i] => \E j \in 1 .. i - 1 : a[j] < b[j]

MaxU32 ==
    LET digits == <<4, 2, 9, 4, 9, 6, 7, 2, 9, 5>> IN [i \in DOMAIN digits |-> Digit(digits[i])]

IsNumber(f) ==
    /\ Digits(f) # <<>> /\ Range(Digits(f)) \subseteq Digit(0) .. Digit(9)
    /\ AtMost(Number(f), MaxU32)

(* major:minor, at the first colon.                                        *)
IsDevice(f) ==
    /\ Contains(f, Colon)
    /\ \A part \in Range(SplitAt(f, Colon)) : IsNumber(part)
    /\ Len(SplitAt(f, Colon)) = 2

(* The row of fields f with the separator at d.  The fields that are only  *)
(* shown are ASCII here, which the conversion to text leaves as it is.     *)
MountEntry(f, d) ==
    [id |-> Number(f[1]), parent |-> Number(f[2]),
     dev |-> LET parts == SplitAt(f[3], Colon) IN <<Number(parts[1]), Number(parts[2])>>,
     root |-> Unescape(f[4]), at |-> Unescape(f[5]), options |-> f[6],
     optional |-> SubSeq(f, 7, d - 1), type |-> f[d + 1], source |-> Unescape(f[d + 2]),
     super |-> IF Len(f) > d + 2 THEN Unescape(f[d + 3]) ELSE <<>>]

ParseLine(line) ==
    LET f == Fields(line)
        dashes == {i \in 7 .. Len(f) : f[i] = <<Dash>>}
        d == Min(dashes)
    IN IF Len(f) < 6 \/ ~(IsNumber(f[1]) /\ IsNumber(f[2]) /\ IsDevice(f[3]))
       THEN Skipped
       ELSE IF dashes = {} \/ Len(f) < d + 2 THEN Skipped
       ELSE <<MountEntry(f, d)>>

ParseMountinfo(table) ==
    LET lines == SplitAt(table, Newline)
    IN FlattenSeq([i \in DOMAIN lines |-> ParseLine(lines[i])])

(* At most one byte past the bound is read, and then nothing is parsed.    *)
ReadMountinfo(table, bound) ==
    LET got == SubSeq(table, 1, Min({bound + 1, Len(table)}))
        fits == Len(got) <= bound
    IN [ok |-> fits, rows |-> IF fits THEN ParseMountinfo(got) ELSE <<>>]

-----------------------------------------------------------------------------
(* The kernel's side: seq_path and mangle.                                 *)

Escape(b) ==
    IF b \in {Space, Tab, Newline, Backslash}
    THEN <<Backslash, Digit(b \div 64), Digit((b \div 8) % 8), Digit(b % 8)>>
    ELSE <<b>>

Mangle(s) == FlattenSeq([i \in DOMAIN s |-> Escape(s[i])])

Joined(parts) == FlattenSeq([i \in DOMAIN parts |-> parts[i] \o <<Space>>])

Written(r) ==
    Joined(<<r.id, r.parent, r.dev[1] \o <<Colon>> \o r.dev[2], Mangle(r.root), Mangle(r.at), r.options>>
             \o r.optional \o <<<<Dash>>, r.type, Mangle(r.source)>>) \o Mangle(r.super)

-----------------------------------------------------------------------------
Slash == 47

Names == UNION {[1 .. n -> {97, Space, Newline, Backslash, Digit(0), Digit(4), 255}] : n \in 0 .. 2}
         \cup {<<Backslash, Digit(1), Digit(3), Digit(4)>>,
               <<Backslash, Digit(0), Digit(4), Digit(0)>>, <<Backslash, Digit(7), Digit(7), Digit(7)>>}

Row(name, source, optional) ==
    [id |-> <<Digit(2)>>, parent |-> <<Digit(1)>>, dev |-> <<<<Digit(8)>>, <<Digit(1)>>>>,
     root |-> <<Slash>>, at |-> <<Slash>> \o name, options |-> <<97>>,
     optional |-> optional, type |-> <<97, 97>>, source |-> source, super |-> <<97>>]

(* The part of a row that a plan is built from.                            *)
Planned(r) == <<r.id, r.parent, r.dev, r.root, r.at, r.type>>

(* One of the lines is a row but for a number past the width of 32 bits.   *)
Garbage ==
    {<<>>, <<97>>, <<Digit(1), Space, Digit(2)>>,
     Written([Row(<<97>>, <<97>>, <<>>) EXCEPT !.id = Front(MaxU32) \o <<Digit(6)>>])}

(* Whatever bytes a mount point has in its name, an escape sequence among  *)
(* them, and however many optional fields precede the separator, the row   *)
(* that is read is the row the kernel wrote, and it is read past lines     *)
(* that make no sense.  Only an empty source, which the fields after it    *)
(* then replace, is not told apart; no plan depends on those.              *)
RowsExact ==
    \A name \in Names, source \in {<<>>, <<Dash>>, <<Slash, Space>>},
       optional \in {<<>>, <<<<97>>, <<97, Colon>>>>}, junk \in Garbage :
        LET r == Row(name, source, optional)
            got == ParseMountinfo(junk \o <<Newline>> \o Written(r) \o <<Newline>>)
        IN /\ Len(got) = 1
           /\ Planned(got[1]) = Planned(r) /\ got[1].optional = optional
           /\ source # <<>> => got[1] = r

(* A table is read whole or not at all: a bound that cuts it is an error,  *)
(* never a shorter table (read_mountinfo_bounded).                         *)
NeverPartial ==
    LET table == Written(Row(<<97>>, <<97>>, <<>>)) \o <<Newline>>
                   \o Written(Row(<<>>, <<97>>, <<>>)) \o <<Newline>>
    IN \A bound \in 0 .. Len(table) + 1 :
        LET read == ReadMountinfo(table, bound)
        IN /\ read.ok <=> bound >= Len(table)
           /\ read.ok => read.rows = ParseMountinfo(table) /\ Len(read.rows) = 2

=============================================================================
