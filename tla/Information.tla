---------------------------- MODULE Information -----------------------------
(***************************************************************************)
(* What the read-only commands make of what the system tells them: network *)
(* interfaces (handlers/interfaces.rs), os-release (handlers/osinfo.rs)    *)
(* and filesystem sizes (handlers/fsinfo.rs).  Pure functions, each        *)
(* against a definition of what the reply should be.                       *)
(***************************************************************************)
EXTENDS Integers, Sequences, SequencesExt, FiniteSetsExt, Functions

CONSTANTS Width,      \* bits of an address and of a size
          MaxRecords, \* bound on the records of the interface list
          MaxLength   \* bound on the length of an os-release value

None == "none"

(* A mask that has no prefix length.                                       *)
NoPrefix == Width + 1

-----------------------------------------------------------------------------
(* Interfaces.  A name is its rank; a record carries a hardware address or *)
(* an IP address with a mask, as getifaddrs reports them one by one.       *)

RawAddr(name, loopback, mac, addr, mask) ==
    [ifname |-> name, loopback |-> loopback, mac |-> mac, addr |-> addr, netmask |-> mask]

IsFiltered(addr) == addr \in {"loopback4", "linklocal4", "loopback6", "linklocal6"}

(* A mask is the sequence of its bits, the most significant first.         *)
LeadingOnes(mask) == Max({n \in 0 .. Width : \A i \in 1 .. n : mask[i] = 1})

(* The bits shifted out are the leading ones: the rest must be zero.       *)
PrefixLen(mask) ==
    IF \A i \in LeadingOnes(mask) + 1 .. Width : mask[i] = 0
    THEN LeadingOnes(mask) ELSE NoPrefix

Prefix(r) ==
    IF r.netmask = <<>> \/ PrefixLen(r.netmask) = NoPrefix THEN Width ELSE PrefixLen(r.netmask)

Entry(name) == [name |-> name, mac |-> None, ips |-> <<>>]

Recorded(found, r) ==
    LET old == IF r.ifname \in DOMAIN found THEN found[r.ifname] ELSE Entry(r.ifname)
        mac == IF r.mac = None THEN old.mac ELSE r.mac
        ips == IF r.addr = None \/ IsFiltered(r.addr) THEN old.ips
               ELSE Append(old.ips, <<r.addr, Prefix(r)>>)
    IN [n \in DOMAIN found \cup {r.ifname} |->
           IF n = r.ifname THEN [old EXCEPT !.mac = mac, !.ips = ips] ELSE found[n]]

(* Mutant: a loopback interface is passed over when its flag is seen.      *)
CollectSkipping(records) ==
    LET kept == SelectSeq(records, LAMBDA r : ~r.loopback)
        found == FoldLeft(Recorded, <<>>, kept)
    IN [i \in 1 .. Cardinality(DOMAIN found) |-> found[SetToSortSeq(DOMAIN found, <)[i]]]

Collect(records) ==
    LET found == FoldLeft(Recorded, <<>>, records)
        loopbacks == {r.ifname : r \in {q \in Range(records) : q.loopback}}
        names == SetToSortSeq(DOMAIN found \ loopbacks, <)
    IN [i \in DOMAIN names |-> found[names[i]]]

-----------------------------------------------------------------------------
(* os-release.  A character is itself; white space has been trimmed.       *)

Quote == "'"
DoubleQuote == "\""
Escaping == "\\"
Backtick == "backtick"
Escapable == {"$", Backtick, DoubleQuote, Escaping}

(* Up to the closing quote, or all of it.                                  *)
UntilQuote(s) ==
    LET ends == {i \in DOMAIN s : s[i] = Quote}
    IN IF ends = {} THEN s ELSE SubSeq(s, 1, Min(ends) - 1)

Unread == [out |-> <<>>, escaped |-> FALSE, done |-> FALSE]

DoubleQuoted(st, c) ==
    IF st.done THEN st
    ELSE IF st.escaped
    THEN [st EXCEPT !.escaped = FALSE,
                    !.out = @ \o (IF c \in Escapable THEN <<>> ELSE <<Escaping>>) \o <<c>>]
    ELSE IF c = Escaping THEN [st EXCEPT !.escaped = TRUE]
    ELSE IF c = DoubleQuote THEN [st EXCEPT !.done = TRUE]
    ELSE [st EXCEPT !.out = Append(@, c)]

Unquoted(st, c) ==
    IF ~st.escaped /\ c = Escaping THEN [st EXCEPT !.escaped = TRUE]
    ELSE [st EXCEPT !.escaped = FALSE, !.out = Append(@, c)]

(* A backslash that ends the text is kept inside double quotes only.       *)
Unquote(raw) ==
    IF raw = <<>> THEN <<>>
    ELSE IF raw[1] = Quote THEN UntilQuote(Tail(raw))
    ELSE IF raw[1] = DoubleQuote
    THEN LET st == FoldLeft(DoubleQuoted, Unread, Tail(raw))
         IN st.out \o IF st.escaped THEN <<Escaping>> ELSE <<>>
    ELSE FoldLeft(Unquoted, Unread, raw).out

(* A line is an assignment with a key, or anything else: blank, a comment, *)
(* no "=", or a key that is not a name.  A later assignment overrides.     *)
ParseOsRelease(lines) ==
    FoldLeft(LAMBDA map, l :
                IF l.key = None THEN map
                ELSE [k \in DOMAIN map \cup {l.key} |->
                         IF k = l.key THEN Unquote(l.raw) ELSE map[k]],
             <<>>, lines)

(* The next path is tried only when the one before is missing.             *)
OsReleaseFrom(files) ==
    LET present == SelectSeq(files, LAMBDA f : f.status # "missing")
    IN IF present = <<>> \/ present[1].status = "unreadable" THEN <<>> ELSE present[1].lines

Allowed == {"ID", "NAME"}

(* uname is <<>> if it fails, and then so does the command.                *)
OsInfo(uname, files) ==
    LET fields == ParseOsRelease(OsReleaseFrom(files))
    IN [ok |-> uname # <<>>,
        info |-> IF uname = <<>> THEN <<>> ELSE Restrict(fields, Allowed \cap DOMAIN fields)]

-----------------------------------------------------------------------------
(* Sizes, in numbers of Width bits.                                        *)

MaxSize == 2 ^ Width - 1

SaturatingMul(a, b) == Min({a * b, MaxSize})

SaturatingSub(a, b) == IF a > b THEN a - b ELSE 0

TotalBytes(st) == SaturatingMul(st.blocks, st.bsize)

UsedBytes(st) == SaturatingMul(SaturatingSub(st.blocks, st.bfree), st.bsize)

(* What statfs reports: nothing if it fails; a block size is signed.       *)
Statfs(raw) ==
    IF raw.fails THEN <<>>
    ELSE <<[blocks |-> raw.blocks, bfree |-> raw.bfree,
            bsize |-> IF raw.bsize < 0 THEN 0 ELSE raw.bsize]>>

FilesystemInfo(name, sizes) ==
    [name |-> name,
     sizes |-> IF sizes = <<>> THEN <<>> ELSE <<UsedBytes(sizes[1]), TotalBytes(sizes[1])>>]

(* Types whose statfs may hang or mount something; an entry of such a type,*)
(* or one whose statfs fails, is listed without sizes.                     *)
SizesAreQueried(type) == type \notin {"network", "fuse", "autofs"}

FsInfo(mounts) ==
    [i \in DOMAIN mounts |->
        FilesystemInfo(mounts[i].name,
                       IF SizesAreQueried(mounts[i].type) THEN Statfs(mounts[i].statfs) ELSE <<>>)]

-----------------------------------------------------------------------------
(* What the replies should be.                                             *)

Mask(n) == [i \in 1 .. Width |-> IF i <= n THEN 1 ELSE 0]

Masks == [1 .. Width -> {0, 1}]

(* A prefix is reported for exactly the masks that have one.               *)
PrefixesExact ==
    \A m \in Masks :
        IF \E n \in 0 .. Width : m = Mask(n)
        THEN m = Mask(PrefixLen(m)) ELSE PrefixLen(m) = NoPrefix

Records ==
    {RawAddr(n, lo, m, None, <<>>) : n \in {1, 2}, lo \in BOOLEAN, m \in {None, "m1", "m2"}}
      \cup {RawAddr(n, lo, None, a, m) :
               n \in {1, 2}, lo \in BOOLEAN, a \in {"v4", "linklocal6"},
               m \in {<<>>, Mask(1), <<0>> \o Mask(Width - 1)}}

(* An interface is listed once, in order of its name, if none of its       *)
(* records, early or late, has the loopback flag: with the last hardware   *)
(* address and with every address that may be seen, in the kernel's order. *)
InterfacesExact ==
    \A records \in SeqOf(Records, MaxRecords) :
        LET reply == Collect(records)
            Of(n) == SelectSeq(records, LAMBDA r : r.ifname = n)
            shown == {n \in {1, 2} : Of(n) # <<>> /\ \A i \in DOMAIN Of(n) : ~Of(n)[i].loopback}
        IN /\ {reply[i].name : i \in DOMAIN reply} = shown
           /\ \A i, j \in DOMAIN reply : i < j => reply[i].name < reply[j].name
           /\ \A i \in DOMAIN reply :
                LET own == Of(reply[i].name)
                    macs == SelectSeq(own, LAMBDA r : r.mac # None)
                    seen == SelectSeq(own, LAMBDA r : r.addr = "v4")
                IN /\ reply[i].mac = IF macs = <<>> THEN None ELSE Last(macs).mac
                   /\ reply[i].ips = [k \in DOMAIN seen |-> <<"v4", Prefix(seen[k])>>]

Values == SeqOf({"a", "$", Backtick, Quote, DoubleQuote, Escaping}, MaxLength)

Backslashed(v, special) ==
    FlattenSeq([i \in DOMAIN v |-> IF v[i] \in special THEN <<Escaping, v[i]>> ELSE <<v[i]>>])

(* A value comes back from each of the three ways a shell may write it,    *)
(* whatever follows a closing quote.                                       *)
QuotingExact ==
    \A v \in Values, rest \in {<<>>, <<"a">>, <<Escaping>>} :
        /\ Unquote(Backslashed(v, {Quote, DoubleQuote, Escaping})) = v
        /\ Unquote(<<DoubleQuote>> \o Backslashed(v, Escapable) \o <<DoubleQuote>> \o rest) = v
        /\ ~Contains(v, Quote) => Unquote(<<Quote>> \o v \o <<Quote>> \o rest) = v

Lines == {[key |-> k, raw |-> r] : k \in {None, "ID", "NAME", "MACHINE_ID"}, r \in {<<"a">>, <<"$">>}}

Files == {[status |-> s, lines |-> <<>>] : s \in {"missing", "unreadable"}}
           \cup {[status |-> "text", lines |-> ls] : ls \in SeqOf(Lines, 2)}

(* The reply has the allowed keys and no other, each with its last value   *)
(* in the first file that is there; a file that is there and cannot be     *)
(* read is not replaced by the next.                                       *)
OsInfoExact ==
    \A f, g \in Files :
        LET info == OsInfo(<<"uname">>, <<f, g>>).info
            text == IF f.status = "missing" THEN g.lines ELSE f.lines
            Of(k) == SelectSeq(text, LAMBDA l : l.key = k)
        IN /\ OsInfo(<<"uname">>, <<f, g>>).ok /\ ~OsInfo(<<>>, <<f, g>>).ok
           /\ DOMAIN info = {k \in Allowed : Of(k) # <<>>}
           /\ \A k \in DOMAIN info : info[k] = Last(Of(k)).raw

Sizes == 0 .. MaxSize

(* Sizes never wrap: what is used is at most the total, also when more     *)
(* blocks are free than there are or the product is past the width.        *)
SizesExact ==
    \A blocks, bfree \in Sizes, bsize \in Sizes \cup {-1}, type \in {"disk", "fuse"} :
        LET raw == [fails |-> FALSE, blocks |-> blocks, bfree |-> bfree, bsize |-> bsize]
            info == FsInfo(<<[name |-> "a", type |-> type, statfs |-> raw],
                             [name |-> "b", type |-> "disk", statfs |-> [raw EXCEPT !.fails = TRUE]]>>)
        IN /\ Len(info) = 2 /\ info[2].sizes = <<>>
           /\ type = "fuse" => info[1].sizes = <<>>
           /\ type = "disk" =>
                /\ info[1].sizes[1] <= info[1].sizes[2] /\ info[1].sizes[2] \in Sizes
                /\ 0 <= blocks * bsize /\ blocks * bsize <= MaxSize /\ bfree <= blocks =>
                     info[1].sizes = <<(blocks - bfree) * bsize, blocks * bsize>>

=============================================================================
