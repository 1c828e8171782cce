----------------------------- MODULE FreezePlan -----------------------------
(***************************************************************************)
(* What a freeze plan selects (freeze_plan.rs) and what the walk over it   *)
(* and the drain that discovers its targets then open (handlers/fsfreeze), *)
(* while mounts come, go and move.                                         *)
(*                                                                         *)
(* The kernel side is external.  `vis` is what the kernel knows and the    *)
(* table only implies: the mount every pathname leads into now.  A path is *)
(* the sequence of its components and every directory exists everywhere.   *)
(* Nothing is mounted over the root itself.                                *)
(***************************************************************************)
EXTENDS Integers, Sequences, Functions

CONSTANTS Path,       \* absolute pathnames, the root included
          Dev,        \* superblocks
          EligibleDev,\* those of a freezable type on a /dev/ node
          PlainDev,   \* those that may turn out not to support freezing
          RootDev,    \* the superblock of the root mount
          NoDev,      \* no superblock
          MaxMounts,  \* bound on the mounts ever made
          MaxMoves,   \* bound on the mounts moved
          Requests,   \* lists of names a freeze-list may carry
          Everything  \* a freeze without such a list

ASSUME PlanAssumption ==
    /\ <<>> \in Path /\ \A p \in Path : p \in Seq(Range(p))
    /\ PlainDev \subseteq EligibleDev /\ EligibleDev \subseteq Dev /\ RootDev \in Dev /\ NoDev \notin Dev
    /\ Requests \subseteq Seq(Path) /\ Everything \notin Requests
    /\ {MaxMounts, MaxMoves} \subseteq Nat

VARIABLES
    table,     \* the mount table, in the order the mounts were made
    vis,       \* kernel: the mount that holds each path
    saved,     \* kernel: what each mount hides
    moves,     \* mounts moved so far
    pc,        \* the operation: idle, walk, frozen, drain, trim
    asked,     \* history: the names of the request, with what each led to then
    found,     \* history: the superblocks a drain has to account for
    nesting,   \* history: which superblock held which when a freeze was planned
    queue,     \* the targets still to be opened
    held,      \* superblocks with an open handle, in the order they were frozen
    keep,      \* the handles a drain has not finished with
    scope,     \* how the next thaw finds its targets
    frozen,    \* kernel: the superblocks this agent has frozen
    plain,     \* kernel: the superblocks that do not support freezing
    missed,    \* a target of the drain may still be frozen
    trimmed    \* a trim's reply so far: each target, with what was trimmed

kernelVars == <<table, vis, saved, moves, plain>>
opVars == <<pc, asked, found, nesting, queue, held, keep, scope, frozen, missed, trimmed>>
vars == <<kernelVars, opVars>>

-----------------------------------------------------------------------------
(* The mount tree of the plan.                                             *)

Rows(t) == {t[i] : i \in DOMAIN t}

(* What of a sequence is in a set, in its order.                           *)
Among(s, S) ==
    LET kept[i \in 0 .. Len(s)] ==
            IF i = 0 THEN <<>>
            ELSE IF s[i] \in S THEN Append(kept[i - 1], s[i]) ELSE kept[i - 1]
    IN kept[Len(s)]

Children(t, parent, path) ==
    {r \in Rows(t) : r.parent = parent /\ r.parent # r.id /\ r.at = path}

IsRoot(t, r) ==
    /\ r.at = <<>>
    /\ r.parent = r.id \/ r.parent \notin {q.id : q \in Rows(t)}

(* The directories on the way from the root to the path, and the path.     *)
Ancestors(path) == {SubSeq(path, 1, l) : l \in 0 .. Len(path)}

(* The first mount point on the way down from a mount to the path.         *)
Crossings(t, r, path) ==
    {p \in Ancestors(path) : Len(p) >= Len(r.at) /\ Children(t, r.id, p) # {}}

(* Mutant: the last mount point on the way, as a longest prefix would have. *)
CrossingLast(t, r, path) ==
    CHOOSE p \in Crossings(t, r, path) :
        \A q \in Crossings(t, r, path) : Len(p) >= Len(q)

Crossing(t, r, path) ==
    CHOOSE p \in Crossings(t, r, path) :
        \A q \in Crossings(t, r, path) : Len(p) <= Len(q)

(* The first row that is a root.                                           *)
Start(t) ==
    {t[i] : i \in {j \in DOMAIN t : IsRoot(t, t[j]) /\ \A k \in 1 .. j - 1 : ~IsRoot(t, t[k])}}

(* Where a turn of the walk leads: nowhere from a mount point that two     *)
(* children share.                                                         *)
Turn(t, path, r) ==
    LET next == Children(t, r.id, Crossing(t, r, path))
    IN IF Crossings(t, r, path) = {} THEN {r} ELSE {c \in next : next = {c}}

(* The superblock mounted at exactly the path.  At most one turn for every *)
(* row, and one to see that nothing follows.                               *)
Resolve(t, path) ==
    LET current[n \in 0 .. Len(t)] ==
            IF n = 0 THEN Start(t) ELSE UNION {Turn(t, path, r) : r \in current[n - 1]}
        settled == {r \in current[Len(t)] : Crossings(t, r, path) = {} /\ r.at = path}
    IN IF settled = {} THEN NoDev ELSE (CHOOSE r \in settled : TRUE).dev

(* The rows of a superblock.                                               *)
RowsOf(t, d) == Among(t, {r \in Rows(t) : r.dev = d})

Points(rows) == [i \in DOMAIN rows |-> rows[i].at]

Target(t, d) == [dev |-> d, points |-> Points(RowsOf(t, d)), requested |-> <<>>]

(* Mutant: any mounted filesystem is eligible.                             *)
IsEligibleAny(r) == r.dev \in Dev

IsEligible(r) == r.dev \in EligibleDev

(* Mutant: a superblock takes the place of its last row.                   *)
BuildByLast(t) ==
    LET IsLast(i) == \A j \in i + 1 .. Len(t) : t[j].dev # t[i].dev
        lasts == Among([i \in DOMAIN t |-> i], {i \in DOMAIN t : IsEligible(t[i]) /\ IsLast(i)})
    IN [k \in DOMAIN lasts |-> Target(t, t[lasts[k]].dev)]

(* The first row of each eligible superblock, in the order of the table.   *)
Firsts(t) ==
    LET IsFirst(i) == \A j \in 1 .. i - 1 : t[j].dev # t[i].dev
    IN Among([i \in DOMAIN t |-> i], {i \in DOMAIN t : IsEligible(t[i]) /\ IsFirst(i)})

(* One target for each eligible superblock, in the order of its first row. *)
Build(t) ==
    [k \in DOMAIN Firsts(t) |-> Target(t, t[Firsts(t)[k]].dev)]

(* The first of the names that leads to a superblock.                      *)
Selecting(t, names, d) ==
    LET leading == Among(names, {n \in Range(names) : Resolve(t, n) = d})
    IN IF leading = <<>> THEN <<>> ELSE <<leading[1]>>

(* Mutant: a target is selected by any name it carries in the table.       *)
RestrictByName(t, targets, names) ==
    LET Named(x) == Among(names, Range(x.points))
        chosen == Among(targets, {x \in Range(targets) : Named(x) # <<>>})
    IN [i \in DOMAIN chosen |-> [chosen[i] EXCEPT !.requested = <<Named(chosen[i])[1]>>]]

RestrictTo(t, targets, names) ==
    LET chosen == Among(targets, {x \in Range(targets) : Selecting(t, names, x.dev) # <<>>})
    IN [i \in DOMAIN chosen |->
           [chosen[i] EXCEPT !.requested = Selecting(t, names, chosen[i].dev)]]

Devs(targets) == {targets[i].dev : i \in DOMAIN targets}

Distinct(targets) ==
    \A j, k \in 1 .. Len(targets) : targets[j].dev = targets[k].dev => j = k

BuildPlan(t, names) ==
    IF names = Everything THEN Build(t) ELSE RestrictTo(t, Build(t), names)

-----------------------------------------------------------------------------
(* The kernel: mount, umount and mount --move, on what is visible.         *)

Root == 1

RowOf(id) == CHOOSE r \in Rows(table) : r.id = id

Under(p, q) == Len(p) <= Len(q) /\ SubSeq(p, 1, Len(p)) = SubSeq(q, 1, Len(p))

Init ==
    /\ \E parent \in {0, Root} :
        table = <<[id |-> Root, parent |-> parent, at |-> <<>>, dev |-> RootDev]>>
    /\ vis = [p \in Path |-> Root]
    /\ saved = <<>>
    /\ moves = 0
    /\ pc = "idle"
    /\ asked = {} /\ found = {} /\ nesting = {}
    /\ queue = <<>> /\ held = <<>> /\ keep = <<>> /\ scope = "Discovery"
    /\ frozen = {} /\ plain \in {{}, PlainDev}
    /\ missed = FALSE /\ trimmed = <<>>

(* A mount, or a bind mount, over whatever the path leads into.            *)
Mount(p, d) ==
    LET n == Len(saved) + 2 IN
    /\ n <= MaxMounts + 1
    /\ table' = Append(table, [id |-> n, parent |-> vis[p], at |-> p, dev |-> d])
    /\ saved' = Append(saved, vis)
    /\ vis' = [q \in Path |-> IF Under(p, q) THEN n ELSE vis[q]]
    /\ UNCHANGED <<moves, plain, opVars>>

(* What is mounted at exactly p and carries no mount itself.               *)
Detachable(p) ==
    /\ vis[p] # Root
    /\ RowOf(vis[p]).at = p
    /\ \A r \in Rows(table) : r.parent # vis[p]

Uncovered(p) ==
    [q \in Path |-> IF Under(p, q) THEN saved[vis[p] - 1][q] ELSE vis[q]]

Umount(p) ==
    /\ Detachable(p)
    /\ table' = Among(table, {r \in Rows(table) : r.id # vis[p]})
    /\ vis' = Uncovered(p)
    /\ UNCHANGED <<saved, moves, plain, opVars>>

Move(p, q) ==
    /\ moves < MaxMoves
    /\ Detachable(p) /\ ~Under(p, q)
    /\ table' = [i \in DOMAIN table |->
                    IF table[i].id = vis[p]
                    THEN [table[i] EXCEPT !.parent = Uncovered(p)[q], !.at = q]
                    ELSE table[i]]
    /\ saved' = [saved EXCEPT ![vis[p] - 1] = Uncovered(p)]
    /\ vis' = [x \in Path |-> IF Under(q, x) THEN vis[p] ELSE Uncovered(p)[x]]
    /\ moves' = moves + 1
    /\ UNCHANGED <<plain, opVars>>

(* The superblock an opened path is on; and the one mounted exactly there. *)
OpenedDev(p) == RowOf(vis[p]).dev

VisibleAt(p) == IF RowOf(vis[p]).at = p THEN RowOf(vis[p]).dev ELSE NoDev

-----------------------------------------------------------------------------
(* The operation.                                                          *)

(* The first path of the target that opens on its superblock.  A target a  *)
(* request selected is opened on the requested name only.                  *)
OpensByAnyName(x) ==
    \E p \in {(x.requested \o x.points)[i] : i \in DOMAIN (x.requested \o x.points)} :
        OpenedDev(p) = x.dev

Opens(x) ==
    LET paths == IF x.requested # <<>> THEN x.requested ELSE x.points
    IN \E i \in DOMAIN paths : OpenedDev(paths[i]) = x.dev

(* What an ioctl answers, and what is made of it.  An open that fails, for *)
(* whatever reason, is never taken for an answer of the filesystem.        *)
IsNotSupported(answer) == answer = "EOPNOTSUPP"

IsBusy(answer) == answer = "EBUSY"

IsInvalid(answer) == answer = "EINVAL"

Fifreeze(d) ==
    {"EIO"} \cup IF d \in plain THEN {"EOPNOTSUPP"}
                 ELSE IF d \in frozen THEN {"EBUSY"} ELSE {"ok"}

TargetOutcome(answer) ==
    CASE answer = "ok" -> "Frozen"
      [] IsNotSupported(answer) -> "Skipped"
      [] IsBusy(answer) -> "Busy"
      [] OTHER -> "Failed"

(* The answer that ends a row of FITHAWs.                                  *)
Fithaw(d) == {"EPERM", IF d \in plain THEN "EOPNOTSUPP" ELSE "EINVAL"}

Incomplete(answer) == ~(IsInvalid(answer) \/ IsNotSupported(answer))

(* One that is incomplete may have thawed the superblock before it failed. *)
Drained(d, answer) ==
    \E thawed \in IF Incomplete(answer) THEN {{}, {d}} ELSE {{d}} : frozen' = frozen \ thawed

Backwards(s) == [i \in 1 .. Len(s) |-> s[(Len(s) - i) + 1]]

(* All handles, in forward mount order; those in bad are not finished.     *)
DrainHeld(bad) ==
    /\ \E thawed \in SUBSET bad : frozen' = frozen \ ((Range(held) \ bad) \cup thawed)
    /\ held' = keep \o Among(Backwards(held), bad)

(* Mutant: the plan is frozen in the order in which it was mounted.        *)
FreezeOrderForward(plan) == plan

FreezeOrder(plan) == Backwards(plan)

(* The pairs of superblocks of which the one holds the mount that the      *)
(* other goes by in a plan, its first.  A mount that was moved onto a      *)
(* later one is left out: no order of the table is right for it.           *)
Nesting(t) ==
    {x \in Dev \X Dev :
        \E i, j \in DOMAIN t :
            /\ x = <<t[i].dev, t[j].dev>>
            /\ t[j].parent = t[i].id /\ t[i].id < t[j].id
            /\ \A k \in 1 .. j - 1 : t[k].dev # t[j].dev}

(* freeze or freeze-list: the plan, in reverse mount order.                *)
Prepare ==
    /\ pc = "idle"
    /\ \E names \in Requests \cup {Everything} :
        /\ queue' = FreezeOrder(BuildPlan(table, names))
        /\ asked' = IF names = Everything THEN {}
                    ELSE {<<names[i], VisibleAt(names[i])>> : i \in DOMAIN names}
        /\ found' = Devs(BuildPlan(table, names))
    /\ nesting' = Nesting(table)
    /\ pc' = "walk"
    /\ UNCHANGED <<kernelVars, held, keep, scope, frozen, missed, trimmed>>

(* Mutant: a target whose ioctl fails is passed over like a skipped one.   *)
FreezeTargetSkipping ==
    /\ pc = "walk" /\ queue # <<>>
    /\ Opens(queue[1])
    /\ \E answer \in Fifreeze(queue[1].dev) :
        /\ frozen' = IF answer = "ok" THEN frozen \cup {queue[1].dev} ELSE frozen
        /\ held' = IF TargetOutcome(answer) \in {"Frozen", "Busy"}
                   THEN Append(held, queue[1].dev) ELSE held
    /\ queue' = Tail(queue)
    /\ UNCHANGED <<kernelVars, pc, asked, found, nesting, keep, scope, missed, trimmed>>

FreezeTarget ==
    /\ pc = "walk" /\ queue # <<>>
    /\ Opens(queue[1])
    /\ \E answer \in Fifreeze(queue[1].dev) :
        /\ TargetOutcome(answer) # "Failed"
        /\ frozen' = IF answer = "ok" THEN frozen \cup {queue[1].dev} ELSE frozen
        /\ held' = IF TargetOutcome(answer) \in {"Frozen", "Busy"}
                   THEN Append(held, queue[1].dev) ELSE held
    /\ queue' = Tail(queue)
    /\ UNCHANGED <<kernelVars, pc, asked, found, nesting, keep, scope, missed, trimmed>>

(* No path opens on the target, the open fails, or FIFREEZE does: what is  *)
(* held is drained and the freeze fails, frozen if a drain is incomplete.  *)
Rollback ==
    /\ pc = "walk" /\ queue # <<>>
    /\ \E bad \in SUBSET Range(held) :
        /\ DrainHeld(bad)
        /\ pc' = IF bad = {} THEN "idle" ELSE "frozen"
        /\ scope' = IF bad = {} THEN "Discovery" ELSE "Tracked"
    /\ queue' = <<>> /\ asked' = {} /\ found' = {} /\ nesting' = {}
    /\ UNCHANGED <<kernelVars, keep, missed, trimmed>>

Commit ==
    /\ pc = "walk" /\ queue = <<>>
    /\ pc' = IF held = <<>> THEN "idle" ELSE "frozen"
    /\ scope' = IF held = <<>> THEN "Discovery" ELSE "Tracked"
    /\ asked' = {} /\ found' = {} /\ nesting' = {}
    /\ UNCHANGED <<kernelVars, queue, held, keep, frozen, missed, trimmed>>

(* The process dies and starts again: the handles are gone.                *)
Restart ==
    /\ pc # "idle"
    /\ pc' = IF pc = "trim" THEN "idle" ELSE "frozen"
    /\ held' = <<>> /\ keep' = <<>> /\ scope' = "Discovery"
    /\ queue' = <<>> /\ missed' = FALSE /\ trimmed' = <<>>
    /\ asked' = {} /\ found' = {} /\ nesting' = {}
    /\ UNCHANGED <<kernelVars, frozen>>

(* A drain that discovers.  If the table cannot be read, that is a failure *)
(* to report once the handles are drained.                                 *)
Discover ==
    /\ pc = "frozen" /\ scope = "Discovery"
    /\ \/ queue' = Build(table) /\ UNCHANGED missed
          /\ found' = Devs(Build(table)) \cup Range(held)
       \/ missed' = TRUE /\ found' = Range(held) /\ UNCHANGED queue
    /\ pc' = "drain"
    /\ UNCHANGED <<kernelVars, asked, nesting, held, keep, scope, frozen, trimmed>>

(* A tracked thaw drains the handles and reads no table.                   *)
TrackedDrain ==
    /\ pc = "frozen" /\ scope = "Tracked"
    /\ found' = Range(held)
    /\ pc' = "drain"
    /\ UNCHANGED <<kernelVars, asked, nesting, queue, held, keep, scope, frozen, missed, trimmed>>

IsHeld(d) == d \in Range(held)

(* Mutant: a target that cannot be opened is passed over in silence.       *)
DrainTargetSilently ==
    /\ pc = "drain" /\ queue # <<>>
    /\ IF IsHeld(queue[1].dev) \/ Opens(queue[1])
       THEN frozen' = frozen \ {queue[1].dev}
       ELSE UNCHANGED frozen
    /\ held' = Among(held, Range(held) \ {queue[1].dev})
    /\ queue' = Tail(queue)
    /\ UNCHANGED <<kernelVars, pc, asked, found, nesting, keep, scope, missed, trimmed>>

(* By its handle where there is one, else by the first path that opens.    *)
DrainTarget ==
    /\ pc = "drain" /\ queue # <<>>
    /\ LET d == queue[1].dev IN
       \/ /\ IsHeld(d) \/ Opens(queue[1])
          /\ \E answer \in Fithaw(d) :
                /\ Drained(d, answer)
                /\ missed' = (missed \/ Incomplete(answer))
                /\ keep' = IF Incomplete(answer) THEN Append(keep, d) ELSE keep
       \/ ~IsHeld(d) /\ missed' = TRUE /\ UNCHANGED <<frozen, keep>>
    /\ held' = Among(held, Range(held) \ {queue[1].dev})
    /\ queue' = Tail(queue)
    /\ UNCHANGED <<kernelVars, pc, asked, found, nesting, scope, trimmed>>

(* Handles the table no longer lists are drained as well; then the outcome. *)
DrainRest ==
    /\ pc = "drain" /\ queue = <<>>
    /\ \E bad \in SUBSET Range(held) :
        /\ DrainHeld(bad)
        /\ pc' = IF missed \/ bad # {} THEN "frozen" ELSE "idle"
    /\ scope' = IF pc' = "idle" THEN "Discovery" ELSE scope
    /\ keep' = <<>> /\ missed' = FALSE /\ found' = {}
    /\ UNCHANGED <<kernelVars, asked, nesting, queue, trimmed>>

(* fstrim: the whole plan, in mount order.                                 *)
StartTrim ==
    /\ pc = "idle"
    /\ queue' = Build(table) /\ found' = Devs(Build(table))
    /\ pc' = "trim"
    /\ UNCHANGED <<kernelVars, asked, nesting, held, keep, scope, frozen, missed, trimmed>>

(* FITRIM on the handle that was opened; a target that does not open, or   *)
(* an ioctl that fails, is an error in its own entry.                      *)
TrimTarget ==
    /\ pc = "trim" /\ queue # <<>>
    /\ \E ok \in {FALSE, Opens(queue[1])} :
        trimmed' = Append(trimmed, <<queue[1].dev, ok>>)
    /\ queue' = Tail(queue)
    /\ UNCHANGED <<kernelVars, pc, asked, found, nesting, held, keep, scope, frozen, missed>>

TrimReply ==
    /\ pc = "trim" /\ queue = <<>>
    /\ pc' = "idle" /\ trimmed' = <<>> /\ found' = {}
    /\ UNCHANGED <<kernelVars, asked, nesting, queue, held, keep, scope, frozen, missed>>

Next ==
    \/ \E p \in Path \ {<<>>}, d \in Dev : Mount(p, d)
    \/ \E p \in Path : Umount(p)
    \/ \E p \in Path, q \in Path \ {<<>>} : Move(p, q)
    \/ Prepare \/ FreezeTarget \/ Rollback \/ Commit \/ Restart
    \/ Discover \/ TrackedDrain \/ DrainTarget \/ DrainRest
    \/ StartTrim \/ TrimTarget \/ TrimReply

Spec == Init /\ [][Next]_vars

-----------------------------------------------------------------------------
(* Types; the table stays a tree, with one mount at one point of a parent, *)
(* which resolve refuses to do without.                                    *)
TypeOK ==
    /\ \A r \in Rows(table) : r.at \in Path /\ r.dev \in Dev
    /\ \A r, s \in Rows(table) : r.parent = s.parent /\ r.at = s.at => r = s
    /\ vis \in [Path -> {r.id : r \in Rows(table)}]
    /\ pc \in {"idle", "walk", "frozen", "drain", "trim"}
    /\ frozen \subseteq EligibleDev \ plain /\ scope \in {"Tracked", "Discovery"}
    /\ Range(held) \cup Range(keep) \subseteq EligibleDev
    /\ Devs(queue) \subseteq EligibleDev

(* What the plan's walk over the table finds at a path is what the kernel  *)
(* has mounted there, however mounts are stacked, hidden, moved or placed  *)
(* over a directory above another mount point.                             *)
ResolveIsVisible == \A p \in Path : Resolve(table, p) = VisibleAt(p)

(* A request selects the eligible superblocks its names lead to now, each  *)
(* once, with the first such name: nothing hidden, no alias of another.    *)
RestrictExact ==
    \A names \in Requests :
        LET plan == RestrictTo(table, Build(table), names)
        IN /\ Devs(plan) = Devs(Build(table)) \cap {VisibleAt(names[i]) : i \in DOMAIN names}
           /\ Distinct(plan)
           /\ \A k \in DOMAIN plan :
                \E i \in DOMAIN names :
                    /\ plan[k].requested = <<names[i]>>
                    /\ VisibleAt(names[i]) = plan[k].dev
                    /\ \A j \in 1 .. i - 1 : VisibleAt(names[j]) # plan[k].dev

(* What a plan selects is what the kernel shows, over a well-formed tree.     *)
SelectionExact == TypeOK /\ ResolveIsVisible /\ RestrictExact

(* Freezing goes outwards: when a superblock becomes frozen, no target     *)
(* that is still to be frozen goes by a mount that lay in it when the      *)
(* table was read, whatever is mounted since and whatever was asked for.   *)
NestedFirst ==
    [][\A d \in frozen' \ frozen, e \in Devs(queue') : <<d, e>> \notin nesting]_vars

(* Whatever is mounted meanwhile, a freeze-list freezes a superblock only  *)
(* through a name of the request that led to it when the table was read    *)
(* and leads into it when it is opened.                                    *)
FrozenAsAsked ==
    [][\A d \in frozen' \ frozen :
          asked # {} => \E n \in Path : <<n, d>> \in asked /\ OpenedDev(n) = d]_vars

(* A drain that discovers reports success only if nothing of what it found *)
(* in the table, and nothing that was held, is still frozen: a superblock  *)
(* hidden from every path is a failure, so that the marker stays.          *)
SuccessIsThawed ==
    [][pc = "drain" /\ pc' = "idle" => frozen' \cap found = {}]_vars

(* A trim answers with one entry for each eligible superblock that was     *)
(* mounted when it began, trimmed or not, whatever is mounted, hidden or   *)
(* moved while it walks: none is left out and none is trimmed twice.       *)
TrimmedOnce ==
    [][pc = "trim" /\ queue = <<>> /\ pc' = "idle" =>
          /\ \A i, j \in DOMAIN trimmed : trimmed[i][1] = trimmed[j][1] => i = j
          /\ {trimmed[i][1] : i \in DOMAIN trimmed} = found]_vars

(* A walk that comes to its end has frozen, and holds, every superblock of *)
(* the plan but those that cannot be frozen at all: a target is skipped on *)
(* its own answer, never because something before it failed.               *)
FreezesWholePlan ==
    [][pc' = "walk" /\ queue' = <<>> =>
          Range(held') = found' \ plain' /\ Range(held') \subseteq frozen']_vars

(* A change of the mounts between the plan and the open, and a call that   *)
(* fails, are never taken for what was planned: not by a freeze, a drain   *)
(* or a trim.                                                              *)
OpensAsPlanned == FrozenAsAsked /\ SuccessIsThawed /\ TrimmedOnce /\ FreezesWholePlan

=============================================================================
