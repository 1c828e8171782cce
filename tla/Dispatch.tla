------------------------------ MODULE Dispatch ------------------------------
(***************************************************************************)
(* A request on its way through the dispatcher (dispatch.rs): the lane the *)
(* session runs it in, the gates in their order, and the handler, beside   *)
(* what other requests and the agent's own tasks do meanwhile.  Freezing   *)
(* and thawing are reduced to what the gates and the watchdog see of them  *)
(* (FreezeCoordinator has the rest); the watchdog has its clock here, and  *)
(* the rate limiter is the module it extends, with the window of time that *)
(* its history watches.                                                    *)
(*                                                                         *)
(* A parsed request is its method.  "oversized" and "malformed" stand for  *)
(* the events that carry none.                                             *)
(***************************************************************************)
EXTENDS RateLimiter, FiniteSets

CONSTANTS Methods,           \* what the host sends
          Enabled,           \* the optional features that are on
          MAX_FSINFO_WALKS,  \* bound on the walks alive at once
          FSINFO_TIMEOUT,    \* ticks an fsinfo request waits for its walk
          Idle, Max          \* the watchdog's two timeouts, in ticks

ASSUME DispatchAssumption ==
    /\ {MAX_FSINFO_WALKS, FSINFO_TIMEOUT, Idle, Max} \subseteq Nat \ {0}
    /\ Idle <= Max
    /\ "Unlimited" \notin Class
    /\ "none" \notin Methods

VARIABLES
    lane,       \* what runs in each lane of the session
    state,      \* the published freeze state
    watchdog,   \* the armed watchdog, or none
    slots,      \* free permits of the fsinfo semaphore
    abandoned,  \* walks whose request has given up
    down,       \* the machine has been powered off or rebooted
    refused,    \* history: the frozen-safe commands denied, with the reason
    frozenAt,   \* history: when Frozen was published
    beatAt      \* history: the last heartbeat of the armed watchdog

coreVars == <<state, watchdog, frozenAt, beatAt>>
walkVars == <<slots, abandoned>>
vars == <<limiterVars, lane, coreVars, walkVars, down, refused>>

-----------------------------------------------------------------------------
(* The tables.                                                             *)

Information == {"guest-get-osinfo", "guest-network-get-interfaces",
                "guest-get-fsinfo"}

FrozenSafe == {"guest-fsfreeze-status", "guest-fsfreeze-thaw", "guest-ping",
               "guest-sync", "guest-sync-delimited", "guest-info"}

FreezeMethods == {"guest-fsfreeze-freeze", "guest-fsfreeze-freeze-list"}

Allowlisted ==
    Information \cup FrozenSafe \cup FreezeMethods
        \cup {"guest-fstrim", "guest-shutdown", "guest-suspend-ram"}

Unparsed == {"oversized", "malformed"}

Kind(m) ==
    CASE m = "guest-fsfreeze-thaw" -> "Thaw"
      [] m \in FreezeMethods -> "Freeze"
      [] m \in (FrozenSafe \ {"guest-fsfreeze-thaw"}) \cup Unparsed -> "Control"
      [] OTHER -> "Ordinary"

(* Mutant: the status command shares the bucket of the information ones.   *)
ClassOfStatusLimited(m) ==
    CASE m \in {"guest-ping", "guest-sync", "guest-sync-delimited",
                "guest-info"} -> "PingSync"
      [] m \in Information \cup {"guest-fsfreeze-status"} -> "Get"
      [] m \in FreezeMethods -> "FsfreezeFreeze"
      [] m = "guest-fsfreeze-thaw" -> "Unlimited"
      [] m = "guest-fstrim" -> "Fstrim"
      [] m \in {"guest-shutdown", "guest-suspend-ram"} -> "Shutdown"

ClassOf(m) ==
    CASE m \in {"guest-ping", "guest-sync", "guest-sync-delimited",
                "guest-info"} -> "PingSync"
      [] m \in Information -> "Get"
      [] m \in FreezeMethods -> "FsfreezeFreeze"
      [] m \in {"guest-fsfreeze-status", "guest-fsfreeze-thaw"} -> "Unlimited"
      [] m = "guest-fstrim" -> "Fstrim"
      [] m \in {"guest-shutdown", "guest-suspend-ram"} -> "Shutdown"

(* The optional features a method belongs to.                              *)
Features(m) ==
    CASE m = "guest-fstrim" -> {"fstrim"}
      [] m = "guest-suspend-ram" -> {"suspend_ram"}
      [] m = "guest-shutdown" -> {"shutdown"}
      [] m \in Information -> {"information"}
      [] OTHER -> {}

-----------------------------------------------------------------------------
(* Lanes.  A control is answered in the poll that starts it, so that only  *)
(* the lane of the freeze and the one that thaws and ordinary commands     *)
(* share are ever seen taken.                                              *)

Lanes == {"freeze", "thaw_or_ordinary"}

LaneOf(k) == IF k = "Freeze" THEN "freeze" ELSE "thaw_or_ordinary"

Vacant == [method |-> "none", at |-> "vacant", until |-> 0]

Free(l) == lane[l] = Vacant

MayStart(k) ==
    CASE k = "Control" -> TRUE
      [] k = "Thaw" -> Free("thaw_or_ordinary")
      [] k \in {"Freeze", "Ordinary"} -> Free("freeze") /\ Free("thaw_or_ordinary")

Runs(m, phase, until) ==
    lane' = [lane EXCEPT ![LaneOf(Kind(m))] = [method |-> m, at |-> phase, until |-> until]]

At(l, phase) == ~down /\ lane[l].at = phase

Goto(l, phase) == lane' = [lane EXCEPT ![l].at = phase]

Answer(l) == lane' = [lane EXCEPT ![l] = Vacant]

Thawed == state = "Thawed"

NoWatchdog == [armed |-> FALSE, hard |-> 0, idle |-> 0, refresh |-> FALSE]

Init ==
    /\ LimiterInit
    /\ lane = [l \in Lanes |-> Vacant]
    /\ state = "Thawed"
    /\ watchdog = NoWatchdog
    /\ frozenAt = 0 /\ beatAt = 0
    /\ slots = MAX_FSINFO_WALKS /\ abandoned = 0
    /\ down = FALSE
    /\ refused = {}

-----------------------------------------------------------------------------
(* The gates, in the order of the code.  They and the handler up to its    *)
(* first await are one poll of the session's task, and only that task      *)
(* takes the state out of Thawed: one step.                                *)

Starts(m) == ~down /\ m \in Methods /\ MayStart(Kind(m))

Known(m) == m \in Allowlisted /\ Features(m) \subseteq Enabled

Deny(m, reason) ==
    /\ refused' = refused \cup ({m} \cap FrozenSafe) \X {reason}
    /\ UNCHANGED <<lane, coreVars, walkVars, down>>

(* The frame is too long, unparsable, or names no allow-listed method, or  *)
(* one that the configuration has turned off.                              *)
DenyUnknown(m) ==
    /\ Starts(m)
    /\ ~Known(m)
    /\ Deny(m, "unknown")
    /\ UNCHANGED limiterVars

DenyLimited(m) ==
    /\ Starts(m) /\ Known(m)
    /\ ClassOf(m) \in Class
    /\ Limited(ClassOf(m))
    /\ Deny(m, "rate_limited")

(* Mutant: the bucket is charged whether or not it has a cell to give.     *)
ChargeUnchecked(m) ==
    IF ClassOf(m) \in Class
    THEN /\ tat' = [tat EXCEPT ![ClassOf(m)] = Later(@, now) + Interval(ClassOf(m))]
         /\ admitted' = [admitted EXCEPT ![ClassOf(m)] = @ + 1]
         /\ UNCHANGED <<now, mark>>
    ELSE UNCHANGED limiterVars

Charge(m) ==
    IF ClassOf(m) \in Class THEN Admitted(ClassOf(m)) ELSE UNCHANGED limiterVars

(* The limiter comes first: a command the freeze refuses has been charged. *)
DenyFrozen(m) ==
    /\ Starts(m) /\ Known(m)
    /\ ~Thawed /\ m \notin FrozenSafe
    /\ Charge(m)
    /\ Deny(m, "frozen")

(* Mutant: only the state Frozen closes the gate.                          *)
AllowUnlessFrozen(m) ==
    /\ Starts(m) /\ Known(m)
    /\ state # "Frozen" \/ m \in FrozenSafe
    /\ Charge(m)
    /\ UNCHANGED refused

Allow(m) ==
    /\ Starts(m) /\ Known(m)
    /\ Thawed \/ m \in FrozenSafe
    /\ Charge(m)
    /\ UNCHANGED refused

-----------------------------------------------------------------------------
(* Handlers, each from the gates to its first await, and what follows.     *)

others == <<limiterVars, down, refused>>

(* Arguments that do not parse, or a command that is answered from memory. *)
AtOnce(m) ==
    /\ Allow(m)
    /\ UNCHANGED <<lane, coreVars, walkVars, down>>

Due == watchdog.armed /\ (now >= watchdog.hard \/ now >= watchdog.idle)

(* A heartbeat only while Frozen, and only if the watchdog is there.       *)
Status(m) ==
    /\ m = "guest-fsfreeze-status"
    /\ Allow(m)
    /\ state = "Frozen" /\ watchdog.armed
    /\ watchdog' = [watchdog EXCEPT !.refresh = TRUE]
    /\ beatAt' = IF Due THEN beatAt ELSE now
    /\ UNCHANGED <<lane, state, frozenAt, walkVars, down>>

Freeze(m) ==
    /\ m \in FreezeMethods
    /\ Allow(m)
    /\ Thawed
    /\ state' = "Freezing"
    /\ Runs(m, "awaiting", 0)
    /\ UNCHANGED <<watchdog, frozenAt, beatAt, walkVars, down>>

(* commit_abort: the freeze becomes a thaw, its request is answered, and   *)
(* the operation goes on to recover what it froze.                         *)
FreezeAborted ==
    /\ At("freeze", "awaiting") /\ state = "Freezing"
    /\ state' = "Thawing" /\ watchdog' = NoWatchdog
    /\ Answer("freeze")
    /\ UNCHANGED <<others, frozenAt, beatAt, walkVars>>

Arm ==
    /\ watchdog' = [armed |-> TRUE, hard |-> now + Max, idle |-> now + Idle,
                    refresh |-> FALSE]
    /\ frozenAt' = now /\ beatAt' = now

(* The operation, or the drain, publishes its outcome and answers who      *)
(* awaits it.                                                              *)
Settles(from, l) ==
    /\ ~down /\ state = from
    /\ \/ state' = "Frozen" /\ Arm
       \/ state' = "Thawed" /\ UNCHANGED <<watchdog, frozenAt, beatAt>>
    /\ IF lane[l].at = "awaiting" THEN Answer(l) ELSE UNCHANGED lane
    /\ UNCHANGED <<others, walkVars>>

FreezeSettles == Settles("Freezing", "freeze")

ThawSettles == Settles("Thawing", "thaw_or_ordinary")

(* claim_thaw from a terminal state; the hook cancels the watchdog.        *)
ClaimThaw ==
    /\ state \in {"Thawed", "Frozen"}
    /\ state' = "Thawing"
    /\ watchdog' = NoWatchdog

(* From a terminal state the thaw drains.  A drain in progress refuses it; *)
(* a freeze in progress it aborts, and is answered at once (AtOnce) unless *)
(* the freeze has committed: then it waits for the settlement.             *)
Thaw(m) ==
    /\ m = "guest-fsfreeze-thaw"
    /\ Allow(m)
    /\ \/ ClaimThaw /\ Runs(m, "awaiting", 0)
       \/ state = "Freezing" /\ Runs(m, "joining", 0) /\ UNCHANGED <<state, watchdog>>
    /\ UNCHANGED <<frozenAt, beatAt, walkVars, down>>

ThawJoined(l) ==
    /\ At(l, "joining")
    /\ \/ ClaimThaw /\ Goto(l, "awaiting")
       \/ state = "Thawing" /\ Answer(l) /\ UNCHANGED <<state, watchdog>>
    /\ UNCHANGED <<others, frozenAt, beatAt, walkVars>>

(* fsinfo: the slot goes to the walk, and comes back when the walk ends.   *)
(* Without a slot the request is refused at once (AtOnce).                 *)
FsInfo(m) ==
    /\ m = "guest-get-fsinfo"
    /\ Allow(m)
    /\ slots > 0
    /\ slots' = slots - 1
    /\ Runs(m, "walking", now + FSINFO_TIMEOUT)
    /\ UNCHANGED <<coreVars, abandoned, down>>

WalkReturns(l) ==
    /\ At(l, "walking")
    /\ Answer(l)
    /\ slots' = slots + 1
    /\ UNCHANGED <<others, coreVars, abandoned>>

(* Mutant: the request takes the slot with it when it gives up.            *)
WalkTimesOutReleasing(l) ==
    /\ At(l, "walking") /\ now >= lane[l].until
    /\ Answer(l)
    /\ abandoned' = abandoned + 1
    /\ slots' = slots + 1
    /\ UNCHANGED <<others, coreVars>>

WalkTimesOut(l) ==
    /\ At(l, "walking") /\ now >= lane[l].until
    /\ Answer(l)
    /\ abandoned' = abandoned + 1
    /\ UNCHANGED <<others, coreVars, slots>>

AbandonedReturns ==
    /\ ~down /\ abandoned > 0
    /\ abandoned' = abandoned - 1
    /\ slots' = slots + 1
    /\ UNCHANGED <<others, lane, coreVars>>

(* The commands that read the system without an await are answered in the  *)
(* poll that starts them.                                                  *)
OsInfo(m) == m = "guest-get-osinfo" /\ AtOnce(m)

Interfaces(m) == m = "guest-network-get-interfaces" /\ AtOnce(m)

(* One blocking task, then the answer.                                     *)
SpawnBlocking(m) ==
    /\ Allow(m)
    /\ Runs(m, "blocking", 0)
    /\ UNCHANGED <<coreVars, walkVars, down>>

Trim(m) == m = "guest-fstrim" /\ SpawnBlocking(m)

Suspend(m) == m = "guest-suspend-ram" /\ SpawnBlocking(m)

BlockingEnds(l) ==
    /\ At(l, "blocking")
    /\ Answer(l)
    /\ UNCHANGED <<others, coreVars, walkVars>>

(* shutdown: the audit record is given its grace, then sync and reboot,    *)
(* which returns only if it fails.                                         *)
Shutdown(m) ==
    /\ m = "guest-shutdown"
    /\ Allow(m)
    /\ Runs(m, "settling", 0)
    /\ UNCHANGED <<coreVars, walkVars, down>>

Reboot(l) ==
    /\ At(l, "settling")
    /\ \/ down' = TRUE /\ UNCHANGED lane
       \/ UNCHANGED down /\ Answer(l)
    /\ UNCHANGED <<limiterVars, refused, coreVars, walkVars>>

-----------------------------------------------------------------------------
(* The watchdog: a cancel, the two deadlines and a refresh, in this order. *)
(* A cancelled watchdog is no longer in the slot, here NoWatchdog.         *)

Expire ==
    /\ ~down /\ Due
    /\ watchdog' = NoWatchdog
    /\ state' = IF state = "Frozen" THEN "Thawing" ELSE state
    /\ UNCHANGED <<others, lane, frozenAt, beatAt, walkVars>>

(* Mutants: a heartbeat that extends the cap as well, or nothing.          *)
RefreshBoth ==
    /\ ~down /\ watchdog.refresh /\ ~Due
    /\ watchdog' = [watchdog EXCEPT !.refresh = FALSE, !.idle = now + Idle,
                                    !.hard = now + Max]
    /\ UNCHANGED <<others, lane, state, frozenAt, beatAt, walkVars>>

RefreshNothing ==
    /\ ~down /\ watchdog.refresh /\ ~Due
    /\ watchdog' = [watchdog EXCEPT !.refresh = FALSE]
    /\ UNCHANGED <<others, lane, state, frozenAt, beatAt, walkVars>>

Refresh ==
    /\ ~down /\ watchdog.refresh /\ ~Due
    /\ watchdog' = [watchdog EXCEPT !.refresh = FALSE, !.idle = now + Idle]
    /\ UNCHANGED <<others, lane, state, frozenAt, beatAt, walkVars>>

(* Timers are punctual: time does not pass over one that is due, nor over  *)
(* a notified refresh.  What a watchdog does that was cancelled after its  *)
(* deadline, and what lies between the publication of Frozen and the       *)
(* arming, is in FreezeCoordinator.                                        *)
Tick ==
    /\ ~down /\ ~Due /\ ~watchdog.refresh
    /\ ~ \E l \in Lanes : lane[l].at = "walking" /\ now >= lane[l].until
    /\ Elapse
    /\ UNCHANGED <<lane, coreVars, walkVars, down, refused>>

(* History alone: the window that is watched begins now.                   *)
Window ==
    /\ Watch
    /\ UNCHANGED <<lane, coreVars, walkVars, down, refused>>

Request(m) ==
    \/ DenyUnknown(m) \/ DenyLimited(m) \/ DenyFrozen(m) \/ AtOnce(m)
    \/ Status(m) \/ Freeze(m) \/ Thaw(m) \/ FsInfo(m) \/ OsInfo(m) \/ Interfaces(m)
    \/ Trim(m) \/ Suspend(m) \/ Shutdown(m)

Continue(l) ==
    \/ ThawJoined(l) \/ WalkReturns(l) \/ WalkTimesOut(l) \/ BlockingEnds(l)
    \/ Reboot(l)

Next ==
    \/ \E m \in Methods : Request(m)
    \/ \E l \in Lanes : Continue(l)
    \/ FreezeAborted \/ FreezeSettles \/ ThawSettles \/ AbandonedReturns
    \/ Expire \/ Refresh \/ Tick \/ Window

Spec == Init /\ [][Next]_vars

-----------------------------------------------------------------------------
Phases == {"vacant", "awaiting", "joining", "walking", "blocking", "settling"}

Walking == Cardinality({l \in Lanes : lane[l].at = "walking"})

(* Types and ranges of all that the dispatcher and its handlers share.     *)
TypeOK ==
    /\ LimiterTypeOK
    /\ lane \in [Lanes -> [method : Methods \cup {"none"}, at : Phases, until : Nat]]
    /\ state \in {"Thawed", "Freezing", "Frozen", "Thawing"}
    /\ watchdog \in [armed : BOOLEAN, hard : Nat, idle : Nat, refresh : BOOLEAN]
    /\ slots \in 0 .. MAX_FSINFO_WALKS /\ abandoned \in Nat
    /\ down \in BOOLEAN
    /\ refused \subseteq FrozenSafe \X {"unknown", "rate_limited", "frozen"}
    /\ {frozenAt, beatAt} \subseteq Nat

(* The gate closes before a freeze begins and lanes keep the two apart:    *)
(* no ordinary handler (a walk, a trim, a shutdown, a suspend) is at work  *)
(* while a freeze or a thaw is in progress or the guest is frozen.         *)
OrdinaryWhileThawed ==
    \A l \in Lanes :
        ~Free(l) /\ Kind(lane[l].method) = "Ordinary" => Thawed

(* However many walks hang and however many requests give up on them, a    *)
(* permit is held by every walk that is alive, with or without a request,  *)
(* and none is lost: the walks never fill the blocking pool, and fsinfo is *)
(* served again once they have returned.                                   *)
WalksBounded == slots + abandoned + Walking = MAX_FSINFO_WALKS

(* Status and thaw get through whatever was sent before them and whatever  *)
(* state the guest is in; another frozen-safe command is refused only by   *)
(* its own bucket.                                                         *)
ControlsGetThrough ==
    \A d \in refused :
        /\ d[2] = "rate_limited"
        /\ d[1] \notin {"guest-fsfreeze-status", "guest-fsfreeze-thaw"}

(* The gates tell the two kinds of command apart in every state: what may     *)
(* change the guest waits for Thawed, what recovers it is let through.        *)
GatesSound == TypeOK /\ OrdinaryWhileThawed /\ ControlsGetThrough

(* Heartbeats extend the idle deadline and never the cap: Frozen does not  *)
(* last longer than Max without a decision of the watchdog or the host.    *)
FrozenBounded == state = "Frozen" => watchdog.armed /\ now <= frozenAt + Max
CapKept == [][FrozenBounded']_vars

(* The watchdog thaws only at the cap, or when no heartbeat has come for   *)
(* the idle timeout: one that was answered before the deadline counts.     *)
HeartbeatKeeps ==
    [][state = "Frozen" /\ state' = "Thawing" /\ lane' = lane
          => now >= frozenAt + Max \/ now >= beatAt + Idle]_vars

(* The two timeouts of a frozen guest: never longer than the cap, and never   *)
(* shorter than its heartbeats allow.                                         *)
WatchdogTimed == CapKept /\ HeartbeatKeeps

(* What makes them inductive: which lane a handler may be in at each of    *)
(* its awaits, and what the deadlines of an armed watchdog stand for. A    *)
(* refresh that is still to come was asked for before the deadline, and no *)
(* time has passed since.                                                  *)
LaneInv ==
    /\ LET r == lane["freeze"] IN
        \/ r = Vacant
        \/ r.at = "awaiting" /\ r.method \in FreezeMethods
    /\ LET r == lane["thaw_or_ordinary"] IN
        \/ r = Vacant
        \/ r.at \in {"awaiting", "joining"} /\ r.method = "guest-fsfreeze-thaw"
        \/ r.at \in {"walking", "blocking", "settling"} /\ Kind(r.method) = "Ordinary"

WatchInv ==
    watchdog.armed =>
        /\ watchdog.hard = frozenAt + Max
        /\ watchdog.idle = beatAt + Idle \/ (watchdog.refresh /\ ~Due)
        /\ watchdog.refresh /\ ~Due => beatAt = now

=============================================================================
