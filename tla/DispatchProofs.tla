--------------------------- MODULE DispatchProofs ---------------------------
(***************************************************************************)
(* The rate limit for every set of classes, all quotas and every clock.    *)
(* The dispatcher for every set of methods, features, classes and quotas,  *)
(* any number of walks and all timeouts: it uses the limiter as the        *)
(* limiter is specified, its gates and lanes keep ordinary commands and    *)
(* freezes apart, no walk's permit is lost, and the watchdog is on time.   *)
(***************************************************************************)
EXTENDS Dispatch, FiniteSetTheorems, TLAPS

(* Burst and interval of a class are natural numbers, the burst at least 1. *)
LEMMA BucketTypes ==
    ASSUME NEW c \in Class
    PROVE  Burst(c) \in Nat /\ Burst(c) >= 1 /\ Interval(c) \in Nat
<1>1. Burst(c) \in Nat /\ Burst(c) >= 1
  BY QuotaAssumption DEF Burst
<1>2. Minute \in Nat
  BY QuotaAssumption
<1>3. Interval(c) \in Nat
  BY <1>1, <1>2 DEF Interval
<1> QED
  BY <1>1, <1>3

(* One factor more. *)
LEMMA OneMore ==
    ASSUME NEW n \in Int, NEW i \in Int
    PROVE  (n + 1) * i = n * i + i /\ (n - 1) * i = n * i - i /\ n * i \in Int
           /\ 0 * i = 0
  OBVIOUS

(* The initial buckets. *)
LEMMA LimiterInitially == LimiterInit => LimiterTypeOK /\ BucketInv
<1> SUFFICES ASSUME LimiterInit PROVE LimiterTypeOK /\ BucketInv
  OBVIOUS
<1>1. LimiterTypeOK
  BY DEF LimiterInit, LimiterTypeOK
<1>2. ASSUME NEW c \in Class
      PROVE  tat[c] <= now + Burst(c) * Interval(c) /\ ~(admitted[c] > 0)
  <2>1. Burst(c) * Interval(c) \in Nat
    BY BucketTypes
  <2> QED
    BY <2>1 DEF LimiterInit
<1> QED
  BY <1>1, <1>2 DEF BucketInv

(* Every step of the limiter keeps the buckets within their bounds. *)
LEMMA LimiterStep ==
    LimiterTypeOK /\ BucketInv /\ [LimiterNext]_limiterVars
        => LimiterTypeOK' /\ BucketInv'
<1> SUFFICES ASSUME LimiterTypeOK, BucketInv, [LimiterNext]_limiterVars
             PROVE  LimiterTypeOK' /\ BucketInv'
  OBVIOUS
<1>1. CASE Elapse
  <2>1. LimiterTypeOK'
    BY <1>1 DEF Elapse, LimiterTypeOK
  <2>2. ASSUME NEW c \in Class
        PROVE  /\ tat'[c] <= now' + Burst(c) * Interval(c)
               /\ admitted'[c] > 0 => tat'[c] >= mark' + admitted'[c] * Interval(c)
    <3>1. Burst(c) * Interval(c) \in Nat
      BY BucketTypes
    <3>2. tat[c] <= now + Burst(c) * Interval(c)
      BY DEF BucketInv
    <3>3. admitted[c] > 0 => tat[c] >= mark + admitted[c] * Interval(c)
      BY DEF BucketInv
    <3>4. tat'[c] = tat[c] /\ admitted'[c] = admitted[c] /\ mark' = mark /\ now' = now + 1
      BY <1>1 DEF Elapse
    <3>5. tat[c] \in Nat /\ now \in Nat
      BY DEF LimiterTypeOK
    <3> QED
      BY <3>1, <3>2, <3>3, <3>4, <3>5
  <2> QED
    BY <2>1, <2>2 DEF BucketInv
<1>2. CASE Watch
  <2>1. LimiterTypeOK'
    BY <1>2 DEF Watch, LimiterTypeOK
  <2>2. ASSUME NEW c \in Class
        PROVE  tat'[c] <= now' + Burst(c) * Interval(c) /\ ~(admitted'[c] > 0)
    BY <1>2, <2>2 DEF Watch, BucketInv
  <2> QED
    BY <2>1, <2>2 DEF BucketInv
<1>3. ASSUME NEW k \in Class, Admitted(k)
      PROVE  LimiterTypeOK' /\ BucketInv'
  <2> DEFINE i == Interval(k)
             b == Burst(k)
  <2>1. b \in Nat /\ b >= 1 /\ i \in Nat
    BY BucketTypes
  <2>2. b * i \in Nat /\ (b - 1) * i = b * i - i
    BY <2>1, OneMore
  <2>3. tat[k] \in Nat /\ now \in Nat /\ mark \in Nat /\ mark <= now /\ admitted[k] \in Nat
    BY DEF LimiterTypeOK
  <2>4. now >= tat[k] - (b - 1) * i
    BY <1>3 DEF Admitted, Conforms
  <2>5. tat'[k] = Later(tat[k], now) + i /\ admitted'[k] = admitted[k] + 1
        /\ now' = now /\ mark' = mark
    BY <1>3 DEF Admitted, LimiterTypeOK
  <2>6. Later(tat[k], now) \in Nat /\ Later(tat[k], now) >= tat[k] /\ Later(tat[k], now) >= now
        /\ Later(tat[k], now) \in {tat[k], now}
    BY <2>3 DEF Later
  <2>7. LimiterTypeOK'
    BY <1>3, <2>1, <2>6 DEF Admitted, LimiterTypeOK
  <2>8. i <= b * i
    <3>1. b - 1 \in Nat
      BY <2>1
    <3>2. (b - 1) * i \in Nat
      BY <2>1, <3>1
    <3> HIDE DEF i, b
    <3> QED
      BY <2>1, <2>2, <3>2
  <2>9. tat'[k] <= now' + b * i
    <3> HIDE DEF i, b
    <3>1. CASE Later(tat[k], now) = tat[k]
      BY <2>1, <2>2, <2>3, <2>4, <2>5, <3>1
    <3>2. CASE Later(tat[k], now) = now
      BY <2>1, <2>2, <2>3, <2>5, <2>8, <3>2
    <3> QED
      BY <2>6, <3>1, <3>2
  <2>10. tat'[k] >= mark' + admitted'[k] * i
    <3> HIDE DEF i, b
    <3>1. (admitted[k] + 1) * i = admitted[k] * i + i /\ admitted[k] * i \in Int /\ 0 * i = 0
      BY <2>1, <2>3, OneMore
    <3>2. CASE admitted[k] > 0
      <4>1. tat[k] >= mark + admitted[k] * i
        BY <3>2 DEF BucketInv, i
      <4> QED
        BY <2>1, <2>3, <2>5, <2>6, <3>1, <4>1
    <3>3. CASE admitted[k] = 0
      BY <2>1, <2>3, <2>5, <2>6, <3>1, <3>3
    <3> QED
      BY <2>3, <3>2, <3>3
  <2>11. ASSUME NEW c \in Class, c # k
         PROVE  /\ tat'[c] <= now' + Burst(c) * Interval(c)
                /\ admitted'[c] > 0 => tat'[c] >= mark' + admitted'[c] * Interval(c)
    <3>1. tat'[c] = tat[c] /\ admitted'[c] = admitted[c] /\ now' = now /\ mark' = mark
      BY <1>3, <2>11 DEF Admitted, LimiterTypeOK
    <3> QED
      BY <3>1 DEF BucketInv
  <2> QED
    BY <2>7, <2>9, <2>10, <2>11 DEF BucketInv
<1>4. ASSUME NEW k \in Class, Limited(k)
      PROVE  LimiterTypeOK' /\ BucketInv'
  BY <1>4 DEF Limited, limiterVars, LimiterTypeOK, BucketInv
<1>5. CASE UNCHANGED limiterVars
  BY <1>5 DEF limiterVars, LimiterTypeOK, BucketInv
<1> QED
  BY <1>1, <1>2, <1>3, <1>4, <1>5 DEF LimiterNext

(* The bounds on a bucket bound what a window admits. *)
LEMMA BucketBoundsRate == LimiterTypeOK /\ BucketInv => RateBound
<1> SUFFICES ASSUME LimiterTypeOK, BucketInv, NEW c \in Class
             PROVE  admitted[c] * Interval(c) <= (now - mark) + Burst(c) * Interval(c)
  BY Zenon DEF RateBound
<1>1. Burst(c) * Interval(c) \in Nat /\ Interval(c) \in Nat
  BY BucketTypes
<1>2. tat[c] \in Nat /\ now \in Nat /\ mark \in Nat /\ mark <= now /\ admitted[c] \in Nat
  BY DEF LimiterTypeOK
<1>3. admitted[c] * Interval(c) \in Int /\ 0 * Interval(c) = 0
  BY <1>1, <1>2, OneMore
<1>4. CASE admitted[c] > 0
  <2>1. tat[c] >= mark + admitted[c] * Interval(c)
    BY <1>4 DEF BucketInv
  <2>2. tat[c] <= now + Burst(c) * Interval(c)
    BY DEF BucketInv
  <2> QED
    BY <1>1, <1>2, <1>3, <2>1, <2>2
<1>5. CASE admitted[c] = 0
  BY <1>1, <1>2, <1>3, <1>5
<1> QED
  BY <1>2, <1>4, <1>5

(* In every window of time a class is admitted at most its quota and one   *)
(* command for every interval of the window (RateLimiter::check), whatever *)
(* the classes, the quotas and the order of requests.                      *)
THEOREM RateLimited == LimiterSpec => []RateBound
<1>1. LimiterInit => LimiterTypeOK /\ BucketInv
  BY LimiterInitially
<1>2. LimiterTypeOK /\ BucketInv /\ [LimiterNext]_limiterVars => (LimiterTypeOK /\ BucketInv)'
  BY LimiterStep
<1>3. LimiterTypeOK /\ BucketInv => RateBound
  BY BucketBoundsRate
<1> QED
  BY <1>1, <1>2, <1>3, PTL DEF LimiterSpec

-----------------------------------------------------------------------------
(* Charging a request is a step of the limiter, or none. *)
LEMMA ChargeIsLimiter ==
    ASSUME NEW m \in Methods, Charge(m)
    PROVE  [LimiterNext]_limiterVars
<1>1. CASE ClassOf(m) \in Class
  BY <1>1 DEF Charge, LimiterNext
<1>2. CASE ClassOf(m) \notin Class
  BY <1>2 DEF Charge
<1> QED
  BY <1>1, <1>2

(* The dispatcher moves the limiter only as the limiter itself may move. *)
LEMMA StepIsLimiter == [Next]_vars => [LimiterNext]_limiterVars
<1> SUFFICES ASSUME [Next]_vars PROVE [LimiterNext]_limiterVars
  OBVIOUS
<1>1. ASSUME NEW m \in Methods, Request(m) PROVE [LimiterNext]_limiterVars
  <2>1. CASE Charge(m)
    BY <2>1, ChargeIsLimiter
  <2>2. CASE DenyUnknown(m)
    BY <2>2 DEF DenyUnknown
  <2>3. CASE DenyLimited(m)
    BY <2>3 DEF DenyLimited, LimiterNext
  <2>4. CASE DenyFrozen(m)
    BY <2>1, <2>4 DEF DenyFrozen
  <2>5. CASE Allow(m)
    BY <2>1, <2>5 DEF Allow
  <2> QED
    BY <1>1, <2>2, <2>3, <2>4, <2>5
       DEF Request, AtOnce, Status, Freeze, Thaw, FsInfo, OsInfo, Interfaces, Trim,
           Suspend, SpawnBlocking, Shutdown
<1>2. ASSUME NEW l \in Lanes, Continue(l) PROVE UNCHANGED limiterVars
  BY <1>2 DEF Continue, ThawJoined, WalkReturns, WalkTimesOut, BlockingEnds, Reboot, others
<1>3. CASE FreezeAborted \/ FreezeSettles \/ ThawSettles \/ AbandonedReturns \/ Expire \/ Refresh
  BY <1>3 DEF FreezeAborted, FreezeSettles, ThawSettles, Settles, AbandonedReturns, Expire,
              Refresh, others
<1>4. CASE Tick
  BY <1>4 DEF Tick, LimiterNext
<1>5. CASE UNCHANGED vars
  BY <1>5 DEF vars
<1>6. CASE Window
  BY <1>6 DEF Window, LimiterNext
<1> QED
  BY <1>1, <1>2, <1>3, <1>4, <1>5, <1>6 DEF Next

(* The dispatcher implements the limiter: no path through the gates and no *)
(* handler takes a cell that the bucket did not grant (Dispatcher::gates). *)
THEOREM UsesLimiter == Spec => LimiterSpec
<1>1. Init => LimiterInit
  BY DEF Init
<1>2. [Next]_vars => [LimiterNext]_limiterVars
  BY StepIsLimiter
<1> QED
  BY <1>1, <1>2, PTL DEF Spec, LimiterSpec

(* The rate a class is held to, for commands that come through the gates   *)
(* in any order and any state (Dispatcher::gates, RateLimiter::check).     *)
THEOREM RequestsLimited == Spec => []RateBound
  BY UsesLimiter, RateLimited, PTL

-----------------------------------------------------------------------------
(* The inductive invariant. *)
DispatchInv ==
    /\ TypeOK /\ LaneInv /\ OrdinaryWhileThawed /\ ControlsGetThrough
    /\ WalksBounded /\ FrozenBounded /\ WatchInv /\ BucketInv

(* Its types, one by one. *)
LaneType == lane \in [Lanes -> [method : Methods \cup {"none"}, at : Phases, until : Nat]]
WatchType == watchdog \in [armed : BOOLEAN, hard : Nat, idle : Nat, refresh : BOOLEAN]
StateType == state \in {"Thawed", "Freezing", "Frozen", "Thawing"}
TimesType == {frozenAt, beatAt} \subseteq Nat
WalkType == slots \in 0 .. MAX_FSINFO_WALKS /\ abandoned \in Nat
RefusedType == refused \subseteq FrozenSafe \X {"unknown", "rate_limited", "frozen"}
DownType == down \in BOOLEAN

(* They make up the type invariant. *)
LEMMA TypeParts ==
    TypeOK <=> /\ LimiterTypeOK /\ LaneType /\ StateType /\ WatchType /\ WalkType
               /\ DownType /\ RefusedType /\ TimesType
  BY Zenon DEF TypeOK, LaneType, StateType, WatchType, WalkType, DownType, RefusedType, TimesType

(* The lanes and what occupies one. *)
LEMMA LaneFacts ==
    ASSUME NEW m
    PROVE  /\ Lanes = {"freeze", "thaw_or_ordinary"}
           /\ LaneOf(Kind(m)) \in Lanes
           /\ LaneOf(Kind(m)) = "freeze" <=> m \in FreezeMethods
           /\ Kind(m) = "Ordinary" => m \notin FrozenSafe
           /\ m \in FreezeMethods => Kind(m) = "Freeze"
           /\ Kind("guest-fsfreeze-thaw") = "Thaw"
           /\ Kind("guest-get-fsinfo") = "Ordinary" /\ Kind("guest-fstrim") = "Ordinary"
           /\ Kind("guest-suspend-ram") = "Ordinary" /\ Kind("guest-shutdown") = "Ordinary"
  BY DEF Lanes, LaneOf, Kind, FreezeMethods, FrozenSafe, Unparsed

(* Only the lane of thaws and ordinary commands walks. *)
LEMMA WalkingOne ==
    ASSUME NEW f, f["freeze"].at # "walking"
    PROVE  Cardinality({l \in Lanes : f[l].at = "walking"})
              = IF f["thaw_or_ordinary"].at = "walking" THEN 1 ELSE 0
<1> DEFINE W == {l \in Lanes : f[l].at = "walking"}
<1>1. CASE f["thaw_or_ordinary"].at = "walking"
  <2>1. W = {"thaw_or_ordinary"}
    BY <1>1 DEF Lanes
  <2> QED
    BY <1>1, <2>1, FS_Singleton
<1>2. CASE f["thaw_or_ordinary"].at # "walking"
  <2>1. W = {}
    BY <1>2 DEF Lanes
  <2> QED
    BY Zenon, <1>2, <2>1, FS_EmptySet
<1> QED
  BY <1>1, <1>2

(* So the walks with a request, now and after a step, are one or none. *)
LEMMA WalkingIs ==
    /\ LaneInv => Walking = IF lane["thaw_or_ordinary"].at = "walking" THEN 1 ELSE 0
    /\ LaneInv' => Walking' = IF lane'["thaw_or_ordinary"].at = "walking" THEN 1 ELSE 0
<1>1. LaneInv => lane["freeze"].at # "walking"
  BY DEF LaneInv, Vacant
<1>2. LaneInv' => lane'["freeze"].at # "walking"
  BY DEF LaneInv, Vacant
<1> QED
  BY Zenon, <1>1, <1>2, WalkingOne DEF Walking

(* It holds in the beginning. *)
LEMMA DispatchInitially == Init => DispatchInv
<1> SUFFICES ASSUME Init PROVE DispatchInv
  OBVIOUS
<1>1. LimiterTypeOK /\ BucketInv
  BY LimiterInitially DEF Init
<1>2. lane = [l \in Lanes |-> Vacant] /\ Lanes = {"freeze", "thaw_or_ordinary"}
  BY DEF Init, Lanes
<1>3. LaneInv
  BY <1>2 DEF LaneInv
<1>4. Walking = 0
  BY <1>2, <1>3, WalkingIs DEF Vacant
<1>5. TypeOK
  <2>1. LaneType
    BY <1>2 DEF LaneType, Vacant, Phases
  <2>2. WatchType
    BY DEF Init, WatchType, NoWatchdog
  <2>3. StateType /\ TimesType /\ RefusedType
    BY DEF Init, StateType, TimesType, RefusedType
  <2>4. WalkType
    BY DispatchAssumption DEF Init, WalkType
  <2>5. DownType
    BY Zenon DEF Init, DownType
  <2> QED
    BY <1>1, <2>1, <2>2, <2>3, <2>4, <2>5, TypeParts
<1>6. OrdinaryWhileThawed
  BY <1>2 DEF OrdinaryWhileThawed, Free
<1>7. ControlsGetThrough
  BY DEF Init, ControlsGetThrough
<1>8. WalksBounded
  BY <1>4, DispatchAssumption DEF Init, WalksBounded
<1>9. FrozenBounded /\ WatchInv
  BY DEF Init, FrozenBounded, WatchInv, NoWatchdog
<1> QED
  BY <1>1, <1>3, <1>5, <1>6, <1>7, <1>8, <1>9 DEF DispatchInv

-----------------------------------------------------------------------------
(* Lanes. *)
Ordinary == {"walking", "blocking", "settling"}

(* With the lanes in order, now and after a step, an ordinary command is   *)
(* one that is at the awaits of one.                                       *)
LEMMA OrdinaryIs ==
    /\ LaneInv => (OrdinaryWhileThawed
                      <=> (lane["thaw_or_ordinary"].at \in Ordinary => state = "Thawed"))
    /\ LaneInv' => (OrdinaryWhileThawed'
                      <=> (lane'["thaw_or_ordinary"].at \in Ordinary => state' = "Thawed"))
<1>1. ASSUME LaneInv
      PROVE  OrdinaryWhileThawed
                <=> (lane["thaw_or_ordinary"].at \in Ordinary => state = "Thawed")
  <2>1. ~Free("freeze") => Kind(lane["freeze"].method) = "Freeze"
    BY <1>1, LaneFacts DEF LaneInv, Free
  <2>2. ~Free("thaw_or_ordinary") /\ Kind(lane["thaw_or_ordinary"].method) = "Ordinary"
           <=> lane["thaw_or_ordinary"].at \in Ordinary
    BY <1>1, LaneFacts DEF LaneInv, Free, Vacant, Ordinary
  <2> QED
    BY <2>1, <2>2 DEF OrdinaryWhileThawed, Thawed, Lanes
<1>2. ASSUME LaneInv'
      PROVE  OrdinaryWhileThawed'
                <=> (lane'["thaw_or_ordinary"].at \in Ordinary => state' = "Thawed")
  <2>1. ~Free("freeze")' => Kind(lane'["freeze"].method) = "Freeze"
    BY <1>2, LaneFacts DEF LaneInv, Free
  <2>2. ~Free("thaw_or_ordinary")' /\ Kind(lane'["thaw_or_ordinary"].method) = "Ordinary"
           <=> lane'["thaw_or_ordinary"].at \in Ordinary
    BY <1>2, LaneFacts DEF LaneInv, Free, Vacant, Ordinary
  <2> QED
    BY <2>1, <2>2 DEF OrdinaryWhileThawed, Thawed, Lanes
<1> QED
  BY <1>1, <1>2

(* An allowed request that takes the lane of the freeze, or the other one. *)
LEMMA TakesLane ==
    ASSUME TypeOK, LaneInv, NEW m \in Methods, Allow(m),
           NEW phase \in Phases, NEW until \in Nat, Runs(m, phase, until),
           \/ m \in FreezeMethods /\ phase = "awaiting"
           \/ m = "guest-fsfreeze-thaw" /\ phase \in {"awaiting", "joining"}
           \/ Kind(m) = "Ordinary" /\ m \notin FrozenSafe /\ phase \in Ordinary
    PROVE  /\ LaneType' /\ LaneInv'
           /\ lane["thaw_or_ordinary"] = Vacant
           /\ lane'["thaw_or_ordinary"].at \in Ordinary
                 => state = "Thawed" /\ lane'["thaw_or_ordinary"].at = phase
           /\ lane'["thaw_or_ordinary"].at = "walking" => phase = "walking"
           /\ phase \in Ordinary => lane'["thaw_or_ordinary"].at = phase
           /\ lane' # lane
<1> DEFINE k == LaneOf(Kind(m))
           r == [method |-> m, at |-> phase, until |-> until]
<1>1. lane' = [lane EXCEPT ![k] = r] /\ k \in Lanes
  BY LaneFacts DEF Runs
<1>2. lane \in [Lanes -> [method : Methods \cup {"none"}, at : Phases, until : Nat]]
  BY TypeParts DEF LaneType
<1>3. r \in [method : Methods \cup {"none"}, at : Phases, until : Nat]
  OBVIOUS
<1>4. LaneType'
  <2> HIDE DEF r, k
  <2> QED
    BY <1>1, <1>2, <1>3 DEF LaneType
<1>5. lane'[k] = r /\ \A l \in Lanes : l # k => lane'[l] = lane[l]
  <2> HIDE DEF r, k
  <2> QED
    BY <1>1, <1>2
<1>6. MayStart(Kind(m)) /\ (Thawed \/ m \in FrozenSafe)
  BY DEF Allow, Starts
<1>7. Kind(m) \in {"Freeze", "Thaw", "Ordinary"}
  BY LaneFacts
<1>8. lane["thaw_or_ordinary"] = Vacant /\ (Kind(m) # "Thaw" => lane["freeze"] = Vacant)
  BY Zenon, <1>6, <1>7 DEF MayStart, Free
<1>9. r.at = phase /\ r.method = m /\ phase # "vacant"
  BY DEF Ordinary
<1>10. CASE m \in FreezeMethods
  <2>1. k = "freeze" /\ lane'["thaw_or_ordinary"] = Vacant /\ phase = "awaiting"
    BY <1>5, <1>8, <1>10, LaneFacts DEF FreezeMethods, Kind
  <2>2. LaneInv'
    BY <1>5, <1>9, <1>10, <2>1 DEF LaneInv
  <2>3. lane["freeze"] = Vacant
    BY <1>8, <1>10, LaneFacts
  <2>4. lane' # lane
    BY <1>5, <1>9, <2>1, <2>3 DEF Vacant
  <2> QED
    BY <1>4, <1>8, <2>1, <2>2, <2>4 DEF Vacant, Ordinary
<1>11. CASE m \notin FreezeMethods
  <2>1. k = "thaw_or_ordinary" /\ lane'["freeze"] = lane["freeze"]
        /\ lane'["thaw_or_ordinary"] = r
    BY <1>5, <1>11, LaneFacts DEF Lanes
  <2>2. LaneInv'
    BY <1>9, <1>11, <2>1 DEF LaneInv, Ordinary
  <2>3. lane' # lane
    BY <1>8, <1>9, <2>1 DEF Vacant
  <2>4. phase \in Ordinary => state = "Thawed"
    BY <1>6, <1>11, LaneFacts DEF Thawed, Ordinary, FrozenSafe
  <2> QED
    BY <1>4, <1>8, <1>9, <2>1, <2>2, <2>3, <2>4 DEF Ordinary
<1> QED
  BY <1>10, <1>11

(* A handler that has answered leaves its lane. *)
LEMMA LeavesLane ==
    ASSUME TypeOK, LaneInv, NEW l \in Lanes, Answer(l)
    PROVE  /\ LaneType' /\ LaneInv'
           /\ lane'[l] = Vacant /\ \A k \in Lanes : k # l => lane'[k] = lane[k]
           /\ lane'["thaw_or_ordinary"].at \in Ordinary
                 => lane'["thaw_or_ordinary"] = lane["thaw_or_ordinary"]
<1>1. lane \in [Lanes -> [method : Methods \cup {"none"}, at : Phases, until : Nat]]
  BY TypeParts DEF LaneType
<1>2. lane' = [lane EXCEPT ![l] = Vacant]
  BY DEF Answer
<1>3. lane'[l] = Vacant /\ \A k \in Lanes : k # l => lane'[k] = lane[k]
  BY <1>1, <1>2
<1>4. Vacant \in [method : Methods \cup {"none"}, at : Phases, until : Nat]
  BY DEF Vacant, Phases
<1>5. LaneType'
  BY <1>1, <1>2, <1>4 DEF LaneType
<1>6. LaneInv'
  BY <1>3 DEF LaneInv, Lanes
<1>7. "thaw_or_ordinary" \in Lanes /\ Vacant.at = "vacant"
  BY DEF Lanes, Vacant
<1> QED
  BY <1>3, <1>5, <1>6, <1>7 DEF Ordinary

-----------------------------------------------------------------------------
(* What a step that leaves something alone preserves. *)

(* A step that leaves the coordinator's state and the clock alone keeps    *)
(* what is known of the two. *)
LEMMA CoreSame ==
    ASSUME DispatchInv, UNCHANGED coreVars, now' = now
    PROVE  StateType' /\ WatchType' /\ TimesType' /\ FrozenBounded' /\ WatchInv'
<1>1. StateType /\ WatchType /\ TimesType /\ FrozenBounded /\ WatchInv
  BY TypeParts DEF DispatchInv
<1> QED
  BY <1>1 DEF coreVars, StateType, WatchType, TimesType, FrozenBounded, WatchInv, Due

(* A step that leaves the walk alone, and the lane in or out of it, keeps   *)
(* what is known of the walk. *)
LEMMA WalkSame ==
    ASSUME DispatchInv, LaneInv', UNCHANGED walkVars,
           lane'["thaw_or_ordinary"].at = "walking" <=> lane["thaw_or_ordinary"].at = "walking"
    PROVE  WalkType' /\ WalksBounded'
<1>1. Walking = IF lane["thaw_or_ordinary"].at = "walking" THEN 1 ELSE 0
  BY WalkingIs DEF DispatchInv
<1>2. Walking' = IF lane'["thaw_or_ordinary"].at = "walking" THEN 1 ELSE 0
  BY WalkingIs
<1>3. Walking' = Walking
  BY <1>1, <1>2
<1>4. WalkType /\ WalksBounded
  BY TypeParts DEF DispatchInv
<1> QED
  BY <1>3, <1>4 DEF WalkType, WalksBounded, walkVars

(* A step that admits an ordinary command only while thawed keeps ordinary *)
(* commands to that state. *)
LEMMA OrdinarySame ==
    ASSUME DispatchInv, LaneInv', state' = state,
           lane'["thaw_or_ordinary"].at \in Ordinary
              => lane["thaw_or_ordinary"].at \in Ordinary \/ state = "Thawed"
    PROVE  OrdinaryWhileThawed'
<1>1. lane["thaw_or_ordinary"].at \in Ordinary => state = "Thawed"
  BY OrdinaryIs DEF DispatchInv
<1>2. lane'["thaw_or_ordinary"].at \in Ordinary => state' = "Thawed"
  BY <1>1
<1>3. OrdinaryWhileThawed' <=> (lane'["thaw_or_ordinary"].at \in Ordinary => state' = "Thawed")
  BY OrdinaryIs
<1> QED
  BY <1>2, <1>3

(* A step that refuses nothing new keeps the controls getting through. *)
LEMMA RefusedSame ==
    ASSUME DispatchInv, UNCHANGED refused
    PROVE  RefusedType' /\ ControlsGetThrough'
  BY TypeParts DEF DispatchInv, RefusedType, ControlsGetThrough

(* A step that takes nothing down keeps the type of what is down. *)
LEMMA DownSame ==
    ASSUME DispatchInv, UNCHANGED down
    PROVE  DownType'
<1>1. DownType
  BY TypeParts DEF DispatchInv
<1> QED
  BY <1>1, Zenon DEF DownType

(* A step that leaves the lanes alone keeps what is known of them. *)
LEMMA LaneSame ==
    ASSUME DispatchInv, UNCHANGED lane
    PROVE  LaneType' /\ LaneInv'
  BY TypeParts DEF DispatchInv, LaneType, LaneInv

(* All of the invariant but the limiter's. *)
Others == /\ LaneType /\ StateType /\ WatchType /\ WalkType /\ DownType /\ RefusedType
          /\ TimesType /\ LaneInv /\ OrdinaryWhileThawed /\ ControlsGetThrough
          /\ WalksBounded /\ FrozenBounded /\ WatchInv

(* Charging takes no time. *)
LEMMA ChargeAtOnce ==
    ASSUME NEW m, Charge(m)
    PROVE  now' = now
  BY DEF Charge, Admitted, limiterVars

(* A request that is denied, whatever gate denies it. *)
LEMMA DenyStep ==
    ASSUME DispatchInv, NEW m \in Methods,
           DenyUnknown(m) \/ DenyLimited(m) \/ DenyFrozen(m)
    PROVE  Others'
<1>1. UNCHANGED <<lane, coreVars, walkVars, down>> /\ now' = now
  BY ChargeAtOnce DEF DenyUnknown, DenyLimited, DenyFrozen, Deny, Limited, limiterVars
<1>2. LaneType' /\ LaneInv' /\ StateType' /\ WatchType' /\ TimesType' /\ FrozenBounded' /\ WatchInv'
      /\ DownType'
  BY <1>1, LaneSame, CoreSame, DownSame
<1>3. WalkType' /\ WalksBounded' /\ OrdinaryWhileThawed'
  BY <1>1, <1>2, WalkSame, OrdinarySame DEF coreVars
<1>4. RefusedType /\ ControlsGetThrough
  BY TypeParts DEF DispatchInv
<1>5. RefusedType' /\ ControlsGetThrough'
  <2>1. CASE DenyUnknown(m)
    <3>1. m \notin FrozenSafe
      BY <2>1 DEF DenyUnknown, Known, Allowlisted, Features, FrozenSafe, Information
    <3>2. refused' = refused
      BY <2>1, <3>1 DEF DenyUnknown, Deny
    <3> QED
      BY <3>2, RefusedSame
  <2>2. CASE DenyFrozen(m)
    <3>1. m \notin FrozenSafe
      BY <2>2 DEF DenyFrozen
    <3>2. refused' = refused
      BY <2>2, <3>1 DEF DenyFrozen, Deny
    <3> QED
      BY <3>2, RefusedSame
  <2>3. CASE DenyLimited(m)
    <3>1. m \notin {"guest-fsfreeze-status", "guest-fsfreeze-thaw"}
      BY <2>3, DispatchAssumption DEF DenyLimited, ClassOf, Information, FreezeMethods
    <3>2. refused' = refused \cup ({m} \cap FrozenSafe) \X {"rate_limited"}
      BY <2>3 DEF DenyLimited, Deny
    <3>3. \A d \in refused' : d \in refused \/ (d[1] = m /\ d[2] = "rate_limited")
      BY <3>2
    <3>4. ControlsGetThrough'
      BY <1>4, <3>1, <3>3 DEF ControlsGetThrough
    <3>5. RefusedType'
      BY <1>4, <3>2 DEF RefusedType
    <3> QED
      BY <3>4, <3>5
  <2> QED
    BY <2>1, <2>2, <2>3
<1> QED
  BY <1>2, <1>3, <1>5 DEF Others

(* An allowed request answered in the poll that starts it. *)
LEMMA AtOnceStep ==
    ASSUME DispatchInv, NEW m \in Methods, AtOnce(m)
    PROVE  Others'
<1>1. UNCHANGED <<lane, coreVars, walkVars, down, refused>> /\ now' = now
  BY ChargeAtOnce DEF AtOnce, Allow
<1>2. LaneType' /\ LaneInv' /\ StateType' /\ WatchType' /\ TimesType' /\ FrozenBounded' /\ WatchInv'
      /\ DownType' /\ RefusedType' /\ ControlsGetThrough'
  BY <1>1, LaneSame, CoreSame, DownSame, RefusedSame
<1>3. WalkType' /\ WalksBounded' /\ OrdinaryWhileThawed'
  BY <1>1, <1>2, WalkSame, OrdinarySame DEF coreVars
<1> QED
  BY <1>2, <1>3 DEF Others

(* A heartbeat counts if it came before the deadline. *)
LEMMA StatusStep ==
    ASSUME DispatchInv, NEW m \in Methods, Status(m)
    PROVE  Others'
<1>1. UNCHANGED <<lane, walkVars, down, refused, state, frozenAt>> /\ now' = now
  BY ChargeAtOnce DEF Status, Allow
<1>2. LaneType' /\ LaneInv' /\ DownType' /\ RefusedType' /\ ControlsGetThrough'
  BY <1>1, LaneSame, DownSame, RefusedSame
<1>3. WalkType' /\ WalksBounded' /\ OrdinaryWhileThawed'
  BY <1>1, <1>2, WalkSame, OrdinarySame
<1>4. StateType /\ WatchType /\ TimesType /\ FrozenBounded /\ WatchInv /\ now \in Nat
  BY TypeParts DEF DispatchInv, LimiterTypeOK
<1>5. watchdog.armed /\ watchdog' = [watchdog EXCEPT !.refresh = TRUE]
      /\ beatAt' = IF Due THEN beatAt ELSE now
  BY DEF Status
<1>6. WatchType' /\ StateType' /\ TimesType'
  BY Zenon, <1>1, <1>4, <1>5 DEF WatchType, StateType, TimesType
<1>7. watchdog'.armed = watchdog.armed /\ watchdog'.hard = watchdog.hard
      /\ watchdog'.idle = watchdog.idle /\ watchdog'.refresh
  BY Zenon, <1>4, <1>5 DEF WatchType
<1>8. Due' <=> Due
  BY <1>1, <1>7 DEF Due
<1>9. FrozenBounded'
  BY <1>1, <1>4, <1>7 DEF FrozenBounded
<1>10. WatchInv'
  BY <1>1, <1>4, <1>5, <1>7, <1>8 DEF WatchInv
<1> QED
  BY <1>2, <1>3, <1>6, <1>9, <1>10 DEF Others

(* The watchdog is left alone or cancelled; the guest is not frozen. *)
LEMMA WatchSame ==
    ASSUME DispatchInv, UNCHANGED <<frozenAt, beatAt>>, now' = now,
           watchdog' = watchdog \/ watchdog' = NoWatchdog
    PROVE  WatchType' /\ TimesType' /\ WatchInv'
<1>1. WatchType /\ TimesType /\ WatchInv
  BY TypeParts DEF DispatchInv
<1>2. CASE watchdog' = watchdog
  BY <1>1, <1>2 DEF WatchType, TimesType, WatchInv, Due
<1>3. CASE watchdog' = NoWatchdog
  BY <1>1, <1>3 DEF WatchType, TimesType, WatchInv, NoWatchdog
<1> QED
  BY <1>2, <1>3

(* The lane of ordinary commands holds none after the step. *)
LEMMA NoOrdinary ==
    ASSUME LaneInv', lane'["thaw_or_ordinary"].at \notin Ordinary
    PROVE  OrdinaryWhileThawed'
  BY OrdinaryIs

(* A freeze that the gates let through. *)
LEMMA FreezeStep ==
    ASSUME DispatchInv, NEW m \in Methods, Freeze(m)
    PROVE  Others'
<1>1. UNCHANGED <<watchdog, frozenAt, beatAt, walkVars, down, refused>> /\ now' = now
      /\ state' = "Freezing" /\ Allow(m) /\ m \in FreezeMethods /\ Runs(m, "awaiting", 0)
  BY ChargeAtOnce DEF Freeze, Allow
<1>2. TypeOK /\ LaneInv /\ "awaiting" \in Phases /\ 0 \in Nat
  BY Zenon DEF DispatchInv, Phases
<1>3. /\ LaneType' /\ LaneInv' /\ lane["thaw_or_ordinary"] = Vacant
      /\ lane'["thaw_or_ordinary"].at \in Ordinary => lane'["thaw_or_ordinary"].at = "awaiting"
  BY Zenon, <1>1, <1>2, TakesLane
<1>4. lane'["thaw_or_ordinary"].at \notin Ordinary /\ lane["thaw_or_ordinary"].at \notin Ordinary
  BY <1>3 DEF Ordinary, Vacant
<1>5. WalkType' /\ WalksBounded' /\ OrdinaryWhileThawed' /\ DownType' /\ RefusedType'
      /\ ControlsGetThrough' /\ WatchType' /\ TimesType' /\ WatchInv'
  BY <1>1, <1>3, <1>4, WalkSame, NoOrdinary, DownSame, RefusedSame, WatchSame DEF Ordinary
<1>6. StateType' /\ FrozenBounded'
  BY <1>1 DEF StateType, FrozenBounded
<1> QED
  BY <1>3, <1>5, <1>6 DEF Others

(* A thaw that claims the guest, or that joins the freeze in progress. *)
LEMMA ThawStep ==
    ASSUME DispatchInv, NEW m \in Methods, Thaw(m)
    PROVE  Others'
<1>1. UNCHANGED <<frozenAt, beatAt, walkVars, down, refused>> /\ now' = now
      /\ Allow(m) /\ m = "guest-fsfreeze-thaw"
  BY ChargeAtOnce DEF Thaw, Allow
<1>2. PICK phase \in {"awaiting", "joining"} : Runs(m, phase, 0)
  BY DEF Thaw
<1>3. (watchdog' = watchdog \/ watchdog' = NoWatchdog) /\ state' \in {"Thawing", "Freezing"}
  BY DEF Thaw, ClaimThaw
<1>4. TypeOK /\ LaneInv /\ phase \in Phases /\ 0 \in Nat
  BY <1>2 DEF DispatchInv, Phases
<1>5. /\ LaneType' /\ LaneInv' /\ lane["thaw_or_ordinary"] = Vacant
      /\ lane'["thaw_or_ordinary"].at \in Ordinary => lane'["thaw_or_ordinary"].at = phase
  BY <1>1, <1>2, <1>4, TakesLane
<1>6. lane'["thaw_or_ordinary"].at \notin Ordinary /\ lane["thaw_or_ordinary"].at \notin Ordinary
  BY <1>2, <1>5 DEF Ordinary, Vacant
<1>7. WalkType' /\ WalksBounded' /\ OrdinaryWhileThawed' /\ DownType' /\ RefusedType'
      /\ ControlsGetThrough' /\ WatchType' /\ TimesType' /\ WatchInv'
  BY <1>1, <1>3, <1>5, <1>6, WalkSame, NoOrdinary, DownSame, RefusedSame, WatchSame DEF Ordinary
<1>8. StateType' /\ FrozenBounded'
  BY <1>3 DEF StateType, FrozenBounded
<1> QED
  BY <1>5, <1>7, <1>8 DEF Others

(* An fsinfo request whose walk gets a permit. *)
LEMMA FsInfoStep ==
    ASSUME DispatchInv, NEW m \in Methods, FsInfo(m)
    PROVE  Others'
<1>1. UNCHANGED <<coreVars, abandoned, down, refused>> /\ now' = now
      /\ Allow(m) /\ m = "guest-get-fsinfo" /\ Runs(m, "walking", now + FSINFO_TIMEOUT)
      /\ slots > 0 /\ slots' = slots - 1
  BY ChargeAtOnce DEF FsInfo, Allow
<1>2. TypeOK /\ LaneInv /\ "walking" \in Phases /\ now + FSINFO_TIMEOUT \in Nat
  BY DispatchAssumption, TypeParts DEF DispatchInv, Phases, LimiterTypeOK
<1>3. Kind(m) = "Ordinary" /\ m \notin FrozenSafe /\ "walking" \in Ordinary
  BY <1>1, LaneFacts DEF Ordinary
<1>4. /\ LaneType' /\ LaneInv' /\ lane["thaw_or_ordinary"] = Vacant
      /\ state = "Thawed" /\ lane'["thaw_or_ordinary"].at = "walking"
  BY <1>1, <1>2, <1>3, TakesLane
<1>5. StateType' /\ WatchType' /\ TimesType' /\ FrozenBounded' /\ WatchInv'
      /\ DownType' /\ RefusedType' /\ ControlsGetThrough' /\ OrdinaryWhileThawed'
  BY Zenon, <1>1, <1>4, CoreSame, DownSame, RefusedSame, OrdinarySame DEF coreVars
<1>6. Walking = 0 /\ Walking' = 1
  BY <1>2, <1>4, WalkingIs DEF Vacant
<1>7. WalkType /\ WalksBounded
  BY TypeParts DEF DispatchInv
<1>8. WalkType' /\ WalksBounded'
  BY <1>1, <1>6, <1>7, DispatchAssumption DEF WalkType, WalksBounded
<1> QED
  BY <1>4, <1>5, <1>8 DEF Others

(* A command that goes to one blocking task, and a shutdown. *)
LEMMA OrdinaryStep ==
    ASSUME DispatchInv, NEW m \in Methods, Trim(m) \/ Suspend(m) \/ Shutdown(m)
    PROVE  Others'
<1>1. UNCHANGED <<coreVars, walkVars, down, refused>> /\ now' = now /\ Allow(m)
      /\ m \in {"guest-fstrim", "guest-suspend-ram", "guest-shutdown"}
  BY ChargeAtOnce DEF Trim, Suspend, SpawnBlocking, Shutdown, Allow
<1>2. PICK phase \in {"blocking", "settling"} : Runs(m, phase, 0)
  BY DEF Trim, Suspend, SpawnBlocking, Shutdown
<1>3. TypeOK /\ LaneInv /\ phase \in Phases /\ 0 \in Nat
  BY <1>2 DEF DispatchInv, Phases
<1>4. Kind(m) = "Ordinary" /\ m \notin FrozenSafe /\ phase \in Ordinary
  BY <1>1, <1>2, LaneFacts DEF Ordinary
<1>5. /\ LaneType' /\ LaneInv' /\ lane["thaw_or_ordinary"] = Vacant
      /\ state = "Thawed" /\ lane'["thaw_or_ordinary"].at = phase
  BY <1>1, <1>2, <1>3, <1>4, TakesLane
<1>6. StateType' /\ WatchType' /\ TimesType' /\ FrozenBounded' /\ WatchInv'
      /\ DownType' /\ RefusedType' /\ ControlsGetThrough' /\ OrdinaryWhileThawed'
  BY Zenon, <1>1, <1>5, CoreSame, DownSame, RefusedSame, OrdinarySame DEF coreVars
<1>7. WalkType' /\ WalksBounded'
  BY <1>1, <1>2, <1>5, WalkSame DEF Vacant
<1> QED
  BY <1>5, <1>6, <1>7 DEF Others

(* A handler returns and is answered, whatever it awaited but a walk. *)
LEMMA AnswerStep ==
    ASSUME DispatchInv, NEW l \in Lanes, Answer(l), lane[l].at # "walking",
           UNCHANGED <<others, coreVars, walkVars>>
    PROVE  Others'
<1>1. TypeOK /\ LaneInv /\ now' = now /\ UNCHANGED <<down, refused, state>>
  BY Zenon DEF DispatchInv, others, limiterVars, coreVars
<1>2. /\ LaneType' /\ LaneInv' /\ lane'[l] = Vacant
      /\ \A k \in Lanes : k # l => lane'[k] = lane[k]
      /\ lane'["thaw_or_ordinary"].at \in Ordinary
            => lane'["thaw_or_ordinary"] = lane["thaw_or_ordinary"]
  BY Zenon, <1>1, LeavesLane
<1>3. lane'["thaw_or_ordinary"].at = "walking" <=> lane["thaw_or_ordinary"].at = "walking"
  BY <1>2 DEF Lanes, Vacant
<1>4. StateType' /\ WatchType' /\ TimesType' /\ FrozenBounded' /\ WatchInv'
      /\ DownType' /\ RefusedType' /\ ControlsGetThrough' /\ OrdinaryWhileThawed'
      /\ WalkType' /\ WalksBounded'
  BY <1>1, <1>2, <1>3, CoreSame, DownSame, RefusedSame, OrdinarySame, WalkSame
<1> QED
  BY <1>2, <1>4 DEF Others

(* A walk returns its permit, or keeps it after its request has gone. *)
LEMMA WalkStep ==
    ASSUME DispatchInv, NEW l \in Lanes, WalkReturns(l) \/ WalkTimesOut(l)
    PROVE  Others'
<1>1. TypeOK /\ LaneInv /\ now' = now /\ UNCHANGED <<down, refused, state, coreVars>>
      /\ Answer(l) /\ lane[l].at = "walking"
  BY Zenon DEF DispatchInv, WalkReturns, WalkTimesOut, At, others, limiterVars, coreVars
<1>2. l = "thaw_or_ordinary"
  BY <1>1 DEF LaneInv, Lanes, Vacant
<1>3. LaneType' /\ LaneInv' /\ lane'["thaw_or_ordinary"] = Vacant
  BY Zenon, <1>1, <1>2, LeavesLane
<1>4. Walking = 1 /\ Walking' = 0
  BY <1>1, <1>2, <1>3, WalkingIs DEF Vacant
<1>5. StateType' /\ WatchType' /\ TimesType' /\ FrozenBounded' /\ WatchInv'
      /\ DownType' /\ RefusedType' /\ ControlsGetThrough' /\ OrdinaryWhileThawed'
  BY <1>1, <1>3, CoreSame, DownSame, RefusedSame, NoOrdinary DEF Vacant, Ordinary
<1>6. \/ slots' = slots + 1 /\ abandoned' = abandoned
      \/ slots' = slots /\ abandoned' = abandoned + 1
  BY DEF WalkReturns, WalkTimesOut
<1>7. WalkType /\ WalksBounded
  BY TypeParts DEF DispatchInv
<1>8. WalkType' /\ WalksBounded'
  BY <1>4, <1>6, <1>7, DispatchAssumption DEF WalkType, WalksBounded
<1> QED
  BY Zenon, <1>3, <1>5, <1>8 DEF Others

(* A walk without a request returns its permit. *)
LEMMA AbandonedStep ==
    ASSUME DispatchInv, AbandonedReturns
    PROVE  Others'
<1>1. now' = now /\ UNCHANGED <<lane, down, refused, state, coreVars>>
  BY DEF AbandonedReturns, others, limiterVars, coreVars
<1>2. LaneType' /\ LaneInv' /\ LaneInv
  BY <1>1, LaneSame DEF DispatchInv
<1>3. StateType' /\ WatchType' /\ TimesType' /\ FrozenBounded' /\ WatchInv'
      /\ DownType' /\ RefusedType' /\ ControlsGetThrough' /\ OrdinaryWhileThawed'
  BY <1>1, <1>2, CoreSame, DownSame, RefusedSame, OrdinarySame
<1>4. Walking' = Walking /\ Walking \in {0, 1}
  BY <1>1, <1>2, WalkingIs
<1>5. WalkType /\ WalksBounded
  BY TypeParts DEF DispatchInv
<1>6. WalkType' /\ WalksBounded'
  BY <1>4, <1>5, DispatchAssumption DEF WalkType, WalksBounded, AbandonedReturns
<1> QED
  BY <1>2, <1>3, <1>6 DEF Others

(* A shutdown comes about, or fails and is answered. *)
LEMMA RebootStep ==
    ASSUME DispatchInv, NEW l \in Lanes, Reboot(l)
    PROVE  Others'
<1>1. lane[l].at = "settling" /\ UNCHANGED <<limiterVars, refused, coreVars, walkVars>>
      /\ ((down' = TRUE /\ UNCHANGED lane) \/ (UNCHANGED down /\ Answer(l)))
  BY Zenon DEF Reboot, At
<1>2. CASE UNCHANGED down /\ Answer(l)
  <2>1. UNCHANGED <<others, coreVars, walkVars>> /\ lane[l].at # "walking"
    BY <1>1, <1>2 DEF others
  <2> QED
    BY <1>2, <2>1, AnswerStep
<1>3. CASE down' = TRUE /\ UNCHANGED lane
  <2>1. DownType'
    BY <1>3, Zenon DEF DownType
  <2>2. UNCHANGED <<lane, coreVars, walkVars, refused, state>> /\ now' = now
    BY <1>1, <1>3 DEF limiterVars, coreVars
  <2>3. LaneType' /\ LaneInv' /\ StateType' /\ WatchType' /\ TimesType' /\ FrozenBounded'
        /\ WatchInv' /\ RefusedType' /\ ControlsGetThrough'
    BY <2>2, LaneSame, CoreSame, RefusedSame
  <2>4. WalkType' /\ WalksBounded' /\ OrdinaryWhileThawed'
    BY <2>2, <2>3, WalkSame, OrdinarySame
  <2> QED
    BY <2>1, <2>3, <2>4 DEF Others
<1> QED
  BY Zenon, <1>1, <1>2, <1>3

(* The freeze a thaw has joined settles: the thaw claims the guest, or finds *)
(* another one draining.                                                     *)
LEMMA ThawJoinedStep ==
    ASSUME DispatchInv, NEW l \in Lanes, ThawJoined(l)
    PROVE  Others'
<1>1. lane[l].at = "joining" /\ UNCHANGED <<others, frozenAt, beatAt, walkVars>>
  BY DEF ThawJoined, At
<1>2. TypeOK /\ LaneInv /\ now' = now /\ UNCHANGED <<down, refused>>
  BY <1>1 DEF DispatchInv, others, limiterVars
<1>3. l = "thaw_or_ordinary" /\ lane[l].method = "guest-fsfreeze-thaw"
  BY <1>1, <1>2 DEF LaneInv, Lanes, Vacant
<1>4. CASE state = "Thawing" /\ Answer(l) /\ UNCHANGED <<state, watchdog>>
  BY <1>1, <1>4, AnswerStep DEF coreVars
<1>5. CASE ClaimThaw /\ Goto(l, "awaiting")
  <2>1. lane \in [Lanes -> [method : Methods \cup {"none"}, at : Phases, until : Nat]]
    BY <1>2, TypeParts DEF LaneType
  <2>2. lane' = [lane EXCEPT ![l].at = "awaiting"] /\ "awaiting" \in Phases
    BY <1>5 DEF Goto, Phases
  <2>3. LaneType'
    BY <2>1, <2>2 DEF LaneType
  <2>4. lane'["freeze"] = lane["freeze"] /\ lane'["thaw_or_ordinary"].at = "awaiting"
        /\ lane'["thaw_or_ordinary"].method = "guest-fsfreeze-thaw"
    BY <1>3, <2>1, <2>2 DEF Lanes
  <2>5. LaneInv'
    BY <1>2, <2>4 DEF LaneInv
  <2>6. state' = "Thawing" /\ watchdog' = NoWatchdog
    BY Zenon, <1>5 DEF ClaimThaw
  <2>7. WalkType' /\ WalksBounded' /\ OrdinaryWhileThawed' /\ DownType' /\ RefusedType'
        /\ ControlsGetThrough' /\ WatchType' /\ TimesType' /\ WatchInv'
    BY <1>1, <1>2, <1>3, <2>4, <2>5, <2>6, WalkSame, NoOrdinary, DownSame, RefusedSame, WatchSame
       DEF Ordinary
  <2>8. StateType' /\ FrozenBounded'
    BY <2>6 DEF StateType, FrozenBounded
  <2> QED
    BY <2>3, <2>5, <2>7, <2>8 DEF Others
<1> QED
  BY <1>4, <1>5 DEF ThawJoined

(* The operation or the drain publishes its outcome. No ordinary command is *)
(* at work then, and a frozen guest gets a watchdog with both deadlines.    *)
LEMMA SettlesStep ==
    ASSUME DispatchInv, FreezeSettles \/ ThawSettles
    PROVE  Others'
<1>1. PICK from \in {"Freezing", "Thawing"}, l \in Lanes : Settles(from, l)
  BY DEF FreezeSettles, ThawSettles, Lanes
<1>2. state # "Thawed" /\ UNCHANGED <<others, walkVars>>
      /\ (IF lane[l].at = "awaiting" THEN Answer(l) ELSE UNCHANGED lane)
  BY <1>1 DEF Settles
<1>3. TypeOK /\ LaneInv /\ now' = now /\ UNCHANGED <<down, refused>> /\ now \in Nat
  BY <1>2, TypeParts DEF DispatchInv, others, limiterVars, LimiterTypeOK
<1>4. lane["thaw_or_ordinary"].at \notin Ordinary
  BY <1>2, OrdinaryIs DEF DispatchInv
<1>5. LaneType' /\ LaneInv' /\ lane'["thaw_or_ordinary"].at \notin Ordinary
  <2>1. CASE lane[l].at = "awaiting"
    BY <1>2, <1>3, <1>4, <2>1, LeavesLane
  <2>2. CASE lane[l].at # "awaiting"
    BY Zenon, <1>2, <1>4, <2>2, LaneSame
  <2> QED
    BY <2>1, <2>2
<1>6. WalkType' /\ WalksBounded' /\ OrdinaryWhileThawed' /\ DownType' /\ RefusedType'
      /\ ControlsGetThrough'
  BY <1>2, <1>3, <1>4, <1>5, WalkSame, NoOrdinary, DownSame, RefusedSame DEF Ordinary
<1>7. CASE state' = "Thawed" /\ UNCHANGED <<watchdog, frozenAt, beatAt>>
  <2>1. WatchType' /\ TimesType' /\ WatchInv'
    BY <1>3, <1>7, WatchSame
  <2>2. StateType' /\ FrozenBounded'
    BY Zenon, <1>7 DEF StateType, FrozenBounded
  <2> QED
    BY <1>5, <1>6, <2>1, <2>2 DEF Others
<1>8. CASE state' = "Frozen" /\ Arm
  <2>1. watchdog' = [armed |-> TRUE, hard |-> now + Max, idle |-> now + Idle, refresh |-> FALSE]
        /\ frozenAt' = now /\ beatAt' = now /\ Max \in Nat /\ Idle \in Nat
    BY Zenon, <1>8, DispatchAssumption DEF Arm
  <2>2. WatchType' /\ TimesType' /\ WatchInv'
    BY <1>3, <2>1 DEF WatchType, TimesType, WatchInv
  <2>3. StateType' /\ FrozenBounded'
    BY <1>3, <1>8, <2>1 DEF StateType, FrozenBounded
  <2> QED
    BY <1>5, <1>6, <2>2, <2>3 DEF Others
<1> QED
  BY <1>1, <1>7, <1>8 DEF Settles

(* A freeze is aborted, and becomes a thaw. *)
LEMMA AbortStep ==
    ASSUME DispatchInv, FreezeAborted
    PROVE  Others'
<1>1. /\ lane["freeze"].at = "awaiting" /\ state = "Freezing" /\ state' = "Thawing"
      /\ watchdog' = NoWatchdog /\ Answer("freeze")
      /\ UNCHANGED <<others, frozenAt, beatAt, walkVars>>
  BY Zenon DEF FreezeAborted, At
<1>2. TypeOK /\ LaneInv /\ now' = now /\ UNCHANGED <<down, refused>> /\ "freeze" \in Lanes
  BY <1>1 DEF DispatchInv, others, limiterVars, Lanes
<1>3. lane["thaw_or_ordinary"].at \notin Ordinary
  BY <1>1, OrdinaryIs DEF DispatchInv
<1>4. LaneType' /\ LaneInv' /\ lane'["thaw_or_ordinary"].at \notin Ordinary
  BY <1>1, <1>2, <1>3, LeavesLane
<1>5. WalkType' /\ WalksBounded' /\ OrdinaryWhileThawed' /\ DownType' /\ RefusedType'
      /\ ControlsGetThrough' /\ WatchType' /\ TimesType' /\ WatchInv'
  BY <1>1, <1>2, <1>3, <1>4, WalkSame, NoOrdinary, DownSame, RefusedSame, WatchSame DEF Ordinary
<1>6. StateType' /\ FrozenBounded'
  BY Zenon, <1>1 DEF StateType, FrozenBounded
<1> QED
  BY <1>4, <1>5, <1>6 DEF Others

(* The watchdog's deadline passes. *)
LEMMA ExpireStep ==
    ASSUME DispatchInv, Expire
    PROVE  Others'
<1>1. UNCHANGED <<others, lane, frozenAt, beatAt, walkVars>> /\ watchdog' = NoWatchdog
      /\ state' = IF state = "Frozen" THEN "Thawing" ELSE state
  BY DEF Expire
<1>2. LaneInv /\ now' = now /\ UNCHANGED <<down, refused>> /\ StateType
  BY <1>1, TypeParts DEF DispatchInv, others, limiterVars
<1>3. LaneType' /\ LaneInv'
  BY <1>1, LaneSame
<1>4. WalkType' /\ WalksBounded' /\ DownType' /\ RefusedType' /\ ControlsGetThrough'
      /\ WatchType' /\ TimesType' /\ WatchInv'
  BY Zenon, <1>1, <1>2, <1>3, WalkSame, DownSame, RefusedSame, WatchSame
<1>5. StateType' /\ FrozenBounded'
  BY <1>1, <1>2 DEF StateType, FrozenBounded
<1>6. lane'["thaw_or_ordinary"].at \in Ordinary => state' = "Thawed"
  BY <1>1, OrdinaryIs DEF DispatchInv
<1>7. OrdinaryWhileThawed'
  BY <1>3, <1>6, OrdinaryIs
<1> QED
  BY <1>3, <1>4, <1>5, <1>7 DEF Others

(* The watchdog takes note of a heartbeat. *)
LEMMA RefreshStep ==
    ASSUME DispatchInv, Refresh
    PROVE  Others'
<1>1. UNCHANGED <<others, lane, state, frozenAt, beatAt, walkVars>>
      /\ watchdog' = [watchdog EXCEPT !.refresh = FALSE, !.idle = now + Idle]
      /\ watchdog.refresh
  BY DEF Refresh
<1>2. now' = now /\ UNCHANGED <<down, refused>> /\ now \in Nat /\ Idle \in Nat
      /\ StateType /\ WatchType /\ TimesType /\ FrozenBounded /\ WatchInv
  BY <1>1, TypeParts, DispatchAssumption DEF DispatchInv, others, limiterVars, LimiterTypeOK
<1>3. LaneType' /\ LaneInv' /\ DownType' /\ RefusedType' /\ ControlsGetThrough'
  BY <1>1, <1>2, LaneSame, DownSame, RefusedSame
<1>4. WalkType' /\ WalksBounded' /\ OrdinaryWhileThawed'
  BY <1>1, <1>3, WalkSame, OrdinarySame
<1>5. WatchType' /\ StateType' /\ TimesType'
  <2>1. now + Idle \in Nat
    BY <1>2
  <2>2. watchdog' = [armed |-> watchdog.armed, hard |-> watchdog.hard, idle |-> now + Idle,
                     refresh |-> FALSE]
    BY Zenon, <1>1, <1>2 DEF WatchType
  <2>3. WatchType'
    BY <1>2, <2>1, <2>2 DEF WatchType
  <2> QED
    BY <1>1, <1>2, <2>3 DEF StateType, TimesType
<1>6. watchdog'.armed = watchdog.armed /\ watchdog'.hard = watchdog.hard
      /\ watchdog'.idle = now + Idle /\ ~watchdog'.refresh
  BY <1>1, <1>2 DEF WatchType
<1>7. FrozenBounded'
  BY <1>1, <1>2, <1>6 DEF FrozenBounded
<1>8. beatAt = now \/ ~watchdog.armed
  BY <1>1, <1>2 DEF WatchInv, Refresh
<1>9. WatchInv'
  BY <1>1, <1>2, <1>6, <1>8 DEF WatchInv
<1> QED
  BY <1>3, <1>4, <1>5, <1>7, <1>9 DEF Others

(* Time passes, but not over a deadline. *)
LEMMA TickStep ==
    ASSUME DispatchInv, Tick
    PROVE  Others'
<1>1. UNCHANGED <<lane, coreVars, walkVars, down, refused>> /\ ~Due /\ ~watchdog.refresh
      /\ now' = now + 1
  BY DEF Tick, Elapse
<1>2. UNCHANGED <<state, watchdog, frozenAt, beatAt>> /\ now \in Nat
      /\ StateType /\ WatchType /\ TimesType /\ FrozenBounded /\ WatchInv
  BY <1>1, TypeParts DEF DispatchInv, coreVars, LimiterTypeOK
<1>3. LaneType' /\ LaneInv' /\ DownType' /\ RefusedType' /\ ControlsGetThrough'
  BY Zenon, <1>1, LaneSame, DownSame, RefusedSame
<1>4. WalkType' /\ WalksBounded' /\ OrdinaryWhileThawed'
  BY <1>1, <1>2, <1>3, WalkSame, OrdinarySame
<1>5. StateType' /\ WatchType' /\ TimesType'
  BY Zenon, <1>2 DEF StateType, WatchType, TimesType
<1>6. watchdog.armed => now < watchdog.hard /\ watchdog.hard = frozenAt + Max
  BY <1>1, <1>2, DispatchAssumption DEF Due, WatchType, TimesType, WatchInv
<1>7. FrozenBounded'
  BY <1>1, <1>2, <1>6, DispatchAssumption DEF FrozenBounded, TimesType
<1>8. WatchInv'
  BY <1>1, <1>2 DEF WatchInv
<1> QED
  BY <1>3, <1>4, <1>5, <1>7, <1>8 DEF Others

(* Nothing changes but what is watched of the limiter. *)
LEMMA SameStep ==
    ASSUME DispatchInv, UNCHANGED <<lane, coreVars, walkVars, down, refused>>, now' = now
    PROVE  Others'
<1>1. UNCHANGED state
  BY DEF coreVars
<1>2. LaneType' /\ LaneInv' /\ StateType' /\ WatchType' /\ TimesType' /\ FrozenBounded'
      /\ WatchInv' /\ DownType' /\ RefusedType' /\ ControlsGetThrough'
  BY Zenon, <1>1, LaneSame, CoreSame, DownSame, RefusedSame
<1>3. WalkType' /\ WalksBounded' /\ OrdinaryWhileThawed'
  BY Zenon, <1>1, <1>2, WalkSame, OrdinarySame
<1> QED
  BY <1>2, <1>3 DEF Others

-----------------------------------------------------------------------------
(* Every step preserves the invariant. *)
LEMMA DispatchStep == DispatchInv /\ [Next]_vars => DispatchInv'
<1> SUFFICES ASSUME DispatchInv, [Next]_vars PROVE DispatchInv'
  OBVIOUS
<1>1. LimiterTypeOK' /\ BucketInv'
  BY LimiterStep, StepIsLimiter, TypeParts DEF DispatchInv
<1>2. Others'
  <2>1. ASSUME NEW m \in Methods, Request(m) PROVE Others'
    BY <2>1, DenyStep, AtOnceStep, StatusStep, FreezeStep, ThawStep, FsInfoStep, OrdinaryStep
       DEF Request, OsInfo, Interfaces
  <2>2. ASSUME NEW l \in Lanes, Continue(l) PROVE Others'
    <3>1. CASE BlockingEnds(l)
      BY <3>1, AnswerStep DEF BlockingEnds, At
    <3> QED
      BY Zenon, <2>2, <3>1, ThawJoinedStep, WalkStep, RebootStep DEF Continue
  <2>3. CASE Window
    <3>1. UNCHANGED <<lane, coreVars, walkVars, down, refused>> /\ now' = now
      BY <2>3 DEF Window, Watch
    <3> QED
      BY Zenon, <3>1, SameStep
  <2>4. CASE UNCHANGED vars
    <3>1. UNCHANGED <<lane, coreVars, walkVars, down, refused>> /\ now' = now
      BY <2>4 DEF vars, limiterVars
    <3> QED
      BY Zenon, <3>1, SameStep
  <2> QED
    BY Zenon, <2>1, <2>2, <2>3, <2>4, AbortStep, SettlesStep, AbandonedStep, ExpireStep,
       RefreshStep, TickStep
       DEF Next
<1>3. TypeOK'
  BY <1>1, <1>2 DEF TypeOK, Others, LaneType, StateType, WatchType, WalkType, DownType,
                    RefusedType, TimesType
<1> QED
  BY <1>1, <1>2, <1>3 DEF DispatchInv, Others

(* Only the watchdog thaws without a request in a lane, and it is due. *)
LEMMA ThawedWhenDue ==
    DispatchInv /\ [Next]_vars
        => [state = "Frozen" /\ state' = "Thawing" /\ lane' = lane
               => now >= frozenAt + Max \/ now >= beatAt + Idle]_vars
<1> SUFFICES ASSUME DispatchInv, Next, state = "Frozen", state' = "Thawing", lane' = lane
             PROVE  now >= frozenAt + Max \/ now >= beatAt + Idle
  OBVIOUS
<1>1. TypeOK /\ LaneInv /\ WatchInv
  BY Zenon DEF DispatchInv
<1>2. CASE Expire
  BY Zenon, <1>1, <1>2 DEF Expire, WatchInv, Due
<1>3. ASSUME NEW m \in Methods, Request(m) PROVE FALSE
  <2>1. Thaw(m)
    BY <1>3 DEF Request, DenyUnknown, DenyLimited, DenyFrozen, Deny, AtOnce, Status, Freeze,
                FsInfo, OsInfo, Interfaces, Trim, Suspend, SpawnBlocking, Shutdown, coreVars
  <2>2. PICK phase \in {"awaiting", "joining"} : Runs(m, phase, 0)
    BY <2>1 DEF Thaw
  <2> QED
    BY <1>1, <2>1, <2>2, TakesLane DEF Thaw, Phases
<1>4. ASSUME NEW l \in Lanes, Continue(l) PROVE FALSE
  <2>1. ThawJoined(l) /\ ClaimThaw /\ Goto(l, "awaiting")
    BY <1>4 DEF Continue, ThawJoined, WalkReturns, WalkTimesOut, BlockingEnds, Reboot, coreVars
  <2>2. lane \in [Lanes -> [method : Methods \cup {"none"}, at : Phases, until : Nat]]
    BY <1>1, TypeParts DEF LaneType
  <2>3. lane'[l].at = "awaiting" /\ lane[l].at = "joining"
    BY <2>1, <2>2 DEF Goto, ThawJoined, At
  <2> QED
    BY Zenon, <2>3
<1>5. ~(FreezeAborted \/ FreezeSettles \/ ThawSettles \/ AbandonedReturns \/ Refresh \/ Tick
          \/ Window)
  BY DEF FreezeAborted, FreezeSettles, ThawSettles, Settles, AbandonedReturns, Refresh, Tick,
         Window, coreVars
<1> QED
  BY <1>2, <1>3, <1>4, <1>5 DEF Next

(* The invariant holds for good. *)
LEMMA DispatchInvariant == Spec => []DispatchInv
  BY DispatchInitially, DispatchStep, PTL DEF Spec

(* Whatever requests come and however handlers and timers interleave, no   *)
(* ordinary handler is at work unless the guest is thawed, and status and  *)
(* thaw are never refused (Dispatcher::gates, the session's lanes).        *)
THEOREM GatesHold == Spec => []GatesSound
<1>1. DispatchInv => GatesSound
  BY DEF DispatchInv, GatesSound
<1> QED
  BY <1>1, DispatchInvariant, PTL

(* For every number of permits, every live walk holds one and none is lost *)
(* (fsinfo.rs, FsinfoWalks).                                               *)
THEOREM WalksHold == Spec => []WalksBounded
<1>1. DispatchInv => WalksBounded
  BY DEF DispatchInv
<1> QED
  BY <1>1, DispatchInvariant, PTL

(* For all timeouts, a frozen guest is thawed by the cap and not before    *)
(* its heartbeats have stopped for the idle timeout (watchdog.rs, run).    *)
THEOREM WatchdogOnTime == Spec => WatchdogTimed
<1>1. DispatchInv => FrozenBounded
  BY DEF DispatchInv
<1> QED
  BY <1>1, DispatchInvariant, ThawedWhenDue, PTL
  DEF Spec, WatchdogTimed, CapKept, HeartbeatKeeps

=============================================================================
