---------------------------- MODULE RateLimiter ----------------------------
(***************************************************************************)
(* The token buckets of dispatch/ratelimit.rs, one per limited class of    *)
(* commands.  The bucket itself is the governor crate's, modelled as the   *)
(* generic cell rate algorithm it is: a bucket of a quota n per minute     *)
(* admits n commands at once and gains one more every 1/n minute.          *)
(*                                                                         *)
(* `mark` and `admitted` watch one window of time: they are history, and   *)
(* the code has no counterpart of them.                                    *)
(***************************************************************************)
EXTENDS Integers

CONSTANTS Class,    \* the limited classes
          Quota,    \* commands per minute of each class
          Minute,   \* a minute, in ticks of the clock
          MaxTime   \* bound on the clock

ASSUME QuotaAssumption ==
    /\ Minute \in Nat \ {0}
    /\ Quota \in [Class -> 0 .. Minute]
    /\ MaxTime \in Nat

VARIABLES now,       \* the monotonic clock
          tat,       \* theoretical arrival time of each bucket
          mark,      \* start of the window that is watched
          admitted   \* commands of each class admitted since

limiterVars == <<now, tat, mark, admitted>>

(* A zero quota, which validation rejects, counts as one.                  *)
Burst(c) == IF Quota[c] = 0 THEN 1 ELSE Quota[c]

Interval(c) == Minute \div Burst(c)

LimiterInit ==
    /\ now = 0
    /\ tat = [c \in Class |-> 0]
    /\ mark = 0
    /\ admitted = [c \in Class |-> 0]

(* Mutant: a bucket that tolerates one command more.                       *)
ConformsLate(c) == now >= tat[c] - Burst(c) * Interval(c)

Conforms(c) == now >= tat[c] - (Burst(c) - 1) * Interval(c)

Later(a, b) == IF a > b THEN a ELSE b

(* Mutant: a bucket that is not used goes on gaining cells.                *)
AdmittedHoarding(c) ==
    /\ Conforms(c)
    /\ tat' = [tat EXCEPT ![c] = @ + Interval(c)]
    /\ admitted' = [admitted EXCEPT ![c] = @ + 1]
    /\ UNCHANGED <<now, mark>>

(* check, granted: one cell is taken.                                      *)
Admitted(c) ==
    /\ Conforms(c)
    /\ tat' = [tat EXCEPT ![c] = Later(@, now) + Interval(c)]
    /\ admitted' = [admitted EXCEPT ![c] = @ + 1]
    /\ UNCHANGED <<now, mark>>

(* check, denied: nothing is taken.                                        *)
Limited(c) ==
    /\ ~Conforms(c)
    /\ UNCHANGED limiterVars

Elapse ==
    /\ now < MaxTime
    /\ now' = now + 1
    /\ UNCHANGED <<tat, mark, admitted>>

(* Attention turns to the window that starts now.                          *)
Watch ==
    /\ mark < now
    /\ mark' = now
    /\ admitted' = [c \in Class |-> 0]
    /\ UNCHANGED <<now, tat>>

LimiterNext == Elapse \/ Watch \/ \E c \in Class : Admitted(c) \/ Limited(c)

LimiterSpec == LimiterInit /\ [][LimiterNext]_limiterVars

-----------------------------------------------------------------------------
LimiterTypeOK ==
    /\ now \in Nat
    /\ mark \in Nat /\ mark <= now
    /\ tat \in [Class -> Nat]
    /\ admitted \in [Class -> Nat]

(* The rate a class is held to: in any window of time no more commands are *)
(* admitted than the quota and one for every interval the window holds.    *)
(* In particular a minute never sees more than twice the quota.            *)
RateBound ==
    \A c \in Class :
        admitted[c] * Interval(c) <= (now - mark) + Burst(c) * Interval(c)

(* What makes it inductive: a bucket is never ahead of the clock by more   *)
(* than its burst, and has advanced by an interval for each command.       *)
BucketInv ==
    \A c \in Class :
        /\ tat[c] <= now + Burst(c) * Interval(c)
        /\ admitted[c] > 0 => tat[c] >= mark + admitted[c] * Interval(c)

=============================================================================
