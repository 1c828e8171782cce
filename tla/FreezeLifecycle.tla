--------------------------- MODULE FreezeLifecycle ---------------------------
(***************************************************************************)
(* What the freeze core promises to whoever sees only the published state, *)
(* the recovery marker and the filesystems the agent froze: the state      *)
(* diagram of the freeze state machine (state.rs), in which a filesystem   *)
(* is frozen only under a marker, the marker goes only when none is        *)
(* frozen, Thawed is published only when none is frozen, and a restart     *)
(* takes the state from the marker.                                        *)
(***************************************************************************)
CONSTANT Target

VARIABLES state, owned, marker

vars == <<state, owned, marker>>

Busy == state \in {"Freezing", "Thawing"}

Init == state = "Thawed" /\ owned = {} /\ marker = FALSE

\* A freeze is accepted.
Begin == state = "Thawed" /\ state' = "Freezing" /\ UNCHANGED <<owned, marker>>

\* A thaw takes over: from a terminal state or from the freeze it aborts.
Claim == state # "Thawing" /\ state' = "Thawing" /\ UNCHANGED <<owned, marker>>

Mark == Busy /\ marker' = TRUE /\ UNCHANGED <<state, owned>>

Unmark == Busy /\ owned = {} /\ marker' = FALSE /\ UNCHANGED <<state, owned>>

Freeze(t) == Busy /\ marker /\ owned' = owned \cup {t} /\ UNCHANGED <<state, marker>>

Drain(t) == Busy /\ owned' = owned \ {t} /\ UNCHANGED <<state, marker>>

Settle ==
    /\ Busy
    /\ \/ state' = "Thawed" /\ owned = {}
       \/ state' = "Frozen"
    /\ UNCHANGED <<owned, marker>>

\* The process is killed and restarted; a FIFREEZE in the kernel may complete.
Crash ==
    /\ state' = IF marker THEN "Frozen" ELSE "Thawed"
    /\ \E late \in SUBSET Target : /\ late # {} => marker
                                   /\ owned' = owned \cup late
    /\ UNCHANGED marker

Next == \/ Begin \/ Claim \/ Mark \/ Unmark \/ Settle \/ Crash
        \/ \E t \in Target : Freeze(t) \/ Drain(t)

Spec == Init /\ [][Next]_vars

=============================================================================
