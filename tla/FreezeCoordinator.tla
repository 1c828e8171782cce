-------------------------- MODULE FreezeCoordinator --------------------------
(***************************************************************************)
(* The freeze/thaw core of the agent: the freeze state machine (state.rs), *)
(* the freeze operation and its driver task (freeze_op.rs), the thaw       *)
(* handler, the drain shared with the watchdog and the lifecycle hooks     *)
(* (handlers/fsfreeze.rs), the watchdog tasks (watchdog.rs), the recovery  *)
(* marker (marker.rs), and the kernel's view of the filesystems.           *)
(*                                                                         *)
(* Processes: one driver task per operation (Op), its tracked blocking     *)
(* task (variable task) and its recovery drain (variable rec); the host's  *)
(* thaw handler (Host) and the watchdog tasks (Watch), which share         *)
(* run_thaw.  An action is one segment between two points where another    *)
(* thread can see or change the shared state.  The freeze and thaw         *)
(* handlers are futures of one session task (channel.rs, drive_any), so    *)
(* they never run between each other's segments.                           *)
(*                                                                         *)
(* Handles are sets of targets: the order of the walk and of the drains is *)
(* left to the modules about the plan and the drain.                       *)
(***************************************************************************)
EXTENDS FiniteSets, Naturals

CONSTANTS
    Target,      \* the eligible superblocks
    Op,          \* identities of freeze operations (Arc<FreezeOp>)
    Watch,       \* identities of watchdog tasks
    Host,        \* the host's guest-fsfreeze-thaw handler
    Coord,       \* the drain owned by the operation's driver
    NoOp, NoWatch, NoTarget,
    MaxCrashes,  \* bound: how often the process is killed and restarted
    MaxLost      \* bound: how many blocking tasks end in a JoinError

Thawer == Watch \cup {Host}
Drainer == Thawer \cup {Coord}

ASSUME ConstantsAssumption ==
    /\ Host \notin Watch
    /\ Coord \notin Thawer
    /\ NoOp \notin Op /\ NoWatch \notin Watch /\ NoTarget \notin Target
    /\ Watch # {}
    /\ MaxCrashes \in Nat /\ MaxLost \in Nat

VARIABLES
    \* shared context (dispatch.rs, Context)
    state,        \* FreezeStateMachine
    opSlot,       \* the registered operation
    held,         \* handles of frozen filesystems held by the process
    scope,        \* ThawScope
    watchSlot,    \* the watchdog handle
    audit,        \* the audit router's mode
    \* outside the process
    frozen,       \* filesystems the kernel has frozen
    owned,        \* those among them that a FIFREEZE of the agent froze
    marker,       \* the recovery marker is on disk
    \* requests
    freezeOp,     \* the operation whose reply the freeze handler awaits
    joinOp,       \* the operation a thaw has joined
    \* operations
    pc,           \* where the driver of each operation is
    outcome,      \* the atomic that abort and commit compete on
    reply,        \* the reply sent to the freeze request
    terminal,     \* the terminal state conclude was called with
    result,       \* the reply conclude was called with
    accepted,     \* a thaw was told that the abort is accepted
    \* locals of the driver of the unresolved operation
    plan,         \* targets not yet authorised
    cur,          \* the target of the worker in flight
    task,         \* where the tracked blocking task is, or its result
    due,          \* the operation deadline has passed
    aborted,      \* the abort has committed
    anyFrozen,    \* a FIFREEZE of this operation succeeded
    rec,          \* the recovery drain
    kept,         \* handles whose recovery drain did not complete
    uncertain, unrecoverable,
    \* thaws and drains
    thawPc,       \* where each thawer (or watchdog timer) is
    origin,       \* the origin of the thaw token
    todo, keep,   \* per drain: handles to drain, handles not drained
    bad,          \* per thaw: a target was unreachable or the table unreadable
    \* bounds
    crashes, lost

ctxVars == <<state, opSlot, held, scope, watchSlot, audit>>
diskVars == <<frozen, owned, marker>>
reqVars == <<freezeOp, joinOp>>
opVars == <<pc, outcome, reply, terminal, result, accepted>>
walkVars == <<plan, cur, task, due, aborted, anyFrozen, rec, kept, uncertain,
              unrecoverable>>
thawVars == <<thawPc, origin, todo, keep, bad>>
bounds == <<crashes, lost>>
vars == <<ctxVars, diskVars, reqVars, opVars, walkVars, thawVars, bounds>>

States == {"Thawed", "Freezing", "Frozen", "Thawing"}
Replies == {"none", "ok", "error"}
OpPcs == {"idle", "prep", "walk", "await", "commit", "rmNone", "rmPrep", "rmAbort",
          "rollback", "recover", "retire", "publish", "arm", "announce", "settled"}
PrepTasks == {"plan", "create", "prepared", "planFailed", "markerFailed"}
WorkerTasks == {"open", "check", "ioctl", "frozen", "busy", "skipped",
                "notAuthorized", "failed"}
RemovalTasks == {"remove", "removed", "retained"}
RollbackTasks == {"rollback", "rollRemove", "rolledBack", "incomplete", "rollRetained"}
Tasks == {"none", "lost"} \cup PrepTasks \cup WorkerTasks \cup RemovalTasks
           \cup RollbackTasks
ThawPcs == {"idle", "armed", "expired", "lookup", "reclaim", "join", "read", "await",
            "claimed", "discover", "drain", "remove", "succeeded", "failed", "lost",
            "arm"}

-----------------------------------------------------------------------------
(***************************************************************************)
(* The process starts: production_context chooses the state from the       *)
(* marker, and start_recovery switches the audit to the ring and arms the  *)
(* watchdog when it is there.  Nothing else survives a crash.              *)
(***************************************************************************)
Init ==
    /\ state = "Thawed" /\ opSlot = NoOp /\ held = {} /\ scope = "Discovery"
    /\ watchSlot = NoWatch /\ audit = "normal"
    /\ frozen \in SUBSET Target /\ owned = {} /\ marker = FALSE
    /\ freezeOp = NoOp /\ joinOp = NoOp
    /\ pc = [o \in Op |-> "idle"] /\ outcome = [o \in Op |-> "open"]
    /\ reply = [o \in Op |-> "none"] /\ terminal = [o \in Op |-> "Thawed"]
    /\ result = [o \in Op |-> "none"]
    /\ accepted = [o \in Op |-> FALSE]
    /\ plan = {} /\ cur = NoTarget /\ task = "none" /\ due = FALSE
    /\ aborted = FALSE /\ anyFrozen = FALSE /\ rec = "none" /\ kept = {}
    /\ uncertain = FALSE /\ unrecoverable = FALSE
    /\ thawPc = [a \in Thawer |-> "idle"] /\ origin = [a \in Thawer |-> "Thawed"]
    /\ todo = [d \in Drainer |-> {}] /\ keep = [d \in Drainer |-> {}]
    /\ bad = [a \in Thawer |-> FALSE]
    /\ crashes = 0 /\ lost = 0

\* A FIFREEZE that is in the kernel when the process is killed completes on
\* its own thread.
OrphanedFreeze == IF task = "ioctl" /\ cur \notin frozen THEN {{}, {cur}} ELSE {{}}

Crash ==
    /\ crashes < MaxCrashes
    /\ crashes' = crashes + 1
    /\ \E late \in OrphanedFreeze : frozen' = frozen \cup late /\ owned' = owned \cup late
    /\ state' = IF marker THEN "Frozen" ELSE "Thawed"
    /\ audit' = IF marker THEN "ring" ELSE "normal"
    /\ \E w \in Watch :
         /\ watchSlot' = IF marker THEN w ELSE NoWatch
         /\ thawPc' = [a \in Thawer |-> IF marker /\ a = w THEN "armed" ELSE "idle"]
    /\ opSlot' = NoOp /\ held' = {} /\ scope' = "Discovery"
    /\ freezeOp' = NoOp /\ joinOp' = NoOp
    /\ pc' = [o \in Op |-> "idle"] /\ outcome' = [o \in Op |-> "open"]
    /\ reply' = [o \in Op |-> "none"] /\ terminal' = [o \in Op |-> "Thawed"]
    /\ result' = [o \in Op |-> "none"]
    /\ accepted' = [o \in Op |-> FALSE]
    /\ plan' = {} /\ cur' = NoTarget /\ task' = "none" /\ due' = FALSE
    /\ aborted' = FALSE /\ anyFrozen' = FALSE /\ rec' = "none" /\ kept' = {}
    /\ uncertain' = FALSE /\ unrecoverable' = FALSE
    /\ origin' = [a \in Thawer |-> "Thawed"]
    /\ todo' = [d \in Drainer |-> {}] /\ keep' = [d \in Drainer |-> {}]
    /\ bad' = [a \in Thawer |-> FALSE]
    /\ UNCHANGED <<marker, lost>>

-----------------------------------------------------------------------------
(***************************************************************************)
(* Lifecycle hooks.  A cancelled watchdog that has not taken a deadline    *)
(* branch exits without effect (the select is biased to the cancellation); *)
(* one that has is not stopped by it.                                      *)
(***************************************************************************)
Cancelled(tpc) == IF watchSlot # NoWatch /\ tpc[watchSlot] = "armed"
                  THEN [tpc EXCEPT ![watchSlot] = "idle"]
                  ELSE tpc

\* LifecycleHooks::on_thaw_claimed: take the slot and cancel.
OnThawClaimed(tpc) == watchSlot' = NoWatch /\ thawPc' = Cancelled(tpc)

\* LifecycleHooks::on_frozen: arm a new task, replace the slot, cancel the
\* previous one.
OnFrozen(tpc) ==
    \E w \in Watch \ {watchSlot} :
        /\ tpc[w] = "idle"
        /\ watchSlot' = w
        /\ thawPc' = [Cancelled(tpc) EXCEPT ![w] = "armed"]

(***************************************************************************)
(* FITHAW until the first error on one handle (drain).  Complete only on   *)
(* the kernel's "not frozen" answer; otherwise the handle is kept and the  *)
(* filesystem may or may not be frozen still.                              *)
(***************************************************************************)
DrainTarget(d) ==
    \E t \in todo[d] :
        /\ todo' = [todo EXCEPT ![d] = @ \ {t}]
        /\ \/ /\ frozen' = frozen \ {t} /\ owned' = owned \ {t}
              /\ keep' = keep
           \/ /\ \E thawed \in {{}, {t}} :
                   frozen' = frozen \ thawed /\ owned' = owned \ thawed
              /\ keep' = [keep EXCEPT ![d] = @ \cup {t}]

\* Marker::remove: an absent marker is not an error to any caller.
RemoveMarker(ok) == IF ok THEN marker' = FALSE ELSE marker' = marker

-----------------------------------------------------------------------------
(***************************************************************************)
(* guest-fsfreeze-freeze and -freeze-list: begin_freeze, on_freezing and   *)
(* start.  The session starts a freeze only when neither a freeze nor a    *)
(* thaw handler is running (channel.rs, admit).                            *)
(***************************************************************************)
BeginFreeze(o) ==
    /\ freezeOp = NoOp /\ thawPc[Host] = "idle"
    /\ state = "Thawed" /\ pc[o] = "idle"
    /\ state' = "Freezing" /\ audit' = "ring" /\ opSlot' = o
    /\ freezeOp' = o
    /\ pc' = [pc EXCEPT ![o] = "prep"] /\ task' = "plan"
    /\ UNCHANGED <<held, scope, watchSlot, diskVars, joinOp, outcome, reply, terminal, result,
                   accepted, plan, cur, due, aborted, anyFrozen, rec, kept, uncertain,
                   unrecoverable, thawVars, bounds>>

Unresolved(o) == pc[o] \notin {"idle", "arm", "announce", "settled"}

\* The clock shared by the coordinator and its workers passes the deadline.
DeadlinePasses ==
    /\ ~due /\ \E o \in Op : Unresolved(o)
    /\ due' = TRUE
    /\ UNCHANGED <<ctxVars, diskVars, reqVars, opVars, plan, cur, task, aborted,
                   anyFrozen, rec, kept, uncertain, unrecoverable, thawVars, bounds>>

-----------------------------------------------------------------------------
(***************************************************************************)
(* The tracked blocking tasks.                                             *)
(***************************************************************************)
TaskStep(from, to) == task = from /\ task' = to

restOfTask == <<ctxVars, reqVars, opVars, cur, due, aborted, anyFrozen, rec, kept,
                uncertain, unrecoverable, thawVars, bounds>>

\* build_plan over the mount table, restricted to the request.
BuildPlan ==
    /\ \/ TaskStep("plan", "create") /\ plan' \in SUBSET Target
       \/ TaskStep("plan", "planFailed") /\ plan' = plan
    /\ UNCHANGED <<restOfTask, diskVars>>

\* Marker::create: O_EXCL, then fsync; a failed fsync leaves the file.
CreateMarker ==
    /\ \/ TaskStep("create", "prepared") /\ ~marker /\ marker' = TRUE
       \/ TaskStep("create", "markerFailed") /\ (marker' = marker \/ marker' = TRUE)
    /\ UNCHANGED <<restOfTask, plan, frozen, owned>>

\* open_target on the planned device.
OpenTarget ==
    /\ TaskStep("open", "check") \/ TaskStep("open", "failed")
    /\ UNCHANGED <<restOfTask, plan, diskVars>>

\* FreezeOp::authorises, the worker's last check.
CheckAuthorised ==
    /\ IF ~aborted /\ ~due THEN TaskStep("check", "ioctl")
                           ELSE TaskStep("check", "notAuthorized")
    /\ UNCHANGED <<restOfTask, plan, diskVars>>

\* FIFREEZE.
Fifreeze ==
    /\ \/ /\ TaskStep("ioctl", "frozen") /\ cur \notin frozen
          /\ frozen' = frozen \cup {cur} /\ owned' = owned \cup {cur}
       \/ TaskStep("ioctl", "busy") /\ cur \in frozen /\ UNCHANGED <<frozen, owned>>
       \/ TaskStep("ioctl", "skipped") /\ UNCHANGED <<frozen, owned>>
       \/ TaskStep("ioctl", "failed") /\ UNCHANGED <<frozen, owned>>
    /\ UNCHANGED <<restOfTask, plan, marker>>

\* The removal of the marker on a task of its own.
RemovalTask ==
    /\ \/ TaskStep("remove", "removed") /\ RemoveMarker(TRUE)
       \/ TaskStep("remove", "retained") /\ RemoveMarker(FALSE)
    /\ UNCHANGED <<restOfTask, plan, frozen, owned>>

\* rollback: drain every published handle, then remove the marker.
RollbackDrain ==
    /\ task = "rollback" /\ DrainTarget(Coord)
    /\ UNCHANGED <<ctxVars, marker, reqVars, opVars, walkVars, thawPc, origin, bad, bounds>>

RollbackEndUnchecked ==
    /\ todo[Coord] = {} /\ TaskStep("rollback", "rollRemove")
    /\ UNCHANGED <<restOfTask, plan, diskVars>>
RollbackEnd ==
    /\ todo[Coord] = {}
    /\ IF keep[Coord] = {} THEN TaskStep("rollback", "rollRemove")
                           ELSE TaskStep("rollback", "incomplete")
    /\ UNCHANGED <<restOfTask, plan, diskVars>>

RollbackRemove ==
    /\ \/ TaskStep("rollRemove", "rolledBack") /\ RemoveMarker(TRUE)
       \/ TaskStep("rollRemove", "rollRetained") /\ RemoveMarker(FALSE)
    /\ UNCHANGED <<restOfTask, plan, frozen, owned>>

\* The recovery drain (drain_held on a task of its own).
RecoveryDrain ==
    /\ rec = "running" /\ DrainTarget(Coord)
    /\ UNCHANGED <<ctxVars, marker, reqVars, opVars, walkVars, thawPc, origin, bad, bounds>>

RecoveryEnd ==
    /\ rec = "running" /\ todo[Coord] = {} /\ rec' = "done"
    /\ UNCHANGED <<ctxVars, diskVars, reqVars, opVars, plan, cur, task, due, aborted,
                   anyFrozen, kept, uncertain, unrecoverable, thawVars, bounds>>

BlockingStep == BuildPlan \/ CreateMarker \/ OpenTarget \/ CheckAuthorised \/ Fifreeze
                  \/ RemovalTask \/ RollbackDrain \/ RollbackEnd \/ RollbackRemove
                  \/ RecoveryDrain \/ RecoveryEnd

\* A task ends in a JoinError, before or after its effect; the handles it
\* took are gone with it.
LoseHandles(d) == todo' = [todo EXCEPT ![d] = {}] /\ keep' = [keep EXCEPT ![d] = {}]

TaskLost ==
    /\ lost < MaxLost /\ lost' = lost + 1
    /\ task \notin {"none", "lost"} /\ task' = "lost"
    /\ IF task \in RollbackTasks THEN LoseHandles(Coord) ELSE UNCHANGED <<todo, keep>>
    /\ UNCHANGED <<ctxVars, diskVars, reqVars, opVars, plan, cur, due, aborted, anyFrozen,
                   rec, kept, uncertain, unrecoverable, thawPc, origin, bad, crashes>>

RecoveryLost ==
    /\ lost < MaxLost /\ lost' = lost + 1
    /\ rec \in {"running", "done"} /\ rec' = "lost"
    /\ LoseHandles(Coord)
    /\ UNCHANGED <<ctxVars, diskVars, reqVars, opVars, plan, cur, task, due, aborted,
                   anyFrozen, kept, uncertain, unrecoverable, thawPc, origin, bad, crashes>>

-----------------------------------------------------------------------------
(***************************************************************************)
(* The driver task of an operation (Driver::drive and what it awaits).     *)
(***************************************************************************)
AbortOnRequest(o) == outcome[o] = "aborting"
AbortDue(o) == outcome[o] = "aborting" \/ due

Goto(o, label) == pc' = [pc EXCEPT ![o] = label]

\* Driver::reply: the request's single reply; the handler ends with it.
Reply(o, r) ==
    IF reply[o] = "none"
    THEN /\ reply' = [reply EXCEPT ![o] = r]
         /\ freezeOp' = IF freezeOp = o THEN NoOp ELSE freezeOp
    ELSE UNCHANGED <<reply, freezeOp>>

\* start_recovery_if_needed with no drain running.
StartRecovery ==
    /\ held' = {}
    /\ todo' = [todo EXCEPT ![Coord] = held]
    /\ rec' = IF held = {} THEN "none" ELSE "running"

\* commit_abort, once: the freeze token becomes a thaw token, the request is
\* answered, the handles published so far get their drain.
CommitAbortOnly(o) ==
    /\ ~aborted /\ aborted' = TRUE
    /\ outcome' = [outcome EXCEPT ![o] = IF @ = "open" THEN "aborting" ELSE @]
    /\ state' = "Thawing"
    /\ OnThawClaimed(thawPc)
    /\ Reply(o, "error")
    /\ UNCHANGED <<opSlot, scope, audit, diskVars, joinOp, terminal, result, accepted, due,
                   anyFrozen, kept, origin, keep, bad, bounds, held, todo, rec>>
CommitAbort(o) ==
    /\ ~aborted /\ aborted' = TRUE
    /\ outcome' = [outcome EXCEPT ![o] = IF @ = "open" THEN "aborting" ELSE @]
    /\ state' = "Thawing"
    /\ OnThawClaimed(thawPc)
    /\ Reply(o, "error")
    /\ StartRecovery
    /\ UNCHANGED <<opSlot, scope, audit, diskVars, joinOp, terminal, result, accepted, due,
                   anyFrozen, kept, origin, keep, bad, bounds>>

\* The first part of conclude: every settlement commits the outcome, and the
\* audit is flushed while the state still refuses a new freeze.
ConcludeFlushed(o, t, r) ==
    /\ outcome' = [outcome EXCEPT ![o] = IF @ = "open" THEN "committed" ELSE @]
    /\ audit' = "normal"
    /\ terminal' = [terminal EXCEPT ![o] = t] /\ result' = [result EXCEPT ![o] = r]
    /\ Goto(o, "retire")
Conclude(o, t, r) ==
    /\ outcome' = [outcome EXCEPT ![o] = IF @ = "open" THEN "committed" ELSE @]
    /\ audit' = IF t = "Thawed" THEN "normal" ELSE audit
    /\ terminal' = [terminal EXCEPT ![o] = t] /\ result' = [result EXCEPT ![o] = r]
    /\ Goto(o, "retire")

\* await_tracked: the abort is pending while an abortable task is awaited.
AbortWhileAwaiting(o) ==
    /\ pc[o] \in {"prep", "await"} /\ AbortDue(o)
    /\ CommitAbort(o)
    /\ UNCHANGED <<pc, plan, cur, task, uncertain, unrecoverable>>

\* await_tracked and settle_aborted: a recovery drain ended (record_recovery),
\* and the handles published meanwhile get the next one.
CollectRecovery(o) ==
    /\ pc[o] \in {"prep", "await", "recover"} /\ rec \in {"done", "lost"}
    /\ kept' = kept \cup keep[Coord]
    /\ keep' = [keep EXCEPT ![Coord] = {}]
    /\ uncertain' = (uncertain \/ rec = "lost")
    /\ unrecoverable' = (unrecoverable \/ rec = "lost" \/ keep[Coord] # {})
    /\ StartRecovery
    /\ UNCHANGED <<state, opSlot, scope, watchSlot, audit, diskVars, reqVars, opVars, plan,
                   cur, task, due, aborted, anyFrozen, thawPc, origin, bad, bounds>>

restOfDriver == <<state, opSlot, scope, watchSlot, diskVars, reqVars, reply, accepted, due,
                  aborted, rec, thawPc, origin, bad, bounds>>

\* The preparation returned; settle_before_ioctl.
PrepDoneUnmarked(o) ==
    /\ pc[o] = "prep" /\ task \in {"prepared", "markerFailed"}
    /\ Goto(o, "walk") /\ task' = "none"
    /\ UNCHANGED <<restOfDriver, audit, outcome, terminal, result, held, plan, cur, anyFrozen,
                   kept, uncertain, unrecoverable, todo, keep>>
PrepDone(o) ==
    /\ pc[o] = "prep"
    /\ \/ /\ task = "prepared" /\ Goto(o, "walk") /\ task' = "none"
          /\ UNCHANGED <<audit, outcome, terminal, result>>
       \/ /\ task \in {"planFailed", "markerFailed", "lost"} /\ aborted
          /\ Goto(o, "recover") /\ task' = "none"
          /\ UNCHANGED <<audit, outcome, terminal, result>>
       \/ /\ task = "lost" /\ ~aborted
          /\ Goto(o, "rmPrep") /\ task' = "remove"
          /\ UNCHANGED <<audit, outcome, terminal, result>>
       \/ /\ task \in {"planFailed", "markerFailed"} /\ ~aborted
          /\ Conclude(o, "Thawed", "error") /\ task' = "none"
    /\ UNCHANGED <<restOfDriver, held, plan, cur, anyFrozen, kept, uncertain, unrecoverable,
                   todo, keep>>

\* The authorisation boundary of the walk: decide, then the next target, or
\* the end of the plan.
WalkAborts(o) ==
    /\ pc[o] = "walk" /\ AbortDue(o)
    /\ CommitAbort(o) /\ Goto(o, "recover")
    /\ UNCHANGED <<plan, cur, task, uncertain, unrecoverable>>

Walk(o) ==
    /\ pc[o] = "walk"
    /\ \/ /\ aborted /\ Goto(o, "recover")
          /\ UNCHANGED <<plan, cur, task>>
       \/ /\ ~aborted /\ ~AbortDue(o) /\ plan # {}
          /\ \E t \in plan : cur' = t /\ plan' = plan \ {t}
          /\ task' = "open" /\ Goto(o, "await")
       \/ /\ ~aborted /\ ~AbortDue(o) /\ plan = {} /\ Goto(o, "commit")
          /\ UNCHANGED <<plan, cur, task>>
    /\ UNCHANGED <<restOfDriver, held, audit, outcome, terminal, result, anyFrozen, kept, uncertain,
                   unrecoverable, todo, keep>>

\* The worker returned.
WorkerDone(o) ==
    /\ pc[o] = "await"
    /\ cur' = NoTarget
    /\ \/ /\ task \in {"frozen", "busy"}
          /\ held' = held \cup {cur} /\ anyFrozen' = (anyFrozen \/ task = "frozen")
          /\ Goto(o, "walk") /\ task' = "none" /\ UNCHANGED todo
       \/ /\ \/ task \in {"skipped", "notAuthorized"}
             \/ task = "failed" /\ aborted
          /\ Goto(o, "walk") /\ task' = "none" /\ UNCHANGED <<held, anyFrozen, todo>>
       \/ /\ task = "failed" /\ ~aborted       \* settle_hard_error
          /\ todo' = [todo EXCEPT ![Coord] = held] /\ held' = {}
          /\ Goto(o, "rollback") /\ task' = "rollback" /\ UNCHANGED anyFrozen
    /\ UNCHANGED <<restOfDriver, audit, outcome, terminal, result, plan, kept, uncertain,
                   unrecoverable, keep>>

\* The worker is lost: its target is uncertain and the operation aborts.
WorkerLost(o) ==
    /\ pc[o] = "await" /\ task = "lost"
    /\ cur' = NoTarget /\ task' = "none"
    /\ uncertain' = TRUE /\ unrecoverable' = TRUE
    /\ Goto(o, "recover")
    /\ \/ CommitAbort(o) /\ UNCHANGED plan
       \/ /\ aborted
          /\ UNCHANGED <<restOfDriver, held, audit, outcome, terminal, result, plan, anyFrozen, kept,
                         todo, keep>>

\* try_commit against a thaw request; with nothing frozen and nothing held the
\* marker is removed (settle_nothing_frozen).
CommitUnconditionally(o) ==
    /\ pc[o] = "commit"
    /\ Conclude(o, "Frozen", "ok")
    /\ UNCHANGED <<restOfDriver, held, plan, cur, task, anyFrozen, kept, uncertain,
                   unrecoverable, todo, keep>>
Commit(o) ==
    /\ pc[o] = "commit" /\ outcome[o] = "open"
    /\ IF ~anyFrozen /\ held = {} /\ ~unrecoverable
       THEN /\ outcome' = [outcome EXCEPT ![o] = "committed"]
            /\ Goto(o, "rmNone") /\ task' = "remove" /\ UNCHANGED <<audit, terminal, result>>
       ELSE Conclude(o, "Frozen", "ok") /\ UNCHANGED task
    /\ UNCHANGED <<restOfDriver, held, plan, cur, anyFrozen, kept, uncertain, unrecoverable,
                   todo, keep>>

CommitLoses(o) ==
    /\ pc[o] = "commit" /\ outcome[o] = "aborting"
    /\ CommitAbort(o) /\ Goto(o, "recover")
    /\ UNCHANGED <<plan, cur, task, uncertain, unrecoverable>>

\* The removal of the marker returned: settle_nothing_frozen,
\* settle_before_ioctl and settle_aborted.
RemovalDone(o) ==
    /\ task \in {"removed", "retained", "lost"} /\ task' = "none"
    /\ \/ /\ pc[o] = "rmNone"
          /\ IF task = "removed" THEN Conclude(o, "Thawed", "ok")
                                 ELSE Conclude(o, "Frozen", "error")
       \/ /\ pc[o] = "rmPrep"
          /\ IF task = "retained" THEN Conclude(o, "Frozen", "error")
                                  ELSE Conclude(o, "Thawed", "error")
       \/ /\ pc[o] = "rmAbort"
          /\ IF task = "removed" THEN Conclude(o, "Thawed", "error")
                                 ELSE Conclude(o, "Frozen", "error")
    /\ UNCHANGED <<restOfDriver, held, plan, cur, anyFrozen, kept, uncertain, unrecoverable,
                   todo, keep>>

\* settle_hard_error, after the rollback.
RollbackDoneForgetting(o) ==
    /\ pc[o] = "rollback"
    /\ task \in {"rolledBack", "incomplete", "rollRetained", "lost"} /\ task' = "none"
    /\ keep' = [keep EXCEPT ![Coord] = {}]
    /\ uncertain' = (uncertain \/ task = "lost")
    /\ Conclude(o, IF task = "rolledBack" THEN "Thawed" ELSE "Frozen", "error")
    /\ UNCHANGED <<restOfDriver, held, plan, cur, anyFrozen, kept, unrecoverable, todo>>
RollbackDone(o) ==
    /\ pc[o] = "rollback"
    /\ task \in {"rolledBack", "incomplete", "rollRetained", "lost"} /\ task' = "none"
    /\ held' = held \cup keep[Coord] /\ keep' = [keep EXCEPT ![Coord] = {}]
    /\ uncertain' = (uncertain \/ task = "lost")
    /\ Conclude(o, IF task = "rolledBack" THEN "Thawed" ELSE "Frozen", "error")
    /\ UNCHANGED <<restOfDriver, plan, cur, anyFrozen, kept, unrecoverable, todo>>

\* settle_aborted: drain until nothing is published any more, then finalise.
Recover(o) ==
    /\ pc[o] = "recover" /\ rec = "none" /\ held # {}
    /\ StartRecovery
    /\ UNCHANGED <<state, opSlot, scope, watchSlot, audit, diskVars, reqVars, opVars, plan,
                   cur, task, due, aborted, anyFrozen, kept, uncertain, unrecoverable,
                   thawPc, origin, keep, bad, bounds>>

RecoveredUnchecked(o) ==
    /\ pc[o] = "recover" /\ rec = "none" /\ held = {}
    /\ Goto(o, "rmAbort") /\ task' = "remove"
    /\ UNCHANGED <<restOfDriver, held, kept, outcome, audit, terminal, result, plan, cur,
                   anyFrozen, uncertain, unrecoverable, todo, keep>>
Recovered(o) ==
    /\ pc[o] = "recover" /\ rec = "none" /\ held = {}
    /\ IF unrecoverable
       THEN /\ held' = kept /\ kept' = {}
            /\ Conclude(o, "Frozen", "error") /\ UNCHANGED task
       ELSE /\ Goto(o, "rmAbort") /\ task' = "remove"
            /\ UNCHANGED <<held, kept, outcome, audit, terminal, result>>
    /\ UNCHANGED <<restOfDriver, plan, cur, anyFrozen, uncertain, unrecoverable, todo, keep>>

\* conclude, continued: retire the registration by identity, ...
RetireNothing(o) ==
    /\ pc[o] = "retire" /\ Goto(o, "publish")
    /\ UNCHANGED <<ctxVars, diskVars, reqVars, outcome, reply, terminal, result, accepted,
                   walkVars, thawVars, bounds>>
Retire(o) ==
    /\ pc[o] = "retire" /\ Goto(o, "publish")
    /\ opSlot' = IF opSlot = o THEN NoOp ELSE opSlot
    /\ UNCHANGED <<state, held, scope, watchSlot, audit, diskVars, reqVars, outcome, reply,
                   terminal, result, accepted, walkVars, thawVars, bounds>>

\* ... publish the scope and the terminal state (the driver's locals end
\* here), ...
Publish(o) ==
    /\ pc[o] = "publish"
    /\ scope' = IF terminal[o] = "Frozen" /\ ~uncertain THEN "Tracked"
                                                                ELSE "Discovery"
    /\ state' = terminal[o]
    /\ Goto(o, IF terminal[o] = "Frozen" THEN "arm" ELSE "announce")
    /\ plan' = {} /\ cur' = NoTarget /\ task' = "none" /\ due' = FALSE
    /\ aborted' = FALSE /\ anyFrozen' = FALSE /\ rec' = "none" /\ kept' = {}
    /\ uncertain' = FALSE /\ unrecoverable' = FALSE
    /\ UNCHANGED <<opSlot, held, watchSlot, audit, diskVars, reqVars, outcome, reply,
                   terminal, result, accepted, thawVars, bounds>>

\* ... arm the watchdog after an entry into Frozen, ...
ArmAfterFreeze(o) ==
    /\ pc[o] = "arm" /\ Goto(o, "announce")
    /\ OnFrozen(thawPc)
    /\ UNCHANGED <<state, opSlot, held, scope, audit, diskVars, reqVars, outcome, reply,
                   terminal, result, accepted, walkVars, origin, todo, keep, bad, bounds>>

\* ... announce the settlement and send the reply if none went out.
Announce(o) ==
    /\ pc[o] = "announce" /\ Goto(o, "settled")
    /\ Reply(o, result[o])
    /\ UNCHANGED <<ctxVars, diskVars, joinOp, outcome, terminal, result, accepted, walkVars,
                   thawVars, bounds>>

\* The last reference to the operation is dropped.
DropOp(o) ==
    /\ pc[o] = "settled" /\ joinOp # o /\ Goto(o, "idle")
    /\ outcome' = [outcome EXCEPT ![o] = "open"] /\ reply' = [reply EXCEPT ![o] = "none"]
    /\ terminal' = [terminal EXCEPT ![o] = "Thawed"]
    /\ result' = [result EXCEPT ![o] = "none"]
    /\ accepted' = [accepted EXCEPT ![o] = FALSE]
    /\ UNCHANGED <<ctxVars, diskVars, reqVars, walkVars, thawVars, bounds>>

DriverStep(o) == AbortWhileAwaiting(o) \/ CollectRecovery(o) \/ PrepDone(o) \/ WalkAborts(o)
                   \/ Walk(o) \/ WorkerDone(o) \/ WorkerLost(o) \/ Commit(o)
                   \/ CommitLoses(o) \/ RemovalDone(o) \/ RollbackDone(o) \/ Recover(o)
                   \/ Recovered(o) \/ Retire(o) \/ Publish(o) \/ ArmAfterFreeze(o)
                   \/ Announce(o) \/ DropOp(o)

-----------------------------------------------------------------------------
(***************************************************************************)
(* guest-fsfreeze-thaw: claim, or join the operation, or claim once more.  *)
(***************************************************************************)
restOfThaw == <<opSlot, held, scope, watchSlot, audit, diskVars, freezeOp, pc, reply,
                terminal, result, walkVars, todo, keep, bad, bounds>>

At(a, label) == thawPc[a] = label
ThawGoto(a, label) == thawPc' = [thawPc EXCEPT ![a] = label]

\* claim_thaw from the states in from; the token keeps the origin.
ClaimUnchecked(a, from) ==
    /\ state' = "Thawing"
    /\ origin' = [origin EXCEPT ![a] = state]
    /\ ThawGoto(a, "claimed")
Claim(a, from) ==
    /\ state \in from /\ state' = "Thawing"
    /\ origin' = [origin EXCEPT ![a] = state]
    /\ ThawGoto(a, "claimed")

ThawRequest ==
    /\ At(Host, "idle")
    /\ \/ Claim(Host, {"Frozen", "Thawed"})
       \/ /\ state \notin {"Frozen", "Thawed"} /\ ThawGoto(Host, "lookup")
          /\ UNCHANGED <<state, origin>>
    /\ UNCHANGED <<restOfThaw, joinOp, outcome, accepted>>

LookUp ==
    /\ At(Host, "lookup") /\ joinOp' = opSlot
    /\ ThawGoto(Host, IF opSlot = NoOp THEN "reclaim" ELSE "join")
    /\ UNCHANGED <<restOfThaw, state, origin, outcome, accepted>>

\* The second claim; refused when it fails too.
Reclaim ==
    /\ At(Host, "reclaim")
    /\ \/ Claim(Host, {"Frozen", "Thawed"})
       \/ /\ state \notin {"Frozen", "Thawed"} /\ ThawGoto(Host, "idle")
          /\ UNCHANGED <<state, origin>>
    /\ UNCHANGED <<restOfThaw, joinOp, outcome, accepted>>

\* join_operation: request_abort competes with try_commit.
RequestAbortAndWait ==
    /\ At(Host, "join") /\ ThawGoto(Host, "await")
    /\ outcome' = [outcome EXCEPT ![joinOp] = IF @ = "open" THEN "aborting" ELSE @]
    /\ UNCHANGED <<restOfThaw, state, origin, joinOp, accepted>>
RequestAbort ==
    /\ At(Host, "join")
    /\ IF outcome[joinOp] = "committed"
       THEN ThawGoto(Host, "await") /\ UNCHANGED <<outcome, accepted>>
       ELSE /\ outcome' = [outcome EXCEPT ![joinOp] = "aborting"]
            /\ accepted' = [accepted EXCEPT ![joinOp] = TRUE]
            /\ ThawGoto(Host, "read")
    /\ UNCHANGED <<restOfThaw, state, origin, joinOp>>

\* Accepted: answered at once from the operation's progress.
ReadProgress ==
    /\ At(Host, "read") /\ ThawGoto(Host, "idle") /\ joinOp' = NoOp
    /\ UNCHANGED <<restOfThaw, state, origin, outcome, accepted>>

\* Committed: wait for the settlement, then the ordinary path.
AwaitSettlement ==
    /\ At(Host, "await") /\ pc[joinOp] = "settled" /\ joinOp' = NoOp
    /\ \/ Claim(Host, {"Frozen", "Thawed"})
       \/ /\ state \notin {"Frozen", "Thawed"} /\ ThawGoto(Host, "idle")
          /\ UNCHANGED <<state, origin>>
    /\ UNCHANGED <<restOfThaw, outcome, accepted>>

(***************************************************************************)
(* The watchdog: the idle timeout or the hard cap expires, then            *)
(* claim_thaw_from_frozen; a lost race ends the task quietly.              *)
(***************************************************************************)
DeadlineTaken(w) ==
    /\ At(w, "armed") /\ ThawGoto(w, "expired")
    /\ UNCHANGED <<restOfThaw, state, origin, joinOp, outcome, accepted>>

ExpireRearmed(w) ==
    /\ At(w, "expired") /\ ThawGoto(w, IF state = "Frozen" THEN "armed" ELSE "idle")
    /\ UNCHANGED <<restOfThaw, state, origin, joinOp, outcome, accepted>>
Expire(w) ==
    /\ At(w, "expired")
    /\ \/ Claim(w, {"Frozen"})
       \/ state # "Frozen" /\ ThawGoto(w, "idle") /\ UNCHANGED <<state, origin>>
    /\ UNCHANGED <<restOfThaw, joinOp, outcome, accepted>>

-----------------------------------------------------------------------------
(***************************************************************************)
(* run_thaw by a that holds the thaw token.                                *)
(***************************************************************************)
restOfRun == <<opSlot, freezeOp, joinOp, opVars, walkVars, bounds>>

\* on_thaw_claimed, take the handles, read the scope, spawn the task.
ThawStart(a) ==
    /\ At(a, "claimed")
    /\ OnThawClaimed([thawPc EXCEPT ![a] =
           IF origin[a] = "Thawed" \/ scope = "Discovery" THEN "discover" ELSE "drain"])
    /\ todo' = [todo EXCEPT ![a] = held] /\ held' = {}
    /\ bad' = [bad EXCEPT ![a] = FALSE]
    /\ UNCHANGED <<restOfRun, state, scope, audit, diskVars, origin, keep>>

\* build_plan of every eligible superblock; a planned target without a handle
\* may be reached by no mount point.  An unreadable table leaves the handles.
Discover(a) ==
    /\ At(a, "discover") /\ ThawGoto(a, "drain")
    /\ \/ \E unreachable \in SUBSET (Target \ todo[a]) :
            /\ todo' = [todo EXCEPT ![a] = Target \ unreachable]
            /\ bad' = [bad EXCEPT ![a] = unreachable # {}]
       \/ todo' = todo /\ bad' = [bad EXCEPT ![a] = TRUE]
    /\ UNCHANGED <<restOfRun, state, held, scope, watchSlot, audit, diskVars, origin, keep>>

ThawDrain(a) ==
    /\ At(a, "drain") /\ DrainTarget(a)
    /\ UNCHANGED <<restOfRun, state, held, scope, watchSlot, audit, marker, thawPc, origin,
                   bad>>

\* thaw_blocking: report the first failure, or go on to the marker.
ThawDrainedUnchecked(a) ==
    /\ At(a, "drain") /\ todo[a] = {} /\ ThawGoto(a, "remove")
    /\ UNCHANGED <<restOfRun, state, held, scope, watchSlot, audit, diskVars, origin, todo,
                   keep, bad>>
ThawDrained(a) ==
    /\ At(a, "drain") /\ todo[a] = {}
    /\ ThawGoto(a, IF bad[a] \/ keep[a] # {} THEN "failed" ELSE "remove")
    /\ UNCHANGED <<restOfRun, state, held, scope, watchSlot, audit, diskVars, origin, todo,
                   keep, bad>>

ThawRemoves(a) ==
    /\ At(a, "remove")
    /\ \/ RemoveMarker(TRUE) /\ ThawGoto(a, "succeeded")
       \/ RemoveMarker(FALSE) /\ ThawGoto(a, "failed")
    /\ UNCHANGED <<restOfRun, state, held, scope, watchSlot, audit, frozen, owned, origin,
                   todo, keep, bad>>

\* The task is lost with the handles it took.
ThawTasks == {"discover", "drain", "remove", "succeeded", "failed"}

ThawLost(a) ==
    /\ lost < MaxLost /\ lost' = lost + 1
    /\ thawPc[a] \in ThawTasks /\ ThawGoto(a, "lost")
    /\ LoseHandles(a)
    /\ UNCHANGED <<opSlot, freezeOp, joinOp, opVars, walkVars, crashes, state, held, scope,
                   watchSlot, audit, diskVars, origin, bad>>

\* The continuation after the task: hold the leftovers; a success, or any
\* recovery drain from Thawed, flushes the audit and publishes Thawed; any
\* other failure publishes Frozen and then arms the watchdog.
ThawFinish(a) ==
    /\ thawPc[a] \in {"succeeded", "failed", "lost"}
    /\ held' = held \cup keep[a] /\ keep' = [keep EXCEPT ![a] = {}]
    /\ origin' = [origin EXCEPT ![a] = "Thawed"] /\ bad' = [bad EXCEPT ![a] = FALSE]
    /\ IF At(a, "succeeded") \/ origin[a] = "Thawed"
       THEN /\ audit' = "normal" /\ scope' = "Discovery" /\ state' = "Thawed"
            /\ ThawGoto(a, "idle")
       ELSE /\ scope' = IF At(a, "lost") THEN "Discovery" ELSE scope
            /\ state' = "Frozen" /\ UNCHANGED audit
            /\ ThawGoto(a, "arm")
    /\ UNCHANGED <<restOfRun, watchSlot, diskVars, todo>>

ArmAfterThaw(a) ==
    /\ At(a, "arm")
    /\ OnFrozen([thawPc EXCEPT ![a] = "idle"])
    /\ UNCHANGED <<restOfRun, state, held, scope, audit, diskVars, origin, todo, keep, bad>>

RunThaw(a) == ThawStart(a) \/ Discover(a) \/ ThawDrain(a) \/ ThawDrained(a)
                \/ ThawRemoves(a) \/ ThawFinish(a) \/ ArmAfterThaw(a)

HostStep == LookUp \/ Reclaim \/ RequestAbort \/ ReadProgress \/ AwaitSettlement

-----------------------------------------------------------------------------
Next ==
    \/ \E o \in Op : BeginFreeze(o) \/ DriverStep(o)
    \/ DeadlinePasses \/ BlockingStep \/ TaskLost \/ RecoveryLost
    \/ ThawRequest \/ HostStep
    \/ \E w \in Watch : DeadlineTaken(w) \/ Expire(w)
    \/ \E a \in Thawer : RunThaw(a) \/ ThawLost(a)
    \/ Crash

Spec == Init /\ [][Next]_vars

(***************************************************************************)
(* Fairness.  The runtime polls its tasks and the clock advances; a drain, *)
(* a rollback and the removal of a marker end, as do the drains of a thaw. *)
(* The preparation and a worker's open and FIFREEZE are not assumed to     *)
(* return unless WorkerFairness says so.                                   *)
(***************************************************************************)
Fairness ==
    /\ \A o \in Op : WF_vars(DriverStep(o))
    /\ WF_vars(DeadlinePasses) /\ WF_vars(HostStep) /\ WF_vars(RemovalTask)
    /\ WF_vars(RollbackDrain \/ RollbackEnd \/ RollbackRemove)
    /\ WF_vars(RecoveryDrain \/ RecoveryEnd)
    /\ \A w \in Watch : WF_vars(DeadlineTaken(w)) /\ WF_vars(Expire(w))
    /\ \A a \in Thawer : WF_vars(RunThaw(a))

WorkerFairness ==
    WF_vars(BuildPlan \/ CreateMarker \/ OpenTarget \/ CheckAuthorised \/ Fifreeze)

\* A timeout is longer than the step from the publication of Frozen to the
\* arming of its watchdog: no timer runs out in between.
Arming == (\E o \in Op : pc[o] = "arm") \/ (\E a \in Thawer : At(a, "arm"))
LongTimeouts == \A w \in Watch : Arming => ~(At(w, "armed") /\ thawPc'[w] = "expired")

StuckSpec == Init /\ [][Next /\ LongTimeouts]_vars /\ Fairness

\* The host asks for freezes and never for a thaw; the agent may be killed.
AbandonedNext ==
    \/ \E o \in Op : BeginFreeze(o) \/ DriverStep(o)
    \/ DeadlinePasses \/ BlockingStep \/ TaskLost \/ RecoveryLost
    \/ \E w \in Watch : DeadlineTaken(w) \/ Expire(w)
    \/ \E a \in Thawer : RunThaw(a) \/ ThawLost(a)
    \/ Crash

AbandonedSpec == Init /\ [][AbandonedNext]_vars /\ Fairness

-----------------------------------------------------------------------------
(* Types of the variables. *)
TypeOK ==
    /\ state \in States /\ opSlot \in Op \cup {NoOp} /\ held \in SUBSET Target
    /\ scope \in {"Tracked", "Discovery"} /\ watchSlot \in Watch \cup {NoWatch}
    /\ audit \in {"normal", "ring"}
    /\ frozen \in SUBSET Target /\ owned \in SUBSET Target /\ marker \in BOOLEAN
    /\ freezeOp \in Op \cup {NoOp} /\ joinOp \in Op \cup {NoOp}
    /\ pc \in [Op -> OpPcs] /\ outcome \in [Op -> {"open", "aborting", "committed"}]
    /\ reply \in [Op -> Replies]
    /\ terminal \in [Op -> {"Thawed", "Frozen"}] /\ result \in [Op -> Replies]
    /\ accepted \in [Op -> BOOLEAN]
    /\ plan \in SUBSET Target /\ cur \in Target \cup {NoTarget} /\ task \in Tasks
    /\ due \in BOOLEAN /\ aborted \in BOOLEAN /\ anyFrozen \in BOOLEAN
    /\ rec \in {"none", "running", "done", "lost"} /\ kept \in SUBSET Target
    /\ uncertain \in BOOLEAN /\ unrecoverable \in BOOLEAN
    /\ thawPc \in [Thawer -> ThawPcs] /\ origin \in [Thawer -> {"Thawed", "Frozen"}]
    /\ todo \in [Drainer -> SUBSET Target] /\ keep \in [Drainer -> SUBSET Target]
    /\ bad \in [Thawer -> BOOLEAN]
    /\ crashes \in 0..MaxCrashes /\ lost \in 0..MaxLost

(* Crash safety: whenever a filesystem frozen by the agent is still frozen,  *)
(* the recovery marker is on disk, so that a process killed at this moment   *)
(* restarts in Frozen with a watchdog (Marker::create before the first       *)
(* FIFREEZE, Marker::remove only after a complete drain).                    *)
CrashSafe == owned # {} => marker

(* Thawed is never published while a filesystem the agent froze is frozen:   *)
(* not by an operation that aborts, rolls back or loses a task, not by a     *)
(* thaw whose drain was incomplete or whose task was lost.                   *)
ThawedIsThawed == state = "Thawed" => owned = {}

(* From the first FIFREEZE to the end of the drain no audit record is        *)
(* written to a descriptor: the router stays in ring mode.                   *)
RingWhileFrozen == owned # {} => audit = "ring"

(* A tracked thaw drains the held handles and reads no mount table: when the *)
(* scope says Tracked every filesystem the agent froze has a handle.         *)
TrackedScopeComplete == (state = "Frozen" /\ scope = "Tracked") => owned \subseteq held

(* A thaw that was told the abort is accepted never sees the operation       *)
(* report or publish a successful freeze afterwards.                         *)
AcceptedNeverSucceeds ==
    \A o \in Op : accepted[o] => reply[o] # "ok" /\ result[o] # "ok"

(* No target is drained by two owners: at most one of the operation's        *)
(* coordinator, the host's thaw and the watchdogs has a drain under way.     *)
Draining(d) == IF d = Coord THEN rec \in {"running", "done"} \/ task \in RollbackTasks
                            ELSE thawPc[d] \in ThawTasks
OneDrainOwner == \A d, e \in Drainer : Draining(d) /\ Draining(e) => d = e

(* Whoever observes a terminal state finds the operation slot released.      *)
SlotReleased == state \in {"Frozen", "Thawed"} => opSlot = NoOp

(* Frozen is bounded: a watchdog is armed or has just expired, or whoever    *)
(* published Frozen is about to arm one.                                     *)
FrozenIsWatched ==
    state = "Frozen" => \/ \E w \in Watch : thawPc[w] \in {"armed", "expired"}
                        \/ \E a \in Thawer : At(a, "arm")
                        \/ \E o \in Op : pc[o] = "arm"

(* A thaw that joined an operation answers with a count only when nothing    *)
(* the agent froze is frozen any more.                                       *)
ThawAnswer == IF pc[joinOp] = "settled" /\ terminal[joinOp] = "Thawed"
              THEN "count" ELSE "error"
JoinedThawHonest == At(Host, "read") /\ ThawAnswer = "count" => owned = {}

(* The core implements the lifecycle it promises: every step of a driver, a  *)
(* blocking task, a thaw or a watchdog is a step of that diagram or leaves   *)
(* the published state, the marker and the frozen filesystems alone.         *)
Lifecycle == INSTANCE FreezeLifecycle WITH state <- state, owned <- owned, marker <- marker
LifecycleSpec == Lifecycle!Spec

(* A freeze request is answered, by the deadline at the latest, even when a  *)
(* FIFREEZE (or the preparation) never returns.                              *)
FreezeAnswered == (freezeOp # NoOp) ~> (freezeOp = NoOp)

(* An overdue FIFREEZE does not prevent the drain of the targets completed   *)
(* before it: once the abort has committed every published handle is drained.*)
RecoveredDespiteStuck ==
    \A t \in Target : (aborted /\ t \in held \cup todo[Coord])
                        ~> (t \notin held \cup todo[Coord])

(* An abandoned freeze is thawed: the state does not stay Frozen.            *)
FrozenEnds == (state = "Frozen") ~> (state # "Frozen")

(* A thaw request is answered, also while a FIFREEZE never returns: it joins *)
(* the operation without waiting for it, and waits only for a settlement.    *)
ThawAnswered == ~At(Host, "idle") ~> At(Host, "idle")

(* When its kernel calls return, an operation settles, lost tasks included.  *)
OperationSettles ==
    WorkerFairness => \A o \in Op : Unresolved(o) ~> ~Unresolved(o)

(* Whatever never returns, nobody waits for ever: freeze and thaw requests   *)
(* are both answered.                                                        *)
RequestsAnswered == FreezeAnswered /\ ThawAnswered

(* An abort is carried to its end: what was frozen before the stuck call is  *)
(* drained beside it, and when that call returns the operation settles.      *)
AbortsComplete == RecoveredDespiteStuck /\ OperationSettles

(* The removal of the marker is part of every settlement as Thawed           *)
(* (freeze_op.rs, settle_before_ioctl: "`Thawed`, the marker removed if it   *)
(* exists").                                                                 *)
MarkerGoneWhenThawed == state = "Thawed" => ~marker

-----------------------------------------------------------------------------
(***************************************************************************)
(* The inductive invariant.                                                *)
(***************************************************************************)
\* a holds the thaw token.
Thawing(a) == thawPc[a] \in ThawTasks \cup {"claimed", "lost"}

\* The driver has not called conclude yet.
Working(o) == Unresolved(o) /\ pc[o] \notin {"retire", "publish"}

\* One owner at a time: a driver with the freeze or the thaw token, or a thaw.
OwnerInv ==
    /\ \A o, p \in Op : Unresolved(o) /\ Unresolved(p) => o = p
    /\ \A a, b \in Thawer : Thawing(a) /\ Thawing(b) => a = b
    /\ \A o \in Op : Unresolved(o) => state \in {"Freezing", "Thawing"}
    /\ \A a \in Thawer : Thawing(a) => state = "Thawing"
    /\ \A o \in Op, a \in Thawer : ~(Unresolved(o) /\ Thawing(a))
    /\ opSlot # NoOp => Unresolved(opSlot) /\ pc[opSlot] # "publish"

\* The driver's locals agree with where it is, and are clean when there is none.
DriverInv ==
    /\ (\A o \in Op : ~Unresolved(o)) =>
          /\ task = "none" /\ rec = "none" /\ ~aborted /\ ~uncertain /\ ~unrecoverable
          /\ kept = {} /\ todo[Coord] = {} /\ keep[Coord] = {}
    /\ \A o \in Op : Unresolved(o) =>
          /\ pc[o] = "prep" => task \in PrepTasks \cup {"lost"}
          /\ pc[o] = "await" => task \in WorkerTasks \cup {"lost"} /\ cur \in Target
          /\ pc[o] \in {"rmNone", "rmPrep", "rmAbort"} => task \in RemovalTasks \cup {"lost"}
          /\ pc[o] = "rollback" => task \in RollbackTasks \cup {"lost"} /\ held = {}
          /\ pc[o] \in {"walk", "commit", "recover", "retire", "publish"} => task = "none"
          /\ pc[o] \in {"commit", "rmNone", "rmPrep", "rollback"} => ~aborted
          /\ pc[o] \in {"recover", "rmAbort"} => aborted
          /\ rec # "none" => aborted /\ pc[o] \in {"prep", "walk", "await", "recover"}
          /\ rec # "running" /\ task # "rollback" => todo[Coord] = {}
          /\ rec \in {"none", "lost"} /\ task \notin {"rollback", "incomplete"}
                => keep[Coord] = {}
    /\ task \in WorkerTasks => cur \in Target
    /\ \A o \in Op : Working(o) =>
          /\ ~aborted => ~uncertain /\ ~unrecoverable /\ kept = {}
          /\ uncertain \/ kept # {} => unrecoverable

\* The marker is there whenever a FIFREEZE may be issued.
MarkerInv ==
    /\ \A o \in Op : pc[o] \in {"walk", "await", "commit"} => marker
    /\ task = "prepared" => marker
    /\ owned # {} => marker

\* The audit is in ring mode until a settlement as Thawed.
RingInv ==
    /\ \A o \in Op : Unresolved(o) /\ (Working(o) \/ terminal[o] = "Frozen")
                        => audit = "ring"
    /\ owned # {} => audit = "ring"

\* While the driver works, every filesystem the agent froze is accounted for by
\* a handle somewhere, or the loss of the handle has been recorded.
InFlight(o) == IF pc[o] = "await" /\ task \in {"frozen", "lost"} THEN {cur} ELSE {}

HandlesInv ==
    \A o \in Op : Working(o) =>
        \/ uncertain \/ rec = "lost"
        \/ pc[o] = "rollback" /\ task = "lost"
        \/ owned \subseteq held \cup todo[Coord] \cup keep[Coord] \cup kept \cup InFlight(o)

\* Where nothing the agent froze is frozen.
NothingOwnedInv ==
    /\ \A o \in Op : pc[o] \in {"prep", "rmPrep", "rmNone", "rmAbort"} => owned = {}
    /\ task \in {"rollRemove", "rolledBack", "rollRetained"} => owned = {}
    /\ \A o \in Op : pc[o] \in {"retire", "publish"} /\ terminal[o] = "Thawed" => owned = {}
    /\ state = "Thawed" => owned = {}
    /\ \A a \in Thawer : Thawing(a) =>
          (origin[a] = "Thawed" \/ thawPc[a] \in {"remove", "succeeded"} => owned = {})

\* Where a tracked scope is, or becomes, complete.
TrackedInv ==
    /\ \A o \in Op : pc[o] \in {"retire", "publish"} /\ terminal[o] = "Frozen"
                        => uncertain \/ owned \subseteq held
    /\ state = "Frozen" /\ scope = "Tracked" => owned \subseteq held
    /\ \A a \in Thawer :
          /\ thawPc[a] = "claimed" /\ scope = "Tracked" => owned \subseteq held
          /\ thawPc[a] = "discover" => scope = "Discovery" \/ owned = {}
          /\ thawPc[a] = "drain" /\ (~bad[a] \/ scope = "Tracked")
                => owned \subseteq todo[a] \cup keep[a]
          /\ thawPc[a] = "failed" /\ scope = "Tracked" => owned \subseteq keep[a]

\* What an abort request was told decides the outcome.
AbortInv ==
    \A o \in Op :
        /\ accepted[o] => outcome[o] = "aborting"
        /\ result[o] = "ok" => outcome[o] = "committed"
        /\ reply[o] = "ok" => result[o] = "ok" /\ pc[o] = "settled"
        /\ pc[o] = "rmNone" => outcome[o] = "committed"

\* While a thaw has joined an operation no other one begins, and its settlement
\* as Thawed stays true.
JoinInv ==
    thawPc[Host] \in {"join", "read", "await"} =>
        /\ joinOp \in Op /\ pc[joinOp] # "idle"
        /\ \A o \in Op : Unresolved(o) => o = joinOp
        /\ ~Unresolved(joinOp) /\ terminal[joinOp] = "Thawed" => owned = {}

(* The strengthening from which the safety properties follow.               *)
IInv == OwnerInv /\ DriverInv /\ MarkerInv /\ RingInv /\ HandlesInv /\ NothingOwnedInv
          /\ TrackedInv /\ AbortInv /\ JoinInv /\ FrozenIsWatched

=============================================================================
