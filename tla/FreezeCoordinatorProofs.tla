---------------------- MODULE FreezeCoordinatorProofs -----------------------
(***************************************************************************)
(* The safety properties of FreezeCoordinator, and that it implements      *)
(* FreezeLifecycle, for any set of targets, operations and watchdogs and   *)
(* any number of crashes and lost tasks.                                   *)
(*                                                                         *)
(* IInv is inductive together with TypeOK.  The lemmas preserve its        *)
(* conjuncts one by one: who owns an operation or a thaw, the answer to an *)
(* abort request, the locals of the driver and the watchdog, what a        *)
(* tracked scope covers, the marker, where nothing is frozen, where the    *)
(* handles are, the audit and the joined operation.                        *)
(*                                                                         *)
(* One step per action; a step that leaves the variables of the conjunct   *)
(* alone is dismissed by the frame step <1>1.                              *)
(***************************************************************************)
EXTENDS FreezeCoordinator, TLAPS


(* The initial states have their types. *)
LEMMA TypeInit == Init => TypeOK
<1> SUFFICES ASSUME Init PROVE TypeOK
  BY Zenon
<1> USE ConstantsAssumption DEF Init
<1>1. crashes \in 0..MaxCrashes /\ lost \in 0..MaxLost
  OBVIOUS
<1>2. todo \in [Drainer -> SUBSET Target] /\ keep \in [Drainer -> SUBSET Target]
  BY Zenon
<1>3. pc \in [Op -> OpPcs] /\ outcome \in [Op -> {"open", "aborting", "committed"}] /\ thawPc \in [Thawer -> ThawPcs]
  BY Zenon DEF OpPcs, ThawPcs
<1>4. bad \in [Thawer -> BOOLEAN] /\ accepted \in [Op -> BOOLEAN] 
  BY Zenon
<1> QED
  BY Zenon, <1>1, <1>2, <1>3, <1>4 DEF TypeOK, States, Replies, Tasks

(* Every step preserves the types; DriverInv types the target of the worker. *)
LEMMA TypePreserved == TypeOK /\ DriverInv /\ [Next]_vars => TypeOK'
<1> SUFFICES ASSUME TypeOK, DriverInv, [Next]_vars PROVE TypeOK'
  BY Zenon
<1> USE ConstantsAssumption DEF TypeOK, States, Replies, ctxVars, diskVars, reqVars, opVars, walkVars, thawVars, bounds,
    restOfTask, restOfDriver, restOfThaw, restOfRun, Drainer, Thawer
<1>1. CASE UNCHANGED vars
  BY <1>1 DEF vars
<1>2. CASE Crash
  <2> USE <1>2 DEF Crash
  <2>1. frozen' \in SUBSET Target /\ owned' \in SUBSET Target
    BY DEF DriverInv, WorkerTasks, OrphanedFreeze
  <2>2. pc' \in [Op -> OpPcs] /\ outcome' \in [Op -> {"open", "aborting", "committed"}] /\ thawPc' \in [Thawer -> ThawPcs]
    BY DEF OpPcs, ThawPcs
  <2>3. watchSlot' \in Watch \cup {NoWatch} /\ state' \in States /\ audit' \in {"normal", "ring"}
    BY Zenon DEF States
  <2>4. bad' \in [Thawer -> BOOLEAN] /\ accepted' \in [Op -> BOOLEAN]
    BY Zenon
  <2>5. crashes' \in 0..MaxCrashes
    OBVIOUS
  <2> QED
    BY Zenon, <2>1, <2>2, <2>3, <2>4, <2>5 DEF Tasks
<1>3. CASE DeadlinePasses
  BY <1>3 DEF DeadlinePasses
<1>4. ASSUME NEW o \in Op, BeginFreeze(o) PROVE TypeOK'
  BY <1>4 DEF BeginFreeze, OpPcs, Tasks, PrepTasks
<1>5. CASE BlockingStep
  <2>1. CASE BuildPlan
    BY <2>1 DEF BuildPlan, TaskStep, Tasks, PrepTasks
  <2>2. CASE CreateMarker
    <3>1. marker' \in BOOLEAN
      BY <2>2, Zenon DEF CreateMarker
    <3> QED
      BY <2>2, <3>1 DEF CreateMarker, TaskStep, Tasks, PrepTasks
  <2>3. CASE OpenTarget
    BY <2>3 DEF OpenTarget, TaskStep, Tasks, WorkerTasks
  <2>4. CASE CheckAuthorised
    BY <2>4 DEF CheckAuthorised, TaskStep, Tasks, WorkerTasks
  <2>5. CASE Fifreeze
    BY <2>5 DEF Fifreeze, DriverInv, TaskStep, Tasks, WorkerTasks
  <2>6. CASE RemovalTask
    <3>1. marker' \in BOOLEAN
      BY <2>6, Zenon DEF RemovalTask, RemoveMarker
    <3> QED
      BY <2>6, <3>1 DEF RemovalTask, RemoveMarker, TaskStep, Tasks, RemovalTasks
  <2>7. CASE RollbackDrain
    BY <2>7 DEF RollbackDrain, DrainTarget
  <2>8. CASE RollbackEnd
    BY <2>8 DEF RollbackEnd, TaskStep, Tasks, RollbackTasks
  <2>9. CASE RollbackRemove
    <3>1. marker' \in BOOLEAN
      BY <2>9, Zenon DEF RollbackRemove, RemoveMarker
    <3> QED
      BY <2>9, <3>1 DEF RollbackRemove, RemoveMarker, TaskStep, Tasks, RollbackTasks
  <2>10. CASE RecoveryDrain
    BY <2>10 DEF RecoveryDrain, DrainTarget
  <2>11. CASE RecoveryEnd
    BY <2>11 DEF RecoveryEnd
  <2> QED BY Zenon, <1>5, <2>1, <2>2, <2>3, <2>4, <2>5, <2>6, <2>7, <2>8, <2>9, <2>10, <2>11 DEF BlockingStep
<1>6. ASSUME NEW o \in Op, DriverStep(o) PROVE TypeOK'
  <2> USE DEF CommitAbort, OnThawClaimed, Cancelled, Reply, StartRecovery, Conclude, Goto
  <2>1. CASE AbortWhileAwaiting(o)
    BY <2>1 DEF AbortWhileAwaiting, ThawPcs
  <2>2. CASE CollectRecovery(o)
    BY <2>2 DEF CollectRecovery
  <2>3. CASE PrepDone(o)
    BY <2>3 DEF PrepDone, OpPcs, Tasks, RemovalTasks
  <2>4. CASE WalkAborts(o)
    BY <2>4 DEF WalkAborts, ThawPcs, OpPcs
  <2>5. CASE Walk(o)
    BY <2>5 DEF Walk, OpPcs, Tasks, WorkerTasks
  <2>6. CASE WorkerDone(o)
    <3>1. anyFrozen' \in BOOLEAN
      BY Zenon, <2>6 DEF WorkerDone
    <3>2. cur \in Target
      BY Zenon, <2>6 DEF WorkerDone, DriverInv, Unresolved
    <3>3. held' \in SUBSET Target /\ todo' \in [Drainer -> SUBSET Target]
      BY Zenon, <2>6, <3>2 DEF WorkerDone
    <3>4. pc' \in [Op -> OpPcs] /\ task' \in Tasks /\ cur' \in Target \cup {NoTarget}
      BY Zenon, <2>6 DEF WorkerDone, OpPcs, Tasks, RollbackTasks, WorkerTasks
    <3> QED
      BY <2>6, <3>1, <3>3, <3>4 DEF WorkerDone
  <2>7. CASE WorkerLost(o)
    <3>1. CASE CommitAbort(o)
      <4>1. held' \in SUBSET Target /\ todo' \in [Drainer -> SUBSET Target]
              /\ rec' \in {"none", "running", "done", "lost"}
        BY Zenon, <3>1
      <4>2. watchSlot' \in Watch \cup {NoWatch} /\ thawPc' \in [Thawer -> ThawPcs]
        BY Zenon, <3>1 DEF ThawPcs
      <4>3. reply' \in [Op -> Replies] /\ freezeOp' \in Op \cup {NoOp}
              /\ outcome' \in [Op -> {"open", "aborting", "committed"}]
        BY Zenon, <3>1
      <4> HIDE DEF CommitAbort
      <4>4. pc' \in [Op -> OpPcs] /\ task' \in Tasks /\ cur' \in Target \cup {NoTarget}
              /\ uncertain' \in BOOLEAN /\ unrecoverable' \in BOOLEAN
        BY Zenon, <2>7 DEF WorkerLost, OpPcs, Tasks
      <4>5. plan' \in SUBSET Target
        BY Zenon, <2>7, <3>1 DEF WorkerLost, CommitAbort
      <4>6. state' \in States /\ aborted' \in BOOLEAN
        BY Zenon, <3>1 DEF CommitAbort
      <4> QED
        BY Zenon, <3>1, <4>1, <4>2, <4>3, <4>4, <4>5, <4>6 DEF CommitAbort
    <3>2. CASE aborted
      BY <2>7, <3>2 DEF WorkerLost, OpPcs, Tasks, ThawPcs
    <3> QED
      BY Zenon, <2>7, <3>1, <3>2 DEF WorkerLost
  <2>8. CASE Commit(o)
    BY <2>8 DEF Commit, OpPcs, Tasks, RemovalTasks
  <2>9. CASE CommitLoses(o)
    BY <2>9 DEF CommitLoses, OpPcs, ThawPcs
  <2>10. CASE RemovalDone(o)
    BY <2>10 DEF RemovalDone, OpPcs, Tasks
  <2>11. CASE RollbackDone(o)
    BY <2>11 DEF RollbackDone, OpPcs, Tasks
  <2>12. CASE Recover(o)
    BY <2>12 DEF Recover
  <2>13. CASE Recovered(o)
    BY <2>13 DEF Recovered, OpPcs, Tasks, RemovalTasks
  <2>14. CASE Retire(o)
    BY <2>14 DEF Retire, OpPcs
  <2>15. CASE Publish(o)
    BY Zenon, <2>15 DEF Publish, OpPcs, Tasks
  <2>16. CASE ArmAfterFreeze(o)
    BY <2>16 DEF ArmAfterFreeze, OnFrozen, OpPcs, ThawPcs
  <2>17. CASE Announce(o)
    BY <2>17 DEF Announce, OpPcs
  <2>18. CASE DropOp(o)
    BY <2>18 DEF DropOp, OpPcs
  <2> QED BY Zenon, <1>6, <2>1, <2>2, <2>3, <2>4, <2>5, <2>6, <2>7, <2>8, <2>9, <2>10, <2>11, <2>12, <2>13,
        <2>14, <2>15, <2>16, <2>17, <2>18 DEF DriverStep
<1>7. CASE TaskLost
  BY <1>7 DEF TaskLost, LoseHandles, Tasks
<1>8. CASE RecoveryLost
  BY <1>8 DEF RecoveryLost, LoseHandles
<1>9. CASE ThawRequest
  BY <1>9 DEF ThawRequest, Claim, At, ThawGoto, ThawPcs
<1>10. CASE HostStep
  <2> USE DEF At, ThawGoto, ThawPcs
  <2>1. CASE LookUp
    BY <2>1 DEF LookUp
  <2>2. CASE Reclaim
    BY <2>2 DEF Reclaim, Claim
  <2>3. CASE RequestAbort
    <3>1. accepted' \in [Op -> BOOLEAN] /\ outcome' \in [Op -> {"open", "aborting", "committed"}]
      BY Zenon, <2>3 DEF RequestAbort
    <3> QED
      BY <2>3, <3>1 DEF RequestAbort
  <2>4. CASE ReadProgress
    BY <2>4 DEF ReadProgress
  <2>5. CASE AwaitSettlement
    BY <2>5 DEF AwaitSettlement, Claim
  <2> QED
    BY Zenon, <1>10, <2>1, <2>2, <2>3, <2>4, <2>5 DEF HostStep
<1>11. ASSUME NEW w \in Watch, DeadlineTaken(w) \/ Expire(w) PROVE TypeOK'
  BY <1>11 DEF DeadlineTaken, Expire, Claim, At, ThawGoto, ThawPcs
<1>12. ASSUME NEW a \in Thawer, RunThaw(a) \/ ThawLost(a) PROVE TypeOK'
  <2> USE DEF At, ThawGoto, ThawPcs
  <2>1. CASE ThawStart(a)
    BY <2>1 DEF ThawStart, OnThawClaimed, Cancelled
  <2>2. CASE Discover(a)
    <3>1. bad' \in [Thawer -> BOOLEAN]
      BY Zenon, <2>2 DEF Discover
    <3> QED
      BY <2>2, <3>1 DEF Discover
  <2>3. CASE ThawDrain(a)
    BY <2>3 DEF ThawDrain, DrainTarget
  <2>4. CASE ThawDrained(a)
    BY <2>4 DEF ThawDrained
  <2>5. CASE ThawRemoves(a)
    <3>1. marker' \in BOOLEAN
      BY <2>5, Zenon DEF ThawRemoves, RemoveMarker
    <3> QED
      BY <2>5, <3>1 DEF ThawRemoves, RemoveMarker
  <2>6. CASE ThawFinish(a)
    BY <2>6 DEF ThawFinish
  <2>7. CASE ArmAfterThaw(a)
    BY <2>7 DEF ArmAfterThaw, OnFrozen, Cancelled
  <2>8. CASE ThawLost(a)
    BY <2>8 DEF ThawLost, LoseHandles
  <2> QED
    BY Zenon, <1>12, <2>1, <2>2, <2>3, <2>4, <2>5, <2>6, <2>7, <2>8 DEF RunThaw
<1> QED
  BY Zenon, <1>1, <1>2, <1>3, <1>4, <1>5, <1>6, <1>7, <1>8, <1>9, <1>10, <1>11, <1>12 DEF Next

-----------------------------------------------------------------------------
(* The tracked task and the recovery drain belong to an unresolved operation *)
(* that is where it awaits them.                                             *)
LEMMA TaskOwner ==
  ASSUME TypeOK, DriverInv
  PROVE  /\ task \in PrepTasks => \E o \in Op : pc[o] = "prep"
         /\ task \in WorkerTasks => \E o \in Op : pc[o] = "await"
         /\ task \in RemovalTasks => \E o \in Op : pc[o] \in {"rmNone", "rmPrep", "rmAbort"}
         /\ task \in RollbackTasks => \E o \in Op : pc[o] = "rollback"
         /\ task # "none" \/ rec # "none" => \E o \in Op : Unresolved(o)
<1>1. task # "none" \/ rec # "none" => \E o \in Op : Unresolved(o)
  BY Zenon DEF DriverInv
<1>2. ASSUME NEW o \in Op, Unresolved(o)
      PROVE  /\ task \in PrepTasks => pc[o] = "prep"
             /\ task \in WorkerTasks => pc[o] = "await"
             /\ task \in RemovalTasks => pc[o] \in {"rmNone", "rmPrep", "rmAbort"}
             /\ task \in RollbackTasks => pc[o] = "rollback"
  BY <1>2 DEF DriverInv, Unresolved, TypeOK, OpPcs, PrepTasks, WorkerTasks, RemovalTasks,
    RollbackTasks
<1> QED
  BY Zenon, <1>1, <1>2 DEF PrepTasks, WorkerTasks, RemovalTasks, RollbackTasks

-----------------------------------------------------------------------------
(* One owner at a time: what a driver, a thaw and the slot claim is kept.    *)
LEMMA OwnerPreserved ==
  ASSUME TypeOK, OwnerInv, [Next]_vars
  PROVE  OwnerInv'
<1> USE DEF Thawer, Drainer, ctxVars, diskVars, reqVars, opVars, walkVars, thawVars,
  bounds, restOfTask, restOfDriver, restOfThaw, restOfRun
<1>0. /\ state \in States
      /\ opSlot \in Op \cup {NoOp}
      /\ pc \in [Op -> OpPcs]
      /\ thawPc \in [Thawer -> ThawPcs]
  BY Zenon DEF TypeOK
<1>1. CASE UNCHANGED <<state, opSlot, pc, thawPc>>
  BY Zenon, <1>1, ConstantsAssumption, <1>0 DEF OwnerInv, Unresolved, Thawing, ThawTasks
<1>2. CASE UNCHANGED vars \/ DeadlinePasses \/ TaskLost \/ RecoveryLost
  BY Zenon, <1>1, <1>2 DEF vars, DeadlinePasses, TaskLost, LoseHandles, RecoveryLost
<1>3. CASE BlockingStep
  BY <1>1, <1>3, Zenon DEF BlockingStep, BuildPlan, TaskStep, CreateMarker, OpenTarget,
    CheckAuthorised, Fifreeze, RemovalTask, RemoveMarker, RollbackDrain, DrainTarget,
    RollbackEnd, RollbackRemove, RecoveryDrain, RecoveryEnd
<1>4. ASSUME NEW o \in Op, CollectRecovery(o) \/ Recover(o) PROVE OwnerInv'
  BY Zenon, <1>1, <1>4 DEF CollectRecovery, StartRecovery, Recover
<1>5. ASSUME NEW a \in Thawer, ThawDrain(a) PROVE OwnerInv'
  BY Zenon, <1>1, <1>5 DEF ThawDrain, At, ThawGoto, DrainTarget
<1> USE <1>0, ConstantsAssumption DEF OwnerInv, Unresolved, Thawing, ThawTasks
<1>6. CASE Crash
  BY Zenon, <1>6 DEF Crash, OrphanedFreeze
<1>7. CASE ThawRequest
  BY <1>7 DEF ThawRequest, At, ThawGoto, Claim
<1>8. ASSUME NEW o \in Op, BeginFreeze(o) PROVE OwnerInv'
  BY Zenon, <1>8 DEF BeginFreeze
<1>9. ASSUME NEW o \in Op, DriverStep(o) PROVE OwnerInv'
  <2>1. CASE AbortWhileAwaiting(o)
    <3> HIDE DEF OwnerInv, Thawing
    <3>1. Unresolved(o) /\ (pc[o] # "publish")
      BY Zenon, <2>1 DEF AbortWhileAwaiting
    <3>2. opSlot' = opSlot /\ state' \in {state, "Thawing"}
      BY Zenon, <2>1 DEF AbortWhileAwaiting, CommitAbort
    <3>3. \E s \in OpPcs : /\ pc' = [pc EXCEPT ![o] = s]
                          /\ s \notin {"idle", "arm", "announce", "settled", "publish"}
      BY Zenon, <2>1, <3>1 DEF AbortWhileAwaiting, Goto, OpPcs
    <3>4. \A b \in Thawer : thawPc'[b] \in {thawPc[b], "idle"}
      BY Zenon, <2>1 DEF AbortWhileAwaiting, CommitAbort, OnThawClaimed, Cancelled
    <3>5. \A b \in Thawer : Thawing(b)' => Thawing(b)
      BY Zenon, <3>4 DEF Thawing
    <3> QED
      BY Zenon, <3>1, <3>2, <3>3, <3>5 DEF OwnerInv
  <2>2. CASE PrepDone(o)
    BY Zenon, <2>2 DEF PrepDone, Goto, Conclude
  <2>3. CASE WalkAborts(o)
    <3> HIDE DEF OwnerInv, Thawing
    <3>1. Unresolved(o) /\ (pc[o] # "publish")
      BY Zenon, <2>3 DEF WalkAborts
    <3>2. opSlot' = opSlot /\ state' \in {state, "Thawing"}
      BY Zenon, <2>3 DEF WalkAborts, CommitAbort
    <3>3. \E s \in OpPcs : /\ pc' = [pc EXCEPT ![o] = s]
                          /\ s \notin {"idle", "arm", "announce", "settled", "publish"}
      BY Zenon, <2>3, <3>1 DEF WalkAborts, Goto, OpPcs
    <3>4. \A b \in Thawer : thawPc'[b] \in {thawPc[b], "idle"}
      BY Zenon, <2>3 DEF WalkAborts, CommitAbort, OnThawClaimed, Cancelled
    <3>5. \A b \in Thawer : Thawing(b)' => Thawing(b)
      BY Zenon, <3>4 DEF Thawing
    <3> QED
      BY Zenon, <3>1, <3>2, <3>3, <3>5 DEF OwnerInv
  <2>4. CASE Walk(o)
    BY Zenon, <2>4 DEF Walk, Goto
  <2>5. CASE WorkerDone(o)
    BY Zenon, <2>5 DEF WorkerDone, Goto
  <2>6. CASE WorkerLost(o)
    <3> HIDE DEF OwnerInv, Thawing
    <3>1. Unresolved(o) /\ (pc[o] # "publish")
      BY Zenon, <2>6 DEF WorkerLost
    <3>2. opSlot' = opSlot /\ state' \in {state, "Thawing"}
      BY Zenon, <2>6 DEF WorkerLost, CommitAbort
    <3>3. \E s \in OpPcs : /\ pc' = [pc EXCEPT ![o] = s]
                          /\ s \notin {"idle", "arm", "announce", "settled", "publish"}
      BY Zenon, <2>6, <3>1 DEF WorkerLost, Goto, OpPcs
    <3>4. \A b \in Thawer : thawPc'[b] \in {thawPc[b], "idle"}
      BY Zenon, <2>6 DEF WorkerLost, CommitAbort, OnThawClaimed, Cancelled
    <3>5. \A b \in Thawer : Thawing(b)' => Thawing(b)
      BY Zenon, <3>4 DEF Thawing
    <3> QED
      BY Zenon, <3>1, <3>2, <3>3, <3>5 DEF OwnerInv
  <2>7. CASE Commit(o)
    BY Zenon, <2>7 DEF Commit, Goto, Conclude
  <2>8. CASE CommitLoses(o)
    <3> HIDE DEF OwnerInv, Thawing
    <3>1. Unresolved(o) /\ (pc[o] # "publish")
      BY Zenon, <2>8 DEF CommitLoses
    <3>2. opSlot' = opSlot /\ state' \in {state, "Thawing"}
      BY Zenon, <2>8 DEF CommitLoses, CommitAbort
    <3>3. \E s \in OpPcs : /\ pc' = [pc EXCEPT ![o] = s]
                          /\ s \notin {"idle", "arm", "announce", "settled", "publish"}
      BY Zenon, <2>8, <3>1 DEF CommitLoses, Goto, OpPcs
    <3>4. \A b \in Thawer : thawPc'[b] \in {thawPc[b], "idle"}
      BY Zenon, <2>8 DEF CommitLoses, CommitAbort, OnThawClaimed, Cancelled
    <3>5. \A b \in Thawer : Thawing(b)' => Thawing(b)
      BY Zenon, <3>4 DEF Thawing
    <3> QED
      BY Zenon, <3>1, <3>2, <3>3, <3>5 DEF OwnerInv
  <2>9. CASE RemovalDone(o)
    BY <2>9, Zenon DEF RemovalDone, Goto, Conclude
  <2>10. CASE RollbackDone(o)
    BY Zenon, <2>10 DEF RollbackDone, Goto, Conclude
  <2>11. CASE Recovered(o)
    BY Zenon, <2>11 DEF Recovered, Goto, Conclude
  <2>12. CASE Retire(o)
    BY Zenon, <2>12 DEF Retire, Goto
  <2>13. CASE Publish(o)
    BY Zenon, <2>13 DEF Publish, Goto
  <2>14. CASE ArmAfterFreeze(o)
    BY <2>14 DEF ArmAfterFreeze, Goto, OnFrozen, Cancelled
  <2>15. CASE Announce(o)
    BY Zenon, <2>15 DEF Announce, Goto, Reply
  <2>16. CASE DropOp(o)
    BY Zenon, <2>16 DEF DropOp, Goto
  <2> HIDE DEF OwnerInv, Unresolved, Thawing, ThawTasks
  <2> QED
    BY Zenon, <1>9, <1>4, <2>1, <2>2, <2>3, <2>4, <2>5, <2>6, <2>7, <2>8, <2>9, <2>10, <2>11,
      <2>12, <2>13, <2>14, <2>15, <2>16 DEF DriverStep
<1>10. CASE HostStep
  <2>1. CASE LookUp
    BY Zenon, <2>1 DEF LookUp, At, ThawGoto
  <2>2. CASE Reclaim
    BY <2>2 DEF Reclaim, At, ThawGoto, Claim
  <2>3. CASE RequestAbort
    BY <2>3 DEF RequestAbort, At, ThawGoto
  <2>4. CASE ReadProgress
    BY Zenon, <2>4 DEF ReadProgress, At, ThawGoto
  <2>5. CASE AwaitSettlement
    BY <2>5 DEF AwaitSettlement, At, ThawGoto, Claim
  <2> HIDE DEF OwnerInv, Unresolved, Thawing, ThawTasks
  <2> QED
    BY Zenon, <1>10, <2>1, <2>2, <2>3, <2>4, <2>5 DEF HostStep
<1>11. ASSUME NEW w \in Watch, DeadlineTaken(w) \/ Expire(w) PROVE OwnerInv'
  <2>1. CASE DeadlineTaken(w)
    BY Zenon, <2>1 DEF DeadlineTaken, At, ThawGoto
  <2>2. CASE Expire(w)
    BY <2>2 DEF Expire, At, ThawGoto, Claim
  <2> HIDE DEF OwnerInv, Unresolved, Thawing, ThawTasks
  <2> QED
    BY Zenon, <1>11, <2>1, <2>2
<1>12. ASSUME NEW a \in Thawer, RunThaw(a) \/ ThawLost(a) PROVE OwnerInv'
  <2>1. CASE ThawStart(a)
    <3> HIDE DEF OwnerInv, Unresolved
    <3>1. UNCHANGED <<state, opSlot, pc>>
      BY Zenon, <2>1 DEF ThawStart
    <3>2. thawPc[a] = "claimed"
      BY Zenon, <2>1 DEF ThawStart, At
    <3>3. \A b \in Thawer : b = a \/ thawPc'[b] \in {thawPc[b], "idle"}
      BY Zenon, <2>1 DEF ThawStart, OnThawClaimed, Cancelled
    <3>4. \A b \in Thawer : Thawing(b)' => Thawing(b)
      BY Zenon, <3>2, <3>3
    <3> QED
      BY Zenon, <3>1, <3>4 DEF OwnerInv, Unresolved
  <2>2. CASE Discover(a)
    BY <2>2 DEF Discover, At, ThawGoto
  <2>3. CASE ThawDrained(a)
    BY Zenon, <2>3 DEF ThawDrained, At, ThawGoto
  <2>4. CASE ThawRemoves(a)
    BY Zenon, <2>4 DEF ThawRemoves, At, ThawGoto, RemoveMarker
  <2>5. CASE ThawFinish(a)
    BY <2>5 DEF ThawFinish, At, ThawGoto
  <2>6. CASE ArmAfterThaw(a)
    <3> HIDE DEF OwnerInv, Unresolved
    <3>1. UNCHANGED <<state, opSlot, pc>>
      BY Zenon, <2>6 DEF ArmAfterThaw
    <3>2. \A b \in Thawer : thawPc'[b] \in {thawPc[b], "idle", "armed"}
      BY Zenon, <2>6 DEF ArmAfterThaw, OnFrozen, Cancelled
    <3>3. \A b \in Thawer : Thawing(b)' => Thawing(b)
      BY Zenon, <3>2
    <3> QED
      BY Zenon, <3>1, <3>3 DEF OwnerInv, Unresolved
  <2>7. CASE ThawLost(a)
    BY Zenon, <2>7 DEF ThawLost, At, ThawGoto, LoseHandles
  <2> HIDE DEF OwnerInv, Unresolved, Thawing, ThawTasks
  <2> QED
    BY Zenon, <1>12, <1>5, <2>1, <2>2, <2>3, <2>4, <2>5, <2>6, <2>7 DEF RunThaw
<1> HIDE DEF OwnerInv, Unresolved, Thawing, ThawTasks
<1> QED
  BY Zenon, <1>2, <1>3, <1>6, <1>7, <1>8, <1>9, <1>10, <1>11, <1>12 DEF Next

(* The answer given to an abort request decides the outcome.                 *)
LEMMA AbortPreserved ==
  ASSUME TypeOK, AbortInv, [Next]_vars
  PROVE  AbortInv'
<1> USE DEF Thawer, Drainer, ctxVars, diskVars, reqVars, opVars, walkVars, thawVars,
  bounds, restOfTask, restOfDriver, restOfThaw, restOfRun
<1>0. /\ accepted \in [Op -> BOOLEAN]
      /\ outcome \in [Op -> {"open", "aborting", "committed"}]
      /\ result \in [Op -> Replies]
      /\ reply \in [Op -> Replies]
      /\ pc \in [Op -> OpPcs]
  BY Zenon DEF TypeOK
<1>1. CASE UNCHANGED <<accepted, outcome, result, reply, pc>>
  BY Zenon, <1>1, ConstantsAssumption, <1>0 DEF AbortInv
<1>2. CASE UNCHANGED vars \/ DeadlinePasses \/ TaskLost \/ RecoveryLost \/ ThawRequest
  BY Zenon, <1>1, <1>2 DEF vars, DeadlinePasses, TaskLost, LoseHandles, RecoveryLost,
    ThawRequest, At, ThawGoto, Claim
<1>3. CASE BlockingStep
  BY <1>1, <1>3, Zenon DEF BlockingStep, BuildPlan, TaskStep, CreateMarker, OpenTarget,
    CheckAuthorised, Fifreeze, RemovalTask, RemoveMarker, RollbackDrain, DrainTarget,
    RollbackEnd, RollbackRemove, RecoveryDrain, RecoveryEnd
<1>4. ASSUME NEW o \in Op, CollectRecovery(o) \/ Recover(o) PROVE AbortInv'
  BY Zenon, <1>1, <1>4 DEF CollectRecovery, StartRecovery, Recover
<1>5. CASE LookUp \/ Reclaim \/ ReadProgress \/ AwaitSettlement
  BY Zenon, <1>1, <1>5 DEF LookUp, At, ThawGoto, Reclaim, Claim, ReadProgress, AwaitSettlement
<1>6. ASSUME NEW w \in Watch, DeadlineTaken(w) \/ Expire(w) PROVE AbortInv'
  BY Zenon, <1>1, <1>6 DEF DeadlineTaken, At, ThawGoto, Expire, Claim
<1>7. ASSUME NEW a \in Thawer, RunThaw(a) \/ ThawLost(a) PROVE AbortInv'
  BY Zenon, <1>1, <1>7 DEF RunThaw, ThawStart, At, ThawGoto, OnThawClaimed, Cancelled,
    Discover, ThawDrain, DrainTarget, ThawDrained, ThawRemoves, RemoveMarker,
    ThawFinish, ArmAfterThaw, OnFrozen, ThawLost, LoseHandles, ThawTasks
<1> USE <1>0, ConstantsAssumption DEF AbortInv
<1>8. CASE Crash
  BY Zenon, <1>8 DEF Crash, OrphanedFreeze
<1>9. ASSUME NEW o \in Op, BeginFreeze(o) PROVE AbortInv'
  BY Zenon, <1>9 DEF BeginFreeze
<1>10. ASSUME NEW o \in Op, DriverStep(o) PROVE AbortInv'
  <2>1. CASE AbortWhileAwaiting(o)
    BY Zenon, <2>1 DEF AbortWhileAwaiting, CommitAbort, OnThawClaimed, Cancelled, Reply,
      StartRecovery
  <2>2. CASE PrepDone(o)
    BY <2>2 DEF PrepDone, Goto, Conclude
  <2>3. CASE WalkAborts(o)
    BY Zenon, <2>3 DEF WalkAborts, Goto, CommitAbort, OnThawClaimed, Cancelled, Reply,
      StartRecovery
  <2>4. CASE Walk(o)
    BY Zenon, <2>4 DEF Walk, Goto
  <2>5. CASE WorkerDone(o)
    BY Zenon, <2>5 DEF WorkerDone, Goto
  <2>6. CASE WorkerLost(o)
    BY Zenon, <2>6 DEF WorkerLost, Goto, CommitAbort, OnThawClaimed, Cancelled, Reply,
      StartRecovery
  <2>7. CASE Commit(o)
    BY Zenon, <2>7 DEF Commit, Goto, Conclude
  <2>8. CASE CommitLoses(o)
    BY Zenon, <2>8 DEF CommitLoses, Goto, CommitAbort, OnThawClaimed, Cancelled, Reply,
      StartRecovery
  <2>9. CASE RemovalDone(o)
    BY <2>9 DEF RemovalDone, Goto, Conclude
  <2>10. CASE RollbackDone(o)
    BY Zenon, <2>10 DEF RollbackDone, Goto, Conclude
  <2>11. CASE Recovered(o)
    BY <2>11 DEF Recovered, Goto, Conclude
  <2>12. CASE Retire(o)
    BY Zenon, <2>12 DEF Retire, Goto
  <2>13. CASE Publish(o)
    BY Zenon, <2>13 DEF Publish, Goto
  <2>14. CASE ArmAfterFreeze(o)
    BY Zenon, <2>14 DEF ArmAfterFreeze, Goto, OnFrozen, Cancelled
  <2>15. CASE Announce(o)
    BY Zenon, <2>15 DEF Announce, Goto, Reply
  <2>16. CASE DropOp(o)
    BY Zenon, <2>16 DEF DropOp, Goto
  <2> HIDE DEF AbortInv
  <2> QED
    BY Zenon, <1>10, <1>4, <2>1, <2>2, <2>3, <2>4, <2>5, <2>6, <2>7, <2>8, <2>9, <2>10, <2>11,
      <2>12, <2>13, <2>14, <2>15, <2>16 DEF DriverStep
<1>11. CASE HostStep
  <2>1. CASE RequestAbort
    BY Zenon, <2>1 DEF RequestAbort, At, ThawGoto
  <2> HIDE DEF AbortInv
  <2> QED
    BY Zenon, <1>11, <1>5, <2>1 DEF HostStep
<1> HIDE DEF AbortInv
<1> QED
  BY Zenon, <1>2, <1>3, <1>6, <1>7, <1>8, <1>9, <1>10, <1>11 DEF Next

-----------------------------------------------------------------------------
(* The driver's locals agree with where it is.                               *)
LEMMA DriverPreserved ==
  ASSUME TypeOK, OwnerInv, DriverInv, [Next]_vars
  PROVE  DriverInv'
<1> USE DEF Thawer, Drainer, ctxVars, diskVars, reqVars, opVars, walkVars, thawVars,
  bounds, restOfTask, restOfDriver, restOfThaw, restOfRun
<1>0. /\ pc \in [Op -> OpPcs]
      /\ task \in Tasks
      /\ rec \in {"none", "running", "done", "lost"}
      /\ aborted \in BOOLEAN
      /\ uncertain \in BOOLEAN
      /\ unrecoverable \in BOOLEAN
      /\ kept \in SUBSET Target
      /\ todo \in [Drainer -> SUBSET Target]
      /\ keep \in [Drainer -> SUBSET Target]
      /\ cur \in Target \cup {NoTarget}
      /\ held \in SUBSET Target
      /\ plan \in SUBSET Target
  BY Zenon DEF TypeOK
<1>1. CASE UNCHANGED <<pc, task, rec, aborted, uncertain, unrecoverable, kept, todo, keep, cur, held>>
  BY Zenon, <1>1, ConstantsAssumption, <1>0 DEF DriverInv, Unresolved, Working, PrepTasks,
    WorkerTasks, RemovalTasks, RollbackTasks
<1>a. ASSUME NEW o \in Op, NEW p \in {"idle", "announce", "settled"}, ~Unresolved(o),
             pc' = [pc EXCEPT ![o] = p],
             UNCHANGED <<task, rec, aborted, uncertain, unrecoverable, kept, todo, keep, cur, held>>
      PROVE  DriverInv'
  <2>1. \A q \in Op : /\ Unresolved(q)' <=> Unresolved(q)
                      /\ Unresolved(q) => pc'[q] = pc[q]
    BY Zenon, <1>0, <1>a DEF Unresolved
  <2>2. \A q \in Op : Working(q)' <=> Working(q)
    BY Zenon, <2>1 DEF Working
  <2> QED BY Zenon, <1>a, <2>1, <2>2 DEF DriverInv, WorkerTasks
<1>2. CASE UNCHANGED vars \/ DeadlinePasses \/ ThawRequest
  BY Zenon, <1>1, <1>2 DEF vars, DeadlinePasses, ThawRequest, At, ThawGoto, Claim
<1>3. CASE HostStep
  BY Zenon, <1>1, <1>3 DEF HostStep, LookUp, At, ThawGoto, Reclaim, Claim, RequestAbort,
    ReadProgress, AwaitSettlement
<1>4. ASSUME NEW w \in Watch, DeadlineTaken(w) \/ Expire(w) PROVE DriverInv'
  BY Zenon, <1>1, <1>4 DEF DeadlineTaken, At, ThawGoto, Expire, Claim
<1>5. ASSUME NEW a \in Thawer, ThawDrained(a) \/ ThawRemoves(a) \/ ArmAfterThaw(a) PROVE
  DriverInv'
  BY Zenon, <1>1, <1>5 DEF ThawDrained, At, ThawGoto, ThawRemoves, RemoveMarker, ArmAfterThaw,
    OnFrozen, Cancelled
<1> USE <1>0, ConstantsAssumption DEF DriverInv, Unresolved, Working, PrepTasks, WorkerTasks, RemovalTasks, RollbackTasks
<1>6. CASE Crash
  BY Zenon, <1>6 DEF Crash, OrphanedFreeze
<1>7. CASE TaskLost
  BY <1>7 DEF TaskLost, LoseHandles
<1>8. CASE RecoveryLost
  BY Zenon, <1>8 DEF RecoveryLost, LoseHandles
<1>9. CASE BlockingStep
  <2>1. CASE BuildPlan
    BY Zenon, <2>1 DEF BuildPlan, TaskStep
  <2>2. CASE CreateMarker
    BY Zenon, <2>2 DEF CreateMarker, TaskStep
  <2>3. CASE OpenTarget
    BY Zenon, <2>3 DEF OpenTarget, TaskStep
  <2>4. CASE CheckAuthorised
    BY Zenon, <2>4 DEF CheckAuthorised, TaskStep
  <2>5. CASE Fifreeze
    BY Zenon, <2>5 DEF Fifreeze, TaskStep
  <2>6. CASE RemovalTask
    BY Zenon, <2>6 DEF RemovalTask, TaskStep, RemoveMarker
  <2>7. CASE RollbackDrain
    BY Zenon, <2>7 DEF RollbackDrain, DrainTarget
  <2>8. CASE RollbackEnd
    BY Zenon, <2>8 DEF RollbackEnd, TaskStep
  <2>9. CASE RollbackRemove
    BY Zenon, <2>9 DEF RollbackRemove, TaskStep, RemoveMarker
  <2>10. CASE RecoveryDrain
    BY Zenon, <2>10 DEF RecoveryDrain, DrainTarget
  <2>11. CASE RecoveryEnd
    BY Zenon, <2>11 DEF RecoveryEnd
  <2> HIDE DEF DriverInv, Unresolved, Working, PrepTasks, WorkerTasks, RemovalTasks, RollbackTasks
  <2> QED
    BY Zenon, <1>9, <2>1, <2>2, <2>3, <2>4, <2>5, <2>6, <2>7, <2>8, <2>9, <2>10, <2>11 DEF
      BlockingStep
<1>10. ASSUME NEW o \in Op, BeginFreeze(o) PROVE DriverInv'
  BY Zenon, <1>10 DEF BeginFreeze, OwnerInv, Thawing, ThawTasks
<1>11. ASSUME NEW o \in Op, DriverStep(o) PROVE DriverInv'
  <2>1. CASE AbortWhileAwaiting(o)
    BY Zenon, <2>1 DEF AbortWhileAwaiting, CommitAbort, OnThawClaimed, Cancelled, Reply,
      StartRecovery, OwnerInv, Thawing, ThawTasks
  <2>2. CASE CollectRecovery(o)
    BY <2>2 DEF CollectRecovery, StartRecovery
  <2>3. CASE PrepDone(o)
    BY <2>3 DEF PrepDone, Goto, Conclude, OwnerInv, Thawing, ThawTasks
  <2>4. CASE WalkAborts(o)
    BY Zenon, <2>4 DEF WalkAborts, Goto, CommitAbort, OnThawClaimed, Cancelled, Reply,
      StartRecovery, OwnerInv, Thawing, ThawTasks
  <2>5. CASE Walk(o)
    <3> HIDE DEF DriverInv, Working, PrepTasks, WorkerTasks, RemovalTasks, RollbackTasks
    <3>1. pc[o] = "walk" /\ Unresolved(o)
      BY Zenon, <2>5 DEF Walk
    <3>2. \A p \in Op : p # o => ~Unresolved(p)
      BY Zenon, <3>1 DEF OwnerInv
    <3>3. /\ UNCHANGED <<rec, aborted, uncertain, unrecoverable, kept, todo, keep, held>>
          /\ \/ aborted /\ pc' = [pc EXCEPT ![o] = "recover"] /\ UNCHANGED <<task, cur>>
             \/ ~aborted /\ pc' = [pc EXCEPT ![o] = "commit"] /\ UNCHANGED <<task, cur>>
             \/ ~aborted /\ pc' = [pc EXCEPT ![o] = "await"] /\ task' = "open" /\ cur' \in Target
      BY <2>5 DEF Walk, Goto
    <3> QED
      BY <3>1, <3>2, <3>3 DEF DriverInv, Working, PrepTasks, WorkerTasks,
        RemovalTasks, RollbackTasks
  <2>6. CASE WorkerDone(o)
    BY <2>6 DEF WorkerDone, Goto, OwnerInv, Thawing, ThawTasks
  <2>7. CASE WorkerLost(o)
    BY Zenon, <2>7 DEF WorkerLost, Goto, CommitAbort, OnThawClaimed, Cancelled, Reply,
      StartRecovery, OwnerInv, Thawing, ThawTasks
  <2>8. CASE Commit(o)
    <3> HIDE DEF DriverInv, Working, PrepTasks, WorkerTasks, RemovalTasks, RollbackTasks
    <3>1. pc[o] = "commit" /\ Unresolved(o)
      BY Zenon, <2>8 DEF Commit
    <3>2. \A p \in Op : p # o => ~Unresolved(p)
      BY Zenon, <3>1 DEF OwnerInv
    <3>3. /\ UNCHANGED <<rec, aborted, uncertain, unrecoverable, kept, todo, keep, cur, held>>
          /\ \/ pc' = [pc EXCEPT ![o] = "retire"] /\ task' = task
             \/ pc' = [pc EXCEPT ![o] = "rmNone"] /\ task' = "remove"
      BY Zenon, <2>8 DEF Commit, Conclude, Goto
    <3> QED
      BY <3>1, <3>2, <3>3 DEF DriverInv, Working, PrepTasks, WorkerTasks,
        RemovalTasks, RollbackTasks
  <2>9. CASE CommitLoses(o)
    <3> HIDE DEF DriverInv, Working, PrepTasks, WorkerTasks, RemovalTasks, RollbackTasks
    <3>1. pc[o] = "commit" /\ Unresolved(o)
      BY Zenon, <2>9 DEF CommitLoses
    <3>2. \A p \in Op : p # o => ~Unresolved(p)
      BY Zenon, <3>1 DEF OwnerInv
    <3>3. /\ UNCHANGED <<task, uncertain, unrecoverable, kept, keep, cur>>
          /\ pc' = [pc EXCEPT ![o] = "recover"] /\ aborted' = TRUE /\ held' = {}
          /\ todo' = [todo EXCEPT ![Coord] = held]
          /\ rec' = IF held = {} THEN "none" ELSE "running"
      BY Zenon, <2>9 DEF CommitLoses, CommitAbort, StartRecovery, Goto
    <3> QED
      BY Zenon, <3>1, <3>2, <3>3 DEF DriverInv, Working, PrepTasks, WorkerTasks,
        RemovalTasks, RollbackTasks
  <2>10. CASE RemovalDone(o)
    <3>1. /\ pc' = [pc EXCEPT ![o] = "retire"] /\ task' = "none"
          /\ UNCHANGED <<rec, aborted, uncertain, unrecoverable, kept, todo, keep, cur, held>>
      BY Zenon, <2>10 DEF RemovalDone, Conclude, Goto
    <3>2. Unresolved(o) /\ pc[o] \in {"rmNone", "rmPrep", "rmAbort"}
      BY Zenon, <2>10 DEF RemovalDone
    <3>3. \A p \in Op : p # o => ~Unresolved(p)
      BY Zenon, <3>2 DEF OwnerInv
    <3> QED
      BY <3>1, <3>2, <3>3
  <2>11. CASE RollbackDone(o)
    <3>1. /\ pc' = [pc EXCEPT ![o] = "retire"] /\ task' = "none"
          /\ keep' = [keep EXCEPT ![Coord] = {}]
          /\ UNCHANGED <<rec, aborted, unrecoverable, kept, todo, cur>>
      BY Zenon, <2>11 DEF RollbackDone, Conclude, Goto
    <3>2. Unresolved(o) /\ pc[o] = "rollback" /\ task # "rollback"
      BY Zenon, <2>11 DEF RollbackDone
    <3>3. \A p \in Op : p # o => ~Unresolved(p)
      BY Zenon, <3>2 DEF OwnerInv
    <3> QED
      BY Zenon, <3>1, <3>2, <3>3
  <2>12. CASE Recover(o)
    BY Zenon, <2>12 DEF Recover, StartRecovery, OwnerInv, Thawing, ThawTasks
  <2>13. CASE Recovered(o)
    <3> HIDE DEF DriverInv, Working, PrepTasks, WorkerTasks, RemovalTasks, RollbackTasks
    <3>1. pc[o] = "recover" /\ rec = "none" /\ Unresolved(o)
      BY Zenon, <2>13 DEF Recovered
    <3>2. \A p \in Op : p # o => ~Unresolved(p)
      BY Zenon, <3>1 DEF OwnerInv
    <3>3. /\ UNCHANGED <<rec, aborted, uncertain, unrecoverable, todo, keep, cur>>
          /\ kept' \in {kept, {}}
          /\ \/ pc' = [pc EXCEPT ![o] = "retire"] /\ task' = task
             \/ pc' = [pc EXCEPT ![o] = "rmAbort"] /\ task' = "remove" /\ kept' = kept
      BY Zenon, <2>13 DEF Recovered, Conclude, Goto
    <3> QED
      BY <3>1, <3>2, <3>3 DEF DriverInv, Working, PrepTasks, WorkerTasks,
        RemovalTasks, RollbackTasks
  <2>14. CASE Retire(o)
    BY Zenon, <2>14 DEF Retire, Goto
  <2>15. CASE Publish(o)
    BY Zenon, <2>15 DEF Publish, Goto, OwnerInv, Thawing, ThawTasks
  <2>16. CASE ArmAfterFreeze(o)
    <3> HIDE DEF DriverInv, Working, PrepTasks, WorkerTasks, RemovalTasks, RollbackTasks
    <3>1. ~Unresolved(o) /\ pc' = [pc EXCEPT ![o] = "announce"]
      BY Zenon, <2>16 DEF ArmAfterFreeze, Goto, Unresolved
    <3>2. UNCHANGED <<task, rec, aborted, uncertain, unrecoverable, kept, todo, keep, cur, held>>
      BY Zenon, <2>16 DEF ArmAfterFreeze
    <3> QED BY Zenon, <1>a, <3>1, <3>2
  <2>17. CASE Announce(o)
    <3> HIDE DEF DriverInv, Working, PrepTasks, WorkerTasks, RemovalTasks, RollbackTasks
    <3>1. ~Unresolved(o) /\ pc' = [pc EXCEPT ![o] = "settled"]
      BY Zenon, <2>17 DEF Announce, Goto, Unresolved
    <3>2. UNCHANGED <<task, rec, aborted, uncertain, unrecoverable, kept, todo, keep, cur, held>>
      BY Zenon, <2>17 DEF Announce
    <3> QED BY Zenon, <1>a, <3>1, <3>2
  <2>18. CASE DropOp(o)
    <3> HIDE DEF DriverInv, Working, PrepTasks, WorkerTasks, RemovalTasks, RollbackTasks
    <3>1. ~Unresolved(o) /\ pc' = [pc EXCEPT ![o] = "idle"]
      BY Zenon, <2>18 DEF DropOp, Goto, Unresolved
    <3>2. UNCHANGED <<task, rec, aborted, uncertain, unrecoverable, kept, todo, keep, cur, held>>
      BY Zenon, <2>18 DEF DropOp
    <3> QED BY Zenon, <1>a, <3>1, <3>2
  <2> HIDE DEF DriverInv, Unresolved, Working, PrepTasks, WorkerTasks, RemovalTasks, RollbackTasks
  <2> QED
    BY Zenon, <1>11, <2>1, <2>2, <2>3, <2>4, <2>5, <2>6, <2>7, <2>8, <2>9, <2>10, <2>11, <2>12,
      <2>13, <2>14, <2>15, <2>16, <2>17, <2>18 DEF DriverStep
<1>12. ASSUME NEW a \in Thawer, RunThaw(a) \/ ThawLost(a) PROVE DriverInv'
  <2>1. CASE ThawStart(a)
    BY Zenon, <2>1 DEF ThawStart, At, ThawGoto, OnThawClaimed, Cancelled
  <2>2. CASE Discover(a)
    BY Zenon, <2>2 DEF Discover, At, ThawGoto, OwnerInv, Thawing, ThawTasks
  <2>3. CASE ThawDrain(a)
    BY Zenon, <2>3 DEF ThawDrain, At, ThawGoto, DrainTarget
  <2>4. CASE ThawFinish(a)
    <3> HIDE DEF DriverInv, Working, PrepTasks, WorkerTasks, RemovalTasks, RollbackTasks
    <3>1. Thawing(a)
      BY Zenon, <2>4 DEF ThawFinish, Thawing, ThawTasks
    <3>2. \A p \in Op : ~Unresolved(p)
      BY Zenon, <3>1 DEF OwnerInv
    <3>3. keep' = [keep EXCEPT ![a] = {}] /\ a # Coord
      BY Zenon, <2>4 DEF ThawFinish
    <3>4. UNCHANGED <<pc, task, rec, aborted, uncertain, unrecoverable, kept, todo, cur>>
      BY Zenon, <2>4 DEF ThawFinish
    <3> QED
      BY Zenon, <3>2, <3>3, <3>4 DEF DriverInv, Working, PrepTasks, WorkerTasks,
        RemovalTasks, RollbackTasks
  <2>5. CASE ThawLost(a)
    BY Zenon, <2>5 DEF ThawLost, At, ThawGoto, LoseHandles, ThawTasks
  <2> HIDE DEF DriverInv, Unresolved, Working, PrepTasks, WorkerTasks, RemovalTasks, RollbackTasks
  <2> QED
    BY Zenon, <1>12, <1>5, <2>1, <2>2, <2>3, <2>4, <2>5 DEF RunThaw
<1> HIDE DEF DriverInv, Unresolved, Working, PrepTasks, WorkerTasks, RemovalTasks, RollbackTasks
<1> QED
  BY Zenon, <1>2, <1>3, <1>4, <1>6, <1>7, <1>8, <1>9, <1>10, <1>11, <1>12 DEF Next

(* Frozen always has a watchdog, or someone about to arm it.                 *)
LEMMA WatchedPreserved ==
  ASSUME TypeOK, OwnerInv, FrozenIsWatched, [Next]_vars
  PROVE  FrozenIsWatched'
<1> USE DEF Thawer, Drainer, ctxVars, diskVars, reqVars, opVars, walkVars, thawVars,
  bounds, restOfTask, restOfDriver, restOfThaw, restOfRun
<1>0. /\ state \in States
      /\ thawPc \in [Thawer -> ThawPcs]
      /\ pc \in [Op -> OpPcs]
      /\ watchSlot \in Watch \cup {NoWatch}
  BY Zenon DEF TypeOK
<1>1. CASE UNCHANGED <<state, thawPc, pc>>
  BY Zenon, <1>1, ConstantsAssumption, <1>0 DEF FrozenIsWatched, At
<1>2. CASE UNCHANGED vars \/ DeadlinePasses \/ TaskLost \/ RecoveryLost
  BY Zenon, <1>1, <1>2 DEF vars, DeadlinePasses, TaskLost, LoseHandles, RecoveryLost
<1>3. CASE BlockingStep
  BY <1>1, <1>3, Zenon DEF BlockingStep, BuildPlan, TaskStep, CreateMarker, OpenTarget,
    CheckAuthorised, Fifreeze, RemovalTask, RemoveMarker, RollbackDrain, DrainTarget,
    RollbackEnd, RollbackRemove, RecoveryDrain, RecoveryEnd
<1>4. ASSUME NEW o \in Op, CollectRecovery(o) \/ Recover(o) PROVE FrozenIsWatched'
  BY Zenon, <1>1, <1>4 DEF CollectRecovery, StartRecovery, Recover
<1>5. ASSUME NEW a \in Thawer, ThawDrain(a) PROVE FrozenIsWatched'
  BY Zenon, <1>1, <1>5 DEF ThawDrain, At, ThawGoto, DrainTarget
<1> USE <1>0, ConstantsAssumption DEF FrozenIsWatched, At
<1>6. CASE Crash
  BY Zenon, <1>6 DEF Crash, OrphanedFreeze
<1>7. CASE ThawRequest
  BY Zenon, <1>7 DEF ThawRequest, ThawGoto, Claim
<1>8. ASSUME NEW o \in Op, BeginFreeze(o) PROVE FrozenIsWatched'
  BY Zenon, <1>8 DEF BeginFreeze
<1>9. ASSUME NEW o \in Op, DriverStep(o) PROVE FrozenIsWatched'
  <2>1. CASE AbortWhileAwaiting(o)
    BY Zenon, <2>1 DEF AbortWhileAwaiting, CommitAbort, OnThawClaimed, Cancelled, Reply,
      StartRecovery
  <2>2. CASE PrepDone(o)
    BY Zenon, <2>2 DEF PrepDone, Goto, Conclude
  <2>3. CASE WalkAborts(o)
    BY Zenon, <2>3 DEF WalkAborts, Goto, CommitAbort, OnThawClaimed, Cancelled, Reply,
      StartRecovery
  <2>4. CASE Walk(o)
    BY Zenon, <2>4 DEF Walk, Goto
  <2>5. CASE WorkerDone(o)
    BY Zenon, <2>5 DEF WorkerDone, Goto
  <2>6. CASE WorkerLost(o)
    BY Zenon, <2>6 DEF WorkerLost, Goto, CommitAbort, OnThawClaimed, Cancelled, Reply,
      StartRecovery
  <2>7. CASE Commit(o)
    BY Zenon, <2>7 DEF Commit, Goto, Conclude
  <2>8. CASE CommitLoses(o)
    BY Zenon, <2>8 DEF CommitLoses, Goto, CommitAbort, OnThawClaimed, Cancelled, Reply,
      StartRecovery
  <2>9. CASE RemovalDone(o)
    BY Zenon, <2>9 DEF RemovalDone, Goto, Conclude
  <2>10. CASE RollbackDone(o)
    BY Zenon, <2>10 DEF RollbackDone, Goto, Conclude
  <2>11. CASE Recovered(o)
    BY Zenon, <2>11 DEF Recovered, Goto, Conclude
  <2>12. CASE Retire(o)
    BY Zenon, <2>12 DEF Retire, Goto
  <2>13. CASE Publish(o)
    BY Zenon, <2>13 DEF Publish, Goto
  <2>14. CASE ArmAfterFreeze(o)
    BY <2>14 DEF ArmAfterFreeze, Goto, OnFrozen, Cancelled
  <2>15. CASE Announce(o)
    BY Zenon, <2>15 DEF Announce, Goto, Reply
  <2>16. CASE DropOp(o)
    BY Zenon, <2>16 DEF DropOp, Goto
  <2> HIDE DEF FrozenIsWatched, At
  <2> QED
    BY Zenon, <1>9, <1>4, <2>1, <2>2, <2>3, <2>4, <2>5, <2>6, <2>7, <2>8, <2>9, <2>10, <2>11,
      <2>12, <2>13, <2>14, <2>15, <2>16 DEF DriverStep
<1>10. CASE HostStep
  <2>1. CASE LookUp
    BY Zenon, <2>1 DEF LookUp, ThawGoto
  <2>2. CASE Reclaim
    BY Zenon, <2>2 DEF Reclaim, ThawGoto, Claim
  <2>3. CASE RequestAbort
    BY Zenon, <2>3 DEF RequestAbort, ThawGoto
  <2>4. CASE ReadProgress
    BY Zenon, <2>4 DEF ReadProgress, ThawGoto
  <2>5. CASE AwaitSettlement
    BY Zenon, <2>5 DEF AwaitSettlement, ThawGoto, Claim
  <2> HIDE DEF FrozenIsWatched, At
  <2> QED
    BY Zenon, <1>10, <2>1, <2>2, <2>3, <2>4, <2>5 DEF HostStep
<1>11. ASSUME NEW w \in Watch, DeadlineTaken(w) \/ Expire(w) PROVE FrozenIsWatched'
  <2>1. CASE DeadlineTaken(w)
    BY Zenon, <2>1 DEF DeadlineTaken, ThawGoto
  <2>2. CASE Expire(w)
    BY Zenon, <2>2 DEF Expire, ThawGoto, Claim
  <2> HIDE DEF FrozenIsWatched, At
  <2> QED
    BY Zenon, <1>11, <2>1, <2>2
<1>12. ASSUME NEW a \in Thawer, RunThaw(a) \/ ThawLost(a) PROVE FrozenIsWatched'
  <2>1. CASE ThawStart(a)
    BY Zenon, <2>1 DEF ThawStart, ThawGoto, OnThawClaimed, Cancelled, OwnerInv, Unresolved,
      Thawing, ThawTasks
  <2>2. CASE Discover(a)
    BY <2>2 DEF Discover, ThawGoto
  <2>3. CASE ThawDrained(a)
    BY Zenon, <2>3 DEF ThawDrained, ThawGoto
  <2>4. CASE ThawRemoves(a)
    BY Zenon, <2>4 DEF ThawRemoves, ThawGoto, RemoveMarker
  <2>5. CASE ThawFinish(a)
    BY Zenon, <2>5 DEF ThawFinish, ThawGoto
  <2>6. CASE ArmAfterThaw(a)
    BY Zenon, <2>6 DEF ArmAfterThaw, ThawGoto, OnFrozen, Cancelled
  <2>7. CASE ThawLost(a)
    BY Zenon, <2>7 DEF ThawLost, ThawGoto, LoseHandles, ThawTasks
  <2> HIDE DEF FrozenIsWatched, At
  <2> QED
    BY Zenon, <1>12, <1>5, <2>1, <2>2, <2>3, <2>4, <2>5, <2>6, <2>7 DEF RunThaw
<1> HIDE DEF FrozenIsWatched, At
<1> QED
  BY Zenon, <1>2, <1>3, <1>6, <1>7, <1>8, <1>9, <1>10, <1>11, <1>12 DEF Next


(* A tracked scope is complete.                                              *)
LEMMA TrackedPreserved ==
  ASSUME TypeOK, OwnerInv, DriverInv, HandlesInv, NothingOwnedInv, TrackedInv,
    [Next]_vars
  PROVE  TrackedInv'
<1> USE DEF Thawer, Drainer, ctxVars, diskVars, reqVars, opVars, walkVars, thawVars,
  bounds, restOfTask, restOfDriver, restOfThaw, restOfRun
<1>0. /\ pc \in [Op -> OpPcs]
      /\ terminal \in [Op -> {"Thawed", "Frozen"}]
      /\ scope \in {"Tracked", "Discovery"}
      /\ thawPc \in [Thawer -> ThawPcs]
      /\ owned \in SUBSET Target
      /\ todo \in [Drainer -> SUBSET Target]
      /\ keep \in [Drainer -> SUBSET Target]
      /\ held \in SUBSET Target
      /\ bad \in [Thawer -> BOOLEAN]
  BY Zenon DEF TypeOK
<1>1. CASE UNCHANGED <<pc, terminal, uncertain, owned, held, state, scope, thawPc, bad, todo, keep>>
  BY Zenon, <1>1, ConstantsAssumption, <1>0 DEF TrackedInv
<1>2. CASE UNCHANGED vars \/ DeadlinePasses
  BY Zenon, <1>1, <1>2 DEF vars, DeadlinePasses
<1>3. CASE BuildPlan \/ CreateMarker \/ OpenTarget \/ CheckAuthorised \/ RemovalTask \/
  RollbackEnd \/ RollbackRemove \/ RecoveryEnd
  BY Zenon, <1>1, <1>3 DEF BuildPlan, TaskStep, CreateMarker, OpenTarget, CheckAuthorised,
    RemovalTask, RemoveMarker, RollbackEnd, RollbackRemove, RecoveryEnd
<1> USE <1>0, ConstantsAssumption DEF TrackedInv
<1>4. CASE Crash
  BY Zenon, <1>4 DEF Crash, OrphanedFreeze
<1>5. CASE TaskLost
  BY Zenon, <1>5 DEF TaskLost, LoseHandles
<1>6. CASE RecoveryLost
  BY Zenon, <1>6 DEF RecoveryLost, LoseHandles
<1>7. CASE ThawRequest
  BY <1>7 DEF ThawRequest, At, ThawGoto, Claim, OwnerInv, Unresolved, Thawing,
    ThawTasks, NothingOwnedInv
<1>8. CASE BlockingStep
  <2>1. CASE Fifreeze
    BY <2>1 DEF Fifreeze, TaskStep, OwnerInv, Unresolved, Thawing, ThawTasks,
      HandlesInv, Working, InFlight, DriverInv, PrepTasks, WorkerTasks, RemovalTasks,
      RollbackTasks
  <2>2. CASE RollbackDrain
    BY Zenon, <2>2 DEF RollbackDrain, DrainTarget
  <2>3. CASE RecoveryDrain
    BY Zenon, <2>3 DEF RecoveryDrain, DrainTarget
  <2> HIDE DEF TrackedInv
  <2> QED
    BY Zenon, <1>8, <1>3, <2>1, <2>2, <2>3 DEF BlockingStep
<1>9. ASSUME NEW o \in Op, BeginFreeze(o) PROVE TrackedInv'
  BY Zenon, <1>9 DEF BeginFreeze
<1>10. ASSUME NEW o \in Op, DriverStep(o) PROVE TrackedInv'
  <2>1. CASE AbortWhileAwaiting(o)
    <3> HIDE DEF TrackedInv
    <3>1. Unresolved(o) /\ pc[o] \notin {"retire", "publish"}
      BY Zenon, <2>1 DEF AbortWhileAwaiting, Unresolved
    <3>2. /\ \A p \in Op : pc[p] \notin {"retire", "publish"}
          /\ state # "Frozen" /\ \A a \in Thawer : ~Thawing(a)
      BY Zenon, <3>1 DEF OwnerInv, Unresolved
    <3>3. state' \in {state, "Thawing"} /\ \A a \in Thawer : thawPc'[a] \in {thawPc[a], "idle"}
      BY Zenon, <2>1 DEF AbortWhileAwaiting, CommitAbort, OnThawClaimed, Cancelled
    <3>4. \A p \in Op : pc'[p] \notin {"retire", "publish"}
      BY Zenon, <2>1, <3>2 DEF AbortWhileAwaiting, Goto
    <3> QED
      BY Zenon, <3>2, <3>3, <3>4 DEF TrackedInv, Thawing, ThawTasks
  <2>2. CASE CollectRecovery(o)
    BY Zenon, <2>2 DEF CollectRecovery, StartRecovery, OwnerInv, Unresolved, Thawing, ThawTasks
  <2>3. CASE PrepDone(o)
    BY <2>3 DEF PrepDone, Goto, Conclude
  <2>4. CASE WalkAborts(o)
    <3> HIDE DEF TrackedInv
    <3>1. Unresolved(o) /\ pc[o] \notin {"retire", "publish"}
      BY Zenon, <2>4 DEF WalkAborts, Unresolved
    <3>2. /\ \A p \in Op : pc[p] \notin {"retire", "publish"}
          /\ state # "Frozen" /\ \A a \in Thawer : ~Thawing(a)
      BY Zenon, <3>1 DEF OwnerInv, Unresolved
    <3>3. state' \in {state, "Thawing"} /\ \A a \in Thawer : thawPc'[a] \in {thawPc[a], "idle"}
      BY Zenon, <2>4 DEF WalkAborts, CommitAbort, OnThawClaimed, Cancelled
    <3>4. \A p \in Op : pc'[p] \notin {"retire", "publish"}
      BY Zenon, <2>4, <3>2 DEF WalkAborts, Goto
    <3> QED
      BY Zenon, <3>2, <3>3, <3>4 DEF TrackedInv, Thawing, ThawTasks
  <2>5. CASE Walk(o)
    BY <2>5 DEF Walk, Goto
  <2>6. CASE WorkerDone(o)
    BY Zenon, <2>6 DEF WorkerDone, Goto, OwnerInv, Unresolved, Thawing, ThawTasks
  <2>7. CASE WorkerLost(o)
    <3> HIDE DEF TrackedInv
    <3>1. Unresolved(o) /\ pc[o] \notin {"retire", "publish"}
      BY Zenon, <2>7 DEF WorkerLost, Unresolved
    <3>2. /\ \A p \in Op : pc[p] \notin {"retire", "publish"}
          /\ state # "Frozen" /\ \A a \in Thawer : ~Thawing(a)
      BY Zenon, <3>1 DEF OwnerInv, Unresolved
    <3>3. state' \in {state, "Thawing"} /\ \A a \in Thawer : thawPc'[a] \in {thawPc[a], "idle"}
      BY Zenon, <2>7 DEF WorkerLost, CommitAbort, OnThawClaimed, Cancelled
    <3>4. \A p \in Op : pc'[p] \notin {"retire", "publish"}
      BY Zenon, <2>7, <3>2 DEF WorkerLost, Goto
    <3> QED
      BY Zenon, <3>2, <3>3, <3>4 DEF TrackedInv, Thawing, ThawTasks
  <2>8. CASE Commit(o)
    <3> HIDE DEF TrackedInv
    <3>1. Unresolved(o) /\ Working(o) /\ pc[o] = "commit"
      BY Zenon, <2>8 DEF Commit, Working, Unresolved
    <3>2. /\ \A p \in Op : p # o => pc[p] \notin {"retire", "publish"}
          /\ state # "Frozen" /\ \A a \in Thawer : ~Thawing(a)
      BY Zenon, <3>1 DEF OwnerInv, Unresolved
    <3>3. owned \subseteq held
      BY Zenon, <3>1 DEF HandlesInv, DriverInv, InFlight
    <3>4. /\ UNCHANGED <<state, thawPc, owned, held>>
          /\ \A p \in Op : p # o => pc'[p] = pc[p]
      BY Zenon, <2>8 DEF Commit, Conclude, Goto
    <3> QED
      BY Zenon, <3>2, <3>3, <3>4 DEF TrackedInv, Thawing, ThawTasks
  <2>9. CASE CommitLoses(o)
    <3> HIDE DEF TrackedInv
    <3>1. Unresolved(o) /\ pc[o] \notin {"retire", "publish"}
      BY Zenon, <2>9 DEF CommitLoses, Unresolved
    <3>2. /\ \A p \in Op : pc[p] \notin {"retire", "publish"}
          /\ state # "Frozen" /\ \A a \in Thawer : ~Thawing(a)
      BY Zenon, <3>1 DEF OwnerInv, Unresolved
    <3>3. state' \in {state, "Thawing"} /\ \A a \in Thawer : thawPc'[a] \in {thawPc[a], "idle"}
      BY Zenon, <2>9 DEF CommitLoses, CommitAbort, OnThawClaimed, Cancelled
    <3>4. \A p \in Op : pc'[p] \notin {"retire", "publish"}
      BY Zenon, <2>9, <3>2 DEF CommitLoses, Goto
    <3> QED
      BY Zenon, <3>2, <3>3, <3>4 DEF TrackedInv, Thawing, ThawTasks
  <2>10. CASE RemovalDone(o)
    <3> HIDE DEF TrackedInv
    <3>1. owned = {} /\ owned' = owned
      BY Zenon, <2>10 DEF RemovalDone, NothingOwnedInv
    <3> QED
      BY Zenon, <3>1 DEF TrackedInv
  <2>11. CASE RollbackDone(o)
    <3>1. uncertain' \/ owned \subseteq held'
      <4>1. CASE task = "lost"
        BY Zenon, <2>11, <4>1 DEF RollbackDone
      <4>2. CASE task # "lost"
        <5>1. Unresolved(o) /\ Working(o)
          BY Zenon, <2>11 DEF RollbackDone, Unresolved, Working
        <5>2. ~aborted /\ rec = "none" /\ held = {}
          BY Zenon, <2>11, <5>1 DEF RollbackDone, DriverInv
        <5>3. todo[Coord] = {} /\ kept = {} /\ InFlight(o) = {} /\ ~uncertain
          BY Zenon, <2>11, <4>2, <5>1, <5>2 DEF RollbackDone, DriverInv, InFlight
        <5>4. owned \subseteq keep[Coord]
          BY Zenon, <2>11, <4>2, <5>1, <5>2, <5>3 DEF RollbackDone, HandlesInv
        <5> QED
          BY Zenon, <2>11, <5>4 DEF RollbackDone
      <4> QED
        BY Zenon, <4>1, <4>2
    <3>2. /\ state # "Frozen"
          /\ \A p \in Op : p # o => pc[p] \notin {"retire", "publish"}
          /\ \A a \in Thawer : ~Thawing(a)
      BY Zenon, <2>11 DEF RollbackDone, OwnerInv, Unresolved
    <3> QED
      BY Zenon, <2>11, <3>1, <3>2 DEF RollbackDone, Conclude, Goto, Thawing, ThawTasks
  <2>12. CASE Recover(o)
    BY Zenon, <2>12 DEF Recover, StartRecovery, OwnerInv, Unresolved, Thawing, ThawTasks
  <2>13. CASE Recovered(o)
    <3> HIDE DEF TrackedInv
    <3>1. Unresolved(o) /\ Working(o) /\ pc[o] = "recover" /\ rec = "none" /\ held = {}
      BY Zenon, <2>13 DEF Recovered, Working, Unresolved
    <3>2. /\ \A p \in Op : p # o => pc[p] \notin {"retire", "publish"}
          /\ state # "Frozen" /\ \A a \in Thawer : ~Thawing(a)
      BY Zenon, <3>1 DEF OwnerInv, Unresolved
    <3>3. uncertain \/ owned \subseteq kept
      BY Zenon, <3>1 DEF HandlesInv, DriverInv, InFlight
    <3>4. /\ UNCHANGED <<state, thawPc, owned, uncertain>>
          /\ \A p \in Op : p # o => pc'[p] = pc[p]
          /\ pc'[o] = "rmAbort" \/ held' = kept
      BY Zenon, <2>13 DEF Recovered, Conclude, Goto
    <3> QED
      BY Zenon, <3>2, <3>3, <3>4 DEF TrackedInv, Thawing, ThawTasks
  <2>14. CASE Retire(o)
    BY Zenon, <2>14 DEF Retire, Goto
  <2>15. CASE Publish(o)
    BY Zenon, <2>15 DEF Publish, Goto, OwnerInv, Unresolved, Thawing, ThawTasks
  <2>16. CASE ArmAfterFreeze(o)
    <3>1. /\ UNCHANGED <<owned, held, state, scope, terminal, uncertain, bad, todo, keep>>
          /\ \A p \in Op : pc'[p] \in {"retire", "publish"} => pc'[p] = pc[p]
      BY Zenon, <2>16 DEF ArmAfterFreeze, Goto
    <3>2. \A b \in Thawer : thawPc'[b] \in {thawPc[b], "idle", "armed"}
      BY Zenon, <2>16 DEF ArmAfterFreeze, OnFrozen, Cancelled
    <3> QED
      BY Zenon, <3>1, <3>2
  <2>17. CASE Announce(o)
    BY Zenon, <2>17 DEF Announce, Goto, Reply
  <2>18. CASE DropOp(o)
    <3>1. /\ UNCHANGED <<owned, held, state, scope, thawPc, uncertain, bad, todo, keep>>
          /\ \A p \in Op : /\ pc'[p] \in {pc[p], "idle"}
                           /\ pc'[p] # "idle" => terminal'[p] = terminal[p]
      BY Zenon, <2>18 DEF DropOp, Goto
    <3> QED
      BY Zenon, <3>1
  <2> HIDE DEF TrackedInv
  <2> QED
    BY Zenon, <1>10, <2>1, <2>2, <2>3, <2>4, <2>5, <2>6, <2>7, <2>8, <2>9, <2>10, <2>11, <2>12,
      <2>13, <2>14, <2>15, <2>16, <2>17, <2>18 DEF DriverStep
<1>11. CASE HostStep
  <2>1. CASE LookUp
    BY Zenon, <2>1 DEF LookUp, At, ThawGoto
  <2>2. CASE Reclaim
    BY <2>2 DEF Reclaim, At, ThawGoto, Claim, OwnerInv, Unresolved, Thawing, ThawTasks,
      NothingOwnedInv
  <2>3. CASE RequestAbort
    BY <2>3 DEF RequestAbort, At, ThawGoto
  <2>4. CASE ReadProgress
    BY Zenon, <2>4 DEF ReadProgress, At, ThawGoto
  <2>5. CASE AwaitSettlement
    BY <2>5 DEF AwaitSettlement, At, ThawGoto, Claim, OwnerInv, Unresolved, Thawing,
      ThawTasks, NothingOwnedInv
  <2> HIDE DEF TrackedInv
  <2> QED
    BY Zenon, <1>11, <2>1, <2>2, <2>3, <2>4, <2>5 DEF HostStep
<1>12. ASSUME NEW w \in Watch, DeadlineTaken(w) \/ Expire(w) PROVE TrackedInv'
  <2>1. CASE DeadlineTaken(w)
    BY Zenon, <2>1 DEF DeadlineTaken, At, ThawGoto
  <2>2. CASE Expire(w)
    BY Zenon, <2>2 DEF Expire, At, ThawGoto, Claim
  <2> HIDE DEF TrackedInv
  <2> QED
    BY Zenon, <1>12, <2>1, <2>2
<1>13. ASSUME NEW a \in Thawer, RunThaw(a) \/ ThawLost(a) PROVE TrackedInv'
  <2>1. CASE ThawStart(a)
    <3>1. /\ state = "Thawing"
          /\ \A o \in Op : pc[o] \notin {"retire", "publish"}
          /\ \A b \in Thawer : b # a => ~Thawing(b)
      BY Zenon, <2>1 DEF ThawStart, At, OwnerInv, Thawing, ThawTasks, Unresolved
    <3>2. /\ origin[a] = "Thawed" => owned = {}
          /\ scope = "Tracked" => owned \subseteq held
      BY Zenon, <2>1 DEF ThawStart, At, NothingOwnedInv, Thawing, ThawTasks
    <3>3. \A b \in Thawer : b # a => thawPc'[b] \in {thawPc[b], "idle"}
      BY Zenon, <2>1 DEF ThawStart, OnThawClaimed, Cancelled
    <3>4. thawPc'[a] = IF origin[a] = "Thawed" \/ scope = "Discovery" THEN "discover" ELSE "drain"
      BY Zenon, <2>1 DEF ThawStart, OnThawClaimed, Cancelled
    <3>5. todo'[a] = held
      BY Zenon, <2>1 DEF ThawStart
    <3>6. UNCHANGED <<pc, terminal, state, scope, owned>>
      BY Zenon, <2>1 DEF ThawStart
    <3> QED
      BY Zenon, <3>1, <3>2, <3>3, <3>4, <3>5, <3>6 DEF Thawing, ThawTasks
  <2>2. CASE Discover(a)
    <3>1. ASSUME ~bad'[a] PROVE owned \subseteq todo'[a]
      <4>1. CASE bad' = [bad EXCEPT ![a] = TRUE]
        BY Zenon, <3>1, <4>1
      <4>2. ASSUME NEW u \in SUBSET (Target \ todo[a]),
                   todo' = [todo EXCEPT ![a] = Target \ u],
                   bad' = [bad EXCEPT ![a] = u # {}]
            PROVE  owned \subseteq todo'[a]
        <5>1. u = {}
          BY Zenon, <3>1, <4>2
        <5> QED
          BY Zenon, <4>2, <5>1
      <4> QED
        BY Zenon, <2>2, <4>1, <4>2 DEF Discover
    <3>2. scope = "Tracked" => owned = {}
      BY Zenon, <2>2 DEF Discover, At
    <3> QED
      BY Zenon, <2>2, <3>1, <3>2 DEF Discover, At, ThawGoto
  <2>3. CASE ThawDrain(a)
    <3>1. /\ state = "Thawing"
          /\ \A o \in Op : pc[o] \notin {"retire", "publish"}
          /\ \A b \in Thawer : b # a => ~Thawing(b)
      BY Zenon, <2>3 DEF ThawDrain, At, OwnerInv, Thawing, ThawTasks, Unresolved
    <3>2. /\ owned' \subseteq owned
          /\ owned \subseteq todo[a] \cup keep[a] => owned' \subseteq todo'[a] \cup keep'[a]
      BY <2>3 DEF ThawDrain, DrainTarget
    <3>3. UNCHANGED <<pc, terminal, uncertain, state, held, scope, thawPc, bad>>
      BY Zenon, <2>3 DEF ThawDrain
    <3> QED
      BY Zenon, <2>3, <3>1, <3>2, <3>3 DEF ThawDrain, At, Thawing, ThawTasks
  <2>4. CASE ThawDrained(a)
    BY Zenon, <2>4 DEF ThawDrained, At, ThawGoto
  <2>5. CASE ThawRemoves(a)
    <3> HIDE DEF TrackedInv
    <3>1. owned = {} /\ owned' = owned
      BY Zenon, <2>5 DEF ThawRemoves, At, NothingOwnedInv, Thawing, ThawTasks
    <3> QED
      BY Zenon, <3>1 DEF TrackedInv
  <2>6. CASE ThawFinish(a)
    <3> HIDE DEF TrackedInv
    <3>1. /\ \A p \in Op : pc[p] \notin {"retire", "publish"}
          /\ \A b \in Thawer : b # a => ~Thawing(b)
      BY Zenon, <2>6 DEF ThawFinish, OwnerInv, Thawing, ThawTasks, Unresolved
    <3>2. /\ UNCHANGED <<owned, pc>> /\ thawPc'[a] \in {"idle", "arm"}
          /\ \A b \in Thawer : b # a => thawPc'[b] = thawPc[b]
      BY Zenon, <2>6 DEF ThawFinish, ThawGoto
    <3>3. state' = "Frozen" /\ scope' = "Tracked" => owned \subseteq held'
      BY Zenon, <2>6 DEF ThawFinish, At, TrackedInv
    <3> QED
      BY Zenon, <3>1, <3>2, <3>3 DEF TrackedInv, Thawing, ThawTasks
  <2>7. CASE ArmAfterThaw(a)
    <3>1. /\ UNCHANGED <<owned, held, state, scope, terminal, uncertain, bad, todo, keep>>
          /\ pc' = pc
      BY Zenon, <2>7 DEF ArmAfterThaw
    <3>2. \A b \in Thawer : thawPc'[b] \in {thawPc[b], "idle", "armed"}
      BY Zenon, <2>7 DEF ArmAfterThaw, OnFrozen, Cancelled
    <3> QED
      BY Zenon, <3>1, <3>2
  <2>8. CASE ThawLost(a)
    BY Zenon, <2>8 DEF ThawLost, At, ThawGoto, LoseHandles, ThawTasks
  <2> HIDE DEF TrackedInv
  <2> QED
    BY <1>13, <2>1, <2>2, <2>3, <2>4, <2>5, <2>6, <2>7, <2>8 DEF RunThaw
<1> HIDE DEF TrackedInv
<1> QED
  BY Zenon, <1>2, <1>4, <1>5, <1>6, <1>7, <1>8, <1>9, <1>10, <1>11, <1>12, <1>13 DEF Next

(* The marker outlives every filesystem the agent froze.                     *)
LEMMA MarkerPreserved ==
  ASSUME TypeOK, OwnerInv, DriverInv, NothingOwnedInv, MarkerInv, [Next]_vars
  PROVE  MarkerInv'
<1> USE DEF Thawer, Drainer, ctxVars, diskVars, reqVars, opVars, walkVars, thawVars,
  bounds, restOfTask, restOfDriver, restOfThaw, restOfRun
<1>0. /\ pc \in [Op -> OpPcs]
      /\ owned \in SUBSET Target
      /\ thawPc \in [Thawer -> ThawPcs]
      /\ task \in Tasks
  BY Zenon DEF TypeOK
<1>1. CASE UNCHANGED <<pc, marker, task, owned>>
  BY Zenon, <1>1, ConstantsAssumption, <1>0 DEF MarkerInv
<1>2. CASE UNCHANGED vars \/ DeadlinePasses \/ RecoveryLost \/ ThawRequest
  BY Zenon, <1>1, <1>2 DEF vars, DeadlinePasses, RecoveryLost, LoseHandles, ThawRequest, At,
    ThawGoto, Claim
<1>3. CASE RecoveryEnd
  BY Zenon, <1>1, <1>3 DEF RecoveryEnd
<1>4. ASSUME NEW o \in Op, AbortWhileAwaiting(o) \/ CollectRecovery(o) \/ Recover(o)
  PROVE MarkerInv'
  BY Zenon, <1>1, <1>4 DEF AbortWhileAwaiting, CommitAbort, OnThawClaimed, Cancelled, Reply,
    StartRecovery, CollectRecovery, Recover
<1>5. CASE HostStep
  BY Zenon, <1>1, <1>5 DEF HostStep, LookUp, At, ThawGoto, Reclaim, Claim, RequestAbort,
    ReadProgress, AwaitSettlement
<1>6. ASSUME NEW w \in Watch, DeadlineTaken(w) \/ Expire(w) PROVE MarkerInv'
  BY Zenon, <1>1, <1>6 DEF DeadlineTaken, At, ThawGoto, Expire, Claim
<1>7. ASSUME NEW a \in Thawer, ThawStart(a) \/ Discover(a) \/ ThawDrained(a) \/
  ThawFinish(a) \/ ArmAfterThaw(a) \/ ThawLost(a) PROVE MarkerInv'
  BY Zenon, <1>1, <1>7 DEF ThawStart, At, ThawGoto, OnThawClaimed, Cancelled, Discover,
    ThawDrained, ThawFinish, ArmAfterThaw, OnFrozen, ThawLost, LoseHandles, ThawTasks
<1> USE <1>0, ConstantsAssumption DEF MarkerInv
<1>8. CASE Crash
  BY Zenon, <1>8, TaskOwner DEF Crash, OrphanedFreeze, PrepTasks, WorkerTasks, RemovalTasks,
    RollbackTasks
<1>9. CASE TaskLost
  BY Zenon, <1>9 DEF TaskLost, LoseHandles
<1>10. CASE BlockingStep
  <2>1. CASE BuildPlan
    BY Zenon, <2>1 DEF BuildPlan, TaskStep
  <2>2. CASE CreateMarker
    BY Zenon, <2>2 DEF CreateMarker, TaskStep
  <2>3. CASE OpenTarget
    BY Zenon, <2>3 DEF OpenTarget, TaskStep
  <2>4. CASE CheckAuthorised
    BY Zenon, <2>4 DEF CheckAuthorised, TaskStep
  <2>5. CASE Fifreeze
    BY Zenon, <2>5, TaskOwner DEF Fifreeze, TaskStep, PrepTasks, WorkerTasks, RemovalTasks,
      RollbackTasks
  <2>6. CASE RemovalTask
    BY Zenon, <2>6, TaskOwner DEF RemovalTask, TaskStep, RemoveMarker, OwnerInv, Unresolved,
      Thawing, ThawTasks, NothingOwnedInv, PrepTasks, WorkerTasks, RemovalTasks,
      RollbackTasks
  <2>7. CASE RollbackDrain
    BY <2>7 DEF RollbackDrain, DrainTarget
  <2>8. CASE RollbackEnd
    BY Zenon, <2>8 DEF RollbackEnd, TaskStep
  <2>9. CASE RollbackRemove
    BY Zenon, <2>9, TaskOwner DEF RollbackRemove, TaskStep, RemoveMarker, OwnerInv, Unresolved,
      Thawing, ThawTasks, NothingOwnedInv, PrepTasks, WorkerTasks, RemovalTasks,
      RollbackTasks
  <2>10. CASE RecoveryDrain
    BY Zenon, <2>10 DEF RecoveryDrain, DrainTarget
  <2> HIDE DEF MarkerInv
  <2> QED
    BY Zenon, <1>10, <1>3, <2>1, <2>2, <2>3, <2>4, <2>5, <2>6, <2>7, <2>8, <2>9, <2>10 DEF
      BlockingStep
<1>11. ASSUME NEW o \in Op, BeginFreeze(o) PROVE MarkerInv'
  BY Zenon, <1>11 DEF BeginFreeze
<1>12. ASSUME NEW o \in Op, DriverStep(o) PROVE MarkerInv'
  <2>1. CASE PrepDone(o)
    BY Zenon, <2>1 DEF PrepDone, Goto, Conclude
  <2>2. CASE WalkAborts(o)
    BY Zenon, <2>2 DEF WalkAborts, Goto, CommitAbort, OnThawClaimed, Cancelled, Reply,
      StartRecovery
  <2>3. CASE Walk(o)
    BY Zenon, <2>3 DEF Walk, Goto
  <2>4. CASE WorkerDone(o)
    BY Zenon, <2>4 DEF WorkerDone, Goto
  <2>5. CASE WorkerLost(o)
    BY Zenon, <2>5 DEF WorkerLost, Goto, CommitAbort, OnThawClaimed, Cancelled, Reply,
      StartRecovery
  <2>6. CASE Commit(o)
    BY Zenon, <2>6 DEF Commit, Goto, Conclude
  <2>7. CASE CommitLoses(o)
    BY Zenon, <2>7 DEF CommitLoses, Goto, CommitAbort, OnThawClaimed, Cancelled, Reply,
      StartRecovery
  <2>8. CASE RemovalDone(o)
    BY Zenon, <2>8 DEF RemovalDone, Goto, Conclude
  <2>9. CASE RollbackDone(o)
    BY Zenon, <2>9 DEF RollbackDone, Goto, Conclude
  <2>10. CASE Recovered(o)
    BY Zenon, <2>10 DEF Recovered, Goto, Conclude
  <2>11. CASE Retire(o)
    BY Zenon, <2>11 DEF Retire, Goto
  <2>12. CASE Publish(o)
    BY Zenon, <2>12 DEF Publish, Goto
  <2>13. CASE ArmAfterFreeze(o)
    BY Zenon, <2>13 DEF ArmAfterFreeze, Goto, OnFrozen, Cancelled
  <2>14. CASE Announce(o)
    BY Zenon, <2>14 DEF Announce, Goto, Reply
  <2>15. CASE DropOp(o)
    BY Zenon, <2>15 DEF DropOp, Goto
  <2> HIDE DEF MarkerInv
  <2> QED
    BY Zenon, <1>12, <1>4, <2>1, <2>2, <2>3, <2>4, <2>5, <2>6, <2>7, <2>8, <2>9, <2>10, <2>11,
      <2>12, <2>13, <2>14, <2>15 DEF DriverStep
<1>13. ASSUME NEW a \in Thawer, RunThaw(a) \/ ThawLost(a) PROVE MarkerInv'
  <2>1. CASE ThawDrain(a)
    BY Zenon, <2>1 DEF ThawDrain, At, ThawGoto, DrainTarget
  <2>2. CASE ThawRemoves(a)
    BY Zenon, <2>2, TaskOwner DEF ThawRemoves, At, ThawGoto, RemoveMarker, OwnerInv,
      Unresolved, Thawing, ThawTasks, NothingOwnedInv, PrepTasks, WorkerTasks,
      RemovalTasks, RollbackTasks
  <2> HIDE DEF MarkerInv
  <2> QED
    BY Zenon, <1>13, <1>7, <2>1, <2>2 DEF RunThaw
<1> HIDE DEF MarkerInv
<1> QED
  BY Zenon, <1>2, <1>5, <1>6, <1>8, <1>9, <1>10, <1>11, <1>12, <1>13 DEF Next

-----------------------------------------------------------------------------
(* What is published, removed or flushed as thawed is thawed.                *)
LEMMA NothingOwnedPreserved ==
  ASSUME TypeOK, OwnerInv, DriverInv, MarkerInv, HandlesInv, TrackedInv,
    NothingOwnedInv, [Next]_vars
  PROVE  NothingOwnedInv'
<1> USE DEF Thawer, Drainer, ctxVars, diskVars, reqVars, opVars, walkVars, thawVars,
  bounds, restOfTask, restOfDriver, restOfThaw, restOfRun
<1>0. /\ pc \in [Op -> OpPcs]
      /\ terminal \in [Op -> {"Thawed", "Frozen"}]
      /\ thawPc \in [Thawer -> ThawPcs]
      /\ origin \in [Thawer -> {"Thawed", "Frozen"}]
      /\ owned \in SUBSET Target
      /\ todo \in [Drainer -> SUBSET Target]
      /\ keep \in [Drainer -> SUBSET Target]
      /\ held \in SUBSET Target
  BY Zenon DEF TypeOK
<1>1. CASE UNCHANGED <<pc, owned, task, terminal, state, thawPc, origin>>
  BY Zenon, <1>1, ConstantsAssumption, <1>0 DEF NothingOwnedInv, Thawing, ThawTasks
<1>2. CASE UNCHANGED vars \/ DeadlinePasses \/ RecoveryLost
  BY Zenon, <1>1, <1>2 DEF vars, DeadlinePasses, RecoveryLost, LoseHandles
<1>3. CASE RecoveryEnd
  BY Zenon, <1>1, <1>3 DEF RecoveryEnd
<1>4. ASSUME NEW o \in Op, CollectRecovery(o) \/ Recover(o) PROVE NothingOwnedInv'
  BY Zenon, <1>1, <1>4 DEF CollectRecovery, StartRecovery, Recover
<1> USE <1>0, ConstantsAssumption DEF NothingOwnedInv, Thawing, ThawTasks
<1>5. CASE Crash
  BY Zenon, <1>5, TaskOwner DEF Crash, OrphanedFreeze, MarkerInv, PrepTasks, WorkerTasks,
    RemovalTasks, RollbackTasks
<1>6. CASE TaskLost
  BY Zenon, <1>6 DEF TaskLost, LoseHandles
<1>7. CASE ThawRequest
  BY Zenon, <1>7 DEF ThawRequest, At, ThawGoto, Claim
<1>8. CASE BlockingStep
  <2>1. CASE BuildPlan
    BY Zenon, <2>1 DEF BuildPlan, TaskStep
  <2>2. CASE CreateMarker
    BY Zenon, <2>2 DEF CreateMarker, TaskStep
  <2>3. CASE OpenTarget
    BY Zenon, <2>3 DEF OpenTarget, TaskStep
  <2>4. CASE CheckAuthorised
    BY Zenon, <2>4 DEF CheckAuthorised, TaskStep
  <2>5. CASE Fifreeze
    BY Zenon, <2>5 DEF Fifreeze, TaskStep, OwnerInv, Unresolved, DriverInv, Working, PrepTasks,
      WorkerTasks, RemovalTasks, RollbackTasks
  <2>6. CASE RemovalTask
    BY Zenon, <2>6 DEF RemovalTask, TaskStep, RemoveMarker
  <2>7. CASE RollbackDrain
    BY Zenon, <2>7 DEF RollbackDrain, DrainTarget
  <2>8. CASE RollbackEnd
    <3>1. /\ task = "rollback" /\ todo[Coord] = {} /\ task' \in {"rollRemove", "incomplete"}
          /\ task' = "rollRemove" => keep[Coord] = {}
          /\ UNCHANGED <<pc, owned, terminal, state, thawPc, origin>>
      BY Zenon, <2>8 DEF RollbackEnd, TaskStep
    <3>2. PICK o \in Op : pc[o] = "rollback"
      BY Zenon, <3>1, TaskOwner DEF RollbackTasks
    <3>3. Unresolved(o) /\ Working(o)
      BY Zenon, <3>2 DEF Unresolved, Working
    <3>4. held = {} /\ ~uncertain /\ kept = {} /\ rec = "none"
      BY Zenon, <3>2, <3>3 DEF DriverInv
    <3>5. keep[Coord] = {} => owned = {}
      BY <3>1, <3>2, <3>3, <3>4 DEF HandlesInv, InFlight
    <3> QED BY Zenon, <3>1, <3>5
  <2>9. CASE RollbackRemove
    BY Zenon, <2>9 DEF RollbackRemove, TaskStep, RemoveMarker
  <2>10. CASE RecoveryDrain
    BY Zenon, <2>10 DEF RecoveryDrain, DrainTarget
  <2> HIDE DEF NothingOwnedInv, Thawing, ThawTasks
  <2> QED
    BY Zenon, <1>8, <1>3, <2>1, <2>2, <2>3, <2>4, <2>5, <2>6, <2>7, <2>8, <2>9, <2>10 DEF
      BlockingStep
<1>9. ASSUME NEW o \in Op, BeginFreeze(o) PROVE NothingOwnedInv'
  BY Zenon, <1>9 DEF BeginFreeze
<1>10. ASSUME NEW o \in Op, DriverStep(o) PROVE NothingOwnedInv'
  <2>1. CASE AbortWhileAwaiting(o)
    BY Zenon, <2>1 DEF AbortWhileAwaiting, CommitAbort, OnThawClaimed, Cancelled, Reply,
      StartRecovery
  <2>2. CASE PrepDone(o)
    BY Zenon, <2>2 DEF PrepDone, Goto, Conclude
  <2>3. CASE WalkAborts(o)
    BY Zenon, <2>3 DEF WalkAborts, Goto, CommitAbort, OnThawClaimed, Cancelled, Reply,
      StartRecovery
  <2>4. CASE Walk(o)
    BY Zenon, <2>4 DEF Walk, Goto
  <2>5. CASE WorkerDone(o)
    BY Zenon, <2>5 DEF WorkerDone, Goto
  <2>6. CASE WorkerLost(o)
    BY <2>6 DEF WorkerLost, Goto, CommitAbort, OnThawClaimed, Cancelled, Reply,
      StartRecovery
  <2>7. CASE Commit(o)
    <3>1. Unresolved(o) /\ Working(o) /\ pc[o] = "commit"
      BY Zenon, <2>7 DEF Commit, Unresolved, Working
    <3>2. /\ ~uncertain /\ kept = {} /\ rec = "none" /\ task = "none"
          /\ todo[Coord] = {} /\ keep[Coord] = {}
      BY Zenon, <3>1 DEF DriverInv
    <3>3. held = {} => owned = {}
      BY <3>1, <3>2 DEF HandlesInv, InFlight
    <3>4. /\ UNCHANGED <<owned, state, thawPc, origin>>
          /\ \/ /\ held = {} /\ pc' = [pc EXCEPT ![o] = "rmNone"]
                /\ task' = "remove" /\ UNCHANGED terminal
             \/ /\ pc' = [pc EXCEPT ![o] = "retire"] /\ UNCHANGED task
                /\ terminal' = [terminal EXCEPT ![o] = "Frozen"]
      BY Zenon, <2>7 DEF Commit, Goto, Conclude
    <3> QED BY Zenon, <3>2, <3>3, <3>4
  <2>8. CASE CommitLoses(o)
    BY <2>8, Zenon DEF CommitLoses, Goto, CommitAbort, OnThawClaimed, Cancelled,
      Reply, StartRecovery
  <2>9. CASE RemovalDone(o)
    BY Zenon, <2>9 DEF RemovalDone, Goto, Conclude
  <2>10. CASE RollbackDone(o)
    BY Zenon, <2>10 DEF RollbackDone, Goto, Conclude
  <2>11. CASE Recovered(o)
    <3>1. Unresolved(o) /\ Working(o) /\ pc[o] = "recover" /\ rec = "none" /\ held = {}
      BY Zenon, <2>11 DEF Recovered, Unresolved, Working
    <3>2. task = "none" /\ todo[Coord] = {} /\ keep[Coord] = {}
      BY Zenon, <3>1 DEF DriverInv
    <3>3. ~unrecoverable => ~uncertain /\ kept = {}
      BY Zenon, <3>1 DEF DriverInv
    <3>4. ~unrecoverable => owned = {}
      BY <3>1, <3>2, <3>3 DEF HandlesInv, InFlight
    <3>5. /\ UNCHANGED <<owned, state, thawPc, origin>>
          /\ \/ /\ ~unrecoverable /\ pc' = [pc EXCEPT ![o] = "rmAbort"]
                /\ task' = "remove" /\ UNCHANGED terminal
             \/ /\ pc' = [pc EXCEPT ![o] = "retire"] /\ UNCHANGED task
                /\ terminal' = [terminal EXCEPT ![o] = "Frozen"]
      BY Zenon, <2>11 DEF Recovered, Goto, Conclude
    <3> QED BY Zenon, <3>2, <3>4, <3>5
  <2>12. CASE Retire(o)
    BY Zenon, <2>12 DEF Retire, Goto
  <2>13. CASE Publish(o)
    BY Zenon, <2>13 DEF Publish, Goto
  <2>14. CASE ArmAfterFreeze(o)
    BY Zenon, <2>14 DEF ArmAfterFreeze, Goto, OnFrozen, Cancelled
  <2>15. CASE Announce(o)
    BY Zenon, <2>15 DEF Announce, Goto, Reply
  <2>16. CASE DropOp(o)
    BY Zenon, <2>16 DEF DropOp, Goto
  <2> HIDE DEF NothingOwnedInv, Thawing, ThawTasks
  <2> QED
    BY Zenon, <1>10, <1>4, <2>1, <2>2, <2>3, <2>4, <2>5, <2>6, <2>7, <2>8, <2>9, <2>10, <2>11,
      <2>12, <2>13, <2>14, <2>15, <2>16 DEF DriverStep
<1>11. CASE HostStep
  <2>1. CASE LookUp
    BY Zenon, <2>1 DEF LookUp, At, ThawGoto
  <2>2. CASE Reclaim
    BY <2>2 DEF Reclaim, At, ThawGoto, Claim, OwnerInv, Unresolved
  <2>3. CASE RequestAbort
    BY <2>3 DEF RequestAbort, At, ThawGoto, OwnerInv, Unresolved
  <2>4. CASE ReadProgress
    BY Zenon, <2>4 DEF ReadProgress, At, ThawGoto
  <2>5. CASE AwaitSettlement
    BY <2>5 DEF AwaitSettlement, At, ThawGoto, Claim, OwnerInv, Unresolved
  <2> HIDE DEF NothingOwnedInv, Thawing, ThawTasks
  <2> QED
    BY <1>11, <2>1, <2>2, <2>3, <2>4, <2>5 DEF HostStep
<1>12. ASSUME NEW w \in Watch, DeadlineTaken(w) \/ Expire(w) PROVE NothingOwnedInv'
  <2>1. CASE DeadlineTaken(w)
    BY Zenon, <2>1 DEF DeadlineTaken, At, ThawGoto
  <2>2. CASE Expire(w)
    BY Zenon, <2>2 DEF Expire, At, ThawGoto, Claim
  <2> HIDE DEF NothingOwnedInv, Thawing, ThawTasks
  <2> QED
    BY <1>12, <2>1, <2>2
<1>13. ASSUME NEW a \in Thawer, RunThaw(a) \/ ThawLost(a) PROVE NothingOwnedInv'
  <2>1. CASE ThawStart(a)
    BY Zenon, <2>1 DEF ThawStart, At, ThawGoto, OnThawClaimed, Cancelled
  <2>2. CASE Discover(a)
    BY Zenon, <2>2 DEF Discover, At, ThawGoto
  <2>3. CASE ThawDrain(a)
    BY Zenon, <2>3 DEF ThawDrain, At, ThawGoto, DrainTarget
  <2>4. CASE ThawDrained(a)
    BY Zenon, <2>4 DEF ThawDrained, At, ThawGoto, OwnerInv, Unresolved, TrackedInv
  <2>5. CASE ThawRemoves(a)
    BY Zenon, <2>5 DEF ThawRemoves, At, ThawGoto, RemoveMarker
  <2>6. CASE ThawFinish(a)
    BY Zenon, <2>6 DEF ThawFinish, At, ThawGoto
  <2>7. CASE ArmAfterThaw(a)
    BY Zenon, <2>7 DEF ArmAfterThaw, At, ThawGoto, OnFrozen, Cancelled
  <2>8. CASE ThawLost(a)
    BY Zenon, <2>8 DEF ThawLost, At, ThawGoto, LoseHandles
  <2> HIDE DEF NothingOwnedInv, Thawing, ThawTasks
  <2> QED
    BY <1>13, <2>1, <2>2, <2>3, <2>4, <2>5, <2>6, <2>7, <2>8 DEF RunThaw
<1> HIDE DEF NothingOwnedInv, Thawing, ThawTasks
<1> QED
  BY Zenon, <1>2, <1>5, <1>6, <1>7, <1>8, <1>9, <1>10, <1>11, <1>12, <1>13 DEF Next

(* While the driver works no handle is forgotten.                            *)
LEMMA HandlesPreserved ==
  ASSUME TypeOK, OwnerInv, DriverInv, NothingOwnedInv, HandlesInv, [Next]_vars
  PROVE  HandlesInv'
<1> USE DEF Thawer, Drainer, ctxVars, diskVars, reqVars, opVars, walkVars, thawVars,
  bounds, restOfTask, restOfDriver, restOfThaw, restOfRun
<1>0. /\ pc \in [Op -> OpPcs]
      /\ rec \in {"none", "running", "done", "lost"}
      /\ owned \in SUBSET Target
      /\ held \in SUBSET Target
      /\ todo \in [Drainer -> SUBSET Target]
      /\ keep \in [Drainer -> SUBSET Target]
      /\ kept \in SUBSET Target
      /\ cur \in Target \cup {NoTarget}
      /\ task \in Tasks
  BY Zenon DEF TypeOK
<1>1. CASE UNCHANGED <<pc, uncertain, rec, task, owned, held, todo, keep, kept, cur>>
  BY Zenon, <1>1, ConstantsAssumption, <1>0 DEF HandlesInv, Unresolved, Working, InFlight
<1>2. CASE UNCHANGED vars \/ DeadlinePasses \/ ThawRequest
  BY Zenon, <1>1, <1>2 DEF vars, DeadlinePasses, ThawRequest, At, ThawGoto, Claim
<1>3. CASE HostStep
  BY Zenon, <1>1, <1>3 DEF HostStep, LookUp, At, ThawGoto, Reclaim, Claim, RequestAbort,
    ReadProgress, AwaitSettlement
<1>4. ASSUME NEW w \in Watch, DeadlineTaken(w) \/ Expire(w) PROVE HandlesInv'
  BY Zenon, <1>1, <1>4 DEF DeadlineTaken, At, ThawGoto, Expire, Claim
<1>5. ASSUME NEW a \in Thawer, ThawDrained(a) \/ ThawRemoves(a) \/ ArmAfterThaw(a) PROVE
  HandlesInv'
  BY Zenon, <1>1, <1>5 DEF ThawDrained, At, ThawGoto, ThawRemoves, RemoveMarker, ArmAfterThaw,
    OnFrozen, Cancelled
<1> USE <1>0, ConstantsAssumption DEF HandlesInv, Unresolved, Working, InFlight
<1>6. CASE Crash
  BY Zenon, <1>6 DEF Crash, OrphanedFreeze
<1>7. CASE TaskLost
  BY Zenon, <1>7, TaskOwner DEF TaskLost, LoseHandles, OwnerInv, Thawing, ThawTasks, DriverInv,
    PrepTasks, WorkerTasks, RemovalTasks, RollbackTasks
<1>8. CASE RecoveryLost
  BY Zenon, <1>8 DEF RecoveryLost, LoseHandles
<1>9. CASE BlockingStep
  <2>1. CASE BuildPlan
    BY Zenon, <2>1 DEF BuildPlan, TaskStep
  <2>2. CASE CreateMarker
    BY Zenon, <2>2 DEF CreateMarker, TaskStep
  <2>3. CASE OpenTarget
    BY Zenon, <2>3 DEF OpenTarget, TaskStep
  <2>4. CASE CheckAuthorised
    BY Zenon, <2>4 DEF CheckAuthorised, TaskStep
  <2>5. CASE Fifreeze
    BY Zenon, <2>5, TaskOwner DEF Fifreeze, TaskStep, OwnerInv, Thawing, ThawTasks, DriverInv,
      PrepTasks, WorkerTasks, RemovalTasks, RollbackTasks
  <2>6. CASE RemovalTask
    BY <2>6 DEF RemovalTask, TaskStep, RemoveMarker
  <2>7. CASE RollbackDrain
    BY <2>7 DEF RollbackDrain, DrainTarget
  <2>8. CASE RollbackEnd
    BY Zenon, <2>8 DEF RollbackEnd, TaskStep
  <2>9. CASE RollbackRemove
    BY Zenon, <2>9 DEF RollbackRemove, TaskStep, RemoveMarker
  <2>10. CASE RecoveryDrain
    BY <2>10 DEF RecoveryDrain, DrainTarget
  <2>11. CASE RecoveryEnd
    BY Zenon, <2>11 DEF RecoveryEnd
  <2> HIDE DEF HandlesInv, Unresolved, Working, InFlight
  <2> QED
    BY Zenon, <1>9, <2>1, <2>2, <2>3, <2>4, <2>5, <2>6, <2>7, <2>8, <2>9, <2>10, <2>11 DEF
      BlockingStep
<1>10. ASSUME NEW o \in Op, BeginFreeze(o) PROVE HandlesInv'
  BY Zenon, <1>10 DEF BeginFreeze, OwnerInv, Thawing, ThawTasks, NothingOwnedInv
<1>11. ASSUME NEW o \in Op, DriverStep(o) PROVE HandlesInv'
  <2>1. CASE AbortWhileAwaiting(o)
    BY Zenon, <2>1 DEF AbortWhileAwaiting, CommitAbort, OnThawClaimed, Cancelled, Reply,
      StartRecovery, DriverInv, PrepTasks, WorkerTasks, RemovalTasks, RollbackTasks
  <2>2. CASE CollectRecovery(o)
    <3>1. Unresolved(o) /\ Working(o) /\ pc[o] # "rollback"
      BY Zenon, <2>2 DEF CollectRecovery, Unresolved, Working
    <3>2. \A p \in Op : Working(p) => p = o
      BY Zenon, <3>1 DEF OwnerInv, Working
    <3>3. UNCHANGED <<pc, task, cur, owned>>
      BY Zenon, <2>2 DEF CollectRecovery
    <3>4. todo[Coord] = {}
      BY Zenon, <2>2, <3>1 DEF CollectRecovery, DriverInv, PrepTasks, WorkerTasks
    <3>5. \/ uncertain'
          \/ owned \subseteq held' \cup todo'[Coord] \cup keep'[Coord] \cup kept' \cup InFlight(o)
      BY Zenon, <2>2, <3>1, <3>4 DEF CollectRecovery, StartRecovery, HandlesInv
    <3>6. InFlight(o)' = InFlight(o) /\ \A p \in Op : Working(p)' = Working(p)
      BY Zenon, <3>3 DEF InFlight, Working, Unresolved
    <3> QED
      BY Zenon, <3>2, <3>3, <3>5, <3>6 DEF HandlesInv
  <2>3. CASE PrepDone(o)
    BY Zenon, <2>3 DEF PrepDone, Goto, Conclude
  <2>4. CASE WalkAborts(o)
    BY Zenon, <2>4 DEF WalkAborts, Goto, CommitAbort, OnThawClaimed, Cancelled, Reply,
      StartRecovery, DriverInv, PrepTasks, WorkerTasks, RemovalTasks, RollbackTasks
  <2>5. CASE Walk(o)
    BY Zenon, <2>5 DEF Walk, Goto
  <2>6. CASE WorkerDone(o)
    BY Zenon, <2>6 DEF WorkerDone, Goto, DriverInv, PrepTasks, WorkerTasks, RemovalTasks,
      RollbackTasks
  <2>7. CASE WorkerLost(o)
    BY Zenon, <2>7 DEF WorkerLost, Goto, CommitAbort, OnThawClaimed, Cancelled, Reply,
      StartRecovery
  <2>8. CASE Commit(o)
    BY Zenon, <2>8 DEF Commit, Goto, Conclude
  <2>9. CASE CommitLoses(o)
    BY Zenon, <2>9 DEF CommitLoses, Goto, CommitAbort, OnThawClaimed, Cancelled, Reply,
      StartRecovery, DriverInv, PrepTasks, WorkerTasks, RemovalTasks, RollbackTasks
  <2>10. CASE RemovalDone(o)
    BY Zenon, <2>10 DEF RemovalDone, Goto, Conclude
  <2>11. CASE RollbackDone(o)
    <3>1. pc' = [pc EXCEPT ![o] = "retire"] /\ Unresolved(o)
      BY Zenon, <2>11 DEF RollbackDone, Conclude, Goto, Unresolved
    <3>2. \A p \in Op : p # o => ~Unresolved(p)
      BY Zenon, <3>1 DEF OwnerInv
    <3>3. \A p \in Op : ~Working(p)'
      BY Zenon, <3>1, <3>2 DEF Working, Unresolved
    <3> QED
      BY Zenon, <3>3 DEF HandlesInv
  <2>12. CASE Recover(o)
    BY Zenon, <2>12 DEF Recover, StartRecovery, DriverInv, PrepTasks, WorkerTasks,
      RemovalTasks, RollbackTasks
  <2>13. CASE Recovered(o)
    BY Zenon, <2>13 DEF Recovered, Goto, Conclude
  <2>14. CASE Retire(o)
    BY Zenon, <2>14 DEF Retire, Goto
  <2>15. CASE Publish(o)
    BY Zenon, <2>15 DEF Publish, Goto, OwnerInv, Thawing, ThawTasks
  <2>16. CASE ArmAfterFreeze(o)
    BY Zenon, <2>16 DEF ArmAfterFreeze, Goto, OnFrozen, Cancelled
  <2>17. CASE Announce(o)
    BY Zenon, <2>17 DEF Announce, Goto, Reply
  <2>18. CASE DropOp(o)
    BY Zenon, <2>18 DEF DropOp, Goto
  <2> HIDE DEF HandlesInv, Unresolved, Working, InFlight
  <2> QED
    BY Zenon, <1>11, <2>1, <2>2, <2>3, <2>4, <2>5, <2>6, <2>7, <2>8, <2>9, <2>10, <2>11, <2>12,
      <2>13, <2>14, <2>15, <2>16, <2>17, <2>18 DEF DriverStep
<1>12. ASSUME NEW a \in Thawer, RunThaw(a) \/ ThawLost(a) PROVE HandlesInv'
  <2>1. CASE ThawStart(a)
    BY Zenon, <2>1 DEF ThawStart, At, ThawGoto, OnThawClaimed, Cancelled, OwnerInv, Thawing,
      ThawTasks
  <2>2. CASE Discover(a)
    BY Zenon, <2>2 DEF Discover, At, ThawGoto
  <2>3. CASE ThawDrain(a)
    BY Zenon, <2>3 DEF ThawDrain, At, ThawGoto, DrainTarget
  <2>4. CASE ThawFinish(a)
    BY Zenon, <2>4 DEF ThawFinish, At, ThawGoto
  <2>5. CASE ThawLost(a)
    BY Zenon, <2>5 DEF ThawLost, At, ThawGoto, LoseHandles, ThawTasks
  <2> HIDE DEF HandlesInv, Unresolved, Working, InFlight
  <2> QED
    BY Zenon, <1>12, <1>5, <2>1, <2>2, <2>3, <2>4, <2>5 DEF RunThaw
<1> HIDE DEF HandlesInv, Unresolved, Working, InFlight
<1> QED
  BY Zenon, <1>2, <1>3, <1>4, <1>6, <1>7, <1>8, <1>9, <1>10, <1>11, <1>12 DEF Next

(* The audit stays in ring mode as long as a filesystem may be frozen.       *)
LEMMA RingPreserved ==
  ASSUME TypeOK, OwnerInv, DriverInv, MarkerInv, NothingOwnedInv, RingInv, [Next]_vars
  PROVE  RingInv'
<1> USE DEF Thawer, Drainer, ctxVars, diskVars, reqVars, opVars, walkVars, thawVars,
  bounds, restOfTask, restOfDriver, restOfThaw, restOfRun
<1>0. /\ pc \in [Op -> OpPcs]
      /\ terminal \in [Op -> {"Thawed", "Frozen"}]
      /\ audit \in {"normal", "ring"}
      /\ owned \in SUBSET Target
      /\ thawPc \in [Thawer -> ThawPcs]
  BY Zenon DEF TypeOK
<1>1. CASE UNCHANGED <<pc, terminal, audit, owned>>
  BY Zenon, <1>1, ConstantsAssumption, <1>0 DEF RingInv, Unresolved, Working
<1>2. CASE UNCHANGED vars \/ DeadlinePasses \/ TaskLost \/ RecoveryLost \/ ThawRequest
  BY Zenon, <1>1, <1>2 DEF vars, DeadlinePasses, TaskLost, LoseHandles, RecoveryLost,
    ThawRequest, At, ThawGoto, Claim
<1>3. CASE BuildPlan \/ CreateMarker \/ OpenTarget \/ CheckAuthorised \/ RemovalTask \/
  RollbackEnd \/ RollbackRemove \/ RecoveryEnd
  BY Zenon, <1>1, <1>3 DEF BuildPlan, TaskStep, CreateMarker, OpenTarget, CheckAuthorised,
    RemovalTask, RemoveMarker, RollbackEnd, RollbackRemove, RecoveryEnd
<1>4. ASSUME NEW o \in Op, AbortWhileAwaiting(o) \/ CollectRecovery(o) \/ Recover(o)
  PROVE RingInv'
  BY Zenon, <1>1, <1>4 DEF AbortWhileAwaiting, CommitAbort, OnThawClaimed, Cancelled, Reply,
    StartRecovery, CollectRecovery, Recover
<1>5. CASE HostStep
  BY Zenon, <1>1, <1>5 DEF HostStep, LookUp, At, ThawGoto, Reclaim, Claim, RequestAbort,
    ReadProgress, AwaitSettlement
<1>6. ASSUME NEW w \in Watch, DeadlineTaken(w) \/ Expire(w) PROVE RingInv'
  BY Zenon, <1>1, <1>6 DEF DeadlineTaken, At, ThawGoto, Expire, Claim
<1>7. ASSUME NEW a \in Thawer, ThawStart(a) \/ Discover(a) \/ ThawDrained(a) \/
  ThawRemoves(a) \/ ArmAfterThaw(a) \/ ThawLost(a) PROVE RingInv'
  BY Zenon, <1>1, <1>7 DEF ThawStart, At, ThawGoto, OnThawClaimed, Cancelled, Discover,
    ThawDrained, ThawRemoves, RemoveMarker, ArmAfterThaw, OnFrozen, ThawLost,
    LoseHandles, ThawTasks
<1> USE <1>0, ConstantsAssumption DEF RingInv, Unresolved, Working
<1>8. CASE Crash
  BY Zenon, <1>8, TaskOwner DEF Crash, OrphanedFreeze, MarkerInv, PrepTasks, WorkerTasks,
    RemovalTasks, RollbackTasks
<1>9. CASE BlockingStep
  <2>1. CASE Fifreeze
    BY Zenon, <2>1, TaskOwner DEF Fifreeze, TaskStep, MarkerInv, PrepTasks, WorkerTasks,
      RemovalTasks, RollbackTasks
  <2>2. CASE RollbackDrain
    BY Zenon, <2>2 DEF RollbackDrain, DrainTarget
  <2>3. CASE RecoveryDrain
    BY Zenon, <2>3 DEF RecoveryDrain, DrainTarget
  <2> HIDE DEF RingInv, Unresolved, Working
  <2> QED
    BY <1>9, <1>3, <2>1, <2>2, <2>3 DEF BlockingStep
<1>10. ASSUME NEW o \in Op, BeginFreeze(o) PROVE RingInv'
  BY Zenon, <1>10 DEF BeginFreeze
<1>11. ASSUME NEW o \in Op, DriverStep(o) PROVE RingInv'
  <2>1. CASE PrepDone(o)
    BY Zenon, <2>1 DEF PrepDone, Goto, Conclude, OwnerInv, Thawing, ThawTasks, NothingOwnedInv
  <2>2. CASE WalkAborts(o)
    BY Zenon, <2>2 DEF WalkAborts, Goto, CommitAbort, OnThawClaimed, Cancelled, Reply,
      StartRecovery
  <2>3. CASE Walk(o)
    BY Zenon, <2>3 DEF Walk, Goto
  <2>4. CASE WorkerDone(o)
    BY Zenon, <2>4 DEF WorkerDone, Goto
  <2>5. CASE WorkerLost(o)
    BY Zenon, <2>5 DEF WorkerLost, Goto, CommitAbort, OnThawClaimed, Cancelled, Reply,
      StartRecovery
  <2>6. CASE Commit(o)
    BY Zenon, <2>6 DEF Commit, Goto, Conclude
  <2>7. CASE CommitLoses(o)
    BY Zenon, <2>7 DEF CommitLoses, Goto, CommitAbort, OnThawClaimed, Cancelled, Reply,
      StartRecovery
  <2>8. CASE RemovalDone(o)
    BY Zenon, <2>8 DEF RemovalDone, Goto, Conclude, OwnerInv, Thawing, ThawTasks,
      NothingOwnedInv
  <2>9. CASE RollbackDone(o)
    BY Zenon, <2>9 DEF RollbackDone, Goto, Conclude, OwnerInv, Thawing, ThawTasks,
      NothingOwnedInv
  <2>10. CASE Recovered(o)
    BY Zenon, <2>10 DEF Recovered, Goto, Conclude
  <2>11. CASE Retire(o)
    BY Zenon, <2>11 DEF Retire, Goto
  <2>12. CASE Publish(o)
    BY Zenon, <2>12 DEF Publish, Goto
  <2>13. CASE ArmAfterFreeze(o)
    BY Zenon, <2>13 DEF ArmAfterFreeze, Goto, OnFrozen, Cancelled
  <2>14. CASE Announce(o)
    BY Zenon, <2>14 DEF Announce, Goto, Reply
  <2>15. CASE DropOp(o)
    BY Zenon, <2>15 DEF DropOp, Goto
  <2> HIDE DEF RingInv, Unresolved, Working
  <2> QED
    BY Zenon, <1>11, <1>4, <2>1, <2>2, <2>3, <2>4, <2>5, <2>6, <2>7, <2>8, <2>9, <2>10, <2>11,
      <2>12, <2>13, <2>14, <2>15 DEF DriverStep
<1>12. ASSUME NEW a \in Thawer, RunThaw(a) \/ ThawLost(a) PROVE RingInv'
  <2>1. CASE ThawDrain(a)
    BY Zenon, <2>1 DEF ThawDrain, At, ThawGoto, DrainTarget
  <2>2. CASE ThawFinish(a)
    BY Zenon, <2>2 DEF ThawFinish, At, ThawGoto, OwnerInv, Thawing, ThawTasks, NothingOwnedInv
  <2> HIDE DEF RingInv, Unresolved, Working
  <2> QED
    BY Zenon, <1>12, <1>7, <2>1, <2>2 DEF RunThaw
<1> HIDE DEF RingInv, Unresolved, Working
<1> QED
  BY Zenon, <1>2, <1>5, <1>6, <1>8, <1>9, <1>10, <1>11, <1>12 DEF Next

-----------------------------------------------------------------------------
(* The operation a thaw has joined stays the last one.                       *)
LEMMA JoinPreserved ==
  ASSUME TypeOK, OwnerInv, DriverInv, NothingOwnedInv, JoinInv, [Next]_vars
  PROVE  JoinInv'
<1> USE DEF Thawer, Drainer, ctxVars, diskVars, reqVars, opVars, walkVars, thawVars,
  bounds, restOfTask, restOfDriver, restOfThaw, restOfRun
<1>0. /\ thawPc \in [Thawer -> ThawPcs]
      /\ joinOp \in Op \cup {NoOp}
      /\ opSlot \in Op \cup {NoOp}
      /\ pc \in [Op -> OpPcs]
      /\ terminal \in [Op -> {"Thawed", "Frozen"}]
      /\ owned \in SUBSET Target
  BY Zenon DEF TypeOK
<1>1. CASE UNCHANGED <<thawPc, joinOp, pc, terminal, owned>>
  BY Zenon, <1>1, ConstantsAssumption, <1>0 DEF JoinInv, Unresolved
<1>2. CASE UNCHANGED vars \/ DeadlinePasses \/ TaskLost \/ RecoveryLost
  BY Zenon, <1>1, <1>2 DEF vars, DeadlinePasses, TaskLost, LoseHandles, RecoveryLost
<1>3. CASE BuildPlan \/ CreateMarker \/ OpenTarget \/ CheckAuthorised \/ RemovalTask \/
  RollbackEnd \/ RollbackRemove \/ RecoveryEnd
  BY Zenon, <1>1, <1>3 DEF BuildPlan, TaskStep, CreateMarker, OpenTarget, CheckAuthorised,
    RemovalTask, RemoveMarker, RollbackEnd, RollbackRemove, RecoveryEnd
<1>4. ASSUME NEW o \in Op, CollectRecovery(o) \/ Recover(o) PROVE JoinInv'
  BY Zenon, <1>1, <1>4 DEF CollectRecovery, StartRecovery, Recover
<1> USE <1>0, ConstantsAssumption DEF JoinInv, Unresolved
<1>5. CASE Crash
  BY Zenon, <1>5 DEF Crash, OrphanedFreeze
<1>6. CASE ThawRequest
  BY Zenon, <1>6 DEF ThawRequest, At, ThawGoto, Claim
<1>7. CASE BlockingStep
  <2>1. CASE Fifreeze
    BY Zenon, <2>1, TaskOwner DEF Fifreeze, TaskStep, PrepTasks, WorkerTasks, RemovalTasks,
      RollbackTasks
  <2>2. CASE RollbackDrain
    BY Zenon, <2>2 DEF RollbackDrain, DrainTarget
  <2>3. CASE RecoveryDrain
    BY Zenon, <2>3 DEF RecoveryDrain, DrainTarget
  <2> HIDE DEF JoinInv, Unresolved
  <2> QED
    BY <1>7, <1>3, <2>1, <2>2, <2>3 DEF BlockingStep
<1>8. ASSUME NEW o \in Op, BeginFreeze(o) PROVE JoinInv'
  BY <1>8 DEF BeginFreeze
<1>9. ASSUME NEW o \in Op, DriverStep(o) PROVE JoinInv'
  <2>1. CASE AbortWhileAwaiting(o)
    BY Zenon, <2>1 DEF AbortWhileAwaiting, CommitAbort, OnThawClaimed, Cancelled, Reply,
      StartRecovery
  <2>2. CASE PrepDone(o)
    BY Zenon, <2>2 DEF PrepDone, Goto, Conclude
  <2>3. CASE WalkAborts(o)
    BY Zenon, <2>3 DEF WalkAborts, Goto, CommitAbort, OnThawClaimed, Cancelled, Reply,
      StartRecovery
  <2>4. CASE Walk(o)
    BY Zenon, <2>4 DEF Walk, Goto
  <2>5. CASE WorkerDone(o)
    BY Zenon, <2>5 DEF WorkerDone, Goto
  <2>6. CASE WorkerLost(o)
    BY Zenon, <2>6 DEF WorkerLost, Goto, CommitAbort, OnThawClaimed, Cancelled, Reply,
      StartRecovery
  <2>7. CASE Commit(o)
    BY Zenon, <2>7 DEF Commit, Goto, Conclude
  <2>8. CASE CommitLoses(o)
    BY Zenon, <2>8 DEF CommitLoses, Goto, CommitAbort, OnThawClaimed, Cancelled, Reply,
      StartRecovery
  <2>9. CASE RemovalDone(o)
    BY Zenon, <2>9 DEF RemovalDone, Goto, Conclude
  <2>10. CASE RollbackDone(o)
    BY Zenon, <2>10 DEF RollbackDone, Goto, Conclude
  <2>11. CASE Recovered(o)
    BY Zenon, <2>11 DEF Recovered, Goto, Conclude
  <2>12. CASE Retire(o)
    BY Zenon, <2>12 DEF Retire, Goto
  <2>13. CASE Publish(o)
    BY Zenon, <2>13 DEF Publish, Goto, NothingOwnedInv, Thawing, ThawTasks
  <2>14. CASE ArmAfterFreeze(o)
    BY <2>14 DEF ArmAfterFreeze, Goto, OnFrozen, Cancelled
  <2>15. CASE Announce(o)
    BY Zenon, <2>15 DEF Announce, Goto, Reply
  <2>16. CASE DropOp(o)
    BY Zenon, <2>16 DEF DropOp, Goto
  <2> HIDE DEF JoinInv, Unresolved
  <2> QED
    BY Zenon, <1>9, <1>4, <2>1, <2>2, <2>3, <2>4, <2>5, <2>6, <2>7, <2>8, <2>9, <2>10, <2>11,
      <2>12, <2>13, <2>14, <2>15, <2>16 DEF DriverStep
<1>10. CASE HostStep
  <2>1. CASE LookUp
    BY Zenon, <2>1 DEF LookUp, At, ThawGoto, OwnerInv, Thawing, ThawTasks
  <2>2. CASE Reclaim
    BY Zenon, <2>2 DEF Reclaim, At, ThawGoto, Claim
  <2>3. CASE RequestAbort
    BY Zenon, <2>3 DEF RequestAbort, At, ThawGoto
  <2>4. CASE ReadProgress
    BY Zenon, <2>4 DEF ReadProgress, At, ThawGoto
  <2>5. CASE AwaitSettlement
    BY Zenon, <2>5 DEF AwaitSettlement, At, ThawGoto, Claim
  <2> HIDE DEF JoinInv, Unresolved
  <2> QED
    BY <1>10, <2>1, <2>2, <2>3, <2>4, <2>5 DEF HostStep
<1>11. ASSUME NEW w \in Watch, DeadlineTaken(w) \/ Expire(w) PROVE JoinInv'
  <2>1. CASE DeadlineTaken(w)
    BY Zenon, <2>1 DEF DeadlineTaken, At, ThawGoto
  <2>2. CASE Expire(w)
    BY Zenon, <2>2 DEF Expire, At, ThawGoto, Claim
  <2> HIDE DEF JoinInv, Unresolved
  <2> QED
    BY Zenon, <1>11, <2>1, <2>2
<1>12. ASSUME NEW a \in Thawer, RunThaw(a) \/ ThawLost(a) PROVE JoinInv'
  <2>1. CASE ThawStart(a)
    BY Zenon, <2>1 DEF ThawStart, At, ThawGoto, OnThawClaimed, Cancelled
  <2>2. CASE Discover(a)
    BY Zenon, <2>2 DEF Discover, At, ThawGoto
  <2>3. CASE ThawDrain(a)
    BY Zenon, <2>3 DEF ThawDrain, At, ThawGoto, DrainTarget
  <2>4. CASE ThawDrained(a)
    BY Zenon, <2>4 DEF ThawDrained, At, ThawGoto
  <2>5. CASE ThawRemoves(a)
    BY Zenon, <2>5 DEF ThawRemoves, At, ThawGoto, RemoveMarker
  <2>6. CASE ThawFinish(a)
    BY Zenon, <2>6 DEF ThawFinish, At, ThawGoto
  <2>7. CASE ArmAfterThaw(a)
    BY Zenon, <2>7 DEF ArmAfterThaw, At, ThawGoto, OnFrozen, Cancelled
  <2>8. CASE ThawLost(a)
    BY Zenon, <2>8 DEF ThawLost, At, ThawGoto, LoseHandles, ThawTasks
  <2> HIDE DEF JoinInv, Unresolved
  <2> QED
    BY Zenon, <1>12, <2>1, <2>2, <2>3, <2>4, <2>5, <2>6, <2>7, <2>8 DEF RunThaw
<1> HIDE DEF JoinInv, Unresolved
<1> QED
  BY Zenon, <1>2, <1>5, <1>6, <1>7, <1>8, <1>9, <1>10, <1>11, <1>12 DEF Next

-----------------------------------------------------------------------------
(* The initial states satisfy the inductive invariant. *)
LEMMA InvInit == Init => IInv
<1> SUFFICES ASSUME Init PROVE IInv
  BY Zenon
<1> USE ConstantsAssumption DEF Init, Unresolved, Working, Thawing, ThawTasks
<1>1. OwnerInv /\ MarkerInv /\ RingInv /\ HandlesInv /\ AbortInv /\ FrozenIsWatched /\ JoinInv
  BY Zenon DEF OwnerInv, MarkerInv, RingInv, HandlesInv, AbortInv, FrozenIsWatched, JoinInv, Thawer
<1>2. DriverInv
  BY Zenon DEF DriverInv, WorkerTasks, Drainer
<1>3. NothingOwnedInv /\ TrackedInv
  BY Zenon DEF NothingOwnedInv, TrackedInv
<1> QED
  BY Zenon, <1>1, <1>2, <1>3 DEF IInv

(* TypeOK and the inductive invariant hold in every reachable state, whatever *)
(* the interleaving of drivers, blocking tasks, thaws, watchdogs and crashes. *)
THEOREM Invariance == Spec => [](TypeOK /\ IInv)
<1>1. Init => TypeOK /\ IInv
  BY Zenon, TypeInit, InvInit
<1>2. TypeOK /\ IInv /\ [Next]_vars => TypeOK' /\ IInv'
  <2> SUFFICES ASSUME TypeOK, IInv, [Next]_vars PROVE TypeOK' /\ IInv'
    BY Zenon
  <2>1. /\ OwnerInv /\ DriverInv /\ MarkerInv /\ RingInv /\ HandlesInv
        /\ NothingOwnedInv /\ TrackedInv /\ AbortInv /\ JoinInv /\ FrozenIsWatched
    BY Zenon DEF IInv
  <2>2. TypeOK'
    BY Zenon, <2>1, TypePreserved
  <2>3. OwnerInv' /\ DriverInv' /\ MarkerInv' /\ RingInv'
    BY Zenon, <2>1, OwnerPreserved, DriverPreserved, MarkerPreserved, RingPreserved
  <2>4. HandlesInv' /\ NothingOwnedInv' /\ TrackedInv'
    BY Zenon, <2>1, HandlesPreserved, NothingOwnedPreserved, TrackedPreserved
  <2>5. AbortInv' /\ JoinInv' /\ FrozenIsWatched'
    BY Zenon, <2>1, AbortPreserved, JoinPreserved, WatchedPreserved
  <2> QED
    BY Zenon, <2>2, <2>3, <2>4, <2>5 DEF IInv
<1> QED
  BY <1>1, <1>2, PTL DEF Spec

(* The variables keep their types.                                           *)
THEOREM TypeCorrect == Spec => []TypeOK
  BY Invariance, PTL

(* The inductive invariant holds in every reachable state.                   *)
THEOREM IInvariant == Spec => []IInv
  BY Invariance, PTL

(* At any instant a crash is recoverable: a filesystem frozen by the agent   *)
(* implies a marker on disk.                                                 *)
THEOREM CrashSafety == Spec => []CrashSafe
<1>1. IInv => CrashSafe
  BY Zenon DEF IInv, MarkerInv, CrashSafe
<1> QED
  BY <1>1, Invariance, PTL

(* Thawed is published only when no filesystem the agent froze is frozen.    *)
THEOREM ThawedTruthful == Spec => []ThawedIsThawed
<1>1. IInv => ThawedIsThawed
  BY Zenon DEF IInv, NothingOwnedInv, ThawedIsThawed
<1> QED
  BY <1>1, Invariance, PTL

(* No audit record can reach a descriptor while a filesystem the agent froze *)
(* is frozen.                                                                *)
THEOREM RingSafety == Spec => []RingWhileFrozen
<1>1. IInv => RingWhileFrozen
  BY DEF IInv, RingInv, RingWhileFrozen
<1> QED
  BY <1>1, Invariance, PTL

(* A thaw that trusts the tracked handles misses no filesystem the agent     *)
(* froze.                                                                    *)
THEOREM TrackedScopeSound == Spec => []TrackedScopeComplete
<1>1. IInv => TrackedScopeComplete
  BY Zenon DEF IInv, TrackedInv, TrackedScopeComplete
<1> QED
  BY <1>1, Invariance, PTL

(* After a thaw was told that the abort is accepted the freeze is never      *)
(* reported as a success.                                                    *)
THEOREM AcceptedAbortSound == Spec => []AcceptedNeverSucceeds
<1>1. IInv => AcceptedNeverSucceeds
  BY Zenon DEF IInv, AbortInv, AcceptedNeverSucceeds
<1> QED
  BY <1>1, Invariance, PTL

(* Whenever the state is Frozen a watchdog is armed or expired, or about to  *)
(* be armed.                                                                 *)
THEOREM WatchdogPresent == Spec => []FrozenIsWatched
<1>1. IInv => FrozenIsWatched
  BY Zenon DEF IInv
<1> QED
  BY <1>1, Invariance, PTL

(* A published terminal state finds the operation slot released, so that a   *)
(* new freeze is not refused on account of the old operation.                *)
THEOREM SlotReleaseSound == Spec => []SlotReleased
<1>1. TypeOK /\ IInv => SlotReleased
  BY Zenon DEF IInv, OwnerInv, SlotReleased, TypeOK
<1> QED
  BY <1>1, Invariance, PTL

(* No two of the coordinator, the host's thaw and the watchdogs drain at the *)
(* same time.                                                                *)
THEOREM DrainExclusion == Spec => []OneDrainOwner
<1>1. ASSUME TypeOK, IInv PROVE OneDrainOwner
  <2>1. OwnerInv /\ DriverInv
    BY Zenon, <1>1 DEF IInv
  <2>2. Draining(Coord) => \E o \in Op : Unresolved(o)
    BY Zenon, <1>1, <2>1, TaskOwner DEF Draining, RollbackTasks
  <2>3. \A a \in Thawer : Draining(a) => Thawing(a)
    BY Zenon, ConstantsAssumption DEF Draining, Thawing
  <2> QED
    BY Zenon, <2>1, <2>2, <2>3 DEF OneDrainOwner, OwnerInv, Drainer
<1> QED
  BY <1>1, Invariance, PTL

(* A thaw that joined an operation reports a count only when everything the  *)
(* agent froze is thawed.                                                    *)
THEOREM JoinedThawSound == Spec => []JoinedThawHonest
<1>1. IInv => JoinedThawHonest
  BY Zenon DEF IInv, JoinInv, JoinedThawHonest, ThawAnswer, At, Unresolved
<1> QED
  BY <1>1, Invariance, PTL

-----------------------------------------------------------------------------
(* Every step of the core is a step of the lifecycle, or leaves the state,    *)
(* the marker and the frozen filesystems alone.                               *)
LEMMA StepSimulates ==
  ASSUME TypeOK, OwnerInv, DriverInv, MarkerInv, NothingOwnedInv, [Next]_vars
  PROVE  [Lifecycle!Next]_(Lifecycle!vars)
<1> DEFINE Simulated == [Lifecycle!Next]_(Lifecycle!vars)
<1> USE DEF ctxVars, diskVars, reqVars, opVars, walkVars, thawVars, bounds, restOfTask,
  restOfDriver, restOfThaw, restOfRun
<1>1. ASSUME UNCHANGED <<state, owned, marker>> PROVE Simulated
  BY Zenon, <1>1 DEF Lifecycle!vars
<1>2. ASSUME state' = "Thawing", UNCHANGED <<owned, marker>> PROVE Simulated
  BY Zenon, <1>1, <1>2 DEF Lifecycle!Next, Lifecycle!Claim
<1>3. ASSUME NEW d, state \in {"Freezing", "Thawing"}, DrainTarget(d),
             todo[d] \subseteq Target, UNCHANGED <<state, marker>>
      PROVE  Simulated
  <2>1. \E t \in Target : owned' = owned \ {t} \/ owned' = owned
    BY Zenon, <1>3 DEF DrainTarget
  <2> QED
    BY Zenon, <1>1, <1>3, <2>1 DEF Lifecycle!Next, Lifecycle!Drain, Lifecycle!Busy
<1>4. ASSUME state \in {"Freezing", "Thawing"}, owned = {}, marker' = FALSE,
             UNCHANGED <<state, owned>>
      PROVE  Simulated
  BY Zenon, <1>4 DEF Lifecycle!Next, Lifecycle!Unmark, Lifecycle!Busy
<1>5. /\ \A o \in Op : Unresolved(o) => state \in {"Freezing", "Thawing"}
      /\ \A a \in Thawer : Thawing(a) => state = "Thawing"
  BY Zenon DEF OwnerInv
<1>6. task # "none" \/ rec # "none" => state \in {"Freezing", "Thawing"}
  BY Zenon, <1>5, TaskOwner
<1>7. \A d \in Drainer : todo[d] \subseteq Target
  BY Zenon DEF TypeOK
<1>8. CASE UNCHANGED vars \/ DeadlinePasses \/ TaskLost \/ RecoveryLost
  BY Zenon, <1>1, <1>8 DEF vars, DeadlinePasses, TaskLost, RecoveryLost
<1>9. CASE Crash
  <2>1. PICK late \in OrphanedFreeze : owned' = owned \cup late
    BY Zenon, <1>9 DEF Crash
  <2>2. late \in SUBSET Target /\ (late # {} => marker)
    <3>1. CASE task = "ioctl"
      <4>1. marker /\ cur \in Target
        BY Zenon, <3>1, TaskOwner DEF DriverInv, MarkerInv, WorkerTasks
      <4> QED
        BY Zenon, <2>1, <4>1 DEF OrphanedFreeze
    <3>2. CASE task # "ioctl"
      BY Zenon, <2>1, <3>2 DEF OrphanedFreeze
    <3> QED
      BY Zenon, <3>1, <3>2
  <2>3. state' = (IF marker THEN "Frozen" ELSE "Thawed") /\ marker' = marker
    BY Zenon, <1>9 DEF Crash
  <2> QED
    BY Zenon, <2>1, <2>2, <2>3 DEF Lifecycle!Next, Lifecycle!Crash
<1>10. CASE BlockingStep
  <2>1. CASE BuildPlan \/ OpenTarget \/ CheckAuthorised \/ RollbackEnd \/ RecoveryEnd
    BY Zenon, <1>1, <2>1 DEF BuildPlan, OpenTarget, CheckAuthorised, RollbackEnd, RecoveryEnd
  <2>2. CASE CreateMarker
    <3>1. (marker' = TRUE \/ marker' = marker) /\ task # "none" /\ UNCHANGED <<state, owned>>
      BY Zenon, <2>2 DEF CreateMarker, TaskStep
    <3> QED
      BY Zenon, <1>1, <1>6, <3>1 DEF Lifecycle!Next, Lifecycle!Mark, Lifecycle!Busy
  <2>3. CASE Fifreeze
    <3>1. task = "ioctl" /\ UNCHANGED <<state, marker>>
      BY Zenon, <2>3 DEF Fifreeze, TaskStep
    <3>2. marker /\ cur \in Target
      BY Zenon, <3>1, TaskOwner DEF DriverInv, MarkerInv, WorkerTasks
    <3>3. owned' = owned \cup {cur} \/ owned' = owned
      BY Zenon, <2>3 DEF Fifreeze
    <3> QED
      BY Zenon, <1>1, <1>6, <3>1, <3>2, <3>3 DEF Lifecycle!Next, Lifecycle!Freeze, Lifecycle!Busy
  <2>4. CASE RemovalTask
    <3>1. /\ task = "remove" /\ UNCHANGED <<state, owned>>
          /\ marker' = FALSE \/ marker' = marker
      BY Zenon, <2>4 DEF RemovalTask, TaskStep, RemoveMarker
    <3>2. owned = {}
      BY Zenon, <3>1, TaskOwner DEF NothingOwnedInv, RemovalTasks
    <3> QED
      BY Zenon, <1>1, <1>4, <1>6, <3>1, <3>2
  <2>5. CASE RollbackRemove
    <3>1. /\ task = "rollRemove" /\ UNCHANGED <<state, owned>>
          /\ marker' = FALSE \/ marker' = marker
      BY Zenon, <2>5 DEF RollbackRemove, TaskStep, RemoveMarker
    <3>2. owned = {}
      BY Zenon, <3>1 DEF NothingOwnedInv
    <3> QED
      BY Zenon, <1>1, <1>4, <1>6, <3>1, <3>2
  <2>6. CASE RollbackDrain \/ RecoveryDrain
    <3>1. /\ task # "none" \/ rec # "none"
          /\ DrainTarget(Coord) /\ UNCHANGED <<state, marker>>
      BY Zenon, <2>6 DEF RollbackDrain, RecoveryDrain
    <3> QED
      BY <1>3, <1>6, <1>7, <3>1 DEF Drainer
  <2> QED
    BY Zenon, <1>10, <2>1, <2>2, <2>3, <2>4, <2>5, <2>6 DEF BlockingStep
<1>11. ASSUME NEW o \in Op, BeginFreeze(o) PROVE Simulated
  BY Zenon, <1>11 DEF BeginFreeze, Lifecycle!Next, Lifecycle!Begin
<1>12. ASSUME NEW o \in Op, DriverStep(o) PROVE Simulated
  <2>1. CASE CollectRecovery(o) \/ PrepDone(o) \/ Walk(o) \/ WorkerDone(o) \/ Commit(o)
               \/ RemovalDone(o) \/ RollbackDone(o) \/ Recover(o) \/ Recovered(o)
    BY Zenon, <1>1, <2>1 DEF CollectRecovery, PrepDone, Walk, WorkerDone, Commit, RemovalDone,
      RollbackDone, Recover, Recovered
  <2>2. CASE Retire(o) \/ ArmAfterFreeze(o) \/ Announce(o) \/ DropOp(o)
    BY Zenon, <1>1, <2>2 DEF Retire, ArmAfterFreeze, Announce, DropOp
  <2>3. CASE CommitAbort(o)
    BY Zenon, <1>2, <2>3 DEF CommitAbort
  <2>4. CASE WorkerLost(o)
    BY Zenon, <1>1, <2>3, <2>4 DEF WorkerLost
  <2>5. CASE Publish(o)
    <3>1. Unresolved(o) /\ state' = terminal[o] /\ UNCHANGED <<owned, marker>>
      BY Zenon, <2>5 DEF Publish, Unresolved
    <3>2. terminal[o] \in {"Thawed", "Frozen"} /\ (terminal[o] = "Thawed" => owned = {})
      BY Zenon, <2>5 DEF Publish, NothingOwnedInv, TypeOK
    <3> QED
      BY Zenon, <1>5, <3>1, <3>2 DEF Lifecycle!Next, Lifecycle!Settle, Lifecycle!Busy
  <2> QED
    BY Zenon, <1>12, <2>1, <2>2, <2>3, <2>4, <2>5
      DEF DriverStep, AbortWhileAwaiting, WalkAborts, CommitLoses
<1>13. ASSUME NEW a, NEW S, Claim(a, S), UNCHANGED <<owned, marker>> PROVE Simulated
  BY Zenon, <1>2, <1>13 DEF Claim
<1>14. CASE ThawRequest
  BY Zenon, <1>1, <1>13, <1>14 DEF ThawRequest
<1>15. CASE HostStep
  BY Zenon, <1>1, <1>13, <1>15 DEF HostStep, LookUp, Reclaim, RequestAbort, ReadProgress, AwaitSettlement
<1>16. ASSUME NEW w \in Watch, DeadlineTaken(w) \/ Expire(w) PROVE Simulated
  BY Zenon, <1>1, <1>13, <1>16 DEF DeadlineTaken, Expire
<1>17. ASSUME NEW a \in Thawer, RunThaw(a) \/ ThawLost(a) PROVE Simulated
  <2>1. CASE ThawStart(a) \/ Discover(a) \/ ThawDrained(a) \/ ArmAfterThaw(a) \/ ThawLost(a)
    BY Zenon, <1>1, <2>1 DEF ThawStart, Discover, ThawDrained, ArmAfterThaw, ThawLost
  <2>2. CASE ThawDrain(a)
    <3>1. Thawing(a) /\ DrainTarget(a) /\ UNCHANGED <<state, marker>>
      BY Zenon, <2>2 DEF ThawDrain, At, Thawing, ThawTasks
    <3> QED
      BY <1>3, <1>5, <1>7, <3>1 DEF Drainer
  <2>3. CASE ThawRemoves(a)
    <3>1. /\ Thawing(a) /\ owned = {} /\ UNCHANGED <<state, owned>>
          /\ marker' = FALSE \/ marker' = marker
      BY Zenon, <2>3 DEF ThawRemoves, RemoveMarker, At, Thawing, ThawTasks, NothingOwnedInv
    <3> QED
      BY Zenon, <1>1, <1>4, <1>5, <3>1
  <2>4. CASE ThawFinish(a)
    <3>1. Thawing(a) /\ UNCHANGED <<owned, marker>>
      BY Zenon, <2>4 DEF ThawFinish, Thawing, ThawTasks
    <3>2. state' = "Frozen" \/ (state' = "Thawed" /\ owned = {})
      BY Zenon, <2>4, <3>1 DEF ThawFinish, At, NothingOwnedInv
    <3> QED
      BY Zenon, <1>5, <3>1, <3>2 DEF Lifecycle!Next, Lifecycle!Settle, Lifecycle!Busy
  <2> QED
    BY Zenon, <1>17, <2>1, <2>2, <2>3, <2>4 DEF RunThaw
<1> QED
  BY Zenon, <1>8, <1>9, <1>10, <1>11, <1>12, <1>14, <1>15, <1>16, <1>17 DEF Next

(* The freeze core implements the lifecycle: whatever the interleaving of     *)
(* drivers, blocking tasks, thaws, watchdogs and crashes, an observer of the  *)
(* published state, the marker and the frozen filesystems sees only what      *)
(* FreezeLifecycle allows.                                                    *)
THEOREM Implements == Spec => LifecycleSpec
<1>1. Init => Lifecycle!Init
  BY Zenon DEF Init, Lifecycle!Init
<1>2. TypeOK /\ IInv /\ [Next]_vars => [Lifecycle!Next]_(Lifecycle!vars)
  BY StepSimulates DEF IInv
<1> QED
  BY <1>1, <1>2, Invariance, PTL DEF Spec, LifecycleSpec, Lifecycle!Spec

=============================================================================
