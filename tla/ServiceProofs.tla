---------------------------- MODULE ServiceProofs ----------------------------
(***************************************************************************)
(* Proofs about Service, for every set of profiles and of filesystems: no  *)
(* run of the process claims or leaves Thawed over a frozen filesystem,    *)
(* the privilege drop succeeds and nothing is served before it has, and    *)
(* what the configuration says is what the running process has.            *)
(***************************************************************************)
EXTENDS Service, FiniteSetTheorems, SequenceTheorems, TLAPS

\* The steps of the channel loop, of the freeze core and of the stopper.
LoopStep == Serve \/ SelectReads \/ SessionEnds

CoreStep == \/ FreezeRequest \/ ThawRequest \/ FreezeTimesOut \/ Walk \/ Undo
            \/ SettleFrozen \/ SettleThawed \/ Expire \/ \E t \in Target : Thaw(t)

StopStep == Signal \/ StopperSeesThawed \/ StopperSends

(* The steps of the service by the part of it that takes them.              *)
LEMMA StepsByPart ==
  ASSUME ServiceNext
  PROVE  \/ Start \/ LoopStep \/ CoreStep \/ StopStep
         \/ Finish \/ Leave \/ DeviceChanges \/ Killed \/ Restart
BY DEF ServiceNext, LoopStep, CoreStep, StopStep

(* The channel loop touches nothing but its own state.                      *)
LEMMA LoopFrame ==
  ASSUME LoopStep
  PROVE  /\ pc = "serve" /\ cmd' = cmd
         /\ UNCHANGED <<state, owned, marker, armed, stopper, pc, profile, cred, todo, writer,
                        filtered, recovery, exit>>
<1> USE DEF Loop, core
<1>1. CASE Serve
  BY <1>1 DEF Serve, Top, PauseEnds, UseInitial, OpenDevice, RetryEnds, HeldEnds, SessionTop,
              SelectChanged
<1>2. CASE SelectReads \/ SessionEnds
  BY <1>2 DEF SelectReads, SessionEnds
<1> QED
  BY Zenon, <1>1, <1>2 DEF LoopStep

(* The freeze core touches nothing that the startup left.                   *)
LEMMA CoreFrame ==
  ASSUME CoreStep
  PROVE  /\ pc = "serve"
         /\ UNCHANGED <<pc, profile, cred, todo, writer, filtered, recovery, initial, exit,
                        cancel, stopper>>
BY DEF CoreStep, Core, startup, FreezeRequest, ThawRequest, FreezeTimesOut, Walk, Undo,
       SettleFrozen, SettleThawed, Expire, Thaw

(* The stopper touches the cancel channel only.                             *)
LEMMA StopFrame ==
  ASSUME StopStep
  PROVE  /\ pc = "serve"
         /\ UNCHANGED <<state, owned, marker, armed, cmd, loop, delay, pc, profile, cred, todo,
                        writer, filtered, recovery, initial, exit>>
BY DEF StopStep, Stop, startup, core, Signal, StopperSeesThawed, StopperSends

-----------------------------------------------------------------------------
(* Nothing is left frozen.                                                 *)

\* The points of the startup at which the marker has been read.
MarkerRead == {"logging", "mounts", "channel", "drop", "writer", "seccomp", "runtime"}

\* What is frozen is under a marker; only a serving process has a state other
\* than Thawed, and recovery holds what the marker said.
Honest ==
  /\ owned # {} => marker
  /\ pc # "serve" => state = "Thawed"
  /\ pc \in MarkerRead => recovery = marker
  /\ pc = "serve" /\ state = "Thawed" => owned = {}
  /\ exit \in {"stopped", "lost"} => owned = {} /\ pc \in {"leave", "exited"}

(* A startup step, other than the last, changes nothing of the freeze core. *)
LEMMA HonestStart == ASSUME Honest, Start PROVE Honest'
<1> USE DEF Honest, MarkerRead, Become, Refuse, core, serving
<1>1. CASE Load
  BY <1>1 DEF Load
<1>2. CASE OpenMarker
  BY <1>2 DEF OpenMarker
<1>3. CASE InitLogging
  BY <1>3 DEF InitLogging
<1>4. CASE CheckStatePath
  BY <1>4 DEF CheckStatePath
<1>5. CASE OpenChannel
  BY <1>5 DEF OpenChannel
<1>6. CASE DropPrivileges
  BY <1>6 DEF DropPrivileges
<1>7. CASE StartAuditWriter
  BY <1>7 DEF StartAuditWriter
<1>8. CASE InstallSeccomp
  BY <1>8 DEF InstallSeccomp
<1>9. CASE StartServing
  BY Zenon, <1>9 DEF StartServing
<1> QED
  BY <1>1, <1>2, <1>3, <1>4, <1>5, <1>6, <1>7, <1>8, <1>9 DEF Start

(* The freeze core publishes Thawed with nothing frozen only.               *)
LEMMA HonestCore == ASSUME Honest, CoreStep PROVE Honest'
<1>1. pc = "serve" /\ pc' = "serve" /\ exit' = exit /\ recovery' = recovery
  BY CoreFrame
<1> USE <1>1 DEF Honest, MarkerRead, Busy, core
<1>2. CASE FreezeRequest
  BY <1>2 DEF FreezeRequest, Begin
<1>3. CASE ThawRequest
  BY <1>3 DEF ThawRequest, Claim
<1>4. CASE FreezeTimesOut
  BY <1>4 DEF FreezeTimesOut
<1>5. CASE Walk
  BY <1>5 DEF Walk, Mark, Freeze
<1>6. CASE Undo
  BY <1>6 DEF Undo, Unmark
<1>7. CASE SettleFrozen
  BY <1>7 DEF SettleFrozen, Settle
<1>8. CASE SettleThawed
  BY <1>8 DEF SettleThawed, Settle
<1>9. CASE Expire
  BY <1>9 DEF Expire, Claim
<1>10. ASSUME NEW t \in Target, Thaw(t) PROVE Honest'
  BY <1>10 DEF Thaw, Drain
<1> QED
  BY <1>2, <1>3, <1>4, <1>5, <1>6, <1>7, <1>8, <1>9, <1>10 DEF CoreStep

(* No step of the service leaves the honest states.                         *)
LEMMA HonestNext == ASSUME Honest, [ServiceNext]_all PROVE Honest'
<1>1. CASE Start
  BY <1>1, HonestStart
<1>2. CASE LoopStep
  BY <1>2, LoopFrame DEF Honest
<1>3. CASE CoreStep
  BY <1>3, HonestCore
<1>4. CASE StopStep
  BY <1>4, StopFrame DEF Honest
<1>5. CASE Finish
  BY <1>5 DEF Finish, Honest, MarkerRead, core
<1>6. CASE Leave
  BY <1>6 DEF Leave, Become, Honest, MarkerRead, core
<1>7. CASE DeviceChanges
  BY <1>7 DEF DeviceChanges, Honest, core, startup
<1>8. CASE Killed
  BY <1>8 DEF Killed, Honest, MarkerRead
<1>9. CASE Restart
  BY <1>9 DEF Restart, Honest, MarkerRead, core
<1>10. CASE UNCHANGED all
  BY <1>10 DEF Honest, all, core, startup
<1> QED
  BY <1>1, <1>2, <1>3, <1>4, <1>5, <1>6, <1>7, <1>8, <1>9, <1>10, StepsByPart

-----------------------------------------------------------------------------
(* The types.                                                              *)

CoreTypes ==
  /\ state \in {"Thawed", "Freezing", "Frozen", "Thawing"}
  /\ owned \subseteq Target /\ marker \in BOOLEAN /\ armed \in BOOLEAN
  /\ cmd \in {"none", "freeze", "thaw"}

LoopTypes ==
  /\ loop \in Points /\ initial \in BOOLEAN /\ device \in {"missing", "free", "busy"}
  /\ stopper \in {"idle", "waiting", "sending"}

ProcessTypes ==
  /\ pc \in {"load", "marker", "logging", "mounts", "channel", "drop", "writer",
             "seccomp", "runtime", "serve", "leave", "exited"}
  /\ profile \in Profiles /\ filtered \subseteq {"main", "writer"} /\ recovery \in BOOLEAN
  /\ exit \in {"none", "refused", "stopped", "lost", "killed"}

Shape == CoreTypes /\ LoopTypes /\ ProcessTypes

Pause == delay = 0 \/ delay \in InitialBackoff..MaxBackoff

OneWriter == writer = {} \/ \E c : writer = {c}

(* Every step keeps the types of the freeze core.                           *)
LEMMA CoreTypesNext == ASSUME CoreTypes, ProcessTypes, [ServiceNext]_all PROVE CoreTypes'
<1>0. CASE UNCHANGED <<state, owned, marker, armed, cmd>>
  BY <1>0 DEF CoreTypes
<1>1. CASE Start
  <2>1. CASE StartServing
    BY <2>1 DEF StartServing, Refuse, NewLoop, core, serving, CoreTypes, ProcessTypes
  <2>2. CASE ~StartServing
    <3>1. UNCHANGED <<state, owned, marker, armed, cmd>>
      BY Zenon, <1>1, <2>2 DEF Start, Load, OpenMarker, InitLogging, CheckStatePath, OpenChannel,
                        DropPrivileges, StartAuditWriter, InstallSeccomp, Become, Refuse,
                        core, serving
    <3> QED BY <1>0, <3>1
  <2> QED BY <2>1, <2>2
<1>2. CASE LoopStep \/ StopStep
  <2>1. UNCHANGED <<state, owned, marker, armed, cmd>>
    BY <1>2, LoopFrame, StopFrame
  <2> QED BY <1>0, <2>1
<1>3. CASE CoreStep
  <2> USE DEF CoreTypes, Busy, core, Answered
  <2>1. CASE FreezeRequest
    BY <2>1 DEF FreezeRequest, Begin
  <2>2. CASE ThawRequest
    BY Zenon, <2>2 DEF ThawRequest, Claim
  <2>3. CASE FreezeTimesOut
    BY <2>3 DEF FreezeTimesOut
  <2>4. CASE Walk
    BY Zenon, <2>4 DEF Walk, Mark, Freeze
  <2>5. CASE Undo
    BY Zenon, <2>5 DEF Undo, Unmark
  <2>6. CASE SettleFrozen
    BY <2>6 DEF SettleFrozen, Settle
  <2>7. CASE SettleThawed
    BY Zenon, <2>7 DEF SettleThawed, Settle
  <2>8. CASE Expire
    BY Zenon, <2>8 DEF Expire, Claim
  <2>9. ASSUME NEW t \in Target, Thaw(t) PROVE CoreTypes'
    BY <2>9 DEF Thaw, Drain
  <2> QED BY <1>3, <2>1, <2>2, <2>3, <2>4, <2>5, <2>6, <2>7, <2>8, <2>9 DEF CoreStep
<1>4. CASE Finish
  BY <1>4 DEF Finish, Stopped, NotServing, CoreTypes, core
<1>5. CASE Killed
  BY <1>5 DEF Killed, Stopped, NotServing, CoreTypes
<1>6. CASE Leave \/ DeviceChanges \/ Restart \/ UNCHANGED all
  <2>1. UNCHANGED <<state, owned, marker, armed, cmd>>
    BY <1>6 DEF Leave, Become, DeviceChanges, Restart, all, core, serving
  <2> QED BY <1>0, <2>1
<1> QED
  BY <1>1, <1>2, <1>3, <1>4, <1>5, <1>6, StepsByPart

(* Every step keeps the types of the channel loop.                          *)
LEMMA LoopTypesNext == ASSUME LoopTypes, [ServiceNext]_all PROVE LoopTypes'
<1>0. CASE UNCHANGED <<loop, initial, device, stopper>>
  BY <1>0 DEF LoopTypes
<1> USE DEF Points
<1>1. CASE Start
  <2>1. CASE StartServing
    BY <2>1 DEF StartServing, Refuse, NewLoop, serving, LoopTypes
  <2>2. CASE OpenChannel
    BY Zenon, <2>2 DEF OpenChannel, Refuse, Become, serving, LoopTypes
  <2>3. CASE ~StartServing /\ ~OpenChannel
    <3>1. UNCHANGED <<loop, initial, device, stopper>>
      BY Zenon, <1>1, <2>3 DEF Start, Load, OpenMarker, InitLogging, CheckStatePath, DropPrivileges,
                        StartAuditWriter, InstallSeccomp, Become, Refuse, serving
    <3> QED BY <1>0, <3>1
  <2> QED BY <2>1, <2>2, <2>3
<1>2. CASE LoopStep
  <2>1. loop' \in Points /\ initial' \in BOOLEAN /\ device' = device
    <3> USE DEF LoopTypes, Loop
    <3>1. CASE Top \/ PauseEnds \/ UseInitial
      BY Zenon, <3>1 DEF Top, PauseEnds, UseInitial
    <3>2. CASE OpenDevice
      BY <3>2 DEF OpenDevice
    <3>3. CASE RetryEnds \/ HeldEnds \/ SessionTop \/ SelectChanged
      BY <3>3 DEF RetryEnds, HeldEnds, SessionTop, SelectChanged
    <3>4. CASE SelectReads \/ SessionEnds
      BY <3>4 DEF SelectReads, SessionEnds
    <3> QED BY <1>2, <3>1, <3>2, <3>3, <3>4 DEF LoopStep, Serve
  <2>2. stopper' = stopper
    BY <1>2, LoopFrame
  <2> QED BY <2>1, <2>2 DEF LoopTypes
<1>3. CASE CoreStep
  <2>1. initial' = initial /\ stopper' = stopper
    BY <1>3, CoreFrame
  <2>2. device' = device /\ (loop' = loop \/ loop' = "session")
    BY <1>3 DEF CoreStep, Core, Answered, FreezeRequest, ThawRequest, FreezeTimesOut, Walk,
                Undo, SettleFrozen, SettleThawed, Expire, Thaw
  <2> QED BY <2>1, <2>2 DEF LoopTypes
<1>4. CASE StopStep
  <2>1. loop' = loop /\ initial' = initial
    BY <1>4, StopFrame
  <2>2. device' = device /\ stopper' \in {"idle", "waiting", "sending"}
    BY <1>4 DEF StopStep, Stop, Signal, StopperSeesThawed, StopperSends
  <2> QED BY <2>1, <2>2 DEF LoopTypes
<1>5. CASE Finish \/ Killed
  BY Zenon, <1>5 DEF Finish, Killed, Stopped, NotServing, LoopTypes
<1>6. CASE Leave \/ Restart
  BY Zenon, <1>6 DEF Leave, Restart, Become, serving, LoopTypes
<1>7. CASE DeviceChanges
  BY <1>7 DEF DeviceChanges, serving, startup, LoopTypes
<1>8. CASE UNCHANGED all
  BY <1>0, <1>8 DEF all, serving, startup
<1> QED
  BY <1>1, <1>2, <1>3, <1>4, <1>5, <1>6, <1>7, <1>8, StepsByPart

(* Every step keeps the types of the process.                               *)
LEMMA ProcessTypesNext == ASSUME CoreTypes, ProcessTypes, [ServiceNext]_all PROVE ProcessTypes'
<1>0. CASE UNCHANGED <<pc, profile, filtered, recovery, exit>>
  BY <1>0 DEF ProcessTypes
<1>1. CASE Start
  <2> USE DEF ProcessTypes, Become, Refuse
  <2>1. CASE Load
    BY Zenon, <2>1 DEF Load
  <2>2. CASE OpenMarker
    BY Zenon, <2>2 DEF OpenMarker, CoreTypes
  <2>3. CASE InitLogging
    BY Zenon, <2>3 DEF InitLogging
  <2>4. CASE CheckStatePath
    BY Zenon, <2>4 DEF CheckStatePath
  <2>5. CASE OpenChannel
    BY Zenon, <2>5 DEF OpenChannel
  <2>6. CASE DropPrivileges
    BY Zenon, <2>6 DEF DropPrivileges
  <2>7. CASE StartAuditWriter
    BY Zenon, <2>7 DEF StartAuditWriter
  <2>8. CASE InstallSeccomp
    BY Zenon, <2>8 DEF InstallSeccomp, Threads
  <2>9. CASE StartServing
    BY Zenon, <2>9 DEF StartServing
  <2> QED BY <1>1, <2>1, <2>2, <2>3, <2>4, <2>5, <2>6, <2>7, <2>8, <2>9 DEF Start
<1>2. CASE LoopStep \/ CoreStep \/ StopStep
  <2>1. UNCHANGED <<pc, profile, filtered, recovery, exit>>
    BY <1>2, LoopFrame, CoreFrame, StopFrame
  <2> QED BY <1>0, <2>1
<1>3. CASE Finish
  BY <1>3 DEF Finish, ProcessTypes
<1>4. CASE Leave
  BY <1>4 DEF Leave, Become, ProcessTypes
<1>5. CASE Killed
  BY <1>5 DEF Killed, ProcessTypes
<1>6. CASE Restart
  BY Zenon, <1>6 DEF Restart, ProcessTypes
<1>7. CASE DeviceChanges \/ UNCHANGED all
  <2>1. UNCHANGED <<pc, profile, filtered, recovery, exit>>
    BY <1>7 DEF DeviceChanges, startup, all
  <2> QED BY <1>0, <2>1
<1> QED
  BY <1>1, <1>2, <1>3, <1>4, <1>5, <1>6, <1>7, StepsByPart

(* The pause before a reopen stays within its bounds (serve_inner).         *)
LEMMA PauseNext == ASSUME Pause, [ServiceNext]_all PROVE Pause'
<1>0. InitialBackoff \in Nat /\ MaxBackoff \in Nat /\ InitialBackoff <= MaxBackoff
  BY ServiceAssumption
<1>1. CASE delay' = delay \/ delay' = 0
  BY <1>1 DEF Pause
<1>2. CASE SessionEnds
  <2>1. delay \in Nat
    BY <1>0 DEF Pause
  <2>2. delay' = InitialBackoff \/ delay' = Clamp(delay * 2)
    BY <1>2 DEF SessionEnds
  <2> QED BY <1>0, <2>1, <2>2 DEF Pause, Clamp
<1>3. CASE Start
  <2>1. delay' = delay \/ delay' = 0
    <3> USE DEF Become, Refuse, serving
    <3>1. CASE Load \/ OpenMarker \/ InitLogging \/ CheckStatePath \/ OpenChannel
      BY Zenon, <3>1 DEF Load, OpenMarker, InitLogging, CheckStatePath, OpenChannel
    <3>2. CASE DropPrivileges \/ StartAuditWriter \/ InstallSeccomp
      BY <3>2 DEF DropPrivileges, StartAuditWriter, InstallSeccomp
    <3>3. CASE StartServing
      BY <3>3 DEF StartServing, NewLoop
    <3> QED BY Zenon, <1>3, <3>1, <3>2, <3>3 DEF Start
  <2> QED BY <1>1, <2>1
<1>4. CASE LoopStep /\ ~SessionEnds
  <2>1. delay' = delay
    BY <1>4 DEF LoopStep, Serve, Top, PauseEnds, UseInitial, OpenDevice, RetryEnds, HeldEnds,
                SessionTop, SelectChanged, SelectReads
  <2> QED BY <1>1, <2>1
<1>5. CASE CoreStep
  <2>1. delay' = delay \/ delay' = 0
    BY <1>5 DEF CoreStep, Admits, Answered, FreezeRequest, ThawRequest, FreezeTimesOut, Walk,
                Undo, SettleFrozen, SettleThawed, Expire, Thaw
  <2> QED BY <1>1, <2>1
<1>6. CASE StopStep
  BY <1>1, <1>6, StopFrame
<1>7. CASE Finish \/ Leave \/ DeviceChanges \/ Killed \/ Restart \/ UNCHANGED all
  <2>1. delay' = delay \/ delay' = 0
    BY Zenon, <1>7 DEF Finish, Leave, Become, DeviceChanges, Killed, Restart, Stopped, NotServing,
                serving, all
  <2> QED BY <1>1, <2>1
<1> QED
  BY <1>2, <1>3, <1>4, <1>5, <1>6, <1>7, StepsByPart

(* There is never more than one audit writer.                               *)
LEMMA OneWriterNext == ASSUME OneWriter, [ServiceNext]_all PROVE OneWriter'
<1>1. CASE writer' = writer \/ writer' = {} \/ writer' = {cred}
  BY <1>1 DEF OneWriter
<1>2. CASE Start
  <2>1. writer' = writer \/ writer' = {cred}
    <3> USE DEF Become, Refuse
    <3>1. CASE Load \/ OpenMarker \/ InitLogging \/ CheckStatePath \/ OpenChannel
      BY Zenon, <3>1 DEF Load, OpenMarker, InitLogging, CheckStatePath, OpenChannel
    <3>2. CASE DropPrivileges \/ InstallSeccomp \/ StartServing
      BY <3>2 DEF DropPrivileges, InstallSeccomp, StartServing
    <3>3. CASE StartAuditWriter
      BY <3>3 DEF StartAuditWriter
    <3> QED BY Zenon, <1>2, <3>1, <3>2, <3>3 DEF Start
  <2> QED BY <1>1, <2>1
<1>3. CASE LoopStep \/ CoreStep \/ StopStep
  BY <1>1, <1>3, LoopFrame, CoreFrame, StopFrame
<1>4. CASE Finish \/ Leave \/ DeviceChanges \/ Killed \/ Restart \/ UNCHANGED all
  <2>1. writer' = writer \/ writer' = {} \/ writer' = {cred}
    BY <1>4 DEF Finish, Leave, DeviceChanges, Killed, Restart, startup, all
  <2> QED BY <1>1, <2>1
<1> QED
  BY <1>2, <1>3, <1>4, StepsByPart

(* The types of the service.                                                *)
LEMMA TypesImply == ASSUME Shape, Pause, OneWriter PROVE TypeOK
<1>1. Cardinality(writer) <= 1
  <2>1. CASE writer = {}
    BY <2>1, FS_EmptySet
  <2>2. ASSUME NEW c, writer = {c} PROVE Cardinality(writer) <= 1
    <3>1. Cardinality({c}) = 1
      BY FS_Singleton
    <3> QED BY <2>2, <3>1
  <2> QED BY <2>1, <2>2 DEF OneWriter
<1> QED
  BY <1>1 DEF Shape, CoreTypes, LoopTypes, ProcessTypes, Pause, TypeOK

\* The inductive invariant of the process.
ServiceInv == Shape /\ Pause /\ OneWriter /\ Honest

(* The invariant of the process holds in every reachable state.             *)
THEOREM ServiceInvHolds == ServiceSpec => []ServiceInv
<1>1. ServiceInit => ServiceInv
  <2> SUFFICES ASSUME ServiceInit PROVE ServiceInv
    OBVIOUS
  <2>1. CoreTypes /\ LoopTypes /\ ProcessTypes
    BY Zenon DEF ServiceInit, Init, NotServing, CoreTypes, LoopTypes, ProcessTypes, Points
  <2>2. Pause /\ OneWriter /\ Honest
    BY DEF ServiceInit, Init, NotServing, Pause, OneWriter, Honest, MarkerRead
  <2> QED BY <2>1, <2>2 DEF ServiceInv, Shape
<1>2. ServiceInv /\ [ServiceNext]_all => ServiceInv'
  BY CoreTypesNext, LoopTypesNext, ProcessTypesNext, PauseNext, OneWriterNext, HonestNext
     DEF ServiceInv, Shape
<1> QED
  BY <1>1, <1>2, PTL DEF ServiceSpec

(* No run of the process claims or leaves Thawed over a frozen filesystem   *)
(* (NothingLeftFrozen), whatever earlier runs left behind and however often *)
(* it is killed.                                                            *)
THEOREM NothingIsLeftFrozen == ServiceSpec => []NothingLeftFrozen
<1>1. ServiceInv => NothingLeftFrozen
  BY Zenon, TypesImply DEF ServiceInv, Honest, NothingLeftFrozen, ServedHonestly, LeavesThawed
<1> QED
  BY <1>1, ServiceInvHolds, PTL

-----------------------------------------------------------------------------
(* The privilege drop.                                                     *)

Caps == SUBSET AllCaps
Accounts == {"root", "other", "service"}
Thread == [user : Accounts, group : Accounts, groups : Accounts,
           permitted : Caps, effective : Caps, bounding : Caps,
           inheritable : Caps, ambient : Caps,
           keepcaps : BOOLEAN, noNewPrivs : BOOLEAN]

\* The credentials c after the first k steps of the drop, down to the set f.
Stage(c, k, f) ==
  /\ c \in Thread
  /\ 1 <= k /\ k < 12 => c.keepcaps = TRUE
  /\ k < 4 => c.effective = AllCaps
  /\ k < 5 => c.permitted = AllCaps
  /\ 2 <= k => c.groups = "service"
  /\ 3 <= k => c.group = "service"
  /\ 4 <= k => c.user = "service"
  /\ 4 <= k /\ k < 6 => c.effective = {}
  /\ 5 <= k /\ k < 9 => c.permitted = f \cup {"SETPCAP"}
  /\ 6 <= k /\ k < 8 => c.effective = f \cup {"SETPCAP"}
  /\ 7 <= k => c.bounding \subseteq f
  /\ 8 <= k => c.effective = f
  /\ 9 <= k => c.permitted = f
  /\ 10 <= k => c.inheritable = {}
  /\ 11 <= k => c.ambient = {}
  /\ 12 <= k => c.keepcaps = FALSE
  /\ 13 <= k => c.noNewPrivs = TRUE

Remaining(k) == SubSeq(DropSteps, k + 1, 13)

(* The kernel permits the next step of the drop, which leads to the next    *)
(* stage (drop_privileges_to).                                              *)
LEMMA StageStep ==
  ASSUME NEW k \in 0..12, NEW f \in SUBSET FinalCaps, NEW c, Stage(c, k, f)
  PROVE  Permits(c, DropSteps[k + 1], f) /\ Stage(Performed(c, DropSteps[k + 1], f), k + 1, f)
<1>0. c \in Thread /\ f \in Caps /\ f \cup {"SETPCAP"} \in Caps
      /\ "SETGID" \in AllCaps /\ "SETUID" \in AllCaps
  BY Zenon DEF Stage, Caps, AllCaps, FinalCaps
<1> DEFINE d == Performed(c, DropSteps[k + 1], f)
<1>1. CASE k = 0
  <2>1. DropSteps[k + 1] = "keepcaps"
    BY <1>1 DEF DropSteps
  <2>2. Permits(c, "keepcaps", f)
    BY <1>0, <1>1 DEF Permits, Stage
  <2>3. Performed(c, "keepcaps", f) \in Thread
    BY Zenon, <1>0 DEF Performed, Thread, Accounts, Caps
  <2>4. Stage(Performed(c, "keepcaps", f), k + 1, f)
    BY <1>0, <1>1, <2>3 DEF Performed, Thread, Stage
  <2> QED BY <2>1, <2>2, <2>4
<1>2. CASE k = 1
  <2>1. DropSteps[k + 1] = "setgroups"
    BY <1>2 DEF DropSteps
  <2>2. Permits(c, "setgroups", f)
    BY <1>0, <1>2 DEF Permits, Stage
  <2>3. Performed(c, "setgroups", f) \in Thread
    BY <1>0 DEF Performed, Thread, Accounts, Caps
  <2>4. Stage(Performed(c, "setgroups", f), k + 1, f)
    BY <1>0, <1>2, <2>3 DEF Performed, Thread, Stage
  <2> QED BY <2>1, <2>2, <2>4
<1>3. CASE k = 2
  <2>1. DropSteps[k + 1] = "setresgid"
    BY <1>3 DEF DropSteps
  <2>2. Permits(c, "setresgid", f)
    BY <1>0, <1>3 DEF Permits, Stage
  <2>3. Performed(c, "setresgid", f) \in Thread
    BY <1>0 DEF Performed, Thread, Accounts, Caps
  <2>4. Stage(Performed(c, "setresgid", f), k + 1, f)
    BY <1>0, <1>3, <2>3 DEF Performed, Thread, Stage
  <2> QED BY <2>1, <2>2, <2>4
<1>4. CASE k = 3
  <2>1. DropSteps[k + 1] = "setresuid"
    BY <1>4 DEF DropSteps
  <2>2. Permits(c, "setresuid", f)
    BY <1>0, <1>4 DEF Permits, Stage
  <2>3. Performed(c, "setresuid", f) = LeaveRoot(c)
    BY DEF Performed
  <2>4. c.keepcaps = TRUE /\ c.permitted = AllCaps
    BY <1>4 DEF Stage
  <2>5. LeaveRoot(c) = [c EXCEPT !.user = "service", !.effective = {}, !.ambient = {},
                                 !.permitted = AllCaps]
    BY <1>0, <2>4 DEF LeaveRoot, Thread
  <2>6. LeaveRoot(c) \in Thread
    BY Zenon, <1>0, <2>5 DEF Thread, Accounts, Caps
  <2>7. Stage(LeaveRoot(c), k + 1, f)
    BY <1>0, <1>4, <2>5, <2>6 DEF Thread, Stage
  <2> QED BY <2>1, <2>2, <2>3, <2>7
<1>5. CASE k = 4
  <2>1. DropSteps[k + 1] = "raise_permitted"
    BY <1>5 DEF DropSteps
  <2>2. Permits(c, "raise_permitted", f)
    BY <1>0, <1>5 DEF Permits, Stage, Caps
  <2>3. Performed(c, "raise_permitted", f) \in Thread
    BY <1>0 DEF Performed, Thread, Accounts, Caps
  <2>4. Stage(Performed(c, "raise_permitted", f), k + 1, f)
    BY <1>0, <1>5, <2>3 DEF Performed, Thread, Stage
  <2> QED BY <2>1, <2>2, <2>4
<1>6. CASE k = 5
  <2>1. DropSteps[k + 1] = "raise_effective"
    BY <1>6 DEF DropSteps
  <2>2. Permits(c, "raise_effective", f)
    BY <1>0, <1>6 DEF Permits, Stage
  <2>3. Performed(c, "raise_effective", f) \in Thread
    BY <1>0 DEF Performed, Thread, Accounts, Caps
  <2>4. Stage(Performed(c, "raise_effective", f), k + 1, f)
    BY <1>0, <1>6, <2>3 DEF Performed, Thread, Stage
  <2> QED BY <2>1, <2>2, <2>4
<1>7. CASE k = 6
  <2>1. DropSteps[k + 1] = "trim_bounding"
    BY <1>7 DEF DropSteps
  <2>2. Permits(c, "trim_bounding", f)
    BY <1>0, <1>7 DEF Permits, Stage
  <2>3. Performed(c, "trim_bounding", f) \in Thread
    BY <1>0 DEF Performed, Thread, Accounts, Caps
  <2>4. Stage(Performed(c, "trim_bounding", f), k + 1, f)
    BY <1>0, <1>7, <2>3 DEF Performed, Thread, Stage
  <2> QED BY <2>1, <2>2, <2>4
<1>8. CASE k = 7
  <2>1. DropSteps[k + 1] = "set_effective"
    BY <1>8 DEF DropSteps
  <2>2. Permits(c, "set_effective", f)
    BY <1>0, <1>8 DEF Permits, Stage
  <2>3. Performed(c, "set_effective", f) \in Thread
    BY <1>0 DEF Performed, Thread, Accounts, Caps
  <2>4. Stage(Performed(c, "set_effective", f), k + 1, f)
    BY <1>0, <1>8, <2>3 DEF Performed, Thread, Stage
  <2> QED BY <2>1, <2>2, <2>4
<1>9. CASE k = 8
  <2>1. DropSteps[k + 1] = "set_permitted"
    BY <1>9 DEF DropSteps
  <2>2. Permits(c, "set_permitted", f)
    BY <1>0, <1>9 DEF Permits, Stage
  <2>3. Performed(c, "set_permitted", f) \in Thread
    BY <1>0 DEF Performed, Thread, Accounts, Caps
  <2>4. Stage(Performed(c, "set_permitted", f), k + 1, f)
    BY <1>0, <1>9, <2>3 DEF Performed, Thread, Stage
  <2> QED BY <2>1, <2>2, <2>4
<1>10. CASE k = 9
  <2>1. DropSteps[k + 1] = "clear_inheritable"
    BY <1>10 DEF DropSteps
  <2>2. Permits(c, "clear_inheritable", f)
    BY <1>0, <1>10 DEF Permits, Stage
  <2>3. Performed(c, "clear_inheritable", f) \in Thread
    BY Zenon, <1>0 DEF Performed, Thread, Accounts, Caps
  <2>4. Stage(Performed(c, "clear_inheritable", f), k + 1, f)
    BY <1>0, <1>10, <2>3 DEF Performed, Thread, Stage
  <2> QED BY <2>1, <2>2, <2>4
<1>11. CASE k = 10
  <2>1. DropSteps[k + 1] = "clear_ambient"
    BY <1>11 DEF DropSteps
  <2>2. Permits(c, "clear_ambient", f)
    BY <1>0, <1>11 DEF Permits, Stage
  <2>3. Performed(c, "clear_ambient", f) \in Thread
    BY <1>0 DEF Performed, Thread, Accounts, Caps
  <2>4. Stage(Performed(c, "clear_ambient", f), k + 1, f)
    BY <1>0, <1>11, <2>3 DEF Performed, Thread, Stage
  <2> QED BY <2>1, <2>2, <2>4
<1>12. CASE k = 11
  <2>1. DropSteps[k + 1] = "keepcaps_off"
    BY <1>12 DEF DropSteps
  <2>2. Permits(c, "keepcaps_off", f)
    BY <1>0, <1>12 DEF Permits, Stage
  <2>3. Performed(c, "keepcaps_off", f) \in Thread
    BY Zenon, <1>0 DEF Performed, Thread, Accounts, Caps
  <2>4. PICK e \in Thread : e = Performed(c, "keepcaps_off", f)
    BY <2>3
  <2>5. e = [c EXCEPT !.keepcaps = FALSE]
    BY <2>4 DEF Performed
  <2>6. /\ e.keepcaps = FALSE /\ e.user = c.user /\ e.group = c.group /\ e.groups = c.groups /\ e.permitted = c.permitted
        /\ e.effective = c.effective /\ e.bounding = c.bounding /\ e.inheritable = c.inheritable /\ e.ambient = c.ambient /\ e.noNewPrivs = c.noNewPrivs
    BY Zenon, <1>0, <2>5 DEF Thread
  <2>7. Stage(e, k + 1, f)
    BY <1>12, <2>6 DEF Stage
  <2> QED BY <2>1, <2>2, <2>4, <2>7
<1>13. CASE k = 12
  <2>1. DropSteps[k + 1] = "no_new_privs"
    BY <1>13 DEF DropSteps
  <2>2. Permits(c, "no_new_privs", f)
    BY <1>0, <1>13 DEF Permits, Stage
  <2>3. Performed(c, "no_new_privs", f) \in Thread
    BY Zenon, <1>0 DEF Performed, Thread, Accounts, Caps
  <2>4. PICK e \in Thread : e = Performed(c, "no_new_privs", f)
    BY <2>3
  <2>5. e = [c EXCEPT !.noNewPrivs = TRUE]
    BY <2>4 DEF Performed
  <2>6. /\ e.noNewPrivs = TRUE /\ e.user = c.user /\ e.group = c.group /\ e.groups = c.groups /\ e.permitted = c.permitted
        /\ e.effective = c.effective /\ e.bounding = c.bounding /\ e.inheritable = c.inheritable /\ e.ambient = c.ambient /\ e.keepcaps = c.keepcaps
    BY Zenon, <1>0, <2>5 DEF Thread
  <2>7. Stage(e, k + 1, f)
    BY <1>13, <2>6 DEF Stage
  <2> QED BY <2>1, <2>2, <2>4, <2>7
<1> QED
  BY <1>1, <1>2, <1>3, <1>4, <1>5, <1>6, <1>7, <1>8, <1>9, <1>10, <1>11, <1>12, <1>13

(* What is left of the drop, step by step.                                  *)
LEMMA RemainingSteps ==
  /\ DropSteps = Remaining(0) /\ Remaining(13) = <<>>
  /\ \A k \in 0..12 : /\ Remaining(k) # <<>> /\ Head(Remaining(k)) = DropSteps[k + 1]
                      /\ Tail(Remaining(k)) = Remaining(k + 1)
<1> DEFINE Names == {"keepcaps", "setgroups", "setresgid", "setresuid", "raise_permitted",
                 "raise_effective", "trim_bounding", "set_effective", "set_permitted",
                 "clear_inheritable", "clear_ambient", "keepcaps_off", "no_new_privs"}
<1>0. DropSteps \in Seq(Names) /\ Len(DropSteps) = 13
  BY DEF DropSteps
<1> HIDE DEF Names
<1>1. PICK s \in Seq(Names) : s = DropSteps /\ Len(s) = 13
  BY <1>0
<1>2. s = SubSeq(s, 1, 13) /\ SubSeq(s, 14, 13) = <<>>
  BY <1>1
<1>3. ASSUME NEW k \in 0..12
      PROVE  /\ SubSeq(s, k + 1, 13) # <<>> /\ Head(SubSeq(s, k + 1, 13)) = s[k + 1]
             /\ Tail(SubSeq(s, k + 1, 13)) = SubSeq(s, (k + 1) + 1, 13)
  <2>1. PICK m \in Int : m = k + 1
    OBVIOUS
  <2>2. PICK n \in Int : n = 13
    OBVIOUS
  <2>3. m \in 1..Len(s) /\ n \in m..Len(s) /\ m <= n /\ n - m + 1 > 0
    BY <1>1, <2>1, <2>2
  <2>4. Head(SubSeq(s, m, n)) = s[m] /\ Tail(SubSeq(s, m, n)) = SubSeq(s, m + 1, n)
    <3>1. Head(SubSeq(s, m, n)) = s[m]
      BY <2>3, HeadTailOfSubSeq, Zenon
    <3>2. Tail(SubSeq(s, m, n)) = SubSeq(s, m + 1, n)
      BY <2>3, HeadTailOfSubSeq, Zenon
    <3> QED BY Zenon, <3>1, <3>2
  <2>5. SubSeq(s, m, n) # <<>>
    <3>1. \A i \in m..n : i \in 1..Len(s)
      BY <1>1, <2>2, <2>3
    <3>2. \A i \in m..n : s[i] \in Names
      BY <3>1, ElementOfSeq, Zenon
    <3>3. Len(SubSeq(s, m, n)) = IF m <= n THEN n - m + 1 ELSE 0
      BY <3>2, SubSeqProperties, Zenon
    <3>4. Len(SubSeq(s, m, n)) # 0
      BY <2>3, <3>3
    <3>5. Len(<<>>) = 0
      OBVIOUS
    <3> QED BY <3>4, <3>5, Zenon
  <2> QED BY <2>1, <2>2, <2>4, <2>5
<1> QED
  BY <1>1, <1>2, <1>3 DEF Remaining

(* A thread of root is at the start of the drop, and one at its end is      *)
(* confined.                                                                *)
LEMMA StageEnds ==
  ASSUME NEW f \in SUBSET FinalCaps
  PROVE  /\ \A inherited \in Caps : Stage(RootThread(inherited), 0, f)
         /\ \A c : Stage(c, 13, f) => Confined(c, f)
<1>1. ASSUME NEW inherited \in Caps PROVE Stage(RootThread(inherited), 0, f)
  <2>1. RootThread(inherited) \in Thread
    BY Zenon DEF RootThread, Thread, Caps, Accounts
  <2> QED BY <2>1 DEF Stage, RootThread
<1>2. ASSUME NEW c, Stage(c, 13, f) PROVE Confined(c, f)
  BY <1>2 DEF Stage, Confined
<1> QED
  BY Zenon, <1>1, <1>2

\* The points of the startup before the drop and behind it.
Before == {"load", "marker", "logging", "mounts", "channel"}
Behind == {"writer", "seccomp", "runtime", "serve"}

\* The drop up to where it got, the writer, the filter, and the configuration.
InDrop ==
  /\ writer = {}
  /\ IF profile.root THEN \E k \in 0..13 : todo = Remaining(k) /\ Stage(cred, k, F)
                     ELSE todo = <<>>
Dropped == (profile.root => Confined(cred, F)) /\ (C.enforced => profile.root)
Accepted == Parses(profile.file) /\ Valid(C)

Confinement ==
  /\ pc \in Before => cred = Fresh(profile) /\ writer = {}
  /\ pc = "drop" => InDrop
  /\ pc \in Behind => Dropped /\ writer = IF pc = "writer" THEN {} ELSE {cred}
  /\ pc \in {"runtime", "serve"} => (C.enforced => filtered = {"main", "writer"})
  /\ pc \notin {"load", "exited"} => Accepted

(* The configuration, and what it grants, is that of the profile.           *)
LEMMA SameProfile ==
  ASSUME profile' = profile
  PROVE  C' = C /\ B' = B /\ A' = A /\ F' = F /\ Accepted' = Accepted
BY DEF C, B, A, F, Accepted

(* The first points of the startup leave the credentials as they were.      *)
LEMMA ConfinementEarly ==
  ASSUME Confinement, Load \/ OpenMarker \/ InitLogging \/ CheckStatePath PROVE Confinement'
<1>1. /\ pc \in Before /\ profile' = profile /\ cred' = cred /\ writer' = writer
      /\ pc' \in {"marker", "logging", "mounts", "channel", "leave", "exited"}
  BY DEF Load, OpenMarker, InitLogging, CheckStatePath, Become, Refuse, Before
<1>2. pc' \in Before => cred' = Fresh(profile') /\ writer' = {}
  BY <1>1 DEF Confinement
<1>3. pc' \notin {"load", "exited"} => Accepted
  <2>1. CASE Load
    BY <2>1 DEF Load, Refuse, Accepted
  <2>2. CASE ~Load
    <3>1. pc \notin {"load", "exited"}
      BY <2>2 DEF OpenMarker, InitLogging, CheckStatePath
    <3> QED BY <3>1 DEF Confinement
  <2> QED BY <2>1, <2>2
<1>4. pc' # "drop" /\ pc' \notin Behind /\ pc' \notin {"runtime", "serve"}
  BY <1>1 DEF Behind
<1> QED
  BY Zenon, <1>1, <1>2, <1>3, <1>4, SameProfile DEF Confinement

(* The channel is open, or could not be, before anything is given up.       *)
LEMMA ConfinementChannel ==
  ASSUME Confinement, profile \in Profiles, OpenChannel PROVE Confinement'
<1>1. /\ pc = "channel" /\ profile' = profile /\ cred' = cred /\ writer' = writer
      /\ \/ pc' = "drop" /\ todo' = DropPlan(profile.root)
         \/ pc' = "leave"
  BY DEF OpenChannel, Become, Refuse
<1>2. cred = Fresh(profile) /\ writer = {} /\ Accepted
  BY <1>1 DEF Confinement, Before
<1>3. CASE pc' = "leave"
  BY <1>1, <1>2, <1>3, SameProfile DEF Confinement, Before, Behind
<1>4. CASE pc' = "drop"
  <2>1. todo' = DropPlan(profile.root)
    BY <1>1, <1>4
  <2>2. F \in SUBSET FinalCaps
    BY DEF F, Finals
  <2>3. CASE profile.root
    <3>1. profile.inherited \in Caps
      BY ProfileAssumption DEF Caps
    <3>2. cred = RootThread(profile.inherited) /\ todo' = Remaining(0)
      BY <1>2, <2>1, <2>3, RemainingSteps DEF Fresh, DropPlan
    <3>3. Stage(cred, 0, F)
      BY <2>2, <3>1, <3>2, StageEnds
    <3>4. InDrop'
      BY <1>1, <1>2, <2>3, <3>2, <3>3, SameProfile DEF InDrop
    <3> QED BY <1>1, <1>2, <1>4, <3>4, SameProfile DEF Confinement, Before, Behind
  <2>4. CASE ~profile.root
    <3>1. todo' = <<>>
      BY <2>1, <2>4 DEF DropPlan
    <3>2. InDrop'
      BY Zenon, <1>1, <1>2, <2>4, <3>1 DEF InDrop
    <3> QED BY <1>1, <1>2, <1>4, <3>2, SameProfile DEF Confinement, Before, Behind
  <2> QED BY <2>3, <2>4
<1> QED
  BY <1>1, <1>3, <1>4

(* A step of the drop, or its end.                                          *)
LEMMA ConfinementDrop ==
  ASSUME Confinement, DropPrivileges PROVE Confinement'
<1>0. F \in SUBSET FinalCaps
  BY Zenon DEF F, Finals
<1>1. pc = "drop" /\ profile' = profile /\ writer' = writer
  BY DEF DropPrivileges, Become, Refuse
<1>2. InDrop /\ Accepted
  BY <1>1 DEF Confinement
<1>3. CASE pc' = "leave"
  BY <1>1, <1>2, <1>3, SameProfile DEF Confinement, Before, Behind
<1>4. CASE pc' = "drop"
  <2>1. /\ todo # <<>> /\ todo' = Tail(todo) /\ cred' = Performed(cred, Head(todo), F)
    BY <1>1, <1>4 DEF DropPrivileges, Become, Refuse
  <2>2. profile.root
    BY <1>2, <2>1 DEF InDrop
  <2>3. PICK k \in 0..13 : todo = Remaining(k) /\ Stage(cred, k, F)
    BY <1>2, <2>2 DEF InDrop
  <2>4. k \in 0..12
    <3>1. k # 13
      BY <2>1, <2>3, RemainingSteps
    <3> QED BY <3>1
  <2>5. todo' = Remaining(k + 1) /\ cred' = Performed(cred, DropSteps[k + 1], F)
    BY Zenon, <2>1, <2>3, <2>4, RemainingSteps
  <2>6. Stage(cred', k + 1, F)
    BY <1>0, <2>3, <2>4, <2>5, StageStep
  <2>7. k + 1 \in 0..13
    BY <2>4
  <2>8. InDrop'
    BY <1>1, <1>2, <2>2, <2>5, <2>6, <2>7, SameProfile DEF InDrop
  <2> QED BY Zenon, <1>1, <1>2, <1>4, <2>8, SameProfile DEF Confinement, Before, Behind
<1>5. CASE pc' = "writer"
  <2>1. todo = <<>> /\ (C.enforced => profile.root) /\ cred' = cred
    BY <1>1, <1>5 DEF DropPrivileges, Become, Refuse
  <2>2. ASSUME profile.root PROVE Confined(cred, F)
    <3>1. PICK k \in 0..13 : todo = Remaining(k) /\ Stage(cred, k, F)
      BY <1>2, <2>2 DEF InDrop
    <3>2. k = 13
      <4>1. k \notin 0..12
        BY Zenon, <2>1, <3>1, RemainingSteps
      <4> QED BY <4>1
    <3> QED BY <1>0, <3>1, <3>2, StageEnds
  <2>3. Dropped' /\ writer' = {}
    BY <1>1, <1>2, <2>1, <2>2, SameProfile DEF Dropped, InDrop
  <2> QED BY Zenon, <1>1, <1>2, <1>5, <2>3, SameProfile DEF Confinement, Before, Behind
<1> QED
  BY <1>3, <1>4, <1>5 DEF DropPrivileges, Become, Refuse

(* The writer, the filter and the runtime come behind the drop.             *)
LEMMA ConfinementLate ==
  ASSUME Confinement, StartAuditWriter \/ InstallSeccomp \/ StartServing PROVE Confinement'
<1>1. /\ pc \in {"writer", "seccomp", "runtime"} /\ profile' = profile /\ cred' = cred
      /\ pc' \in {"seccomp", "runtime", "serve", "leave"}
  BY DEF StartAuditWriter, InstallSeccomp, StartServing, Become, Refuse
<1>2. Dropped /\ Accepted /\ writer = IF pc = "writer" THEN {} ELSE {cred}
  BY Zenon, <1>1 DEF Confinement, Behind
<1>3. CASE pc' = "leave"
  BY <1>1, <1>2, <1>3, SameProfile DEF Confinement, Before, Behind
<1>4. CASE pc' # "leave"
  <2>1. writer' = {cred}
    <3>1. CASE StartAuditWriter
      BY Zenon, <1>4, <3>1 DEF StartAuditWriter, Refuse
    <3>2. CASE InstallSeccomp \/ StartServing
      BY <1>2, <3>2 DEF InstallSeccomp, StartServing, Refuse
    <3> QED BY <3>1, <3>2
  <2>2. Dropped' /\ Accepted'
    BY <1>1, <1>2, SameProfile DEF Dropped
  <2>3. pc' \in {"runtime", "serve"} => (C.enforced => filtered' = {"main", "writer"})
    <3>1. CASE StartAuditWriter
      BY Zenon, <1>4, <3>1 DEF StartAuditWriter, Become, Refuse
    <3>2. CASE InstallSeccomp
      <4>1. Threads = {"main", "writer"}
        BY <1>2, <3>2 DEF InstallSeccomp, Threads
      <4> QED BY <1>4, <3>2, <4>1 DEF InstallSeccomp, Refuse
    <3>3. CASE StartServing
      <4>1. pc = "runtime" /\ filtered' = filtered
        BY <3>3 DEF StartServing, Refuse
      <4> QED BY Zenon, <4>1 DEF Confinement
    <3> QED BY Zenon, <3>1, <3>2, <3>3
  <2> QED BY <1>1, <2>1, <2>2, <2>3, <1>4, SameProfile DEF Confinement, Before, Behind
<1> QED
  BY Zenon, <1>3, <1>4

(* Every step keeps the confinement of what serves.                         *)
LEMMA ConfinementNext ==
  ASSUME Confinement, profile \in Profiles, [ServiceNext]_all PROVE Confinement'
<1>1. CASE Start
  BY Zenon, <1>1, ConfinementEarly, ConfinementChannel, ConfinementDrop, ConfinementLate DEF Start
<1>2. CASE LoopStep \/ CoreStep \/ StopStep \/ DeviceChanges \/ UNCHANGED all
  <2>1. UNCHANGED <<pc, profile, cred, todo, writer, filtered>>
    BY <1>2, LoopFrame, CoreFrame, StopFrame DEF DeviceChanges, startup, all
  <2>2. InDrop' = InDrop /\ Dropped' = Dropped
    BY <2>1, SameProfile DEF InDrop, Dropped
  <2> QED BY <2>1, <2>2, SameProfile DEF Confinement
<1>3. CASE Finish \/ Leave \/ Killed
  <2>1. /\ profile' = profile /\ pc' \in {"leave", "exited"}
        /\ pc' = "leave" => pc = "serve"
    BY <1>3 DEF Finish, Leave, Killed, Become
  <2>2. pc' = "leave" => Accepted
    BY <2>1 DEF Confinement
  <2> QED BY Zenon, <2>1, <2>2, SameProfile DEF Confinement, Before, Behind
<1>4. CASE Restart
  <2>1. pc' = "load" /\ cred' = Fresh(profile') /\ writer' = {}
    BY <1>4 DEF Restart
  <2> QED BY <2>1 DEF Confinement, Before, Behind
<1> QED
  BY <1>1, <1>2, <1>3, <1>4, StepsByPart

(* In every state the credentials, the writer and the filter are those that *)
(* the point of the startup calls for.                                      *)
THEOREM ConfinementHolds == ServiceSpec => []Confinement
<1>1. ServiceInit => Confinement
  <2> SUFFICES ASSUME ServiceInit PROVE Confinement
    OBVIOUS
  <2>1. pc = "load" /\ writer = {} /\ cred = Fresh(profile)
    BY DEF ServiceInit
  <2> QED BY <2>1 DEF Confinement, Before, Behind
<1>2. ServiceInv /\ Confinement /\ [ServiceNext]_all => Confinement'
  <2>1. ServiceInv => profile \in Profiles
    BY DEF ServiceInv, Shape, ProcessTypes
  <2> QED BY <2>1, ConfinementNext
<1> QED
  BY <1>1, <1>2, ServiceInvHolds, PTL DEF ServiceSpec

(* Service!DropSound for every set of profiles: a process started as root   *)
(* performs the whole drop, each step permitted by what the earlier ones    *)
(* left it (drop_privileges), and serves only behind it, its audit writer   *)
(* included; enforced hardening serves with every thread filtered.          *)
THEOREM DropIsSound == ServiceSpec => []DropSound
<1>1. Confinement => DropSound
  <2> SUFFICES ASSUME Confinement PROVE DropSound
    OBVIOUS
  <2>1. ASSUME pc = "drop", todo # <<>> PROVE Permits(cred, Head(todo), F)
    <3>0. F \in SUBSET FinalCaps
      BY DEF F, Finals
    <3>1. InDrop
      BY <2>1 DEF Confinement
    <3>2. PICK k \in 0..13 : todo = Remaining(k) /\ Stage(cred, k, F)
      BY <2>1, <3>1 DEF InDrop
    <3>3. k \in 0..12
      <4>1. k # 13
        BY <2>1, <3>2, RemainingSteps
      <4> QED BY <4>1
    <3>4. Head(todo) = DropSteps[k + 1]
      BY Zenon, <3>2, <3>3, RemainingSteps
    <3> QED BY <3>0, <3>2, <3>3, <3>4, StageStep
  <2>2. ConfinedServing
    BY DEF ConfinedServing, Confinement, Behind, Dropped
  <2> QED BY <2>1, <2>2 DEF DropSound, DropNeverRefused
<1> QED
  BY <1>1, ConfinementHolds, PTL

-----------------------------------------------------------------------------
(* The configuration that is served.                                        *)

(* The filter allows the calls of the enabled commands and no other.        *)
LEMMA RulesAreCalls ==
  ASSUME NEW a
  PROVE  Rules(a) = UNION {Calls(command) : command \in {k \in Commands : IsEnabled(a, k)}}
<1> DEFINE On == {k \in Commands : IsEnabled(a, k)}
           R == UNION {Calls(command) : command \in On}
<1>1. Always \subseteq On
  <2>1. \A k \in Always : k \in Commands /\ IsEnabled(a, k)
    BY Zenon DEF Always, Commands, IsEnabled
  <2> QED BY <2>1
<1>2. /\ "fstrim" \in On <=> a.trim
      /\ "shutdown" \in On <=> a.reboot
      /\ "suspend" \in On <=> a.suspend
      /\ \A k \in {"osinfo", "fsinfo", "interfaces"} : k \in On <=> a.information
  BY DEF Commands, IsEnabled, Always
<1>3. On \subseteq Commands
  OBVIOUS
<1> HIDE DEF On
<1>4. \A x : x \in R <=> \E k \in On : x \in Calls(k)
  OBVIOUS
<1>5. ASSUME NEW x \in R PROVE x \in Rules(a)
  <2>1. PICK k \in On : x \in Calls(k)
    OBVIOUS
  <2>2. CASE k \in Always
    BY <2>1, <2>2 DEF Always, Calls, Rules, Common, IoctlRequests
  <2>3. CASE k = "fstrim"
    BY <1>2, <2>1, <2>3 DEF Calls, Rules, Common, IoctlRequests
  <2>4. CASE k = "shutdown"
    BY <1>2, <2>1, <2>4 DEF Calls, Rules, Power
  <2>5. CASE k = "suspend"
    BY <1>2, <2>1, <2>5 DEF Calls, Rules, Common
  <2>6. CASE k \in {"osinfo", "fsinfo", "interfaces"}
    BY <1>2, <2>1, <2>6 DEF Calls, Rules, Common, Information
  <2> QED BY <1>3, <2>2, <2>3, <2>4, <2>5, <2>6 DEF Commands
<1> HIDE DEF R
<1>6. /\ Calls("freeze") = {"openat", "FIFREEZE"} /\ Calls("thaw") = {"openat", "FITHAW"}
      /\ Calls("mark") = {"openat", "write", "fsync"} /\ Calls("unmark") = {"unlinkat", "fsync"}
      /\ Calls("stop") = {"rt_sigreturn", "sendto", "recvfrom", "exit_group"}
      /\ Calls("spawn") = {"clone3", "PR_SET_NAME"}
  BY DEF Calls
<1>7. /\ Calls("fstrim") = {"openat", "FITRIM"} /\ Calls("shutdown") = {"sync", "reboot"}
      /\ Calls("osinfo") = {"openat", "uname"} /\ Calls("fsinfo") = {"openat", "statfs", "fstatfs"}
      /\ Calls("interfaces") = {"socket", "bind", "getsockname", "sendmsg", "recvmsg", "setsockopt"}
  BY DEF Calls
<1>8. /\ Calls("freeze") \subseteq R /\ Calls("thaw") \subseteq R /\ Calls("mark") \subseteq R
      /\ Calls("unmark") \subseteq R /\ Calls("stop") \subseteq R /\ Calls("spawn") \subseteq R
  <2>1. {"freeze", "thaw", "mark", "unmark", "stop", "spawn"} \subseteq On
    BY <1>1 DEF Always
  <2> QED BY <1>4, <2>1
<1>9. Common \cup {"PR_SET_NAME", "FIFREEZE", "FITHAW"} \subseteq R
  BY <1>6, <1>8 DEF Common
<1>10. a.trim => "FITRIM" \in R
  BY <1>2, <1>4, <1>7
<1>11. a.reboot => Power \subseteq R
  BY <1>2, <1>4, <1>7 DEF Power
<1>12. a.information => Information \cup {"socket"} \subseteq R
  <2> SUFFICES ASSUME a.information PROVE Information \cup {"socket"} \subseteq R
    OBVIOUS
  <2>1. "osinfo" \in On /\ "fsinfo" \in On /\ "interfaces" \in On
    BY <1>2
  <2>2. Calls("osinfo") \subseteq R /\ Calls("fsinfo") \subseteq R /\ Calls("interfaces") \subseteq R
    BY <1>4, <2>1
  <2> QED BY <1>7, <2>2 DEF Information
<1>13. ASSUME NEW x \in Rules(a) PROVE x \in R
  <2>1. \/ x \in Common \cup {"PR_SET_NAME"}
        \/ x \in {r \in IoctlRequests : a.trim \/ r # "FITRIM"}
        \/ a.information /\ x \in Information \cup {"socket"}
        \/ a.reboot /\ x \in Power
    BY <1>13, Zenon DEF Rules
  <2>2. CASE x \in {r \in IoctlRequests : a.trim \/ r # "FITRIM"}
    BY <1>9, <1>10, <2>2 DEF IoctlRequests
  <2> QED BY <1>9, <1>11, <1>12, <2>1, <2>2
<1>14. Rules(a) = R
  BY Zenon, <1>5, <1>13
<1> QED BY <1>14 DEF R, On

(* The deadlines of a configuration that was accepted end, in order.        *)
LEMMA AcceptedDeadlines ==
  ASSUME NEW c, Typed(c), Valid(c)
  PROVE  /\ 0 < c.idle /\ c.idle <= c.max
         /\ 0 < OperationTimeout(c) /\ OperationTimeout(c) <= c.max
<1>1. PICK idle \in Nat, max \in Nat : idle = c.idle /\ max = c.max
  BY Zenon DEF Typed
<1>2. idle > 0 /\ idle <= max
  BY <1>1 DEF Valid
<1>3. CASE c.op = {}
  <2>1. OperationTimeout(c) = IF 60 < max THEN 60 ELSE max
    BY Zenon, <1>1, <1>3 DEF OperationTimeout, DefaultOperationTimeout, Lesser
  <2> QED BY <1>1, <1>2, <2>1
<1>4. CASE c.op # {}
  <2>1. OperationTimeout(c) \in c.op
    BY Zenon, <1>4 DEF OperationTimeout
  <2>2. PICK secs \in Nat : secs = OperationTimeout(c) /\ secs \in c.op
    BY Zenon, <2>1 DEF Typed
  <2>3. secs # 0 /\ secs <= max
    BY <1>1, <2>2 DEF Valid
  <2> QED BY <1>1, <1>2, <2>2, <2>3
<1> QED BY <1>3, <1>4

(* The longest deadline the validation accepts.                             *)
LEMMA DayIsLong == OneDay \in Nat /\ 61 < OneDay
BY SMT DEF OneDay

(* A file with nothing but a cap on a freeze, of at least the default idle  *)
(* time and at most a day, is accepted.                                     *)
LEMMA CapAloneIsValid ==
  ASSUME NEW secs \in 30..OneDay PROVE Valid(Parsed([max |-> secs]))
<1> DEFINE file == [max |-> secs]
           c == Parsed(file)
<1>0. DOMAIN file = {"max"} /\ file["max"] = secs
  BY Zenon
<1> HIDE DEF file
<1>1. /\ c.version = 1 /\ c.channel = TRUE /\ c.absolute = TRUE /\ c.idle = 30 /\ c.max = secs
      /\ c.op = {} /\ c.enforced = TRUE /\ c.seccomp = TRUE
      /\ c.quotas = RateDefaults.quotas
  <2>1. DOMAIN AgentDefaults = {"version", "channel", "absolute", "idle", "max", "op", "enforced"}
    BY Zenon DEF AgentDefaults
  <2>2. DOMAIN FeatureDefaults = {"suspend", "trim", "seccomp", "reboot", "information"}
    BY Zenon DEF FeatureDefaults
  <2>3. DOMAIN RateDefaults = {"quotas"}
    BY Zenon DEF RateDefaults
  <2>4. \A k \in DOMAIN AgentDefaults \ {"max"} : c[k] = AgentDefaults[k]
    BY Zenon, <1>0 DEF Parsed, Defaults, Over
  <2>5. c["seccomp"] = FeatureDefaults["seccomp"]
    BY Zenon, <1>0, <2>1, <2>2, <2>3 DEF Parsed, Defaults, Over
  <2>6. c["quotas"] = RateDefaults["quotas"]
    BY <1>0, <2>1, <2>3 DEF Parsed, Defaults, Over
  <2>7. c["max"] = secs
    BY <1>0 DEF Parsed, Over
  <2> HIDE DEF c
  <2>8. \A k \in {"version", "channel", "absolute", "idle", "op", "enforced"} : c[k] = AgentDefaults[k]
    BY Zenon, <2>1, <2>4
  <2>9. /\ AgentDefaults["version"] = 1 /\ AgentDefaults["channel"] = TRUE
        /\ AgentDefaults["absolute"] = TRUE /\ AgentDefaults["idle"] = 30
        /\ AgentDefaults["op"] = {} /\ AgentDefaults["enforced"] = TRUE
    BY Zenon DEF AgentDefaults, ConfigVersion
  <2>10. FeatureDefaults["seccomp"] = TRUE
    BY Zenon DEF FeatureDefaults
  <2>11. c.version = 1 /\ c.channel = TRUE /\ c.absolute = TRUE /\ c.idle = 30
    BY <2>8, <2>9
  <2>12. c.op = {} /\ c.enforced = TRUE
    BY Zenon, <2>8, <2>9
  <2> QED BY Zenon, <2>5, <2>6, <2>7, <2>10, <2>11, <2>12
<1>2. \A class \in DOMAIN RateDefaults.quotas : RateDefaults.quotas[class] # 0
  BY DEF RateDefaults
<1> HIDE DEF c
<1>3. c.idle > 0 /\ c.idle <= c.max /\ c.max <= OneDay /\ c.idle <= OneDay
  <2>1. 30 > 0 /\ 30 <= secs /\ secs <= OneDay /\ 30 <= OneDay
    BY DayIsLong, SMT
  <2> QED BY <1>1, <2>1
<1>4. Valid(c)
  BY <1>1, <1>2, <1>3 DEF Valid, ConfigVersion
<1> QED BY Zenon, <1>4 DEF c, file

(* Service!ConfigurationHonoured for every set of profiles: the filter, the *)
(* capabilities and the gate of the commands agree in a serving process     *)
(* (seccomp rules, final_capability_set, runtime_feature_gate), a process   *)
(* past its configuration has deadlines that end in order, and a file of    *)
(* an older release keeps starting (Config::validate).                      *)
THEOREM ConfigurationIsHonoured == ServiceSpec => []ConfigurationHonoured
<1>1. ServiceInv /\ Confinement => ConfigurationHonoured
  <2> SUFFICES ASSUME ServiceInv, Confinement PROVE ConfigurationHonoured
    OBVIOUS
  <2>1. profile \in Profiles
    BY DEF ServiceInv, Shape, ProcessTypes
  <2>2. ASSUME pc = "serve"
        PROVE  profile.root => ("SYS_BOOT" \in cred.effective <=> IsEnabled(A, "shutdown"))
    <3>1. profile.root => cred.effective = F
      BY <2>2 DEF Confinement, Behind, Dropped, Confined
    <3>2. "SYS_BOOT" \in F <=> A.reboot
      BY DEF F, Finals, FinalCaps
    <3>3. IsEnabled(A, "shutdown") <=> A.reboot
      BY Zenon DEF IsEnabled, Always
    <3> QED BY Zenon, <3>1, <3>2, <3>3
  <2>3. GrantsMatch
    BY Zenon, <2>2, RulesAreCalls DEF GrantsMatch
  <2>4. DeadlinesBounded
    <3> SUFFICES ASSUME pc \notin {"load", "exited"}
                 PROVE  /\ 0 < C.idle /\ C.idle <= C.max
                        /\ 0 < OperationTimeout(C) /\ OperationTimeout(C) <= C.max
      BY DEF DeadlinesBounded
    <3>1. Parses(profile.file) /\ Valid(C)
      BY Zenon DEF Confinement, Accepted
    <3>2. Typed(C)
      BY <2>1, <3>1, ProfileAssumption DEF C
    <3> QED BY <3>1, <3>2, AcceptedDeadlines
  <2>5. OlderFilesStart
    <3>1. {30, 59, 60, 61, OneDay} \subseteq 30..OneDay
      BY DayIsLong, SMT
    <3> QED BY Zenon, <3>1, CapAloneIsValid DEF OlderFilesStart
  <2> QED BY <2>3, <2>4, <2>5 DEF ConfigurationHonoured
<1> QED
  BY <1>1, ServiceInvHolds, ConfinementHolds, PTL

=============================================================================
