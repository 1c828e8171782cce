------------------------------ MODULE Service ------------------------------
(***************************************************************************)
(* A run of the daemon from its start to its exit, and its restarts:       *)
(* daemon.rs (the startup sequence, the stop and the exit) and the channel *)
(* loop of channel.rs (open, retry, reopen), around the freeze core. The   *)
(* core is taken at the level of FreezeLifecycle, which FreezeCoordinator  *)
(* implements, and a session is one command at a time: Session has the     *)
(* detail.                                                                 *)
(***************************************************************************)
EXTENDS Privileges, Configuration, Integers, FreezeLifecycle

CONSTANTS
    Profiles,    \* configurations, builds and users the daemon is started with
    InitialBackoff, MaxBackoff,
    MaxStarts,   \* bound: how often the process is started
    MaxFreezes,  \* bound: how often a host asks for a freeze
    MaxSessions  \* bound: how many sessions the channel ends

ASSUME ServiceAssumption ==
    /\ {InitialBackoff, MaxBackoff} \subseteq Nat
    /\ 0 < InitialBackoff /\ InitialBackoff <= MaxBackoff
    /\ {MaxStarts, MaxFreezes, MaxSessions} \subseteq Nat

\* A file that parses has values of the types of its keys.
ASSUME ProfileAssumption ==
    \A p \in Profiles : /\ p.root \in BOOLEAN /\ p.inherited \subseteq AllCaps
                        /\ Parses(p.file) => Typed(Parsed(p.file))

VARIABLES
    pc,        \* the step of run_with
    profile,
    cred,      \* of the main thread, which every later thread inherits
    todo,      \* what is left of the privilege drop
    writer,    \* credentials of the audit writer's thread, or {}
    filtered,  \* threads under the seccomp filter
    recovery,  \* the marker was there when it was opened
    initial,   \* the descriptor opened before the drop is still unused
    exit,      \* why the last run ended
    armed,     \* a watchdog is armed
    cmd,       \* the command the session has in hand
    loop,      \* the point of serve_inner
    delay,     \* reopen_delay
    cancel,    \* the watch channel: its value, and whether a change is unseen
    stopper,   \* the stopper of serve_until_signal
    device,    \* the channel device
    bounds     \* starts, freezes and sessions so far

core == <<state, owned, marker>>
serving == <<armed, cmd, loop, delay, cancel, stopper>>
startup == <<pc, profile, cred, todo, writer, filtered, recovery, initial, exit>>
all == <<core, serving, startup, device, bounds>>

C == Parsed(profile.file)
B == profile.build
A == Authority(C, B)
F == Finals(A.reboot)

-----------------------------------------------------------------------------
(* The process.                                                            *)

NotServing == [armed |-> FALSE, cmd |-> "none", loop |-> "none", delay |-> 0,
               cancel |-> [value |-> FALSE, unseen |-> FALSE], stopper |-> "idle"]

Stopped(r) ==
    /\ armed' = r.armed /\ cmd' = r.cmd /\ loop' = r.loop
    /\ delay' = r.delay /\ cancel' = r.cancel /\ stopper' = r.stopper

Fresh(p) == IF p.root THEN RootThread(p.inherited) ELSE PlainThread

ServiceInit ==
    /\ Init
    /\ \E p \in Profiles : profile = p /\ cred = Fresh(p)
    /\ pc = "load" /\ todo = <<>> /\ writer = {} /\ filtered = {}
    /\ recovery = FALSE /\ initial = FALSE /\ exit = "none"
    /\ armed = NotServing.armed /\ cmd = NotServing.cmd /\ loop = NotServing.loop
    /\ delay = NotServing.delay /\ cancel = NotServing.cancel
    /\ stopper = NotServing.stopper
    /\ device \in {"missing", "free", "busy"}
    /\ bounds = [starts |-> 1, freezes |-> 0, sessions |-> 0]

(* The service manager starts it again.                                    *)
Restart ==
    /\ pc = "exited" /\ bounds.starts < MaxStarts
    /\ bounds' = [bounds EXCEPT !.starts = @ + 1]
    /\ \E p \in Profiles : profile' = p /\ cred' = Fresh(p)
    /\ pc' = "load" /\ todo' = <<>> /\ writer' = {} /\ filtered' = {}
    /\ recovery' = FALSE /\ initial' = FALSE /\ exit' = "none"
    /\ UNCHANGED <<core, serving, device>>

(* Killed at any point; a FIFREEZE in the kernel may still complete.       *)
Killed ==
    /\ pc # "exited" /\ bounds.starts < MaxStarts
    /\ pc' = "exited" /\ exit' = "killed"
    /\ IF state = "Freezing" /\ marker
         THEN \E late \in SUBSET Target : owned' = owned \cup late
         ELSE owned' = owned
    /\ state' = "Thawed"
    /\ Stopped(NotServing)
    /\ UNCHANGED <<marker, profile, cred, todo, writer, filtered, recovery, initial,
                   device, bounds>>

Become(next) ==
    /\ pc' = next
    /\ UNCHANGED <<core, serving, profile, exit, device, bounds>>

(* A refusal: before logging is up the process is gone at once.            *)
Refuse ==
    /\ pc' = IF pc \in {"load", "marker", "logging"} THEN "exited" ELSE "leave"
    /\ exit' = "refused"
    /\ UNCHANGED <<core, serving, profile, cred, todo, writer, filtered, recovery,
                   initial, device, bounds>>

(* The configuration is loaded and the build checked against it.           *)
SeccompMode == IF B.compiled THEN Mode(B) ELSE "unavailable"

CheckHardening ==
    C.enforced => /\ C.seccomp /\ B.compiled
                        /\ SeccompMode = "enforce" /\ ~B.fake

Load ==
    /\ pc = "load"
    /\ \/ Parses(profile.file) /\ Valid(C) /\ CheckHardening /\ Become("marker")
          /\ UNCHANGED <<cred, todo, writer, filtered, recovery, initial>>
       \/ Refuse

OpenMarker ==
    /\ pc = "marker"
    /\ \/ /\ recovery' = marker /\ Become("logging")
          /\ UNCHANGED <<cred, todo, writer, filtered, initial>>
       \/ Refuse

InitLogging ==
    /\ pc = "logging"
    /\ \/ Become("mounts") /\ UNCHANGED <<cred, todo, writer, filtered, recovery, initial>>
       \/ Refuse

(* The mount table cannot be read, or the marker is on a planned device.   *)
CheckStatePath ==
    /\ pc = "mounts"
    /\ \/ Become("channel") /\ UNCHANGED <<cred, todo, writer, filtered, recovery, initial>>
       \/ Refuse

(* One attempt: a busy device is terminal, any other failure is not.       *)
OpenChannel ==
    /\ pc = "channel"
    /\ IF device = "busy" THEN Refuse
       ELSE /\ Become("drop") /\ initial' = (device = "free")
            /\ todo' = DropPlan(profile.root)
            /\ UNCHANGED <<cred, writer, filtered, recovery>>

(* A step of the drop is refused by the kernel's rules or for some reason  *)
(* outside of the model.                                                   *)
DropPrivileges ==
    /\ pc = "drop"
    /\ \/ /\ todo # <<>> /\ Permits(cred, Head(todo), F)
          /\ cred' = Performed(cred, Head(todo), F) /\ todo' = Tail(todo)
          /\ Become("drop") /\ UNCHANGED <<writer, filtered, recovery, initial>>
       \/ todo # <<>> /\ Refuse
       \/ todo = <<>> /\ C.enforced /\ ~profile.root /\ Refuse
       \/ /\ todo = <<>> /\ (C.enforced => profile.root)
          /\ Become("writer") /\ UNCHANGED <<cred, todo, writer, filtered, recovery, initial>>

StartAuditWriter ==
    /\ pc = "writer"
    /\ \/ /\ writer' = {cred} /\ Become("seccomp")
          /\ UNCHANGED <<cred, todo, filtered, recovery, initial>>
       \/ Refuse

Threads == IF writer = {} THEN {"main"} ELSE {"main", "writer"}

(* A build without the filter, and a file that turns it off, install none. *)
HasFilter == C.seccomp /\ B.compiled

(* Mutant: a filter that cannot be installed is a warning in any profile.  *)
InstallSeccompLeniently ==
    /\ pc = "seccomp" /\ Become("runtime")
    /\ \/ HasFilter /\ filtered' = Threads
       \/ UNCHANGED filtered
    /\ UNCHANGED <<cred, todo, writer, recovery, initial>>

(* The filter is for every thread there is. It may be absent, or fail to   *)
(* be installed, only in the development profile.                          *)
InstallSeccomp ==
    /\ pc = "seccomp"
    /\ \/ /\ HasFilter /\ filtered' = Threads
          /\ Become("runtime") /\ UNCHANGED <<cred, todo, writer, recovery, initial>>
       \/ /\ ~C.enforced /\ Become("runtime")
          /\ UNCHANGED <<cred, todo, writer, filtered, recovery, initial>>
       \/ C.enforced /\ Refuse

-----------------------------------------------------------------------------
(* Serving: the context, the recovery's watchdog, and then the loop.       *)

NewLoop == /\ loop' = "top" /\ delay' = 0 /\ cmd' = "none" /\ stopper' = "idle"
           /\ cancel' = NotServing.cancel

(* Mutants: the state is not taken from the marker; the watchdog waits for *)
(* a channel.                                                              *)
StartServingThawed ==
    /\ pc = "runtime" /\ pc' = "serve" /\ state' = "Thawed" /\ armed' = FALSE
    /\ NewLoop
    /\ UNCHANGED <<owned, marker, profile, cred, todo, writer, filtered, recovery,
                   initial, exit, device, bounds>>

StartServingUnwatched ==
    /\ pc = "runtime" /\ pc' = "serve"
    /\ state' = (IF recovery THEN "Frozen" ELSE "Thawed") /\ armed' = FALSE
    /\ NewLoop
    /\ UNCHANGED <<owned, marker, profile, cred, todo, writer, filtered, recovery,
                   initial, exit, device, bounds>>

StartServing ==
    /\ pc = "runtime"
    /\ \/ /\ pc' = "serve" /\ state' = (IF recovery THEN "Frozen" ELSE "Thawed")
          /\ armed' = recovery /\ NewLoop
          /\ UNCHANGED <<owned, marker, profile, cred, todo, writer, filtered, recovery,
                         initial, exit, device, bounds>>
       \/ Refuse

(* The freeze core: it settles a request with the watchdog armed for a     *)
(* Frozen, and a thaw that fails is Frozen and watched again.              *)
Core == pc = "serve" /\ UNCHANGED <<startup, cancel, stopper, device>>

MayStop == state = "Thawed"
StopNow == cancel.value /\ MayStop

InSession == loop \in {"session", "select"}

(* A frame read while a stop is due is not admitted (SessionTop). What was *)
(* received starts the pause over.                                         *)
Admits == loop = "select" /\ cmd = "none" /\ ~StopNow /\ delay' = 0

(* A reply, if the session waits for one, takes it through its loop again. *)
Answered ==
    /\ cmd' = "none" /\ UNCHANGED delay
    /\ loop' = IF cmd # "none" /\ loop = "select" THEN "session" ELSE loop

FreezeRequest ==
    /\ Core /\ Admits /\ bounds.freezes < MaxFreezes
    /\ bounds' = [bounds EXCEPT !.freezes = @ + 1]
    /\ cmd' = "freeze" /\ Begin
    /\ UNCHANGED <<armed, loop>>

(* A thaw claims a terminal state and joins a freeze.                      *)
ThawRequest ==
    /\ Core /\ Admits /\ cmd' = "thaw" /\ UNCHANGED <<loop, bounds>>
    /\ \/ state \in {"Thawed", "Frozen"} /\ Claim /\ armed' = FALSE
       \/ state = "Freezing" /\ UNCHANGED <<core, armed>>

(* A freeze that runs out of time is answered while its driver goes on.    *)
FreezeTimesOut ==
    /\ Core /\ cmd = "freeze" /\ Answered /\ UNCHANGED <<core, armed, bounds>>

Walk ==
    /\ Core /\ state = "Freezing"
    /\ Mark \/ \E t \in Target : Freeze(t)
    /\ UNCHANGED <<armed, cmd, loop, delay, bounds>>

Undo ==
    /\ Core /\ Unmark /\ UNCHANGED <<armed, cmd, loop, delay, bounds>>

Thaw(t) ==
    /\ Core /\ t \in owned /\ Drain(t) /\ UNCHANGED <<armed, cmd, loop, delay, bounds>>

SettleFrozen ==
    /\ Core /\ Settle /\ state' = "Frozen" /\ armed' = TRUE /\ Answered
    /\ UNCHANGED bounds

SettleThawed ==
    /\ Core /\ Settle /\ state' = "Thawed" /\ armed' = FALSE /\ Answered
    /\ UNCHANGED bounds

Expire ==
    /\ Core /\ armed /\ state = "Frozen" /\ Claim /\ armed' = FALSE
    /\ UNCHANGED <<cmd, loop, delay, bounds>>

-----------------------------------------------------------------------------
(* The channel loop.                                                       *)

Loop == pc = "serve" /\ UNCHANGED <<core, armed, stopper, pc, profile, cred, todo, writer,
                                    filtered, recovery, exit, device>>

Seen == cancel' = [cancel EXCEPT !.unseen = FALSE]

Top ==
    /\ Loop /\ loop = "top" /\ Seen
    /\ loop' = IF StopNow THEN "done" ELSE IF delay > 0 THEN "pause" ELSE "open"
    /\ UNCHANGED <<cmd, delay, initial, bounds>>

(* Mutant: only a cancellation ends the pause.                             *)
PauseEndsByCancel ==
    /\ Loop /\ loop = "pause"
    /\ cancel.unseen /\ Seen /\ loop' = IF StopNow THEN "done" ELSE "open"
    /\ UNCHANGED <<cmd, delay, initial, bounds>>

PauseEnds ==
    /\ Loop /\ loop = "pause"
    /\ \/ loop' = "open" /\ UNCHANGED cancel
       \/ cancel.unseen /\ Seen /\ loop' = IF StopNow THEN "done" ELSE "open"
    /\ UNCHANGED <<cmd, delay, initial, bounds>>

(* The initial descriptor may fail to be registered.                       *)
UseInitial ==
    /\ Loop /\ loop = "open" /\ initial /\ initial' = FALSE
    /\ loop' \in {"session", "top"}
    /\ UNCHANGED <<cmd, delay, cancel, bounds>>

OpenDevice ==
    /\ Loop /\ loop = "open" /\ ~initial
    /\ loop' = CASE device = "free" -> "session"
                 [] device = "busy" -> "lost"
                 [] device = "missing" -> "retry"
    /\ UNCHANGED <<cmd, delay, cancel, initial, bounds>>

(* The sleep between two attempts, or a change of the cancel channel.      *)
RetryEnds ==
    /\ Loop /\ loop = "retry"
    /\ \/ UNCHANGED cancel
       \/ cancel.unseen /\ Seen
    /\ loop' = IF ~cancel.value THEN "open" ELSE IF MayStop THEN "done" ELSE "held"
    /\ UNCHANGED <<cmd, delay, initial, bounds>>

(* A stop that is not allowed yet: at a bounded cadence.                   *)
HeldEnds ==
    /\ Loop /\ loop = "held" /\ loop' = "top"
    /\ UNCHANGED <<cmd, delay, cancel, initial, bounds>>

Clamp(n) == IF n < InitialBackoff THEN InitialBackoff
            ELSE IF n > MaxBackoff THEN MaxBackoff ELSE n

(* Mutant: the pause is only bounded below.                                *)
SessionEndsUnclamped ==
    /\ Loop /\ loop = "session" /\ cmd = "none" /\ ~StopNow
    /\ bounds.sessions < MaxSessions
    /\ bounds' = [bounds EXCEPT !.sessions = @ + 1]
    /\ loop' = "top" /\ UNCHANGED <<cmd, cancel, initial>>
    /\ \E received \in BOOLEAN :
         delay' = IF received \/ delay = 0 THEN InitialBackoff ELSE delay * 2

(* The port is closed by the host or fails; bytes that made no command     *)
(* count as received too.                                                  *)
SessionEnds ==
    /\ Loop /\ loop = "session" /\ cmd = "none" /\ ~StopNow
    /\ bounds.sessions < MaxSessions
    /\ bounds' = [bounds EXCEPT !.sessions = @ + 1]
    /\ loop' = "top" /\ UNCHANGED <<cmd, cancel, initial>>
    /\ \E received \in BOOLEAN :
         delay' = IF received THEN InitialBackoff ELSE Clamp(delay * 2)

(* The session's own loop: a stop is looked for with no command in hand.   *)
SessionTop ==
    /\ Loop /\ loop = "session"
    /\ IF cmd = "none" THEN Seen /\ loop' = (IF StopNow THEN "done" ELSE "select")
       ELSE loop' = "select" /\ UNCHANGED cancel
    /\ UNCHANGED <<cmd, delay, initial, bounds>>

(* The select wakes up: for a change of the cancel channel, or for the     *)
(* host's bytes or end of input.                                           *)
SelectChanged ==
    /\ Loop /\ loop = "select" /\ cancel.unseen /\ Seen /\ loop' = "session"
    /\ UNCHANGED <<cmd, delay, initial, bounds>>

SelectReads ==
    /\ Loop /\ loop = "select" /\ loop' = "session"
    /\ UNCHANGED <<cmd, delay, cancel, initial, bounds>>

-----------------------------------------------------------------------------
(* The stop and the exit.                                                  *)

Stop == pc = "serve" /\ UNCHANGED <<core, startup, armed, cmd, loop, delay, device, bounds>>

Signal ==
    /\ Stop /\ stopper = "idle" /\ stopper' = "waiting" /\ UNCHANGED cancel

(* wait_until_thawed has read Thawed; a freeze may still slip in.          *)
StopperSeesThawed ==
    /\ Stop /\ stopper = "waiting" /\ loop \notin {"done", "lost"}
    /\ state = "Thawed" /\ stopper' = "sending" /\ UNCHANGED cancel

(* Mutant: the request is made once.                                       *)
StopperSendsOnce ==
    /\ Stop /\ stopper = "sending" /\ stopper' = "waiting"
    /\ loop \notin {"done", "lost"} /\ ~cancel.value
    /\ cancel' = [value |-> TRUE, unseen |-> TRUE]

(* The request is repeated for as long as the loop runs.                   *)
StopperSends ==
    /\ Stop /\ stopper = "sending" /\ stopper' = "waiting"
    /\ loop \notin {"done", "lost"}
    /\ cancel' = [value |-> TRUE, unseen |-> TRUE]

(* Mutant: the exit after a terminal error does not wait.                  *)
FinishAtOnce ==
    /\ pc = "serve" /\ loop \in {"done", "lost"}
    /\ pc' = "leave" /\ exit' = IF loop = "done" THEN "stopped" ELSE "lost"
    /\ state' = "Thawed" /\ Stopped(NotServing)
    /\ UNCHANGED <<owned, marker, profile, cred, todo, writer, filtered, recovery,
                   initial, device, bounds>>

Finish ==
    /\ pc = "serve" /\ loop \in {"done", "lost"} /\ state = "Thawed"
    /\ pc' = "leave" /\ exit' = IF loop = "done" THEN "stopped" ELSE "lost"
    /\ Stopped(NotServing)
    /\ UNCHANGED <<core, profile, cred, todo, writer, filtered, recovery, initial,
                   device, bounds>>

(* What was logged is delivered, by a writer started now if there is none. *)
Leave ==
    /\ pc = "leave" /\ Become("exited")
    /\ writer' = (IF writer = {} THEN {cred} ELSE writer)
    /\ UNCHANGED <<cred, todo, filtered, recovery, initial>>

(* The device appears, disappears, or is opened by another process, which  *)
(* cannot while this one has it open.                                      *)
DeviceChanges ==
    /\ ~InSession /\ ~initial /\ bounds.sessions < MaxSessions
    /\ device' \in {"missing", "free", "busy"} \ {device}
    /\ bounds' = [bounds EXCEPT !.sessions = @ + 1]
    /\ UNCHANGED <<core, startup, serving>>

-----------------------------------------------------------------------------
Start == \/ Load \/ OpenMarker \/ InitLogging \/ CheckStatePath \/ OpenChannel
         \/ DropPrivileges \/ StartAuditWriter \/ InstallSeccomp \/ StartServing

Serve == \/ Top \/ PauseEnds \/ UseInitial \/ OpenDevice \/ RetryEnds \/ HeldEnds
         \/ SessionTop \/ SelectChanged

ServiceNext ==
    \/ Start \/ Serve \/ SelectReads \/ SessionEnds
    \/ FreezeRequest \/ ThawRequest \/ FreezeTimesOut \/ Walk \/ Undo
    \/ SettleFrozen \/ SettleThawed \/ Expire
    \/ \E t \in Target : Thaw(t)
    \/ Signal \/ StopperSeesThawed \/ StopperSends
    \/ Finish \/ Leave \/ DeviceChanges \/ Killed \/ Restart

(* Timers run and tasks are polled. A poll that meets Thawed again and     *)
(* again sees it in the end, and a drain that is tried for ever is not     *)
(* refused for ever.                                                       *)
ServiceSpec ==
    /\ ServiceInit /\ [][ServiceNext]_all
    /\ WF_all(Serve) /\ WF_all(Expire) /\ WF_all(SettleFrozen \/ SettleThawed)
    /\ SF_all(StopperSeesThawed) /\ WF_all(StopperSends) /\ WF_all(Finish)
    /\ SF_all(\E t \in Target : Thaw(t)) /\ SF_all(SettleThawed)

-----------------------------------------------------------------------------
Points == {"none", "top", "pause", "open", "retry", "held", "session", "select",
           "done", "lost"}

(* The types; the pause between sessions stays within its bounds.          *)
TypeOK ==
    /\ state \in {"Thawed", "Freezing", "Frozen", "Thawing"}
    /\ owned \subseteq Target /\ marker \in BOOLEAN
    /\ pc \in {"load", "marker", "logging", "mounts", "channel", "drop", "writer",
               "seccomp", "runtime", "serve", "leave", "exited"}
    /\ profile \in Profiles /\ Cardinality(writer) <= 1
    /\ filtered \subseteq {"main", "writer"} /\ recovery \in BOOLEAN
    /\ initial \in BOOLEAN /\ armed \in BOOLEAN
    /\ exit \in {"none", "refused", "stopped", "lost", "killed"}
    /\ cmd \in {"none", "freeze", "thaw"} /\ loop \in Points
    /\ delay = 0 \/ delay \in InitialBackoff..MaxBackoff
    /\ stopper \in {"idle", "waiting", "sending"}

(* The order of the drop is one the kernel accepts: no step asks for what  *)
(* an earlier step has given up (caps.rs, drop_privileges_to).             *)
DropNeverRefused == pc = "drop" /\ todo # <<>> => Permits(cred, Head(todo), F)

(* Whoever started it as root, the host is served by threads that have     *)
(* been through the whole drop, the audit writer included; and under       *)
(* enforced hardening by filtered ones only (daemon.rs, steps 5 to 6).     *)
ConfinedServing ==
    pc = "serve" =>
        /\ profile.root => \A c \in writer \cup {cred} : Confined(c, F)
        /\ C.enforced => profile.root /\ filtered = {"main", "writer"}

(* The drop succeeds where it can and nothing is served before it has.        *)
DropSound == DropNeverRefused /\ ConfinedServing

(* The three places that read the switches agree: a filtered process may   *)
(* make every call of the commands it answers and of its own recovery and  *)
(* exit, with the capability it takes, and no other (runtime_feature_gate, *)
(* seccomp rules, final_capability_set).                                   *)
GrantsMatch ==
    pc = "serve" /\ filtered # {} =>
        /\ Rules(A) = UNION {Calls(command) : command \in {k \in Commands : IsEnabled(A, k)}}
        /\ profile.root => ("SYS_BOOT" \in cred.effective <=> IsEnabled(A, "shutdown"))

(* A process that got past its configuration has deadlines that end, and   *)
(* no freeze operation outlasts the cap on a freeze (Config::validate).    *)
DeadlinesBounded ==
    pc \notin {"load", "exited"} =>
        /\ 0 < C.idle /\ C.idle <= C.max
        /\ 0 < OperationTimeout(C) /\ OperationTimeout(C) <= C.max

(* A file written before the deadline of an operation had a key of its own *)
(* keeps starting, whatever cap on a freeze it sets                        *)
(* (AgentConfig::fsfreeze_operation_timeout_secs).                         *)
OlderFilesStart ==
    \A secs \in {30, 59, 60, 61, OneDay} : Valid(Parsed([max |-> secs]))

(* What the configuration says is what the running process has.               *)
ConfigurationHonoured == GrantsMatch /\ DeadlinesBounded /\ OlderFilesStart

(* A process that serves as Thawed has nothing frozen, whatever an earlier *)
(* process left behind (run_with reads the marker, production_context      *)
(* takes the state from it).                                               *)
ServedHonestly == pc = "serve" /\ state = "Thawed" => owned = {}

(* Every way out of serving, a stop or a channel lost for good, is taken   *)
(* with nothing frozen (serve_until_signal).                               *)
LeavesThawed == exit \in {"stopped", "lost"} => owned = {}

(* No run of the process claims or leaves Thawed over a frozen filesystem.    *)
NothingLeftFrozen == TypeOK /\ ServedHonestly /\ LeavesThawed

(* A stop request is honoured, although it may meet a freeze at any point. *)
StopHonoured == (pc = "serve" /\ stopper # "idle") ~> pc # "serve"

(* A freeze ends though no host is ever heard again, from a channel that   *)
(* never opens to one that is lost (OQ-7).                                 *)
AbandonedFreezeEnds ==
    (pc = "serve" /\ state = "Frozen") ~> (pc # "serve" \/ state = "Thawed")

(* A device that is there for good is opened in the end.                   *)
Reconnects ==
    [](pc = "serve" /\ [](device = "free") => <>(InSession \/ pc # "serve" \/ loop = "done"))

=============================================================================
