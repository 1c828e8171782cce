--------------------------- MODULE Configuration ---------------------------
(***************************************************************************)
(* What config.rs accepts, and what an accepted configuration grants: the  *)
(* effective deadline of a freeze, the commands that are enabled, and the  *)
(* system calls that seccomp.rs allows. A configuration has a value for    *)
(* every key; a file holds some of them. op is {} where the key is omitted.*)
(***************************************************************************)
EXTENDS Naturals, FiniteSets

ConfigVersion == 1
DefaultOperationTimeout == 60
OneDay == 86400

(* channel: the path is not empty; absolute: the state path is.            *)
AgentDefaults == [version |-> ConfigVersion, channel |-> TRUE, absolute |-> TRUE,
                  idle |-> 30, max |-> 300, op |-> {}, enforced |-> TRUE]

RateDefaults == [quotas |-> [ping |-> 120, get |-> 30, freeze |-> 10,
                             fstrim |-> 5, shutdown |-> 2]]

FeatureDefaults == [suspend |-> FALSE, trim |-> TRUE, seccomp |-> TRUE,
                    reboot |-> TRUE, information |-> TRUE]

(* The keys of f, and those of g that f does not have.                     *)
Over(f, g) == [k \in DOMAIN f \cup DOMAIN g |-> IF k \in DOMAIN f THEN f[k] ELSE g[k]]

Defaults == Over(AgentDefaults, Over(RateDefaults, FeatureDefaults))

(* A file of the schema: any other key is refused.                         *)
Parses(file) == DOMAIN file \subseteq DOMAIN Defaults

Parsed(file) == Over(file, Defaults)

(* The types of the keys that the service reads.                           *)
Typed(c) ==
    /\ c.idle \in Nat /\ c.max \in Nat /\ c.op \subseteq Nat
    /\ {c.enforced, c.seccomp, c.reboot, c.information, c.trim, c.suspend} \subseteq BOOLEAN

Lesser(a, b) == IF a < b THEN a ELSE b

(* Mutant: the default is not derived under the cap.                       *)
OperationTimeoutUncapped(c) ==
    IF c.op = {} THEN DefaultOperationTimeout ELSE CHOOSE secs \in c.op : TRUE

OperationTimeout(c) ==
    IF c.op = {} THEN Lesser(DefaultOperationTimeout, c.max)
    ELSE CHOOSE secs \in c.op : TRUE

Valid(c) ==
    /\ c.version = ConfigVersion /\ c.channel /\ c.absolute
    /\ c.enforced => c.seccomp
    /\ c.idle > 0 /\ 0 \notin c.op
    /\ \A secs \in {c.idle, c.max} \cup c.op : secs <= OneDay
    /\ c.idle <= c.max
    /\ \A secs \in c.op : secs <= c.max
    /\ \A class \in DOMAIN c.quotas : c.quotas[class] # 0

-----------------------------------------------------------------------------
(* The authority: what the drop keeps and the filter allows.               *)

DataProtection == [reboot |-> FALSE, information |-> FALSE, trim |-> FALSE, suspend |-> FALSE]

(* suspending is compiled in only with its feature of the build.           *)
Authority(c, build) ==
    [reboot |-> c.reboot, information |-> c.information, trim |-> c.trim,
     suspend |-> c.suspend /\ build.suspend]

(* The commands that make system calls of their own, what the process does *)
(* whatever it is asked, and the calls that kernel/ makes for each.        *)

Always == {"freeze", "thaw", "mark", "unmark", "stop", "spawn"}

Commands == Always \cup {"fstrim", "shutdown", "suspend", "osinfo", "fsinfo", "interfaces"}

IsEnabled(a, command) ==
    CASE command \in Always -> TRUE
      [] command = "fstrim" -> a.trim
      [] command = "shutdown" -> a.reboot
      [] command = "suspend" -> a.suspend
      [] command \in {"osinfo", "fsinfo", "interfaces"} -> a.information

Calls(command) ==
    CASE command = "freeze" -> {"openat", "FIFREEZE"}
      [] command = "thaw" -> {"openat", "FITHAW"}
      [] command = "mark" -> {"openat", "write", "fsync"}
      [] command = "unmark" -> {"unlinkat", "fsync"}
      [] command = "stop" -> {"rt_sigreturn", "sendto", "recvfrom", "exit_group"}
      [] command = "spawn" -> {"clone3", "PR_SET_NAME"}
      [] command = "fstrim" -> {"openat", "FITRIM"}
      [] command = "shutdown" -> {"sync", "reboot"}
      [] command = "suspend" -> {"openat", "write"}
      [] command = "osinfo" -> {"openat", "uname"}
      [] command = "fsinfo" -> {"openat", "statfs", "fstatfs"}
      [] command = "interfaces" -> {"socket", "bind", "getsockname", "sendmsg", "recvmsg", "setsockopt"}

(* Of the calls every profile allows, those named above.                   *)
Common == {"openat", "write", "fsync", "unlinkat", "clone3", "rt_sigreturn",
           "sendto", "recvfrom", "exit_group"}
Information == {"uname", "statfs", "fstatfs", "bind", "getsockname", "sendmsg",
                "recvmsg", "setsockopt"}
Power == {"sync", "reboot"}
IoctlRequests == {"FIFREEZE", "FITHAW", "FITRIM"}

(* Mutant: FITRIM is allowed whatever the configuration says.              *)
RulesTrimAlways(a) ==
    Common \cup {"PR_SET_NAME"} \cup IoctlRequests
    \cup (IF a.information THEN Information \cup {"socket"} ELSE {})
    \cup (IF a.reboot THEN Power ELSE {})

(* ioctl, prctl and socket are allowed by an argument, which stands here   *)
(* for the call; AF_NETLINK is the only family of a socket.                *)
Rules(a) ==
    Common \cup {"PR_SET_NAME"} \cup {r \in IoctlRequests : a.trim \/ r # "FITRIM"}
    \cup (IF a.information THEN Information \cup {"socket"} ELSE {})
    \cup (IF a.reboot THEN Power ELSE {})

(* The filter's mode: a logging build must be a debug build.               *)
Mode(build) == IF build.seccompLog /\ build.debug THEN "log" ELSE "enforce"

=============================================================================
