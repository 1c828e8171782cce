----------------------------- MODULE Privileges -----------------------------
(***************************************************************************)
(* The privilege drop of kernel/caps.rs: the steps in their order, and the *)
(* kernel's rules for each, which are external.                            *)
(***************************************************************************)
EXTENDS Sequences, FiniteSets

FinalCaps == {"SYS_ADMIN", "SYS_BOOT", "DAC_READ_SEARCH"}

AllCaps == FinalCaps \cup {"SETUID", "SETGID", "SETPCAP", "OTHER"}

(* CAP_SYS_BOOT only when the configuration enables the shutdown.          *)
Finals(reboot) == IF reboot THEN FinalCaps ELSE FinalCaps \ {"SYS_BOOT"}

(* A thread of root, with what a service manager may have left inheritable *)
(* and ambient; and one of anybody else.                                   *)
RootThread(inherited) ==
    [user |-> "root", group |-> "root", groups |-> "root",
     permitted |-> AllCaps, effective |-> AllCaps, bounding |-> AllCaps,
     inheritable |-> inherited, ambient |-> inherited,
     keepcaps |-> FALSE, noNewPrivs |-> FALSE]

PlainThread ==
    [RootThread({}) EXCEPT !.user = "other", !.group = "other", !.groups = "other",
                           !.permitted = {}, !.effective = {}]

(* Mutant: the permitted set is trimmed ahead of the effective one.        *)
DropStepsPermittedFirst ==
    <<"keepcaps", "setgroups", "setresgid", "setresuid", "raise_permitted",
      "raise_effective", "trim_bounding", "set_permitted", "set_effective",
      "clear_inheritable", "clear_ambient", "keepcaps_off", "no_new_privs">>

DropSteps ==
    <<"keepcaps", "setgroups", "setresgid", "setresuid", "raise_permitted",
      "raise_effective", "trim_bounding", "set_effective", "set_permitted",
      "clear_inheritable", "clear_ambient", "keepcaps_off", "no_new_privs">>

(* Nothing is done, and the caller is told so, unless started as root.     *)
DropPlan(root) == IF root THEN DropSteps ELSE <<>>

-----------------------------------------------------------------------------
(* What the kernel demands of the calling thread.                          *)

Permits(c, step, finals) ==
    LET raised == finals \cup {"SETPCAP"} IN
    CASE step \in {"setgroups", "setresgid"} -> "SETGID" \in c.effective
      [] step = "setresuid" -> "SETUID" \in c.effective
      [] step = "raise_permitted" -> raised \subseteq c.permitted /\ c.effective \subseteq raised
      [] step = "raise_effective" -> raised \subseteq c.permitted
      [] step = "trim_bounding" -> "SETPCAP" \in c.effective
      [] step = "set_effective" -> finals \subseteq c.permitted
      [] step = "set_permitted" -> finals \subseteq c.permitted /\ c.effective \subseteq finals
      [] OTHER -> TRUE

(* Leaving uid 0 clears the effective and the ambient set, and, unless     *)
(* they are kept, the permitted one.                                       *)
LeaveRoot(c) ==
    [c EXCEPT !.user = "service", !.effective = {}, !.ambient = {},
              !.permitted = IF c.keepcaps THEN @ ELSE {}]

Performed(c, step, finals) ==
    CASE step = "keepcaps" -> [c EXCEPT !.keepcaps = TRUE]
      [] step = "setgroups" -> [c EXCEPT !.groups = "service"]
      [] step = "setresgid" -> [c EXCEPT !.group = "service"]
      [] step = "setresuid" -> LeaveRoot(c)
      [] step = "raise_permitted" -> [c EXCEPT !.permitted = finals \cup {"SETPCAP"}]
      [] step = "raise_effective" -> [c EXCEPT !.effective = finals \cup {"SETPCAP"}]
      [] step = "trim_bounding" -> [c EXCEPT !.bounding = @ \cap finals]
      [] step = "set_effective" -> [c EXCEPT !.effective = finals]
      [] step = "set_permitted" -> [c EXCEPT !.permitted = finals]
      [] step = "clear_inheritable" -> [c EXCEPT !.inheritable = {}]
      [] step = "clear_ambient" -> [c EXCEPT !.ambient = {}]
      [] step = "keepcaps_off" -> [c EXCEPT !.keepcaps = FALSE]
      [] step = "no_new_privs" -> [c EXCEPT !.noNewPrivs = TRUE]

(* The service account with the final set and no way to any other.         *)
Confined(c, finals) ==
    /\ <<c.user, c.group, c.groups>> = <<"service", "service", "service">>
    /\ c.permitted = finals /\ c.effective = finals /\ c.bounding \subseteq finals
    /\ c.inheritable = {} /\ c.ambient = {}
    /\ ~c.keepcaps /\ c.noNewPrivs

=============================================================================
