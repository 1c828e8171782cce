CONSTANTS
    Class = {"Get", "FsfreezeFreeze"}
    Quota <- MCQuota
    Minute = 4
    MaxTime = 5
    Methods = {"guest-fsfreeze-status", "guest-fsfreeze-freeze", "guest-fsfreeze-thaw", "guest-get-fsinfo", "guest-get-osinfo", "guest-network-get-interfaces", "guest-fstrim", "guest-suspend-ram", "guest-shutdown", "malformed"}
    Enabled = {"shutdown", "information", "suspend_ram", "fstrim"}
    MAX_FSINFO_WALKS = 2
    FSINFO_TIMEOUT = 1
    Idle = 2
    Max = 3
SPECIFICATION Spec
INVARIANTS GatesSound WalksBounded RateBound InformationExact
PROPERTY WatchdogTimed
CHECK_DEADLOCK FALSE
