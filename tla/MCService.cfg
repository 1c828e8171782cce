SPECIFICATION ServiceSpec
CONSTANTS
    Target = {t}
    Profiles <- MCProfiles
    InitialBackoff = 2
    MaxBackoff = 3
    MaxStarts = 2
    MaxFreezes = 2
    MaxSessions = 2
INVARIANTS DropSound ConfigurationHonoured NothingLeftFrozen
PROPERTIES StopHonoured AbandonedFreezeEnds Reconnects
CHECK_DEADLOCK FALSE
