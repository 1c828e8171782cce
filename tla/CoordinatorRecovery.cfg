CONSTANTS
    Target = {t1, t2}
    Op = {o1}
    Watch = {w1, w2}
    Host = Host
    Coord = Coord
    NoOp = NoOp
    NoWatch = NoWatch
    NoTarget = NoTarget
    MaxCrashes = 1
    MaxLost = 1
SPECIFICATION AbandonedSpec
INVARIANTS CrashSafe ThawedIsThawed TrackedScopeComplete
PROPERTIES LifecycleSpec AbortsComplete FrozenEnds
