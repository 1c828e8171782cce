CONSTANTS
    Target = {t1}
    Op = {o1}
    Watch = {w1, w2}
    Host = Host
    Coord = Coord
    NoOp = NoOp
    NoWatch = NoWatch
    NoTarget = NoTarget
    MaxCrashes = 0
    MaxLost = 0
SPECIFICATION StuckSpec
PROPERTY RequestsAnswered
