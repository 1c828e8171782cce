CONSTANTS
    Path <- MCPath
    Requests <- MCRequests
    Dev = {d1, d2, d3}
    EligibleDev = {d1, d2}
    PlainDev = {d2}
    RootDev = d1
    Everything = everything
    NoDev = none
    MaxMounts = 2
    MaxMoves = 1
SPECIFICATION Spec
INVARIANTS SelectionExact TableExact
PROPERTIES NestedFirst OpensAsPlanned
