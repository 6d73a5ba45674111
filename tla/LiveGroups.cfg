\* Two opens with the Gate sandbox order of legs, or one and its close: every
\* control action and every fault but a crash.
CONSTANTS
    MaxIntents = 2
    MaxOpens = 2
    Lot = 1
    SpotGrid = 1
    PerpGrid = 1
    Sequential = TRUE
    Faults <- GentleFaults
    Controls <- EveryControl
SPECIFICATION Spec
INVARIANTS
    TypeOK
    SpotFollowsPerp
PROPERTIES
    OneGroupAtATime
