\* A crash after the commit of a group, then the next group.
CONSTANTS
    MaxIntents = 2
    MaxOpens = 2
    Lot = 1
    SpotGrid = 1
    PerpGrid = 1
    Sequential = FALSE
    Faults <- CrashOnly
    Controls <- Nothing
SPECIFICATION Spec
PROPERTIES
    OneGroupAtATime
