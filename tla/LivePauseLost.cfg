\* The worker writes the control row without a look at it.
CONSTANTS
    MaxIntents = 1
    MaxOpens = 1
    Lot = 1
    SpotGrid = 1
    PerpGrid = 1
    Sequential = FALSE
    Faults <- Nothing
    Controls <- PauseOnly
SPECIFICATION Spec
PROPERTIES
    PauseHeld
