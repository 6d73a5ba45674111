\* One open and one close of two contracts: partial fills, compensation, and
\* every fault of the worker, its crashes included; resume.
CONSTANTS
    MaxIntents = 2
    MaxOpens = 1
    Lot = 4
    SpotGrid = 1
    PerpGrid = 2
    Sequential = FALSE
    Faults <- WorkerFaults
    Controls <- ResumeOnly
SPECIFICATION Spec
INVARIANTS
    SubmittedOnce
    JournaledFirst
    ReservationConsistent
    HedgeMatchesExchange
    FailedLeavesNoExposure
    QuietWhenSettled
PROPERTIES
    PauseHeld
