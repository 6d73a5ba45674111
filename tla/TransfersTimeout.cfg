\* One transfer at Gate, whose answer leads straight to the balance check, with
\* snapshots that may fail again and again.
CONSTANTS
    MaxTransfers = 1
    Venues <- NoQuery
    Amounts <- OneAmount
    LimitChoices <- OneLimit
    MaxEvents = 0
    Controls <- Nothing
SPECIFICATION FairSpec
PROPERTIES
    TransfersResolve
