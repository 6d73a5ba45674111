\* Two transfers at a recoverable and an unrecoverable exchange, limits that
\* change under them, two requests at once, pauses, resumes, and a crash or midnight.
CONSTANTS
    MaxTransfers = 2
    Venues <- TwoVenues
    Amounts <- OneAmount
    LimitChoices <- TwoLimits
    MaxEvents = 1
    Controls <- PauseAndResume
SPECIFICATION SnapshotSpec
INVARIANTS
    TypeOK
    TransferredOnce
    OneInFlight
    FailedNeverMoves
    CompletedMoved
PROPERTIES
    LimitRespected
    TransfersResolve
