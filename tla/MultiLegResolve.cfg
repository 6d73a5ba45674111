\* Liveness: a paper task and a live one, a maker anchor and a hedge that waits
\* for it, known and unknown words, a call that raises and one crash, under a
\* resumed control row.
CONSTANTS
    MaxTasks = 2
    PaperTasks <- FirstIsPaper
    LegCount = 2
    Anchor = 1
    Target <- TwoAndTwo
    PerOrder <- AnchorByTwo
    Increment <- FinestGrid
    MakerLegs <- AnchorMakes
    HedgeFrom = 2
    Fallback = TRUE
    MaxChases = 0
    MaxRetries = 0
    Window = 10
    Words <- NeverShort
    MaxShort = 0
    MaxCrashes = 1
    Faults <- Raising
    Controls <- OnlyResumed
SPECIFICATION FairSpec
PROPERTY TasksResolve
CHECK_DEADLOCK FALSE
