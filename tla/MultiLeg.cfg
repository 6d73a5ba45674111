\* One live task: a maker anchor in chunks, an IOC hedge, one chase, orders
\* worded in every way, every fault and one crash.
CONSTANTS
    MaxTasks = 1
    PaperTasks <- NoPaper
    LegCount = 2
    Anchor = 1
    Target <- ThreeAndThree
    PerOrder <- AnchorByTwo
    Increment <- FinestGrid
    MakerLegs <- AnchorMakes
    HedgeFrom = 0
    Fallback = TRUE
    MaxChases = 1
    MaxRetries = 0
    Window = 10
    Words <- EveryWord
    MaxShort = 1
    MaxCrashes = 1
    Faults <- EveryFault
    Controls <- AnyControl
SPECIFICATION Spec
INVARIANTS
    TypeOK
    SupersededOrdersEnded
    NothingOverfilled
    HedgeNeverLeads
    ExposureWithinOneOrder
    FinishedAsRecorded
CHECK_DEADLOCK FALSE
