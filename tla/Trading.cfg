\* One of five scenarios per behaviour: two requests racing for a ticket, the
\* automatic trader beside a request, with new quotes or with a crash, and paper
\* trades, with a crash or of both requests; one position, one crash.
CONSTANTS
    c1 = c1
    c2 = c2
    Clients = {c1, c2}
    Trader = trader
    RequestKeys = {1, 2, 3}
    Assets = {1}
    Quantity <- SizedQuantity
    Ratios <- SomeRatios
    Compensates = {TRUE, FALSE}
    MaxPositions = 1
    Scenarios <- EveryScenario
    MaxIntents = 3
    MaxPreviews = 1
    MaxConfig = 1
    MaxQuote = 1
    MaxCrashes = 1
SPECIFICATION FairSpec
INVARIANTS
    TypeOK
    OneIntentPerTicket
    ReservedByOneClose
    BookedIsHeld
    OneAutomaticPairPerAsset
PROPERTY PaperResolves
