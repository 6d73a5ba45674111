CONSTANTS
    a1 = a1
    Accounts = {a1}
    MaxEdits = 2
    MaxFaults = 2
    MaxUpdates = 1
SPECIFICATION FairSpec
INVARIANTS
    TypeOK
    ReadyIsReconciled
PROPERTIES
    OnlyItsOwnPause
    ReadyOnlyWatched
