\* Two workers, one source whose alerts go to a channel without a sender, and
\* replies on one with a sender; one lost batch or stopped worker.
CONSTANTS
    Sources = {execution}
    Conditions <- Execution
    Calm = "ready"
    Notified <- CriticalByEmail
    Updates = {u1}
    Channels <- BothChannels
    Replies = "telegram"
    Configured <- OnlyTelegram
    Workers = {w1, w2}
    MaxAttempts = 2
    BatchSize = 3
    StaleAfter = 1
    Delay <- OneTick
    MaxGeneration = 2
    MaxChanges = 1
    MaxLosses = 1
SPECIFICATION FairSpec
INVARIANTS
    TypeOK
PROPERTIES
    ImplementsOutbox
    EveryRowCloses
    ConditionsProjected
