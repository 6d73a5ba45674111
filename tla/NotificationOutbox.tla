------------------------- MODULE NotificationOutbox -------------------------
(***************************************************************************)
(* Notifications: each worker process projects the conditions it reads     *)
(* (execution control, accounts, trade intents, the daily summary) into    *)
(* rows of notification_outbox, one for each channel, and delivers the     *)
(* rows that are due; Telegram's webhook adds replies and an administrator *)
(* prunes old rows.                                                        *)
(*                                                                         *)
(* A second worker projects and delivers beside the first one until it     *)
(* finds the reconciliation lock taken.  A step is one transaction, or one *)
(* send.  Texts are left out: a fingerprint is the condition it is made    *)
(* of.  The rows a claim takes are any of those that are due: with less    *)
(* than a batch due, it takes all of them.                                 *)
(***************************************************************************)
EXTENDS Integers, Sequences, FiniteSets, SequencesExt

CONSTANTS
    Sources,         \* source keys of the projection
    Conditions,      \* conditions of a source
    Calm,            \* the first condition of every source
    Notified,        \* channels a condition is announced on
    Updates,         \* Telegram update ids
    Channels,        \* "telegram" and "email" in the code
    Replies,         \* channel of the replies
    Configured,      \* channels with a sender
    Workers,
    MaxAttempts,     \* 8 in the code
    BatchSize,
    StaleAfter,      \* ticks until a claim is stale: 5 minutes in the code
    Delay,           \* ticks until an attempt that failed is repeated
    MaxGeneration,   \* bound: generations of a source
    MaxChanges,      \* bound: changes of the conditions
    MaxLosses        \* bound: batches lost in a crash or a failed iteration

ASSUME OutboxAssumption ==
    /\ Calm \in Conditions
    /\ Notified \in [Conditions -> SUBSET Channels]
    /\ Replies \in Channels /\ Configured \subseteq Channels
    /\ MaxAttempts \in Nat \ {0} /\ BatchSize \in Nat \ {0}
    /\ StaleAfter \in Nat \ {0}
    /\ Delay \in [1..MaxAttempts -> Nat]
    /\ MaxGeneration \in Nat /\ MaxChanges \in Nat /\ MaxLosses \in Nat

VARIABLES
    world,        \* condition of each source
    changes,
    projected,    \* the notification_projection_state rows
    rows,         \* the notification_outbox rows
    up,           \* workers that run
    fresh,        \* sources a worker has yet to project without notifying
    seen,         \* the condition a worker has read and not yet projected
    batch,        \* rows a worker has claimed and not yet marked
    result,       \* what came of the first of them
    losses,
    delivered     \* rows whose message has arrived

projection == <<projected, fresh, seen>>
delivery   == <<batch, result, delivered>>
vars == <<world, changes, projected, rows, up, fresh, seen, batch, result,
          losses, delivered>>

---------------------------------------------------------------------------
(* Rows *)

\* Dedupe keys: "projection:source:generation" and "telegram:update:id".
\* A row is a dedupe key and a channel, unique together.
Alerts  == (Sources \X (1..MaxGeneration)) \X UNION Range(Notified)
Reply(u) == <<<<u, 0>>, Replies>>
Rows == Alerts \cup {Reply(u) : u \in Updates}

RowStatuses == {"none", "pending", "sending", "retry", "sent", "dead"}
\* "wait": ticks until next_attempt_at, or until the claim is stale.
NoRow   == [status |-> "none", attempts |-> 0, wait |-> 0]
Pending == [status |-> "pending", attempts |-> 0, wait |-> 0]

NoRead == [source |-> "none", condition |-> "none"]

Init ==
    /\ world = [s \in Sources |-> Calm]
    /\ changes = 0
    /\ projected = [s \in Sources |-> [fingerprint |-> "none", generation |-> 0]]
    /\ rows = [r \in Rows |-> NoRow]
    /\ up = {}
    /\ fresh = [w \in Workers |-> {}]
    /\ seen = [w \in Workers |-> NoRead]
    /\ batch = [w \in Workers |-> <<>>]
    /\ result = [w \in Workers |-> "none"]
    /\ losses = 0
    /\ delivered = {}

InStatus(statuses) == {r \in Rows : rows[r].status \in statuses}

\* The dedupe key and the channel are unique: a row that exists is kept.
Enqueue(S) ==
    rows' = [r \in Rows |->
        IF r \in S /\ rows[r].status = "none" THEN Pending ELSE rows[r]]

---------------------------------------------------------------------------
(* Processes and time *)

\* The worker starts, and first takes the state of every source as known.
Start(w) ==
    /\ w \notin up
    /\ up' = up \cup {w}
    /\ fresh' = [fresh EXCEPT ![w] = Sources]
    /\ UNCHANGED <<world, changes, projected, rows, seen, delivery, losses>>

Drop(w) ==
    /\ losses < MaxLosses /\ losses' = losses + 1
    /\ batch' = [batch EXCEPT ![w] = <<>>]
    /\ result' = [result EXCEPT ![w] = "none"]

\* The process dies, or finds the lock of the reconciliation taken.
Stop(w) ==
    /\ w \in up /\ Drop(w)
    /\ up' = up \ {w}
    /\ fresh' = [fresh EXCEPT ![w] = {}]
    /\ seen' = [seen EXCEPT ![w] = NoRead]
    /\ UNCHANGED <<world, changes, projected, rows, delivered>>

\* An iteration of the delivery fails: its rows stay in "sending".
LoseBatch(w) ==
    /\ batch[w] # <<>> /\ Drop(w)
    /\ UNCHANGED <<world, changes, projection, rows, up, delivered>>

Tick ==
    /\ \E r \in Rows : rows[r].wait > 0
    /\ rows' = [r \in Rows |->
          [rows[r] EXCEPT !.wait = IF @ > 0 THEN @ - 1 ELSE 0]]
    /\ UNCHANGED <<world, changes, projection, up, delivery, losses>>

---------------------------------------------------------------------------
(* Projection *)

ConditionChanges(s, c) ==
    /\ changes < MaxChanges /\ world[s] # c
    /\ changes' = changes + 1
    /\ world' = [world EXCEPT ![s] = c]
    /\ UNCHANGED <<projection, rows, up, delivery, losses>>

\* One session reads the condition, ...
ReadCondition(w, s) ==
    /\ w \in up /\ seen[w] = NoRead
    /\ fresh[w] # {} => s \in fresh[w]
    /\ seen' = [seen EXCEPT ![w] = [source |-> s, condition |-> world[s]]]
    /\ UNCHANGED <<world, changes, projected, rows, up, fresh, delivery, losses>>

NextGeneration(s) == projected[s].generation + 1

\* Variant: a fingerprint once stored is kept.
FirstOnly(s, c) == projected[s].fingerprint # "none"

Known(s, c) == projected[s].fingerprint = c

Announced(w, s, c) ==
    IF s \in fresh[w] THEN {} ELSE {<<s, NextGeneration(s)>>} \X Notified[c]

\* ... and another projects it: project_notification.
Project(w) ==
    /\ seen[w] # NoRead
    /\ LET s == seen[w].source
           c == seen[w].condition
       IN  /\ IF Known(s, c)
              THEN UNCHANGED <<projected, rows>>
              ELSE /\ NextGeneration(s) <= MaxGeneration
                   /\ projected' = [projected EXCEPT ![s] =
                         [fingerprint |-> c, generation |-> NextGeneration(s)]]
                   /\ Enqueue(Announced(w, s, c))
           /\ fresh' = [fresh EXCEPT ![w] = @ \ {s}]
    /\ seen' = [seen EXCEPT ![w] = NoRead]
    /\ UNCHANGED <<world, changes, up, delivery, losses>>

\* handle_update: the reply to an update that was received before is kept.
HandleUpdate(u) ==
    /\ rows[Reply(u)].status = "none"
    /\ Enqueue({Reply(u)})
    /\ UNCHANGED <<world, changes, projection, up, delivery, losses>>

---------------------------------------------------------------------------
(* Delivery *)

\* Variant: a claim that went stale is left to its first claimant.
DueUnclaimed == {r \in InStatus({"pending", "retry"}) : rows[r].wait = 0}

Due == {r \in InStatus({"pending", "retry", "sending"}) : rows[r].wait = 0}

\* claim_notifications: rows that are due, and claims that went stale.
Claim(w, S) ==
    /\ w \in up /\ fresh[w] = {} /\ batch[w] = <<>>
    /\ S # {} /\ S \subseteq Due
    /\ IsFiniteSet(S) /\ Cardinality(S) <= BatchSize
    /\ S = Due \/ Cardinality(S) = BatchSize
    /\ rows' = [r \in Rows |-> IF r \notin S THEN rows[r] ELSE
          [status |-> "sending", attempts |-> rows[r].attempts + 1, wait |-> StaleAfter]]
    /\ batch' = [batch EXCEPT ![w] = SetToSeq(S)]
    /\ UNCHANGED <<world, changes, projection, up, result, losses, delivered>>

Sends(w) == /\ batch[w] # <<>> /\ result[w] = "none"
            /\ UNCHANGED <<world, changes, projection, rows, up, batch, losses>>

SendSucceeds(w) ==
    /\ Sends(w) /\ Head(batch[w])[2] \in Configured
    /\ delivered' = delivered \cup {Head(batch[w])}
    /\ result' = [result EXCEPT ![w] = "sent"]

\* An error, or a timeout behind which the message has arrived.
SendFails(w) ==
    /\ Sends(w) /\ Head(batch[w])[2] \in Configured
    /\ delivered' \in {delivered, delivered \cup {Head(batch[w])}}
    /\ result' = [result EXCEPT ![w] = "failed"]

ChannelUnconfigured(w) ==
    /\ Sends(w) /\ Head(batch[w])[2] \notin Configured
    /\ result' = [result EXCEPT ![w] = "failed"]
    /\ UNCHANGED delivered

\* Variant: the mark does not ask whether the row is still being sent.
AnyStatus(r) == rows[r].status # "none"

StillSending(r) == rows[r].status = "sending"

\* The backoff, or the end of it.
AfterFailure(row) ==
    IF row.attempts >= MaxAttempts
    THEN [row EXCEPT !.status = "dead", !.wait = 0]
    ELSE [row EXCEPT !.status = "retry", !.wait = Delay[row.attempts]]

\* Variant: what came of the send is stored as the status.
MarkedVerbatim(r, kind) == [rows[r] EXCEPT !.status = kind, !.wait = 0]

Marked(r, kind) ==
    IF kind = "sent" THEN [rows[r] EXCEPT !.status = "sent", !.wait = 0]
    ELSE AfterFailure(rows[r])

\* mark_notification_sent and mark_notification_failed
Mark(w) ==
    /\ result[w] # "none"
    /\ LET r == Head(batch[w])
       IN  rows' = IF StillSending(r)
                   THEN [rows EXCEPT ![r] = Marked(r, result[w])] ELSE rows
    /\ batch' = [batch EXCEPT ![w] = Tail(@)]
    /\ result' = [result EXCEPT ![w] = "none"]
    /\ UNCHANGED <<world, changes, projection, up, losses, delivered>>

InFlight == UNION {Range(batch[w]) : w \in Workers}

\* prune_notification_history: of a day ago or older, so not in flight.
Prune(S) ==
    /\ S # {} /\ S \subseteq InStatus({"sent", "dead"}) \ InFlight
    /\ rows' = [r \in Rows |-> IF r \in S THEN NoRow ELSE rows[r]]
    /\ delivered' = delivered \ S
    /\ UNCHANGED <<world, changes, projection, up, batch, result, losses>>

---------------------------------------------------------------------------

Deliver(w) ==
    \/ SendSucceeds(w) \/ SendFails(w) \/ ChannelUnconfigured(w) \/ Mark(w)

DeliveryLoop(w) == Deliver(w) \/ \E S \in SUBSET Due : Claim(w, S)

Next ==
    \/ Tick
    \/ \E w \in Workers :
          \/ Start(w) \/ Stop(w) \/ LoseBatch(w) \/ DeliveryLoop(w) \/ Project(w)
          \/ \E s \in Sources : ReadCondition(w, s)
    \/ \E s \in Sources, c \in Conditions : ConditionChanges(s, c)
    \/ \E u \in Updates : HandleUpdate(u)
    \/ \E S \in SUBSET InStatus({"sent", "dead"}) : Prune(S)

Spec == Init /\ [][Next]_vars

\* Stopped workers are started again, and the two loops of a worker go on.
FairSpec ==
    /\ Spec
    /\ WF_vars(Tick)
    /\ \A w \in Workers :
          /\ WF_vars(DeliveryLoop(w))
          /\ WF_vars(Start(w) \/ Project(w))
          /\ \A s \in Sources : SF_vars(ReadCondition(w, s))

---------------------------------------------------------------------------
(* Properties *)

TypeOK ==
    /\ world \in [Sources -> Conditions]
    /\ changes \in 0..MaxChanges
    /\ projected \in [Sources -> [fingerprint : Conditions \cup {"none"},
                                  generation : 0..MaxGeneration]]
    /\ rows \in [Rows -> [status : RowStatuses, attempts : Nat, wait : Nat]]
    /\ up \subseteq Workers
    /\ fresh \in [Workers -> SUBSET Sources]
    /\ seen \in [Workers -> {NoRead} \cup [source : Sources, condition : Conditions]]
    /\ batch \in [Workers -> Seq(Rows)]
    /\ result \in [Workers -> {"none", "sent", "failed"}]
    /\ losses \in 0..MaxLosses
    /\ delivered \subseteq Rows

Outcome(row) == IF row.status \in {"pending", "sending", "retry"}
                THEN "open" ELSE row.status

Outbox == INSTANCE ReliableOutbox WITH
    Messages <- Rows, Attempts <- MaxAttempts,
    outcome <- [r \in Rows |-> Outcome(rows[r])],
    tries <- [r \in Rows |-> rows[r].attempts]

\* Through crashes, stale claims, lost and late marks and pruning, the rows
\* keep the promise of a reliable outbox.
ImplementsOutbox == Outbox!Spec
EveryRowCloses == Outbox!EventuallyClosed

\* Each condition a source stays in is projected, by any number of workers,
\* up to the bound on generations.
ConditionsProjected ==
    \A s \in Sources : \A c \in Conditions :
        world[s] = c ~> \/ world[s] # c
                        \/ projected[s].fingerprint = c
                        \/ projected[s].generation = MaxGeneration
=============================================================================
