--------------------------- MODULE MultiLegTasks ---------------------------
(***************************************************************************)
(* Multi-leg execution tasks: an administrator prepares, starts and        *)
(* cancels them; the worker takes the oldest active one up, once a pass,   *)
(* and creates, looks up, sends, chases or compensates one order; the      *)
(* exchange accepts, fills and ends orders in its own time.                *)
(*                                                                         *)
(* Quantities are base quantities, in units of the finest lot grid.  A     *)
(* worker step is one transaction, or one exchange call with the           *)
(* transaction that records it; what an exception handler reads and writes *)
(* is one step, since only the worker writes orders.  A task has one run:  *)
(* its status follows the task's and it is not a variable.  A request      *)
(* made on a stale version of the task is refused and is not a step.       *)
(***************************************************************************)
EXTENDS Integers, Sequences, FiniteSets, FiniteSetsExt

CONSTANTS
    MaxTasks,       \* bound: tasks
    PaperTasks,     \* the tasks of the paper environment
    LegCount,       \* legs of a task
    Anchor,         \* the anchor leg; the others hedge it
    Target,         \* resolved base quantity of each leg
    PerOrder,       \* largest order of each leg, 0 for none
    Increment,      \* lot grid of each leg
    MakerLegs,      \* legs with maker orders; the others send IOC orders
    HedgeFrom,      \* anchor fills the hedges wait for, 0 for realtime hedging
    Fallback,       \* does a maker leg fall back to an IOC order?
    MaxChases,      \* maker_maximum_chases
    MaxRetries,     \* maximum_retries
    Window,         \* active tasks a claim looks at: 10 in the code
    Words,          \* what each leg's exchange calls a live and an ended order
    MaxShort,       \* bound: orders of a task called filled and short of it
    MaxCrashes,     \* bound: deaths of the worker process
    Faults,         \* faults that may happen: "raise", "refuse"
    Controls        \* states the rest of the system may give the control row

Tasks  == 1..MaxTasks       \* numbered in the order of created_at
Legs   == 1..LegCount       \* numbered by ordinal
Hedges == Legs \ {Anchor}

\* An exchange's words, by what _remote_status makes of them.  "canceled" stands
\* for rejected and failed too, and "other" for the words it does not know: of a
\* live order MEXC's "2", of one that ended short of its quantity Gate's
\* "finished", MEXC's "4" and "5", Bybit's "PartiallyFilledCanceled", Binance's
\* "EXPIRED_IN_MATCH".  "filled" of such an order is a "closed" or "done".
LiveWords == {"live", "other"}
DoneWords == {"canceled", "filled", "other"}

ASSUME MultiLegAssumption ==
    /\ MaxTasks \in Nat \ {0} /\ PaperTasks \subseteq Tasks
    /\ LegCount \in Nat \ {0} /\ Anchor \in Legs
    /\ Target \in [Legs -> Nat \ {0}]
    /\ PerOrder \in [Legs -> Nat]
    /\ Increment \in [Legs -> Nat \ {0}]
    /\ HedgeFrom \in 0..Target[Anchor]
    /\ MakerLegs \subseteq Legs /\ Fallback \in BOOLEAN
    /\ MaxChases \in Nat /\ MaxRetries \in Nat /\ Window \in Nat \ {0}
    /\ Words \in [Legs -> [live : SUBSET LiveWords, done : SUBSET DoneWords]]
    /\ MaxShort \in Nat /\ MaxCrashes \in Nat
    /\ Faults \subseteq {"raise", "refuse"}
    /\ Controls \subseteq {"ready", "paused"}

VARIABLES
    control,   \* the execution_control row's state
    tasks,     \* status of each execution_tasks row
    stale,     \* tasks whose preflight has expired
    pre,       \* tasks with a preflight running on their current version
    orders,    \* the execution_orders rows of each task, oldest first
    exch,      \* what the exchange made of each of these orders
    pc,        \* the worker's next step
    w,         \* the worker's task and what its lookup showed
    crashes

admin == <<stale, pre>>
work  == <<pc, w>>
vars  == <<control, tasks, admin, orders, exch, work, crashes>>

---------------------------------------------------------------------------
(* Rows *)

TaskStatuses == {"none", "draft", "preflight_ready", "queued", "running",
                 "hedging", "compensating", "completed", "failed",
                 "manual_review", "emergency_stopped"}
\* Variant: a compensating task is left to the administrator.
NotCompensating == {"queued", "running", "hedging"}
Claimable == {"queued", "running", "hedging", "compensating"}
Finished  == {"completed", "failed", "manual_review", "emergency_stopped"}

Uncertain == {"submitted", "acknowledged", "partially_filled",
              "cancel_pending", "unknown"}
OpenOrder == {"created"} \cup Uncertain
\* "canceled" stands for rejected and failed too: no code tells them apart.
Ended     == {"filled", "canceled"}

OrderRows == [leg : Legs, purpose : {"primary", "compensation"},
              mode : {"maker", "ioc"}, status : OpenOrder \cup Ended,
              quantity : Nat, filled : Nat, attempt : Nat, chase : Nat]
\* An order not yet sent or refused, on its way, in the book, or ended.
ExchRows  == [at : {"none", "sent", "live", "done"}, got : Nat]

Steps == {"idle", "paper", "decide", "answer", "found", "chase"}
Idle  == [task |-> 0, seen |-> "none"]

Init ==
    /\ control = "ready"
    /\ tasks = [t \in Tasks |-> "none"]
    /\ stale = {} /\ pre = {}
    /\ orders = [t \in Tasks |-> <<>>]
    /\ exch = [t \in Tasks |-> <<>>]
    /\ pc = "idle" /\ w = Idle
    /\ crashes = 0

\* All but the last order of a task have ended: it is the one to look at.
Last(t)   == Len(orders[t])
Active(t) == \E i \in DOMAIN orders[t] : orders[t][i].status \in OpenOrder
Current(t) == CHOOSE i \in DOMAIN orders[t] :
                 /\ orders[t][i].status \in OpenOrder
                 /\ \A j \in DOMAIN orders[t] :
                       orders[t][j].status \in OpenOrder => i <= j

OfLeg(t, leg) == {i \in DOMAIN orders[t] : orders[t][i].leg = leg}
OfPurpose(t, leg, purpose) ==
    {i \in OfLeg(t, leg) : orders[t][i].purpose = purpose}

Filled(t, leg, purpose) ==
    SumFunctionOnSet([i \in DOMAIN orders[t] |-> orders[t][i].filled],
                     OfPurpose(t, leg, purpose))

SetTask(t, status) == tasks' = [tasks EXCEPT ![t] = status]

---------------------------------------------------------------------------
(* The administrator and the rest of the system *)

\* create_execution_task: the next task, validated, becomes a draft.
CreateTask(t) ==
    /\ tasks[t] = "none" /\ \A u \in Tasks : u < t => tasks[u] # "none"
    /\ SetTask(t, "draft")
    /\ UNCHANGED <<control, admin, orders, exch, work, crashes>>

\* preflight reads the task, and then asks the accounts and the books.
PreflightRead(t) ==
    /\ tasks[t] \in {"draft", "preflight_ready"} /\ t \notin pre
    /\ pre' = pre \cup {t}
    /\ UNCHANGED <<control, tasks, stale, orders, exch, work, crashes>>

\* An account or a book fails its check: the row is left alone.
PreflightRefused(t) ==
    /\ t \in pre
    /\ pre' = pre \ {t}
    /\ UNCHANGED <<control, tasks, stale, orders, exch, work, crashes>>

\* mark_execution_task_preflight_ready: the version must be the one read.
PreflightReady(t) ==
    /\ t \in pre /\ tasks[t] \in {"draft", "preflight_ready"}
    /\ SetTask(t, "preflight_ready")
    /\ stale' = stale \ {t} /\ pre' = pre \ {t}
    /\ UNCHANGED <<control, orders, exch, work, crashes>>

\* 60 seconds pass.
PreflightExpires(t) ==
    /\ tasks[t] = "preflight_ready" /\ t \notin stale
    /\ stale' = stale \cup {t}
    /\ UNCHANGED <<control, tasks, pre, orders, exch, work, crashes>>

\* queue_execution_task
StartTask(t) ==
    /\ tasks[t] = "preflight_ready" /\ t \notin stale
    /\ t \notin PaperTasks => control = "ready"
    /\ SetTask(t, "queued")
    /\ pre' = pre \ {t}
    /\ UNCHANGED <<control, stale, orders, exch, work, crashes>>

\* cancel_execution_task
CancelTask(t) ==
    /\ tasks[t] \in {"draft", "preflight_ready", "queued"}
    /\ SetTask(t, "emergency_stopped")
    /\ stale' = stale \ {t} /\ pre' = pre \ {t}
    /\ UNCHANGED <<control, orders, exch, work, crashes>>

\* A pause, or a reconciliation that ends ready.
ControlChanges ==
    /\ control' \in Controls \ {control}
    /\ UNCHANGED <<tasks, admin, orders, exch, work, crashes>>

---------------------------------------------------------------------------
(* Paper tasks: every leg filled in one transaction, or none *)

\* Variant: a running task is left alone after a restart.
PaperClaimQueued(t) ==
    /\ pc = "idle"
    /\ t \in PaperTasks /\ tasks[t] = "queued"
    /\ \A u \in PaperTasks : tasks[u] = "queued" => t <= u
    /\ SetTask(t, "running")
    /\ pc' = "paper" /\ w' = [Idle EXCEPT !.task = t]
    /\ UNCHANGED <<control, admin, orders, exch, crashes>>

\* claim_paper_execution_task: the oldest, a running one after a restart too.
PaperClaim(t) ==
    /\ pc = "idle"
    /\ t \in PaperTasks /\ tasks[t] \in {"queued", "running"}
    /\ \A u \in PaperTasks : tasks[u] \in {"queued", "running"} => t <= u
    /\ SetTask(t, "running")
    /\ pc' = "paper" /\ w' = [Idle EXCEPT !.task = t]
    /\ UNCHANGED <<control, admin, orders, exch, crashes>>

PaperOrder(leg) ==
    [leg |-> leg, purpose |-> "primary",
     mode |-> IF leg \in MakerLegs THEN "maker" ELSE "ioc",
     status |-> "filled", quantity |-> Target[leg], filled |-> Target[leg],
     attempt |-> 1, chase |-> 0]

\* complete_paper_execution_task
PaperComplete(t) ==
    /\ pc = "paper" /\ w.task = t /\ tasks[t] = "running"
    /\ orders' = [orders EXCEPT ![t] =
                    @ \o [i \in 1..LegCount |-> PaperOrder(i)]]
    /\ exch' = [exch EXCEPT ![t] = 
                    @ \o [i \in 1..LegCount |-> [at |-> "done", got |-> Target[i]]]]
    /\ SetTask(t, "completed")
    /\ pc' = "idle" /\ w' = Idle
    /\ UNCHANGED <<control, admin, crashes>>

\* No healthy quote: fail_execution_task_run without a review.
PaperFail(t) ==
    /\ pc = "paper" /\ w.task = t
    /\ SetTask(t, "failed")
    /\ pc' = "idle" /\ w' = Idle
    /\ UNCHANGED <<control, admin, orders, exch, crashes>>

---------------------------------------------------------------------------
(* The live worker: claim, decide, fail *)

LiveClaimable == {t \in Tasks \ PaperTasks : tasks[t] \in Claimable}

\* The window of the claim holds the oldest tasks, whether they may start
\* or not.
Candidates ==
    {t \in LiveClaimable :
        /\ Cardinality({u \in LiveClaimable : u < t}) < Window
        /\ tasks[t] = "queued" => control = "ready"}

\* claim_live_execution_task
Claim(t) ==
    /\ pc = "idle"
    /\ t \in Candidates /\ \A u \in Candidates : t <= u
    /\ tasks' = [tasks EXCEPT ![t] = IF @ = "queued" THEN "running" ELSE @]
    /\ pc' = "decide" /\ w' = [Idle EXCEPT !.task = t]
    /\ UNCHANGED <<control, admin, orders, exch, crashes>>

Exposed(t) == \E i \in DOMAIN orders[t] :
                 /\ orders[t][i].purpose = "primary"
                 /\ orders[t][i].filled > 0
\* Variant: an order whose answer was lost is not counted as pending.
PendingWithoutUnknown(t) ==
    \E i \in DOMAIN orders[t] : orders[t][i].status \in Uncertain \ {"unknown"}

Pending(t) == \E i \in DOMAIN orders[t] : orders[t][i].status \in Uncertain

\* An exception ends the pass: begin_execution_task_compensation when only
\* finished orders hold an exposure, else fail_execution_task_run.
HandleFailure(t) ==
    /\ IF tasks[t] # "compensating" /\ Exposed(t) /\ ~Pending(t)
       THEN SetTask(t, "compensating") /\ control' = "paused"
       ELSE IF tasks[t] = "compensating" \/ Exposed(t) \/ Pending(t)
       THEN SetTask(t, "manual_review") /\ control' = "paused"
       ELSE SetTask(t, "failed") /\ UNCHANGED control
    /\ pc' = "idle" /\ w' = Idle
    /\ UNCHANGED <<admin, orders, exch, crashes>>

\* The next pass finds the order as this one leaves it.
PassEnds == pc' = "idle" /\ w' = Idle

SetOrder(t, i, status) ==
    orders' = [orders EXCEPT ![t][i].status = status]

\* mark_execution_order_unknown
MarkUnknown(t, i) ==
    IF orders[t][i].status \in {"created", "submitted", "unknown"}
    THEN SetOrder(t, i, "unknown")
    ELSE UNCHANGED orders

---------------------------------------------------------------------------
(* Which order comes next *)

\* Variant: the hedge runs up to its own target at once.
DeficitToTarget(t, leg) ==
    (Target[leg] - Filled(t, leg, "primary")) * Target[Anchor]

\* What a hedge lacks of its share of the anchor's fills, times Target[Anchor].
Deficit(t, leg) ==
    Filled(t, Anchor, "primary") * Target[leg]
        - Filled(t, leg, "primary") * Target[Anchor]

AnchorRemaining(t) == Target[Anchor] - Filled(t, Anchor, "primary")
Waiting(t) == Filled(t, Anchor, "primary") < HedgeFrom
Behind(t) == IF Waiting(t) THEN {} ELSE {leg \in Hedges : Deficit(t, leg) > 0}

\* Variant: the anchor is filled before any hedge.
AnchorFirst(t) ==
    IF AnchorRemaining(t) > 0 THEN Anchor
    ELSE CHOOSE leg \in Behind(t) : \A l \in Behind(t) : leg <= l

\* Hedges first, in their order; then the anchor.
NextLeg(t) ==
    IF Behind(t) # {} THEN CHOOSE leg \in Behind(t) : \A l \in Behind(t) : leg <= l
    ELSE Anchor

AllFilled(t) == Behind(t) = {} /\ AnchorRemaining(t) = 0

\* quote_order rounds down to the lot grid.
OnGrid(leg, number, scale) ==
    ((number \div scale) \div Increment[leg]) * Increment[leg]

Chunk(leg, number, scale) ==
    OnGrid(leg, IF PerOrder[leg] > 0 /\ PerOrder[leg] * scale < number
                THEN PerOrder[leg] * scale ELSE number, scale)

NextQuantity(t) ==
    LET leg == NextLeg(t)
    IN  IF leg = Anchor THEN Chunk(leg, AnchorRemaining(t), 1)
        ELSE Chunk(leg, Deficit(t, leg), Target[Anchor])

LatestOf(t, leg) == IF OfLeg(t, leg) = {} THEN 0 ELSE Max(OfLeg(t, leg))

Attempts(t, leg) ==
    Max({0} \cup {orders[t][i].attempt : i \in OfLeg(t, leg)})

\* A maker order that ended short is the parent of the next one.
ChaseParent(t, leg) ==
    LET i == LatestOf(t, leg)
    IN  /\ i # 0
        /\ orders[t][i].mode = "maker" /\ orders[t][i].status \in Ended
        /\ orders[t][i].filled < orders[t][i].quantity

\* Beyond maker_maximum_chases, or maximum_retries, _create_next_order raises.
MayOrder(t, leg) ==
    LET i == LatestOf(t, leg)
    IN  IF ChaseParent(t, leg)
        THEN orders[t][i].chase < MaxChases \/ Fallback
        ELSE (i # 0 /\ orders[t][i].status = "canceled")
                => Attempts(t, leg) <= MaxRetries

NewOrder(t, leg, quantity) ==
    LET i == LatestOf(t, leg)
        chased == ChaseParent(t, leg)
    IN  [leg |-> leg, purpose |-> "primary",
         mode |-> IF leg \in MakerLegs /\ ~(chased /\ orders[t][i].chase >= MaxChases)
                  THEN "maker" ELSE "ioc",
         status |-> "created", quantity |-> quantity, filled |-> 0,
         attempt |-> IF chased THEN orders[t][i].attempt ELSE Attempts(t, leg) + 1,
         chase |-> IF chased THEN orders[t][i].chase + 1 ELSE 0]

AddOrder(t, order) ==
    /\ orders' = [orders EXCEPT ![t] = Append(@, order)]
    /\ exch' = [exch EXCEPT ![t] = Append(@, [at |-> "none", got |-> 0])]

\* create_execution_order_attempt refuses a second open order of the leg.
NoOpenOrder(t, leg) ==
    \A i \in OfLeg(t, leg) : orders[t][i].status \notin OpenOrder

\* set_execution_task_phase and create_execution_order_attempt
CreateNextOrder(t) ==
    /\ pc = "decide" /\ w.task = t /\ tasks[t] # "compensating"
    /\ ~Active(t) /\ ~AllFilled(t)
    /\ NoOpenOrder(t, NextLeg(t))
    /\ MayOrder(t, NextLeg(t)) /\ NextQuantity(t) > 0
    /\ AddOrder(t, NewOrder(t, NextLeg(t), NextQuantity(t)))
    /\ SetTask(t, IF NextLeg(t) = Anchor THEN "running" ELSE "hedging")
    /\ PassEnds
    /\ UNCHANGED <<control, admin, crashes>>

\* complete_live_execution_task
CompleteTask(t) ==
    /\ pc = "decide" /\ w.task = t /\ tasks[t] # "compensating"
    /\ ~Active(t) /\ AllFilled(t)
    /\ SetTask(t, "completed")
    /\ PassEnds
    /\ UNCHANGED <<control, admin, orders, exch, crashes>>

---------------------------------------------------------------------------
(* Compensation: the fills of each leg are traded back *)

Remaining(t, leg) ==
    Filled(t, leg, "primary") - Filled(t, leg, "compensation")

ToCompensate(t) == {leg \in Legs : Remaining(t, leg) > 0}
CompensatedLeg(t) == CHOOSE leg \in ToCompensate(t) :
                        \A l \in ToCompensate(t) : leg <= l

CreateCompensation(t) ==
    /\ pc = "decide" /\ w.task = t /\ tasks[t] = "compensating"
    /\ ~Active(t) /\ ToCompensate(t) # {}
    /\ LET leg == CompensatedLeg(t)
           quantity == OnGrid(leg, Remaining(t, leg), 1)
       IN  /\ Cardinality(OfPurpose(t, leg, "compensation")) <= MaxRetries
           /\ quantity > 0 /\ NoOpenOrder(t, leg)
           /\ AddOrder(t, [leg |-> leg, purpose |-> "compensation",
                           mode |-> "ioc", status |-> "created",
                           quantity |-> quantity, filled |-> 0,
                           attempt |-> Attempts(t, leg) + 1, chase |-> 0])
    /\ PassEnds
    /\ UNCHANGED <<control, tasks, admin, crashes>>

\* Every leg is back at zero: fail_execution_task_run without a review.
CompensationDone(t) ==
    /\ pc = "decide" /\ w.task = t /\ tasks[t] = "compensating"
    /\ ~Active(t) /\ ToCompensate(t) = {}
    /\ SetTask(t, "failed")
    /\ PassEnds
    /\ UNCHANGED <<control, admin, orders, exch, crashes>>

\* No next order may be created.
NoNextOrder(t) ==
    /\ ~Active(t)
    /\ IF tasks[t] = "compensating"
       THEN /\ ToCompensate(t) # {}
            /\ LET leg == CompensatedLeg(t)
               IN  \/ Cardinality(OfPurpose(t, leg, "compensation")) > MaxRetries
                   \/ OnGrid(leg, Remaining(t, leg), 1) = 0
       ELSE /\ ~AllFilled(t)
            /\ ~MayOrder(t, NextLeg(t)) \/ NextQuantity(t) = 0

\* Anything may raise: a stale or unhealthy quote, a refused lookup or cancel,
\* a changed account, a fee without a price.  Only the end of a compensation
\* asks nobody.
MayRaise(t) == \/ pc \in {"found", "chase"}
               \/ pc = "decide" /\ ~(/\ tasks[t] = "compensating" /\ ~Active(t)
                                     /\ ToCompensate(t) = {})

Raise(t) ==
    /\ w.task = t /\ pc \in {"decide", "found", "chase"}
    /\ \/ pc = "decide" /\ NoNextOrder(t)
       \/ "raise" \in Faults /\ MayRaise(t)
    /\ HandleFailure(t)

---------------------------------------------------------------------------
(* The open order: look it up, send it, record it, chase it *)

Looking(t) == pc = "decide" /\ w.task = t /\ Active(t)

LookupIncomplete(t) ==
    /\ Looking(t)
    /\ MarkUnknown(t, Current(t))
    /\ PassEnds
    /\ UNCHANGED <<control, tasks, admin, exch, crashes>>

\* Called filled, and short of its quantity.
Short(t) == {i \in DOMAIN orders[t] : /\ orders[t][i].status = "filled"
                                      /\ orders[t][i].filled < orders[t][i].quantity}

\* One order may be worded in each of the ways its exchange has.
SeenAs(t, i) ==
    LET words == Words[orders[t][i].leg]
    IN  IF exch[t][i].at = "live" THEN words.live
        ELSE {word \in words.done :
                 word = "filled" => Cardinality(Short(t)) < MaxShort}

\* A lookup by client order id shows an order the exchange has, ...
LookupFound(t) ==
    /\ Looking(t)
    /\ exch[t][Current(t)].at \in {"live", "done"}
    /\ pc' = "found"
    /\ \E word \in SeenAs(t, Current(t)) : w' = [w EXCEPT !.seen = word]
    /\ UNCHANGED <<control, tasks, admin, orders, exch, crashes>>

\* ... or nothing: it may lag behind an order that no row shows as seen, and
\* drop one that has ended.
MayBeAbsent(t, i) ==
    \/ exch[t][i].at \in {"none", "sent", "done"}
    \/ orders[t][i].status \in {"created", "submitted", "unknown"}

\* Variant: the fills of a canceled order are dropped.
RecordUncanceled(t, i, status) ==
    orders' = [orders EXCEPT ![t][i].status = status,
                  ![t][i].filled = IF status = "canceled" THEN @ ELSE exch[t][i].got]

\* apply_execution_order_observation
Record(t, i, status) ==
    orders' = [orders EXCEPT ![t][i].status = status,
                             ![t][i].filled = exch[t][i].got]

AbsentCanceled(t) ==
    /\ Looking(t) /\ MayBeAbsent(t, Current(t))
    /\ orders[t][Current(t)].status = "cancel_pending"
    /\ Record(t, Current(t), "canceled")
    /\ PassEnds
    /\ UNCHANGED <<control, tasks, admin, exch, crashes>>

AbsentAgain(t) ==
    /\ Looking(t) /\ MayBeAbsent(t, Current(t))
    /\ orders[t][Current(t)].status \notin {"cancel_pending", "created", "unknown"}
    /\ MarkUnknown(t, Current(t))
    /\ PassEnds
    /\ UNCHANGED <<control, tasks, admin, exch, crashes>>

\* _submit_order: a created or unknown order that is not found is sent, with
\* the client order id of its row.  The exchange takes an id once.
SendOrder(t) ==
    /\ Looking(t) /\ MayBeAbsent(t, Current(t))
    /\ orders[t][Current(t)].status \in {"created", "unknown"}
    /\ exch' = [exch EXCEPT ![t][Current(t)].at = IF @ = "none" THEN "sent" ELSE @]
    /\ pc' = "answer" /\ UNCHANGED w
    /\ UNCHANGED <<control, tasks, admin, orders, crashes>>

\* mark_execution_order_submitted
Acknowledged(t) ==
    /\ pc = "answer" /\ w.task = t
    /\ exch[t][Current(t)].at \in {"live", "done"}
    /\ SetOrder(t, Current(t), "submitted")
    /\ PassEnds
    /\ UNCHANGED <<control, tasks, admin, exch, crashes>>

\* The request, or its answer, is lost or an error: it may have arrived.
AnswerLost(t) ==
    /\ pc = "answer" /\ w.task = t
    /\ SetOrder(t, Current(t), "unknown")
    /\ PassEnds
    /\ UNCHANGED <<control, tasks, admin, exch, crashes>>

\* Found, but the fills are not complete.
FillsIncomplete(t) ==
    /\ pc = "found" /\ w.task = t
    /\ MarkUnknown(t, Current(t))
    /\ PassEnds
    /\ UNCHANGED <<control, tasks, admin, exch, crashes>>

\* Variant: the exchange's own word is stored.
ObservedVerbatim(t, i) ==
    IF exch[t][i].got >= orders[t][i].quantity THEN "filled" ELSE w.seen

\* Variant: an order whose cancel was requested counts as canceled.
ObservedCanceled(t, i) ==
    IF exch[t][i].got >= orders[t][i].quantity THEN "filled"
    ELSE IF w.seen \in {"canceled", "filled"} THEN w.seen
    ELSE IF orders[t][i].status = "cancel_pending" THEN "canceled"
    ELSE IF exch[t][i].got > 0 THEN "partially_filled"
    ELSE IF w.seen = "live" THEN "acknowledged" ELSE "unknown"

\* _remote_status, and a pending cancel that stays pending unless the order is
\* seen to have ended.
Observed(t, i) ==
    IF exch[t][i].got >= orders[t][i].quantity THEN "filled"
    ELSE IF w.seen \in {"canceled", "filled"} THEN w.seen
    ELSE IF orders[t][i].status = "cancel_pending" THEN "cancel_pending"
    ELSE IF exch[t][i].got > 0 THEN "partially_filled"
    ELSE IF w.seen = "live" THEN "acknowledged" ELSE "unknown"

Observe(t) ==
    /\ pc = "found" /\ w.task = t
    /\ LET i == Current(t)
           status == Observed(t, i)
       IN  /\ Record(t, i, status)
           /\ IF orders[t][i].mode = "maker"
                 /\ status \in {"acknowledged", "partially_filled"}
              THEN pc' = "chase" /\ UNCHANGED w
              ELSE PassEnds
    /\ UNCHANGED <<control, tasks, admin, exch, crashes>>

\* The price is still within its book level, or the book is unavailable.
KeepOrder(t) ==
    /\ pc = "chase" /\ w.task = t
    /\ PassEnds
    /\ UNCHANGED <<control, tasks, admin, orders, exch, crashes>>

\* cancel_order, then mark_execution_order_cancel_pending
ChaseOrder(t) ==
    /\ pc = "chase" /\ w.task = t
    /\ SetOrder(t, Current(t), "cancel_pending")
    /\ PassEnds
    /\ UNCHANGED <<control, tasks, admin, exch, crashes>>

Crash ==
    /\ crashes < MaxCrashes /\ pc # "idle"
    /\ crashes' = crashes + 1
    /\ PassEnds
    /\ UNCHANGED <<control, tasks, admin, orders, exch>>

---------------------------------------------------------------------------
(* The exchange *)

Accept(t, i) ==
    /\ exch[t][i].at = "sent"
    /\ exch' = [exch EXCEPT ![t][i].at = "live"]

\* The id of a refused order is free again.
Refuse(t, i) ==
    /\ "refuse" \in Faults
    /\ exch[t][i].at = "sent"
    /\ exch' = [exch EXCEPT ![t][i].at = "none"]

Fill(t, i) ==
    /\ exch[t][i].at = "live"
    /\ exch' = [exch EXCEPT ![t][i] =
          [at |-> IF @.got + 1 = orders[t][i].quantity THEN "done" ELSE "live",
           got |-> @.got + 1]]

\* An IOC order expires, a maker order is canceled or expires.
EndOrder(t, i) ==
    /\ exch[t][i].at = "live"
    /\ exch' = [exch EXCEPT ![t][i].at = "done"]

ExchangeStep(t, i) ==
    /\ Accept(t, i) \/ Refuse(t, i) \/ Fill(t, i) \/ EndOrder(t, i)
    /\ UNCHANGED <<control, tasks, admin, orders, work, crashes>>

---------------------------------------------------------------------------

Administrator(t) ==
    \/ CreateTask(t) \/ PreflightRead(t) \/ PreflightRefused(t)
    \/ PreflightReady(t) \/ PreflightExpires(t) \/ StartTask(t) \/ CancelTask(t)

PaperStep(t) == PaperClaim(t) \/ PaperComplete(t) \/ PaperFail(t)

LookupStep(t) ==
    \/ LookupIncomplete(t) \/ LookupFound(t)
    \/ AbsentCanceled(t) \/ AbsentAgain(t) \/ SendOrder(t)

WorkerStep(t) ==
    \/ Claim(t) \/ Raise(t)
    \/ CreateNextOrder(t) \/ CompleteTask(t)
    \/ CreateCompensation(t) \/ CompensationDone(t)
    \/ LookupStep(t)
    \/ Acknowledged(t) \/ AnswerLost(t)
    \/ FillsIncomplete(t) \/ Observe(t)
    \/ KeepOrder(t) \/ ChaseOrder(t)

Next ==
    \/ ControlChanges \/ Crash
    \/ \E t \in Tasks : Administrator(t) \/ PaperStep(t) \/ WorkerStep(t)
    \/ \E t \in Tasks : \E i \in DOMAIN exch[t] : ExchangeStep(t, i)

Spec == Init /\ [][Next]_vars

\* The worker process goes on, every pass of it begins with the paper tasks, its
\* lookups and fill queries show the order again and again, and the exchange handles what it is sent and ends what is
\* in its book: an IOC order at once, a maker order because it is filled or
\* because the price moves away and it is chased.
FairSpec ==
    /\ Spec
    /\ \A t \in PaperTasks : SF_vars(PaperStep(t))
    /\ \A t \in Tasks \ PaperTasks :
         /\ WF_vars(WorkerStep(t))
         /\ SF_vars(LookupFound(t)) /\ SF_vars(Observe(t)) /\ SF_vars(SendOrder(t))
         /\ WF_vars(\E i \in DOMAIN exch[t] :
                (Accept(t, i) \/ EndOrder(t, i))
                    /\ UNCHANGED <<control, tasks, admin, orders, work, crashes>>)

---------------------------------------------------------------------------
(* What the exchange holds of each leg *)

Got(t, leg, purpose) ==
    SumFunctionOnSet([i \in DOMAIN exch[t] |-> exch[t][i].got],
                     OfPurpose(t, leg, purpose))

AtExchange(t) == {i \in DOMAIN exch[t] : exch[t][i].at \in {"sent", "live"}}

OneOrder(leg) == IF PerOrder[leg] = 0 THEN Target[leg] ELSE PerOrder[leg]

---------------------------------------------------------------------------
(* Properties *)

\* Types.
TypeOK ==
    /\ control \in {"ready", "paused"}
    /\ tasks \in [Tasks -> TaskStatuses]
    /\ stale \subseteq Tasks /\ pre \subseteq Tasks
    /\ orders \in [Tasks -> Seq(OrderRows)]
    /\ exch \in [Tasks -> Seq(ExchRows)]
    /\ pc \in Steps
    /\ w \in [task : {0} \cup Tasks, seen : {"none"} \cup LiveWords \cup DoneWords]
    /\ crashes \in 0..MaxCrashes

\* No order is created beside one that could still be filled: all orders of a
\* task but the last have ended at the exchange, and the ledger has their fills.
SupersededOrdersEnded ==
    \A t \in Tasks : \A i \in DOMAIN orders[t] :
        i < Last(t) =>
            /\ orders[t][i].status \in Ended
            /\ exch[t][i].at = "done"
            /\ orders[t][i].filled = exch[t][i].got

\* Through chases, retries, lost answers and restarts a leg is never filled
\* beyond its target, and never traded back beyond what was filled.
NothingOverfilled ==
    \A t \in Tasks : \A leg \in Legs :
        /\ Got(t, leg, "primary") <= Target[leg]
        /\ Got(t, leg, "compensation") <= Got(t, leg, "primary")

\* A hedge is never ahead of the anchor it hedges.
HedgeNeverLeads ==
    \A t \in Tasks \ PaperTasks : \A leg \in Hedges :
        Got(t, leg, "primary") * Target[Anchor]
            <= Got(t, Anchor, "primary") * Target[leg]

\* What the anchor holds beyond its hedges is at most one of its orders, after
\* what the hedges wait for.
ExposureWithinOneOrder ==
    \A t \in Tasks \ PaperTasks : \A leg \in Hedges :
        Got(t, Anchor, "primary") * Target[leg]
            - Got(t, leg, "primary") * Target[Anchor]
            <= (Max({HedgeFrom - 1, 0}) + OneOrder(Anchor)) * Target[leg]

CompletedIsHedged(t) ==
    tasks[t] = "completed" =>
        /\ \A leg \in Legs : Got(t, leg, "primary") = Target[leg]
        /\ AtExchange(t) = {}

FailedIsFlat(t) ==
    (tasks[t] = "failed" /\ \A i \in DOMAIN orders[t] : orders[t][i].status # "created") =>
        /\ \A leg \in Legs : Got(t, leg, "primary") = Got(t, leg, "compensation")
        /\ AtExchange(t) = {}

\* A completed task holds every leg at its target, and a failed one holds
\* nothing unless its last order was never recorded as sent; neither has an
\* order left at the exchange.
FinishedAsRecorded == \A t \in Tasks : CompletedIsHedged(t) /\ FailedIsFlat(t)

\* A lookup shows an order that has ended, in a word _remote_status does not know.
EndUnrecognised ==
    w.seen = "other" /\ exch[w.task][Current(w.task)].at = "done"

\* A task the worker has taken up is completed, failed or under review in the
\* end, a live one unless lookups show again and again an order that has ended
\* in a word _remote_status does not know: such an order is looked at for ever.
TasksResolve ==
    \A t \in Tasks : tasks[t] \in {"running", "hedging", "compensating"}
        ~> \/ tasks[t] \in Finished
           \/ t \notin PaperTasks /\ EndUnrecognised
=============================================================================
