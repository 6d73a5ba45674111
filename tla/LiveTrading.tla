---------------------------- MODULE LiveTrading ----------------------------
(***************************************************************************)
(* The live two-leg trading core: the API plans intents, the one worker    *)
(* process submits, compensates, reconciles and settles them, and the      *)
(* exchange accepts, fills, rejects or loses the orders.                   *)
(*                                                                         *)
(* One exchange account and one base asset.  A worker step is one database *)
(* transaction or one exchange call, so every other actor can act between  *)
(* two of them.  Quantities are base-asset units: base_multiplier is       *)
(* folded into them, SpotGrid and PerpGrid are the quantity increments and *)
(* Lot is the quantity of an opening intent, a multiple of both.  Prices,  *)
(* slippage and fee amounts are abstracted: whether a fee can be valued is *)
(* a free choice of the settlement that needs it.                          *)
(***************************************************************************)
EXTENDS Integers, FiniteSets, FiniteSetsExt, Functions

CONSTANTS
    MaxIntents,    \* bound: intents created in one behaviour
    MaxOpens,      \* bound: opening intents among them
    Lot,           \* quantity of an opening intent
    SpotGrid,      \* spot quantity increment
    PerpGrid,      \* perpetual quantity increment
    Sequential,    \* Gate sandbox: perpetual leg first, spot after its ACK
    Faults,        \* what else may go wrong: "crash" of the worker process,
                   \* "preflight", "lookup" or "account" failures, and a
                   \* request that arrives "late", after its call failed
    Controls       \* which of the administrator's control actions may happen

ASSUME BoundAssumption == MaxIntents \in Nat \ {0} /\ MaxOpens \in 1..MaxIntents
ASSUME GridAssumption ==
    /\ SpotGrid \in Nat \ {0} /\ PerpGrid \in Nat \ {0} /\ Lot \in Nat \ {0}
    /\ Lot % SpotGrid = 0 /\ Lot % PerpGrid = 0
ASSUME SwitchAssumption ==
    /\ Sequential \in BOOLEAN
    /\ Faults \subseteq {"crash", "preflight", "lookup", "account", "late"}
    /\ Controls \subseteq {"pause", "resume", "request", "emergency"}

Intents == 1..MaxIntents          \* numbered in the order of created_at
Kinds   == {"spot", "perp", "comp"}
LegIds  == Intents \X Kinds
Markets == {"spot", "perp"}
Sides   == {"buy", "sell"}

Primary(i) == {<<i, "spot">>, <<i, "perp">>}
Legs(i)    == Primary(i) \cup {<<i, "comp">>}

VARIABLES
    control,       \* the execution_control row's state
    intents,       \* the trade_intents rows
    legs,          \* the order_legs rows
    positions,     \* the paired_positions rows, keyed by opening intent
    orders,        \* the exchange's book, keyed by client order id
    held,          \* the exchange account: spot held long, perpetual held short
    sent,          \* how often each client order id was put on the wire
    pc,            \* the worker's next step
    w,             \* the worker's memory, lost in a crash
    api            \* a confirmation between its control check and its insert

db     == <<control, intents, legs, positions>>
remote == <<orders, held>>
vars   == <<db, remote, sent, pc, w, api>>

---------------------------------------------------------------------------
(* Rows *)

ControlStates  == {"ready", "paused", "reconciling", "blocked"}
IntentStatuses == {"none", "planned", "executing", "hedged", "compensating",
                   "manual_review", "closed", "failed"}
LegStatuses    == {"absent", "created", "submitted", "acknowledged", "unknown",
                   "partially_filled", "filled", "canceled", "failed"}
OrderStates    == {"none", "inflight", "lost", "live", "done", "rejected"}

IntentRow(action, pos, emergency) ==
    [action |-> action, pos |-> pos, emergency |-> emergency, status |-> "planned"]
NoIntent == [action |-> "open", pos |-> 0, emergency |-> FALSE, status |-> "none"]

LegRow(market, side, qty) ==
    [status |-> "created", market |-> market, side |-> side, qty |-> qty,
     filled |-> 0, linked |-> FALSE, target |-> 0, tol |-> 0]
NoLeg == [LegRow("spot", "buy", 0) EXCEPT !.status = "absent"]

NoPosition == [status |-> "none", qty |-> 0, closer |-> 0]
NoOrder    == [state |-> "none", filled |-> 0]

\* The worker's memory.  stage: which service runs; cur: its intent; queue:
\* intents still to examine or to settle; send, await: legs to put on the
\* wire, legs whose outcome is not recorded yet; resp: the outcomes; todo:
\* legs still to reconcile; safety: the pause seen at the start of the run;
\* open, perp: the trading state as observed; ok: nothing blocks so far.
Fresh == [stage |-> "exec", cur |-> 0, queue |-> {}, send |-> {}, await |-> {},
          resp |-> [k \in Kinds |-> "none"], todo |-> {}, safety |-> FALSE,
          open |-> {}, perp |-> 0, ok |-> FALSE]

Init ==
    /\ control = "blocked"
    /\ intents = [i \in Intents |-> NoIntent]
    /\ legs = [l \in LegIds |-> NoLeg]
    /\ positions = [i \in Intents |-> NoPosition]
    /\ orders = [l \in LegIds |-> NoOrder]
    /\ held = [m \in Markets |-> 0]
    /\ sent = [l \in LegIds |-> 0]
    /\ pc = "exec"
    /\ w = Fresh
    /\ api = "none"

---------------------------------------------------------------------------
(* The exchange's truth and the local ledger *)

LiveOrders == {l \in LegIds : orders[l].state = "live"}

ActivePositions == {p \in Intents : positions[p].status \in {"open", "closing"}}

\* paired_perp_exposures, aggregated over the one symbol.
PairedPerpExposure ==
    LET quantity(p) == positions[p].qty IN MapThenSumSet(quantity, ActivePositions)

---------------------------------------------------------------------------
(* The API and the exchange: everything the worker does not schedule *)

Unplanned == {i \in Intents : intents[i].status = "none"}

PauseExecution ==
    /\ "pause" \in Controls
    /\ control' = "paused"
    /\ UNCHANGED <<intents, legs, positions, remote, sent, pc, w, api>>

ResumeExecution ==
    /\ "resume" \in Controls
    /\ control' = "reconciling"
    /\ UNCHANGED <<intents, legs, positions, remote, sent, pc, w, api>>

\* A credential change, or the stream manager's first pass after a start.
RequestReconciliation ==
    /\ "request" \in Controls
    /\ control # "paused"
    /\ control' = "reconciling"
    /\ UNCHANGED <<intents, legs, positions, remote, sent, pc, w, api>>

\* A confirmation reads the control row in one session and inserts the
\* intent in a later one; an emergency close writes the pause first.
Confirm(kind) ==
    /\ api = "none" /\ Unplanned # {}
    /\ api' = kind
    /\ IF kind = "emergency"
       THEN "emergency" \in Controls /\ control' = "paused"
       ELSE control = "ready" /\ UNCHANGED control
    /\ UNCHANGED <<intents, legs, positions, remote, sent, pc, w>>

ConfirmationFails ==
    /\ api # "none"
    /\ api' = "none"
    /\ UNCHANGED <<db, remote, sent, pc, w>>

Opens == {i \in Intents : intents[i].action = "open" /\ intents[i].status # "none"}

PlanOpen ==
    /\ api = "open"
    /\ Cardinality(Opens) < MaxOpens
    /\ api' = "none"
    /\ \E i \in Unplanned :
        /\ \A j \in Unplanned : i <= j
        /\ intents' = [intents EXCEPT ![i] = IntentRow("open", 0, FALSE)]
        /\ legs' = [legs EXCEPT ![<<i, "spot">>] = LegRow("spot", "buy", Lot),
                                ![<<i, "perp">>] = LegRow("perp", "sell", Lot)]
    /\ UNCHANGED <<control, positions, remote, sent, pc, w>>

Closable(p) == positions[p].status = "open" /\ positions[p].closer = 0

PlanClose(p) ==
    /\ api \in {"close", "emergency"}
    /\ api' = "none"
    /\ Closable(p)
    /\ \E i \in Unplanned :
        /\ \A j \in Unplanned : i <= j
        /\ intents' = [intents EXCEPT ![i] = IntentRow("close", p, api = "emergency")]
        /\ legs' = [legs EXCEPT
                      ![<<i, "spot">>] = LegRow("spot", "sell", positions[p].qty),
                      ![<<i, "perp">>] = LegRow("perp", "buy", positions[p].qty)]
        /\ positions' = [positions EXCEPT ![p].status = "closing", ![p].closer = i]
    /\ UNCHANGED <<control, remote, sent, pc, w>>

\* An order on the wire reaches the book, is refused, or is lost on the way.
Arrive(l) ==
    /\ orders[l].state = "inflight"
    /\ \E s \in {"live", "rejected", "lost"} :
         orders' = [orders EXCEPT ![l].state = s]
    /\ UNCHANGED <<held, db, sent, pc, w, api>>

Grid(l) == IF legs[l].market = "spot" THEN SpotGrid ELSE PerpGrid

\* Buying spot and selling the perpetual adds to what the account holds.
Adds(l) == legs[l].side = (IF legs[l].market = "spot" THEN "buy" ELSE "sell")

\* Spot cannot be sold, and a reduce-only order cannot buy, beyond what is held.
Fillable(l) ==
    LET rest == legs[l].qty - orders[l].filled
    IN  {q \in 1..rest : q % Grid(l) = 0 /\ (Adds(l) \/ q <= held[legs[l].market])}

Trade(l) ==
    /\ orders[l].state = "live"
    /\ \E q \in Fillable(l) :
         /\ orders' = [orders EXCEPT ![l].filled = @ + q,
                                     ![l].state = IF orders[l].filled + q = legs[l].qty
                                                  THEN "done" ELSE "live"]
         /\ held' = [held EXCEPT ![legs[l].market] = IF Adds(l) THEN @ + q ELSE @ - q]
    /\ UNCHANGED <<db, sent, pc, w, api>>

\* Immediate-or-cancel: the rest of the order is canceled.
Expire(l) ==
    /\ orders[l].state = "live"
    /\ orders' = [orders EXCEPT ![l].state = "done"]
    /\ UNCHANGED <<held, db, sent, pc, w, api>>

---------------------------------------------------------------------------
(* LiveExecutionService.run_once *)

Candidates ==
    {i \in Intents : /\ intents[i].status = "planned"
                     /\ control = "ready" \/ intents[i].emergency}
First(i, S) == i \in S /\ \A j \in S : i <= j

ExecRead ==
    /\ pc = "exec"
    /\ IF control \in {"ready", "paused"} /\ Candidates # {}
       THEN pc' = "examine" /\ w' = [Fresh EXCEPT !.queue = Candidates]
       ELSE pc' = "comp" /\ w' = [Fresh EXCEPT !.stage = "pre"]
    /\ UNCHANGED <<db, remote, sent, api>>

\* The loop goes on to the next candidate, or the compensator follows.
NextCandidate(i) ==
    LET rest == w.queue \ {i}
    IN  IF rest # {}
        THEN pc' = "examine" /\ w' = [Fresh EXCEPT !.queue = rest]
        ELSE pc' = "comp" /\ w' = [Fresh EXCEPT !.stage = "pre"]

\* A close that will not be submitted gives its position back.
Released(i) ==
    LET p == intents[i].pos
    IN  IF /\ intents[i].action = "close"
           /\ positions[p].status = "closing" /\ positions[p].closer = i
        THEN [positions EXCEPT ![p].status = "open", ![p].closer = 0]
        ELSE positions

DropPlanned(i) ==
    /\ First(i, w.queue)
    /\ intents[i].status = "planned"
    /\ positions' = Released(i)
    /\ intents' = [intents EXCEPT ![i].status = "failed"]
    /\ NextCandidate(i)
    /\ UNCHANGED <<control, legs, remote, sent, api>>

\* The market observation is older than 15 seconds.
ExpirePlanned(i) == pc = "examine" /\ DropPlanned(i)

\* The Gate sandbox price guard: no executable price, or no answer (retried
\* in a later run, as long as the market observation lasts).
GuardUnexecutable(i) == Sequential /\ pc = "prepare" /\ DropPlanned(i)
GuardUnavailable(i) ==
    /\ Sequential /\ pc = "prepare" /\ First(i, w.queue)
    /\ NextCandidate(i)
    /\ UNCHANGED <<db, remote, sent, api>>

\* _validate_close_state, with the row conditions prepare repeats.
ReservedFor(i) ==
    LET p == intents[i].pos
    IN  /\ positions[p].status = "closing" /\ positions[p].closer = i
        /\ legs[<<i, "spot">>].qty = positions[p].qty
        /\ legs[<<i, "perp">>].qty = positions[p].qty

\* No remote open orders, and the short positions are the ledger's.
AccountMatches(i) ==
    /\ LiveOrders = {}
    /\ held["perp"] = PairedPerpExposure
    /\ intents[i].action = "close" => ReservedFor(i)

PreflightPass(i) ==
    /\ pc = "examine" /\ First(i, w.queue)
    /\ AccountMatches(i)
    /\ pc' = "prepare"
    /\ UNCHANGED <<db, remote, sent, w, api>>

\* Credentials, network, permission, balance: anything else may fail it too.
\* The intent stays planned; the pause is written unconditionally.
PreflightFail(i) ==
    /\ pc \in {"examine", "prepare"} /\ First(i, w.queue)
    /\ "preflight" \in Faults \/ (pc = "examine" /\ ~AccountMatches(i))
    /\ control' = "paused"
    /\ pc' = "comp"
    /\ w' = [Fresh EXCEPT !.stage = "pre"]
    /\ UNCHANGED <<intents, legs, positions, remote, sent, api>>

MaySubmit(i) ==
    control = "ready" \/ (control = "paused" /\ intents[i].emergency)

\* Variant: the legs are journaled only after the exchange answered.
SubmittedUnjournaled(i) ==
    /\ pc = "prepare" /\ First(i, w.queue)
    /\ MaySubmit(i)
    /\ intents' = [intents EXCEPT ![i].status = "executing"]
    /\ w' = [Fresh EXCEPT !.cur = i, !.send = Primary(i)]
    /\ pc' = "place"
    /\ UNCHANGED <<control, legs, positions, remote, sent, api>>

PrepareLiveSubmission(i) ==
    /\ pc = "prepare" /\ First(i, w.queue)
    /\ intents[i].status = "planned"
    /\ MaySubmit(i)
    /\ \A l \in Primary(i) : legs[l].status = "created"
    /\ intents[i].action = "close" => ReservedFor(i)
    /\ intents' = [intents EXCEPT ![i].status = "executing"]
    /\ legs' = [l \in LegIds |-> IF l \in Primary(i)
                                 THEN [legs[l] EXCEPT !.status = "submitted"]
                                 ELSE legs[l]]
    /\ w' = [Fresh EXCEPT !.cur = i, !.send = Primary(i)]
    /\ pc' = "place"
    /\ UNCHANGED <<control, positions, remote, sent, api>>

\* The locked control row no longer allows it: nothing is written.
PrepareDenied(i) ==
    /\ pc = "prepare" /\ First(i, w.queue)
    /\ ~MaySubmit(i)
    /\ NextCandidate(i)
    /\ UNCHANGED <<db, remote, sent, api>>

---------------------------------------------------------------------------
(* Placing prepared legs: shared by the executor and the compensator *)

\* Where run_once goes on when a service returns.
ServiceDone ==
    CASE w.stage = "exec" -> pc' = "comp" /\ w' = [Fresh EXCEPT !.stage = "pre"]
      [] w.stage = "pre"  -> pc' = "recon" /\ w' = Fresh
      [] w.stage = "post" -> pc' = "final" /\ w' = [Fresh EXCEPT !.safety = w.safety,
                                                                 !.ok = w.ok]

\* Variant: the Gate sandbox legs are sent together.
SentTogether(l) ==
    /\ pc = "place" /\ l \in w.send
    /\ orders' = [orders EXCEPT ![l].state = "inflight"]
    /\ sent' = [sent EXCEPT ![l] = @ + 1]
    /\ w' = [w EXCEPT !.send = @ \ {l}, !.await = @ \cup {l}]
    /\ UNCHANGED <<held, db, pc, api>>

\* gather sends both legs; the Gate sandbox sends the spot leg only after
\* the perpetual leg's acknowledgement.
Submit(l) ==
    /\ pc = "place" /\ l \in w.send
    /\ (Sequential /\ l[2] = "spot") => w.resp["perp"] = "ack"
    /\ orders' = [orders EXCEPT ![l].state = "inflight"]
    /\ sent' = [sent EXCEPT ![l] = @ + 1]
    /\ w' = [w EXCEPT !.send = @ \ {l}, !.await = @ \cup {l}]
    /\ UNCHANGED <<held, db, pc, api>>

\* The call returns.  An acknowledgement or a definitive 4xx tells what the
\* exchange did; any other exception leaves it open, the "late" fault even
\* whether the request is still on its way.
Outcomes(l) ==
    (IF orders[l].state \in {"live", "done"} THEN {"ack"} ELSE {})
        \cup (IF orders[l].state = "rejected" THEN {"reject"} ELSE {})
        \cup {"error"}

Respond(l) ==
    /\ pc = "place" /\ l \in w.await /\ w.resp[l[2]] = "none"
    /\ orders[l].state # "inflight" \/ "late" \in Faults
    /\ \E r \in Outcomes(l) : w' = [w EXCEPT !.resp[l[2]] = r]
    /\ UNCHANGED <<db, remote, sent, pc, api>>

\* The remaining leg is rejected locally when the first one did not pass.
SkipSpot(l) ==
    /\ pc = "place" /\ Sequential /\ l \in w.send /\ l[2] = "spot"
    /\ w.resp["perp"] \in {"reject", "error"}
    /\ legs' = [legs EXCEPT ![l].status = IF @ = "submitted" THEN "failed" ELSE @]
    /\ control' = "paused"
    /\ w' = [w EXCEPT !.send = {}]
    /\ UNCHANGED <<intents, positions, remote, sent, pc, api>>

\* A primary leg's definitive rejection is told from an unknown outcome; the
\* compensator treats every exception as unknown.
RecordedStatus(k, r) ==
    CASE r = "ack" -> "acknowledged"
      [] r = "reject" /\ k # "comp" -> "failed"
      [] OTHER -> "unknown"

Later == IF Sequential THEN "spot" ELSE "perp"   \* recorded second

RecordOutcome(l) ==
    /\ pc = "place" /\ w.send = {} /\ l \in w.await
    /\ \A m \in w.await : /\ w.resp[m[2]] # "none"
                          /\ m = l \/ m[2] = Later
    /\ LET s == RecordedStatus(l[2], w.resp[l[2]]) IN
         /\ legs' = [legs EXCEPT
                       ![l].status = IF @ = "submitted" THEN s ELSE @,
                       ![l].linked = @ \/ s = "acknowledged"]
         /\ control' = IF s = "acknowledged" THEN control ELSE "paused"
    /\ IF w.await = {l}
       THEN ServiceDone
       ELSE w' = [w EXCEPT !.await = @ \ {l}] /\ UNCHANGED pc
    /\ UNCHANGED <<intents, positions, remote, sent, api>>

---------------------------------------------------------------------------
(* LiveCompensationService.run_once, before and after the accounts *)

Compensating == {i \in Intents : intents[i].status = "compensating"}

\* compensation_quantity: a buy is rounded up to the increment, a sale down.
Executable(l) ==
    LET g == Grid(l)
        q == legs[l].qty
    IN  IF legs[l].side = "buy" THEN ((q + g - 1) \div g) * g ELSE (q \div g) * g

\* Only the oldest compensating intent is looked at.
CompensationStart(i) ==
    /\ pc = "comp"
    /\ control = "paused"
    /\ First(i, Compensating)
    /\ legs[<<i, "comp">>].status = "created"
    /\ Executable(<<i, "comp">>) > 0
    /\ LiveOrders = {}
    /\ w' = [w EXCEPT !.cur = i]
    /\ pc' = "compPrepare"
    /\ UNCHANGED <<db, remote, sent, api>>

\* Not paused, nothing to do, stale market, thin book, open orders, ...
CompensationSkip ==
    /\ pc = "comp"
    /\ ServiceDone
    /\ UNCHANGED <<db, remote, sent, api>>

PrepareLiveCompensation(i) ==
    LET l == <<i, "comp">> IN
    /\ pc = "compPrepare" /\ i = w.cur
    /\ IF /\ intents[i].status = "compensating"
          /\ legs[l].status = "created"
          /\ control = "paused"
       THEN /\ legs' = [legs EXCEPT ![l].status = "submitted",
                                    ![l].qty = Executable(l),
                                    ![l].tol = Grid(l)]
            /\ w' = [w EXCEPT !.send = {l}]
            /\ pc' = "place"
       ELSE ServiceDone /\ UNCHANGED legs
    /\ UNCHANGED <<control, intents, positions, remote, sent, api>>

---------------------------------------------------------------------------
(* ReconciliationService.run_once: the account's REST reconciliation *)

\* Variant: the pause in force when the run starts is not looked at.
PauseIgnored ==
    /\ pc = "recon"
    /\ w' = Fresh
    /\ pc' = "mark"
    /\ UNCHANGED <<db, remote, sent, api>>

ReconRead ==
    /\ pc = "recon"
    /\ w' = [Fresh EXCEPT !.safety = (control = "paused")]
    /\ pc' = IF control = "paused" THEN "observe" ELSE "mark"
    /\ UNCHANGED <<db, remote, sent, api>>

\* Written without a look at the row: a pause of the meantime is replaced.
MarkReconciling ==
    /\ pc = "mark"
    /\ control' = "reconciling"
    /\ pc' = "observe"
    /\ UNCHANGED <<intents, legs, positions, remote, sent, w, api>>

Settled == {"closed", "failed"}

\* order_legs_for_reconciliation
Reconcilable == {l \in LegIds : /\ intents[l[1]].status \notin Settled \cup {"none"}
                                /\ legs[l].status # "absent"}

\* The trading state, the cancellations of a safety pause (each may fail) and
\* the list of local legs.
Observe ==
    /\ pc = "observe"
    /\ \E C \in SUBSET LiveOrders :
         /\ C = {} \/ w.safety
         /\ orders' = [l \in LegIds |-> IF l \in C
                                        THEN [orders[l] EXCEPT !.state = "done"]
                                        ELSE orders[l]]
    /\ w' = [w EXCEPT !.open = LiveOrders, !.perp = held["perp"],
                      !.todo = Reconcilable, !.ok = TRUE]
    /\ pc' = "legs"
    /\ UNCHANGED <<held, db, sent, api>>

Recoverable == {"submitted", "acknowledged", "partially_filled", "unknown"}
Terminal    == {"filled", "canceled", "failed"}

\* Variant: the exchange's wording is stored as it came.
RawStatus(leg, order) == order.state

\* reconcile_remote_order: what a found order makes of the local status.
RemoteStatus(leg, order) ==
    CASE order.state = "rejected" -> "failed"
      [] order.state = "done" /\ order.filled < leg.qty -> "canceled"
      [] OTHER -> IF leg.status \in {"submitted", "unknown"}
                  THEN "acknowledged" ELSE leg.status

\* persist_remote_fills: the status derived from the persisted quantity.
FilledStatus(leg, filled) ==
    IF filled >= leg.qty THEN "filled"
    ELSE IF filled > 0 /\ leg.status \notin {"canceled", "failed"} THEN "partially_filled"
    ELSE leg.status

WithFills(leg, filled) ==
    [leg EXCEPT !.filled = filled, !.status = FilledStatus(leg, filled)]

\* Variant: an incomplete batch of fills passes for a complete one.
TruncatedFills(l, leg, ok) ==
    \E f \in {leg.filled, orders[l].filled} :
        /\ legs' = [legs EXCEPT ![l] = WithFills(leg, f)]
        /\ w' = [w EXCEPT !.todo = @ \ {l}, !.ok = ok]

\* fills_for_order of a linked leg: the whole batch, or an incomplete one.
ReadFills(l, leg, ok) ==
    \/ /\ legs' = [legs EXCEPT ![l] = WithFills(leg, orders[l].filled)]
       /\ w' = [w EXCEPT !.todo = @ \ {l}, !.ok = ok]
    \/ /\ "lookup" \in Faults
       /\ legs' = [legs EXCEPT ![l] = WithFills(leg, leg.filled)]
       /\ w' = [w EXCEPT !.todo = @ \ {l}, !.ok = FALSE]

\* Variants: any leg that is not found is given up; an unknown one is to be
\* sent again; no leg is ever given up.
AnyNotFound(leg)   == IF ~leg.linked THEN [leg EXCEPT !.status = "failed"] ELSE leg
RetryNotFound(leg) == IF leg.status = "unknown" /\ ~leg.linked
                      THEN [leg EXCEPT !.status = "created"] ELSE leg
KeepNotFound(leg)  == leg

\* An unknown leg that the exchange does not know never became an order.
NotFound(leg) ==
    IF leg.status = "unknown" /\ ~leg.linked
    THEN [leg EXCEPT !.status = "failed"] ELSE leg

Unlinked(l, leg, ok) ==
    /\ legs' = [legs EXCEPT ![l] = leg]
    /\ w' = [w EXCEPT !.todo = @ \ {l},
                      !.ok = ok /\ leg.status \in {"created", "failed", "canceled"}]

Listed(l)   == orders[l].state \in {"live", "done"}
Rank(l)     == 3 * l[1] + (CASE l[2] = "spot" -> 0 [] l[2] = "perp" -> 1 [] OTHER -> 2)
NextLeg(l)  == l \in w.todo /\ \A m \in w.todo : Rank(l) <= Rank(m)

\* order_by_client_id finds the order (a refused one may be listed or not),
\* then the fills are read.
LookupFound(l) ==
    /\ pc = "legs" /\ NextLeg(l)
    /\ legs[l].status \in Recoverable
    /\ Listed(l) \/ orders[l].state = "rejected"
    /\ ReadFills(l, [legs[l] EXCEPT !.linked = TRUE,
                                    !.status = RemoteStatus(legs[l], orders[l])], w.ok)
    /\ UNCHANGED <<control, intents, positions, remote, sent, pc, api>>

LookupMissing(l) ==
    /\ pc = "legs" /\ NextLeg(l)
    /\ legs[l].status \in Recoverable
    /\ ~Listed(l)
    /\ LET leg == NotFound(legs[l]) IN
         IF leg.linked THEN ReadFills(l, leg, FALSE)
         ELSE Unlinked(l, leg, w.ok)
    /\ UNCHANGED <<control, intents, positions, remote, sent, pc, api>>

LookupIncomplete(l) ==
    /\ pc = "legs" /\ NextLeg(l)
    /\ "lookup" \in Faults
    /\ legs[l].status \in Recoverable
    /\ IF legs[l].linked THEN ReadFills(l, legs[l], FALSE)
       ELSE Unlinked(l, legs[l], FALSE)
    /\ UNCHANGED <<control, intents, positions, remote, sent, pc, api>>

\* Legs that are not looked up have their fills read again when linked.
NoLookup(l) ==
    /\ pc = "legs" /\ NextLeg(l)
    /\ legs[l].status \notin Recoverable
    /\ IF legs[l].linked THEN ReadFills(l, legs[l], w.ok)
       ELSE Unlinked(l, legs[l], w.ok)
    /\ UNCHANGED <<control, intents, positions, remote, sent, pc, api>>

\* Settlement waits for complete orders and fills.  Only intents whose legs
\* were listed are settled; a planned one is neither.
LegsDone ==
    /\ pc = "legs" /\ w.todo = {}
    /\ pc' = "settle"
    /\ w' = [w EXCEPT !.queue = IF w.ok
                                THEN {i \in Intents : intents[i].status
                                                       \in {"executing", "compensating"}}
                                ELSE {}]
    /\ UNCHANGED <<db, remote, sent, api>>

\* Variant: open orders at the exchange are no reason to block.
ReasonsWithoutOrders == ~w.ok \/ w.perp # PairedPerpExposure

\* The reasons that block an account; any other reason (stream, permission,
\* position mode) may come on top.
AccountReasons ==
    \/ ~w.ok
    \/ w.open # {}
    \/ w.perp # PairedPerpExposure

AccountResult ==
    /\ pc = "settle" /\ w.queue = {}
    /\ \E ready \in BOOLEAN :
         /\ ready => ~AccountReasons
         /\ ready \/ AccountReasons \/ "account" \in Faults
         /\ w' = [Fresh EXCEPT !.stage = "post", !.safety = w.safety, !.ok = ready]
    /\ pc' = "comp"
    /\ UNCHANGED <<db, remote, sent, api>>

\* Any exception while the account is handled is caught and recorded.
AccountError ==
    /\ "account" \in Faults
    /\ pc \in {"observe", "legs", "settle"}
    /\ w' = [Fresh EXCEPT !.stage = "post", !.safety = w.safety]
    /\ pc' = "comp"
    /\ UNCHANGED <<db, remote, sent, api>>

\* The control row is read again, then every stream heartbeat.
FinalRead ==
    /\ pc = "final"
    /\ IF control = "paused" \/ w.safety
       THEN pc' = "exec" /\ w' = Fresh
       ELSE /\ pc' = "setFinal"
            /\ \E ready \in BOOLEAN :
                 /\ ready => w.ok
                 /\ (w.ok => ready) \/ "account" \in Faults
                 /\ w' = [Fresh EXCEPT !.ok = ready]
    /\ UNCHANGED <<db, remote, sent, api>>

SetFinal ==
    /\ pc = "setFinal"
    /\ control' = IF w.ok THEN "ready" ELSE "blocked"
    /\ pc' = "exec"
    /\ w' = Fresh
    /\ UNCHANGED <<intents, legs, positions, remote, sent, api>>

---------------------------------------------------------------------------
(* settle_live_open and settle_live_close: one transaction per intent *)

Spot(i) == legs[<<i, "spot">>]
Perp(i) == legs[<<i, "perp">>]
Comp(i) == legs[<<i, "comp">>]
Imbalance(i) == IF Spot(i).filled > Perp(i).filled
                THEN Spot(i).filled - Perp(i).filled
                ELSE Perp(i).filled - Spot(i).filled
Excess(i) == IF Spot(i).filled > Perp(i).filled THEN "spot" ELSE "perp"

PrimariesTerminal(i) == \A l \in Primary(i) : legs[l].status \in Terminal

SetIntent(i, status) == intents' = [intents EXCEPT ![i].status = status]

ManualReview(i) ==
    /\ SetIntent(i, "manual_review")
    /\ control' = "paused"
    /\ UNCHANGED <<legs, positions>>

\* Variant: a partly closed position stays reserved.
BookKeepsCloser(i, qty) ==
    IF intents[i].action = "open"
    THEN positions' = [positions EXCEPT ![i] = [status |-> "open", qty |-> qty, closer |-> 0]]
    ELSE positions' = [positions EXCEPT ![intents[i].pos].qty = @ - qty]

\* An open creates its position; a close takes the quantity off its own.
Book(i, qty) ==
    IF intents[i].action = "open"
    THEN positions' = [positions EXCEPT ![i] = [status |-> "open", qty |-> qty, closer |-> 0]]
    ELSE LET p == intents[i].pos
             rest == positions[p].qty - qty
         IN  positions' = [positions EXCEPT
                             ![p] = IF rest = 0
                                    THEN [@ EXCEPT !.qty = 0, !.status = "closed"]
                                    ELSE [status |-> "open", qty |-> rest, closer |-> 0]]

Done(i) == IF intents[i].action = "open" THEN "hedged" ELSE "closed"

NoFills(i) ==
    /\ Spot(i).filled = 0 /\ Perp(i).filled = 0
    /\ SetIntent(i, "failed")
    /\ positions' = Released(i)
    /\ UNCHANGED <<control, legs>>

\* Equal fills are booked when their fees can be valued in USDT.
Balanced(i) ==
    /\ Imbalance(i) = 0 /\ Spot(i).filled > 0
    /\ \/ ManualReview(i)
       \/ /\ intents[i].action = "close" =>
               Spot(i).filled <= positions[intents[i].pos].qty
          /\ Book(i, Spot(i).filled)
          /\ SetIntent(i, Done(i))
          /\ UNCHANGED <<control, legs>>

OppositeSide(side) == IF side = "buy" THEN "sell" ELSE "buy"

\* _live_compensation_leg: the reverse of the leg that filled more.
CompensationLeg(i) ==
    LET excess == legs[<<i, Excess(i)>>]
    IN  [LegRow(excess.market, OppositeSide(excess.side), Imbalance(i))
           EXCEPT !.target = Imbalance(i)]

CompensationRequired(i) ==
    /\ Imbalance(i) # 0
    /\ intents[i].status = "executing" /\ Comp(i).status = "absent"
    /\ legs' = [legs EXCEPT ![<<i, "comp">>] = CompensationLeg(i)]
    /\ SetIntent(i, "compensating")
    /\ control' = "paused"
    /\ UNCHANGED positions

\* What the primary fills amount to once the protection leg is taken off.
Adjusted(i, market) ==
    legs[<<i, market>>].filled - (IF Excess(i) = market THEN Comp(i).filled ELSE 0)

\* Variant: a partly filled protection order passes for a complete one.
PartlyCompensated(i) ==
    Adjusted(i, "spot") >= 0 /\ Adjusted(i, "perp") >= 0

\* _compensated_base_quantities: filled completely, and what is left over is
\* spot-side dust of less than one increment.
SafelyCompensated(i) ==
    LET spot == Adjusted(i, "spot")
        perp == Adjusted(i, "perp")
        dust == IF intents[i].action = "open" THEN spot - perp ELSE perp - spot
    IN  /\ Comp(i).target = Imbalance(i)
        /\ Comp(i).filled = Comp(i).qty
        /\ spot >= 0 /\ perp >= 0
        /\ dust >= 0 /\ dust < Comp(i).tol

Compensated(i) ==
    LET common == Adjusted(i, "perp") IN
    /\ Imbalance(i) # 0
    /\ intents[i].status = "compensating" /\ Comp(i).status \in Terminal
    /\ \/ ManualReview(i)
       \/ /\ Comp(i).filled > 0 /\ SafelyCompensated(i)
          /\ intents[i].action = "close" => common <= positions[intents[i].pos].qty
          /\ IF intents[i].action = "open" /\ common = 0
             THEN UNCHANGED positions
             ELSE Book(i, common)
          /\ SetIntent(i, IF common = 0 THEN "failed" ELSE Done(i))
          /\ UNCHANGED <<control, legs>>

\* Variant: a failed protection order is waited for.
WaitsForFailed(i) ==
    /\ \/ ~PrimariesTerminal(i)
       \/ Imbalance(i) # 0 /\ Comp(i).status \in {"created", "submitted", "failed"}
    /\ UNCHANGED db

\* What the settlement needs of its own rows.
Settling(i) ==
    /\ intents[i].status \in {"executing", "compensating"}
    /\ intents[i].action = "close" =>
         LET p == positions[intents[i].pos] IN p.status = "closing" /\ p.closer = i
    /\ intents[i].action = "open" => positions[i].status = "none"

\* Otherwise, and while primary or protection legs are open, nothing is written.
SettlementWaits(i) ==
    /\ \/ ~Settling(i) \/ ~PrimariesTerminal(i)
       \/ /\ intents[i].status = "compensating" /\ Imbalance(i) # 0
          /\ Comp(i).status \notin Terminal
    /\ UNCHANGED db

Settle(i) ==
    /\ pc = "settle" /\ First(i, w.queue)
    /\ w' = [w EXCEPT !.queue = @ \ {i}]
    /\ \/ SettlementWaits(i)
       \/ /\ Settling(i) /\ PrimariesTerminal(i)
          /\ NoFills(i) \/ Balanced(i) \/ CompensationRequired(i) \/ Compensated(i)
    /\ UNCHANGED <<remote, sent, pc, api>>

---------------------------------------------------------------------------

\* Every database exception outside the per-account handler ends the process;
\* its supervisor starts it again.  What is on the wire stays there.
Crash ==
    /\ "crash" \in Faults
    /\ pc' = "exec"
    /\ w' = Fresh
    /\ UNCHANGED <<db, remote, sent, api>>

Worker ==
    \/ ExecRead \/ CompensationSkip \/ ReconRead \/ MarkReconciling \/ Observe
    \/ LegsDone \/ AccountResult \/ AccountError \/ FinalRead \/ SetFinal
    \/ \E i \in Intents :
         \/ ExpirePlanned(i) \/ PreflightPass(i) \/ PreflightFail(i)
         \/ GuardUnexecutable(i) \/ GuardUnavailable(i)
         \/ PrepareLiveSubmission(i) \/ PrepareDenied(i)
         \/ CompensationStart(i) \/ PrepareLiveCompensation(i) \/ Settle(i)
    \/ \E l \in LegIds :
         \/ Submit(l) \/ Respond(l) \/ SkipSpot(l) \/ RecordOutcome(l)
         \/ LookupFound(l) \/ LookupMissing(l) \/ LookupIncomplete(l) \/ NoLookup(l)

Api ==
    \/ PauseExecution \/ ResumeExecution \/ RequestReconciliation
    \/ \E kind \in {"open", "close", "emergency"} : Confirm(kind)
    \/ ConfirmationFails \/ PlanOpen
    \/ \E p \in Intents : PlanClose(p)

Market == \E l \in LegIds : Arrive(l) \/ Trade(l) \/ Expire(l)

Next == Worker \/ Api \/ Market \/ Crash

Spec == Init /\ [][Next]_vars

\* run_forever keeps stepping; a request and an immediate-or-cancel order come
\* to an end; and whenever compensation is due the market is fresh and deep
\* enough again and again.
Fairness ==
    /\ WF_vars(Worker)
    /\ \A l \in LegIds : WF_vars(Arrive(l)) /\ WF_vars(Expire(l))
    /\ \A i \in Intents : SF_vars(CompensationStart(i))

FairSpec == Spec /\ Fairness

---------------------------------------------------------------------------
(* Properties *)

IntentRows ==
    [action: {"open", "close"}, pos: Intents \cup {0}, emergency: BOOLEAN,
     status: IntentStatuses]
LegRows ==
    [status: LegStatuses, market: Markets, side: Sides, qty: Nat, filled: Nat,
     linked: BOOLEAN, target: Nat, tol: Nat]
PositionRows ==
    [status: {"none", "open", "closing", "closed"}, qty: Nat,
     closer: Intents \cup {0}]
OrderRows == [state: OrderStates, filled: Nat]
Steps ==
    {"exec", "examine", "prepare", "place", "comp", "compPrepare", "recon", "mark",
     "observe", "legs", "settle", "final", "setFinal"}
WorkerMemory ==
    [stage: {"exec", "pre", "post"}, cur: Intents \cup {0}, queue: SUBSET Intents,
     send: SUBSET LegIds, await: SUBSET LegIds,
     resp: [Kinds -> {"none", "ack", "reject", "error"}], todo: SUBSET LegIds,
     safety: BOOLEAN, open: SUBSET LegIds, perp: Int, ok: BOOLEAN]

\* Every variable stays in its domain.
TypeOK ==
    /\ control \in ControlStates
    /\ intents \in [Intents -> IntentRows]
    /\ legs \in [LegIds -> LegRows]
    /\ positions \in [Intents -> PositionRows]
    /\ orders \in [LegIds -> OrderRows]
    /\ held \in [Markets -> Int]
    /\ sent \in [LegIds -> Nat]
    /\ pc \in Steps
    /\ w \in WorkerMemory
    /\ api \in {"none", "open", "close", "emergency"}

\* An order is put on the wire at most once, whatever crashes, unknown
\* outcomes and later runs come after the commit that journaled it.
SubmittedOnce == \A l \in LegIds : sent[l] <= 1

\* What a commit of prepare_live_submission or prepare_live_compensation leaves.
Journaled(l) ==
    /\ legs[l].status \notin {"absent", "created"}
    /\ intents[l[1]].status \notin {"none", "planned"}

\* The journal is ahead of the wire: what was sent is a committed, no longer
\* "created" leg of an intent that left "planned".
JournaledFirst == \A l \in LegIds : sent[l] > 0 => Journaled(l)

Unsettled == {"planned", "executing", "compensating", "manual_review"}

\* A position is reserved by exactly the one close that is still unsettled:
\* no reservation outlives its close and no close loses its reservation.
ReservationConsistent ==
    /\ \A p \in Intents : positions[p].status = "closing" =>
        /\ positions[p].closer \in Intents
        /\ LET c == intents[positions[p].closer] IN
             c.action = "close" /\ c.pos = p /\ c.status \in Unsettled
    /\ \A i \in Intents : intents[i].action = "close" /\ intents[i].status \in Unsettled =>
        /\ intents[i].pos \in Intents
        /\ positions[intents[i].pos].status = "closing"
        /\ positions[intents[i].pos].closer = i

\* No order of an intent that was settled or given up can still trade, so the
\* quantities the settlement booked are final at the exchange too.
QuietWhenSettled ==
    \A i \in Intents : intents[i].status \in {"hedged", "closed", "failed"} =>
        \A l \in Legs(i) : orders[l].state \notin {"inflight", "live"}

\* What the orders made of the account: spot bought, perpetual sold short.
Traded(market) ==
    [l \in LegIds |-> IF legs[l].market # market THEN 0
                      ELSE IF Adds(l) THEN orders[l].filled ELSE -orders[l].filled]
SpotNet(S) == SumFunctionOnSet(Traded("spot"), S)
PerpNet(S) == SumFunctionOnSet(Traded("perp"), S)

\* The legs of the open that made position p and of all its closes.
Family(p) == {l \in LegIds : l[1] = p \/ intents[l[1]].pos = p}
Settlements(p) == Cardinality({l[1] : l \in Family(p)})
LargerGrid == IF SpotGrid > PerpGrid THEN SpotGrid ELSE PerpGrid

\* The hedge of a position that no close is working on is real: the exchange
\* holds exactly its quantity short, and at least that quantity long, with
\* less than one increment of spot dust for each settlement.
HedgeMatchesExchange ==
    \A p \in Intents : positions[p].status \in {"open", "closed"} =>
        LET dust == SpotNet(Family(p)) - PerpNet(Family(p)) IN
        /\ PerpNet(Family(p)) = positions[p].qty
        /\ dust >= 0 /\ dust <= Settlements(p) * (LargerGrid - 1)

\* An intent that failed left no perpetual exposure and at most spot dust.
FailedLeavesNoExposure ==
    \A i \in Intents : intents[i].status = "failed" =>
        LET perp == PerpNet(Legs(i))
            dust == SpotNet(Legs(i))
        IN  perp = 0 /\ dust >= 0 /\ dust < LargerGrid

\* A new two-leg group is submitted only when every primary leg submitted
\* before is terminal in the ledger; an emergency close is exempt.
OneGroupAtATime ==
    [][\A i \in Intents :
         /\ intents[i].status = "planned" /\ intents'[i].status = "executing"
         /\ ~intents[i].emergency
         => \A j \in Intents \ {i} : \A l \in Primary(j) :
              legs[l].status \in Terminal \cup {"absent", "created"}]_vars

\* The Gate sandbox order of legs: no spot order is sent before the exchange
\* took the perpetual one.
SpotFollowsPerp ==
    Sequential => \A i \in Intents : sent[<<i, "spot">>] > 0 =>
        orders[<<i, "perp">>].state \in {"live", "done"}

\* Only the administrator's resume takes a pause back.
PauseHeld == [][control = "paused" /\ control' # "paused" => ResumeExecution]_vars

\* A submitted group is settled, compensated or handed to the administrator,
\* and so is a compensation: none is left hanging while the worker runs.
GroupsResolve == \A i \in Intents :
    intents[i].status = "executing" ~> intents[i].status # "executing"
CompensationsResolve == \A i \in Intents :
    intents[i].status = "compensating" ~> intents[i].status # "compensating"
=============================================================================
