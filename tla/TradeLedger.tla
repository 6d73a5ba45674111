---------------------------- MODULE TradeLedger ----------------------------
(***************************************************************************)
(* How trade intents come to be, and how the paper ones end.               *)
(*                                                                         *)
(* The administrator's requests preview, confirm and retry confirmations,  *)
(* or plan paper trades; the worker's round fills paper intents at their   *)
(* planned prices, lets the live services act, and then asks the automatic *)
(* trader for at most one decision.  Every await of a request or of the    *)
(* round is a step, so requests run between each other's steps and between *)
(* the worker's; requests can be cut off and the worker can crash.         *)
(*                                                                         *)
(* What happens to a live intent after it is planned is LiveTrading's      *)
(* subject: here LiveSettles, LiveReview and LiveIdle are its outcomes.  A *)
(* fingerprint is the action, its target and quantity, and the             *)
(* configuration; prices enter as a market that may or may not allow the   *)
(* next step.                                                              *)
(***************************************************************************)
EXTENDS Integers, Sequences, FiniteSets, FiniteSetsExt, Functions

CONSTANTS
    Clients,       \* requests of the administrator that may run at once
    Trader,        \* the automatic trader, who plans like a client
    RequestKeys,   \* idempotency keys the clients use, numbers
    Assets,        \* "exchange:asset" keys that can be traded, numbers
    Quantity,      \* base quantity of an open; its parts below are integral
    Ratios,        \* fill ratios of the paper executor, in quarters
    Compensates,   \* whether its compensation orders succeed
    MaxPositions,  \* the strategy's limit of concurrent positions
    Scenarios,     \* bound: which keys each client has, which requests and
                   \* switches one behaviour has
    MaxIntents,    \* bound: intents planned in one behaviour
    MaxPreviews,   \* bound: previews
    MaxConfig,     \* bound: changes of the settings
    MaxQuote,      \* bound: newer quotes of the automatic trader
    MaxCrashes     \* bound: crashes of the worker or of the API

ASSUME LedgerAssumption ==
    /\ Trader \notin Clients
    /\ RequestKeys \subseteq Nat \ {0} /\ Assets \subseteq Nat \ {0}
    /\ Quantity \in Nat \ {0} /\ MaxPositions \in Nat
    /\ Ratios \subseteq [spot : 0..4, perp : 0..4]
    /\ Compensates \subseteq BOOLEAN
    /\ Scenarios \subseteq
          [keys : [Clients -> SUBSET RequestKeys],
           requested : SUBSET {"paper", "open", "close"},
           switched : SUBSET {"pause", "settings", "quote", "crash", "enabled", "paused",
                              "disabled", "resume"}]
    /\ {MaxIntents, MaxPreviews, MaxConfig, MaxQuote, MaxCrashes} \subseteq Nat

VARIABLES
    control,       \* the execution_control row's state
    automation,    \* the automation_control row's state
    config,        \* version of settings and instrument rules
    quote,         \* observed_at of the current quote
    previews,      \* the trade_previews rows
    intents,       \* the trade_intents rows with their legs' fills
    positions,     \* the paired_positions rows, keyed by opening intent
    requests,      \* each planner's request in progress
    worker,        \* the worker's step and memory
    crashes,
    scenario       \* one of Scenarios, never changed

environment == <<config, quote, crashes, scenario>>
switches == <<control, automation>>
vars == <<switches, environment, previews, intents, positions, requests, worker>>

---------------------------------------------------------------------------
(* Rows *)

Planners == Clients \cup {Trader}
IntentIds == 1..MaxIntents
NoKey == [kind |-> "none", of |-> 0, quote |-> 0]
Uuid(n) == [kind |-> "request", of |-> n, quote |-> 0]
\* uuid5 of the strategy, the action, its target and the quote's time.
TraderKey(action, target) == [kind |-> action, of |-> target, quote |-> quote]

Unsettled == {"planned", "executing", "compensating", "manual_review"}
IntentStatuses == Unsettled \cup {"hedged", "closed", "failed"}
NoPosition == [status |-> "none", qty |-> 0, closer |-> 0]
NoOrder == [leg |-> "none", qty |-> 0, status |-> "none"]

\* "env" is live for sandbox and live.  An open's target is its asset, a
\* close's the opening intent of its position.
Idle == [pc |-> "idle", env |-> "live", action |-> "open", target |-> 0,
         emergency |-> FALSE, preview |-> 0, key |-> NoKey, keyed |-> FALSE,
         config |-> 0, qty |-> 0]
Resting == [pc |-> "idle", todo |-> {}, seen |-> {}, blocked |-> {}]

Init ==
    /\ control = "blocked" /\ automation = "disabled"
    /\ config = 0 /\ quote = 0 /\ crashes = 0 /\ scenario \in Scenarios
    /\ previews = <<>> /\ intents = <<>>
    /\ positions = [p \in IntentIds |-> NoPosition]
    /\ requests = [c \in Planners |-> Idle]
    /\ worker = Resting

AssetOf(i) ==
    IF intents[i].action = "open" THEN intents[i].target
    ELSE intents[intents[i].target].target

Existing(key) == {i \in DOMAIN intents : intents[i].key = key}

\* A position can be closed while it is open and no close reserves it.
Closable(p, env) ==
    /\ p \in DOMAIN intents /\ intents[p].env = env
    /\ positions[p].status = "open" /\ positions[p].closer = 0

End(c) == requests' = [requests EXCEPT ![c] = Idle]
Goto(c, pc) == requests' = [requests EXCEPT ![c].pc = pc]

---------------------------------------------------------------------------
(* The administrator's switches and the market *)

PauseExecution ==
    /\ "pause" \in scenario.switched
    /\ control' = "paused"
    /\ UNCHANGED <<automation, environment, previews, intents, positions,
                   requests, worker>>

ResumeExecution ==
    /\ "resume" \in scenario.switched
    /\ control' = "reconciling"
    /\ UNCHANGED <<automation, environment, previews, intents, positions,
                   requests, worker>>

\* Enable and resume are refused unless the execution is ready.
SetAutomation(state) ==
    /\ state \in scenario.switched
    /\ state = "enabled" => control = "ready"
    /\ automation' = state
    /\ UNCHANGED <<control, environment, previews, intents, positions,
                   requests, worker>>

\* Saved settings, or instrument rules read anew.
ChangeConfig ==
    /\ "settings" \in scenario.switched /\ config < MaxConfig /\ config' = config + 1
    /\ UNCHANGED <<switches, quote, crashes, scenario, previews, intents, positions,
                   requests, worker>>

NewQuote ==
    /\ "quote" \in scenario.switched /\ quote < MaxQuote /\ quote' = quote + 1
    /\ UNCHANGED <<switches, config, crashes, scenario, previews, intents, positions,
                   requests, worker>>

ExpirePreview(p) ==
    /\ previews[p].fresh
    /\ previews' = [previews EXCEPT ![p].fresh = FALSE]
    /\ UNCHANGED <<switches, environment, intents, positions, requests, worker>>

---------------------------------------------------------------------------
(* Previews *)

AddPreview(action, target, emergency, qty) ==
    /\ action \in scenario.requested
    /\ Len(previews) < MaxPreviews
    /\ previews' = Append(previews,
          [action |-> action, target |-> target, emergency |-> emergency,
           qty |-> qty, config |-> config, key |-> NoKey, fresh |-> TRUE])
    /\ UNCHANGED <<switches, environment, intents, positions, requests, worker>>

PreviewOpen(asset) == AddPreview("open", asset, FALSE, Quantity)

PreviewClose(p, emergency) ==
    /\ Closable(p, "live")
    /\ AddPreview("close", p, emergency, positions[p].qty)

---------------------------------------------------------------------------
(* Confirmations: requests[c] walks through the awaits of the handler *)

\* The handler reads the ticket and the control row.
Confirm(c, p, key) ==
    /\ requests[c].pc = "idle"
    /\ control = "ready" \/ previews[p].emergency
    /\ requests' = [requests EXCEPT ![c] =
          [pc |-> "recheck", env |-> "live", action |-> previews[p].action,
           target |-> previews[p].target, emergency |-> previews[p].emergency,
           preview |-> p, key |-> key, keyed |-> previews[p].key # NoKey,
           config |-> previews[p].config, qty |-> previews[p].qty]]
    /\ UNCHANGED <<switches, environment, previews, intents, positions, worker>>

\* preview_live_open or preview_live_close again, for the fingerprint; a
\* close whose ticket was reserved before takes the ticket's own.
Recheck(c) ==
    LET r == requests[c] IN
    /\ r.pc = "recheck"
    /\ \/ /\ r.action = "close" /\ r.keyed
          /\ Goto(c, "reserve")
       \/ /\ r.action = "open"
          /\ requests' = [requests EXCEPT ![c].pc = "reserve",
                                          ![c].config = config]
       \/ /\ r.action = "close" /\ ~r.keyed /\ Closable(r.target, "live")
          /\ requests' = [requests EXCEPT ![c].pc = "reserve",
                 ![c].config = config, ![c].qty = positions[r.target].qty]
    /\ UNCHANGED <<switches, environment, previews, intents, positions, worker>>

SameFingerprint(r, p) == r.config = previews[p].config /\ r.qty = previews[p].qty
KeyTaken(key) == \E p \in DOMAIN previews : previews[p].key = key

ReservedAgain(r) ==
    /\ previews[r.preview].fresh /\ SameFingerprint(r, r.preview)
    /\ previews[r.preview].key = r.key \/ ~KeyTaken(r.key)

\* A ticket reserved with this key passes, whatever else has changed.
Reservable(r) ==
    LET p == r.preview IN
    \/ previews[p].key = r.key
    \/ /\ previews[p].key = NoKey
       /\ previews[p].fresh /\ SameFingerprint(r, p) /\ ~KeyTaken(r.key)

Reserve(c) ==
    LET r == requests[c] IN
    /\ r.pc = "reserve" /\ Reservable(r)
    /\ previews' = [previews EXCEPT ![r.preview].key = r.key]
    /\ Goto(c, IF r.emergency THEN "pause" ELSE "find")
    /\ UNCHANGED <<switches, environment, intents, positions, worker>>

NotReservable(c) ==
    /\ requests[c].pc = "reserve" /\ ~Reservable(requests[c])
    /\ End(c)
    /\ UNCHANGED <<switches, environment, previews, intents, positions, worker>>

\* An emergency close pauses everything else before it is planned.
PauseForClose(c) ==
    /\ requests[c].pc = "pause"
    /\ control' = "paused"
    /\ Goto(c, "find")
    /\ UNCHANGED <<automation, environment, previews, intents, positions, worker>>

---------------------------------------------------------------------------
(* Planning: the same steps for confirmations, paper trades, the trader *)

PaperRequest(c, action, target, key) ==
    /\ "paper" \in scenario.requested /\ requests[c].pc = "idle"
    /\ requests' = [requests EXCEPT ![c] = [Idle EXCEPT
          !.pc = "find", !.env = "paper", !.action = action,
          !.target = target, !.key = key]]
    /\ UNCHANGED <<switches, environment, previews, intents, positions, worker>>

\* The intent of this key is the answer, or the conflict.
FindExisting(c) ==
    LET r == requests[c] IN
    /\ r.pc = "find"
    /\ IF Existing(r.key) = {} THEN Goto(c, "price") ELSE End(c)
    /\ UNCHANGED <<switches, environment, previews, intents, positions, worker>>

\* Quantities and limits from the current market, settings and position.
Price(c) ==
    LET r == requests[c] IN
    /\ r.pc = "price"
    /\ r.action = "close" => Closable(r.target, r.env)
    /\ requests' = [requests EXCEPT ![c].pc = "insert", ![c].config = config,
          ![c].qty = IF r.action = "open" THEN Quantity
                     ELSE positions[r.target].qty]
    /\ UNCHANGED <<switches, environment, previews, intents, positions, worker>>

\* The market, the rules or the position do not allow it (any more).
Refused(c) ==
    /\ requests[c].pc \in {"recheck", "price"}
    /\ End(c)
    /\ UNCHANGED <<switches, environment, previews, intents, positions, worker>>

PlannedRow(r) ==
    [env |-> r.env, action |-> r.action, target |-> r.target,
     emergency |-> r.emergency, preview |-> r.preview, key |-> r.key,
     qty |-> r.qty, status |-> "planned", spot |-> 0, perp |-> 0,
     order |-> NoOrder]

\* create_trade_intent and create_paper_close_intent: one transaction that
\* looks for the key again, locks the position and reserves it.
InsertableUnlocked(r) == Existing(r.key) = {}

Insertable(r) ==
    /\ Existing(r.key) = {}
    /\ r.action = "close" => Closable(r.target, r.env)

Insert(c) ==
    LET r == requests[c]
        i == Len(intents) + 1
    IN
    /\ r.pc = "insert" /\ Insertable(r) /\ i \in IntentIds
    /\ intents' = Append(intents, PlannedRow(r))
    /\ positions' =
          IF r.action = "open" THEN positions
          ELSE [positions EXCEPT ![r.target].status = "closing",
                                 ![r.target].closer = i]
    /\ End(c)
    /\ UNCHANGED <<switches, environment, previews, worker>>

NotInserted(c) ==
    /\ requests[c].pc = "insert" /\ ~Insertable(requests[c])
    /\ End(c)
    /\ UNCHANGED <<switches, environment, previews, intents, positions, worker>>

Plan(c) ==
    \/ FindExisting(c) \/ Price(c) \/ Refused(c) \/ Insert(c) \/ NotInserted(c)

\* The API process stops, or the connection is dropped at an await.
CutOff ==
    /\ "crash" \in scenario.switched /\ crashes < MaxCrashes /\ crashes' = crashes + 1
    /\ \E c \in Clients : requests[c].pc # "idle"
    /\ requests' = [c \in Planners |-> IF c \in Clients THEN Idle ELSE requests[c]]
    /\ UNCHANGED <<switches, config, quote, scenario, previews, intents, positions, worker>>

---------------------------------------------------------------------------
(* The worker's round: paper intents *)

Step(pc) == worker' = [Resting EXCEPT !.pc = pc]

PaperStatuses == {"planned", "compensating"}
PlannedOnly ==
    {i \in DOMAIN intents : intents[i].env = "paper" /\ intents[i].status = "planned"}
Candidates ==
    {i \in DOMAIN intents : intents[i].env = "paper" /\ intents[i].status \in PaperStatuses}

StartRound ==
    /\ worker.pc = "idle"
    /\ worker' = [worker EXCEPT !.pc = "paper", !.todo = Candidates]
    /\ UNCHANGED <<switches, environment, previews, intents, positions, requests>>

\* The candidates are taken up oldest first.
Oldest == Min(worker.todo)
NextCandidate == worker' = [worker EXCEPT !.todo = @ \ {Oldest}]

Greater(a, b) == IF a > b THEN a ELSE b
Lesser(a, b) == IF a < b THEN a ELSE b
Excess(spot, perp) == IF spot > perp THEN spot - perp ELSE perp - spot

\* The protection order of an unbalanced pair of fills.
ExcessOrder(spot, perp) ==
    [leg |-> IF spot > perp THEN "spot" ELSE "perp",
     qty |-> Excess(spot, perp), status |-> "created"]

\* An open books a position for what both legs filled.
OpenSettles(i, spot, perp, order) ==
    LET common == Lesser(spot, perp) IN
    /\ intents' = [intents EXCEPT ![i].spot = spot, ![i].perp = perp,
          ![i].order = order,
          ![i].status = IF common > 0 THEN "hedged" ELSE "failed"]
    /\ positions' =
          IF common = 0 THEN positions
          ELSE [positions EXCEPT ![i] =
                   [status |-> "open", qty |-> common, closer |-> 0]]

\* A close takes it off the position, which must still have as much, and frees
\* what remains.
WasAsked(i, common) == common <= intents[i].qty
Remains(i, common) == common <= positions[intents[i].target].qty

CloseSettles(i, spot, perp, order) ==
    LET p    == intents[i].target
        common == Lesser(spot, perp)
        left == positions[p].qty - common
    IN
    /\ Remains(i, common)
    /\ intents' = [intents EXCEPT ![i].spot = spot, ![i].perp = perp,
          ![i].order = order,
          ![i].status = IF common > 0 \/ left = 0 THEN "closed" ELSE "failed"]
    /\ positions' = [positions EXCEPT ![p] =
          IF left = 0 THEN [status |-> "closed", qty |-> 0, closer |-> i]
          ELSE [status |-> "open", qty |-> left, closer |-> 0]]

Settles(i, spot, perp, order) ==
    \/ intents[i].action = "open" /\ OpenSettles(i, spot, perp, order)
    \/ intents[i].action = "close" /\ CloseSettles(i, spot, perp, order)

\* A close must still hold the reservation of its position.
Fillable(i) ==
    /\ intents[i].env = "paper"
    /\ intents[i].action = "close" =>
          positions[intents[i].target].closer = i

\* One session records the fills of both legs and settles, or creates the
\* order of the excess.
Part(i, quarters) == (intents[i].qty * quarters) \div 4

PaperFills(action, ratio) ==
    LET i    == Oldest
        spot == Part(i, ratio.spot)
        perp == Part(i, ratio.perp)
    IN
    /\ worker.pc = "paper" /\ worker.todo # {}
    /\ intents[i].action = action /\ intents[i].status = "planned" /\ Fillable(i)
    /\ IF spot = perp
       THEN Settles(i, spot, perp, NoOrder) /\ NextCandidate
       ELSE /\ intents' = [intents EXCEPT ![i].spot = spot, ![i].perp = perp,
                   ![i].order = ExcessOrder(spot, perp),
                   ![i].status = "compensating"]
            /\ UNCHANGED <<positions, worker>>
    /\ UNCHANGED <<switches, environment, previews, requests>>

RecordPaperOpenFills(ratio) == PaperFills("open", ratio)
RecordPaperCloseFills(ratio) == PaperFills("close", ratio)

\* The next one fills that order and settles, or hands the intent to review.
PaperCompensates(action, succeeds) ==
    LET i == Oldest
        r == intents[i]
    IN
    /\ worker.pc = "paper" /\ worker.todo # {}
    /\ r.action = action /\ r.status = "compensating" /\ Fillable(i)
    /\ IF succeeds
       THEN /\ Settles(i, r.spot, r.perp, [r.order EXCEPT !.status = "filled"])
            /\ UNCHANGED control
       ELSE /\ intents' = [intents EXCEPT ![i].status = "manual_review",
                                          ![i].order.status = "failed"]
            /\ control' = "paused"
            /\ UNCHANGED positions
    /\ NextCandidate
    /\ UNCHANGED <<automation, environment, previews, requests>>

ExecutePaperCompensation(succeeds) == PaperCompensates("open", succeeds)
ExecutePaperCloseCompensation(succeeds) == PaperCompensates("close", succeeds)

\* Settling more than is left of the position raises: the session is rolled
\* back, and the worker ends and is started anew.
PaperRaises ==
    LET i == Oldest
        r == intents[i]
    IN
    /\ worker.pc = "paper" /\ worker.todo # {}
    /\ r.action = "close" /\ Fillable(i)
    /\ \/ /\ r.status = "planned"
          /\ \E ratio \in Ratios : /\ Part(i, ratio.spot) = Part(i, ratio.perp)
                                  /\ ~ Remains(i, Part(i, ratio.spot))
       \/ /\ r.status = "compensating" /\ TRUE \in Compensates
          /\ ~ Remains(i, Lesser(r.spot, r.perp))
    /\ worker' = Resting
    /\ UNCHANGED <<switches, environment, previews, intents, positions, requests>>

PaperEnds ==
    /\ worker.pc = "paper" /\ worker.todo = {}
    /\ Step("live")
    /\ UNCHANGED <<switches, environment, previews, intents, positions, requests>>

---------------------------------------------------------------------------
(* The live services, as LiveTrading shows them from the outside *)

Executable(i) ==
    /\ intents[i].env = "live" /\ intents[i].status = "planned"
    /\ control = "ready" \/ (control = "paused" /\ intents[i].emergency)

\* The oldest executable intent is submitted, and settled from its fills.
LiveSettles ==
    LET queue == {i \in DOMAIN intents : Executable(i)} IN
    /\ worker.pc = "live" /\ queue # {}
    /\ LET i == Min(queue) IN
       \E filled \in {0} \cup {Part(i, ratio.spot) : ratio \in Ratios} :
          Settles(i, filled, filled, NoOrder)
    /\ Step("ready")
    /\ UNCHANGED <<switches, environment, previews, requests>>

\* What cannot be settled is left to the administrator, and pauses.
LiveReview ==
    /\ worker.pc = "live"
    /\ LET queue == {i \in DOMAIN intents : Executable(i)} IN
       /\ queue # {}
       /\ intents' = [intents EXCEPT ![Min(queue)].status = "manual_review"]
    /\ control' = "paused"
    /\ Step("ready")
    /\ UNCHANGED <<automation, environment, previews, positions, requests>>

LiveIdle ==
    /\ worker.pc = "live"
    /\ Step("ready")
    /\ UNCHANGED <<switches, environment, previews, intents, positions, requests>>

\* The accounts are reconciled; only then the automatic trader is asked.
RoundReady(state) ==
    /\ worker.pc = "ready" /\ control # "paused"
    /\ control' = state
    /\ Step(IF state = "ready" THEN "trader" ELSE "idle")
    /\ UNCHANGED <<automation, environment, previews, intents, positions, requests>>

RoundPaused ==
    /\ worker.pc = "ready" /\ control = "paused"
    /\ Step("idle")
    /\ UNCHANGED <<switches, environment, previews, intents, positions, requests>>

---------------------------------------------------------------------------
(* The automatic trader *)

LivePositions(statuses) ==
    {p \in DOMAIN intents : intents[p].env = "live" /\ positions[p].status \in statuses}

TraderReads ==
    /\ worker.pc = "trader"
    /\ IF automation = "enabled" /\ control = "ready"
       THEN worker' = [worker EXCEPT !.pc = "keys",
               !.seen = {<<p, positions[p].status>> :
                            p \in LivePositions({"open", "closing"})}]
       ELSE Step("idle")
    /\ UNCHANGED <<switches, environment, previews, intents, positions, requests>>

CompensatingAssets ==
    {AssetOf(i) : i \in {j \in DOMAIN intents : /\ intents[j].env = "live"
                                                /\ intents[j].action = "open"
                                                /\ intents[j].status # "planned"}}

\* active_open_intent_keys
OpeningAssets ==
    {AssetOf(i) : i \in {j \in DOMAIN intents : /\ intents[j].env = "live"
                                                /\ intents[j].action = "open"
                                                /\ intents[j].status \in Unsettled}}

TraderReadsKeys ==
    /\ worker.pc = "keys"
    /\ worker' = [worker EXCEPT !.pc = "decide", !.blocked = OpeningAssets]
    /\ UNCHANGED <<switches, environment, previews, intents, positions, requests>>

Decided(action, target) ==
    /\ requests' = [requests EXCEPT ![Trader] = [Idle EXCEPT
          !.pc = "find", !.action = action, !.target = target,
          !.key = TraderKey(action, target)]]
    /\ Step("plan")
    /\ UNCHANGED <<switches, environment, previews, intents, positions>>

TraderCloses ==
    /\ worker.pc = "decide"
    /\ \E s \in worker.seen : s[2] = "open" /\ Decided("close", s[1])

Openable(asset) ==
    /\ Cardinality(worker.seen) < MaxPositions
    /\ asset \notin worker.blocked
    /\ \A s \in worker.seen : AssetOf(s[1]) # asset

TraderOpens(asset) ==
    /\ worker.pc = "decide" /\ Openable(asset)
    /\ Decided("open", asset)

TraderWaits ==
    /\ worker.pc = "decide"
    /\ Step("idle")
    /\ UNCHANGED <<switches, environment, previews, intents, positions, requests>>

\* The daily loss limit was reached.
TraderStops ==
    /\ worker.pc = "decide"
    /\ automation' = "paused"
    /\ Step("idle")
    /\ UNCHANGED <<control, environment, previews, intents, positions, requests>>

RoundEnds ==
    /\ worker.pc = "plan" /\ requests[Trader].pc = "idle"
    /\ worker' = Resting
    /\ UNCHANGED <<switches, environment, previews, intents, positions, requests>>

WorkerCrash ==
    /\ "crash" \in scenario.switched /\ crashes < MaxCrashes /\ crashes' = crashes + 1
    /\ worker.pc # "idle"
    /\ worker' = Resting
    /\ requests' = [requests EXCEPT ![Trader] = Idle]
    /\ UNCHANGED <<switches, config, quote, scenario, previews, intents, positions>>

---------------------------------------------------------------------------
(* Specification *)

PaperStep ==
    \/ StartRound \/ PaperRaises \/ PaperEnds
    \/ \E ratio \in Ratios :
          RecordPaperOpenFills(ratio) \/ RecordPaperCloseFills(ratio)
    \/ \E succeeds \in Compensates :
          ExecutePaperCompensation(succeeds) \/ ExecutePaperCloseCompensation(succeeds)

RestOfRound ==
    \/ LiveSettles \/ LiveReview \/ LiveIdle
    \/ \E state \in {"ready", "blocked"} : RoundReady(state)
    \/ RoundPaused
    \/ TraderReads \/ TraderReadsKeys \/ TraderCloses
    \/ \E asset \in Assets : TraderOpens(asset)
    \/ TraderWaits \/ TraderStops \/ RoundEnds
    \/ Plan(Trader)

ClientStep(c) ==
    \/ \E p \in DOMAIN previews, n \in scenario.keys[c] : Confirm(c, p, Uuid(n))
    \/ \E asset \in Assets, n \in scenario.keys[c] :
          PaperRequest(c, "open", asset, Uuid(n))
    \/ \E p \in DOMAIN intents, n \in scenario.keys[c] :
          /\ intents[p].env = "paper" /\ positions[p].status # "none"
          /\ PaperRequest(c, "close", p, Uuid(n))
    \/ Recheck(c) \/ Reserve(c) \/ NotReservable(c) \/ PauseForClose(c)
    \/ Plan(c)

Surroundings ==
    \/ PauseExecution \/ ResumeExecution
    \/ \E state \in {"enabled", "paused", "disabled"} : SetAutomation(state)
    \/ ChangeConfig \/ NewQuote
    \/ \E p \in DOMAIN previews : ExpirePreview(p)
    \/ \E asset \in Assets : PreviewOpen(asset)
    \/ \E p \in DOMAIN intents, emergency \in BOOLEAN : PreviewClose(p, emergency)
    \/ CutOff \/ WorkerCrash

Next ==
    \/ PaperStep \/ RestOfRound \/ Surroundings
    \/ \E c \in Clients : ClientStep(c)

Spec == Init /\ [][Next]_vars

\* The worker runs: its round goes on, whatever each of its calls returns.
FairSpec == Spec /\ WF_vars(PaperStep \/ RestOfRound)

---------------------------------------------------------------------------
(* Properties *)

RowTyped(r) ==
    /\ r.env \in {"live", "paper"} /\ r.action \in {"open", "close"}
    /\ r.status \in IntentStatuses
    /\ r.target \in Assets \cup IntentIds /\ r.preview \in 0..MaxPreviews
    /\ {r.qty, r.spot, r.perp, r.order.qty} \subseteq 0..Quantity
    /\ r.emergency => r.action = "close"

\* Every row and every request in progress is typed: no quantity becomes
\* negative or exceeds what was planned.
TypeOK ==
    /\ control \in {"blocked", "reconciling", "ready", "paused"}
    /\ automation \in {"disabled", "enabled", "paused"}
    /\ config \in 0..MaxConfig /\ quote \in 0..MaxQuote /\ crashes \in 0..MaxCrashes
    /\ Len(previews) <= MaxPreviews /\ Len(intents) <= MaxIntents
    /\ \A i \in DOMAIN intents : RowTyped(intents[i])
    /\ \A p \in IntentIds : /\ positions[p].qty \in 0..Quantity
                            /\ positions[p].closer \in 0..MaxIntents
                            /\ positions[p].status \in {"none", "open", "closing", "closed"}
    /\ \A c \in Planners : requests[c].qty \in 0..Quantity

\* A key plans one intent, and a ticket one intent, for the target, the action
\* and the urgency the ticket shows (its quantity and price are not compared) and
\* under the key that reserved it: however often, with whichever keys and however
\* concurrently the confirmation is retried.
OneIntentPerTicket ==
    /\ \A i, j \in DOMAIN intents : intents[i].key = intents[j].key => i = j
    /\ \A i, j \in DOMAIN intents :
          intents[i].preview = intents[j].preview /\ intents[i].preview # 0 => i = j
    /\ \A i \in DOMAIN intents : intents[i].preview # 0 =>
          LET p == previews[intents[i].preview] IN
          /\ p.key = intents[i].key /\ p.target = intents[i].target
          /\ p.action = intents[i].action /\ p.emergency = intents[i].emergency

\* A position is reserved by exactly one unsettled close, the one its row
\* names: confirmations, paper closes and the automatic trader included.
ReservedByOneClose ==
    \A p \in IntentIds :
       LET closes == {i \in DOMAIN intents :
              /\ intents[i].action = "close" /\ intents[i].target = p
              /\ intents[i].status \in Unsettled}
       IN closes = IF positions[p].status = "closing" THEN {positions[p].closer} ELSE {}

Filled(i, leg) ==
    intents[i][leg] - (IF intents[i].order.leg = leg /\ intents[i].order.status = "filled"
                       THEN intents[i].order.qty ELSE 0)
ClosesOf(p) == {i \in DOMAIN intents : intents[i].action = "close" /\ intents[i].target = p}
Holding(p, leg) ==
    Filled(p, leg) - SumFunctionOnSet([i \in DOMAIN intents |-> Filled(i, leg)], ClosesOf(p))

\* Once nothing of a pair is compensating or under review, the spot it
\* bought and the perpetual it sold are what its position says: fills are
\* counted once, whatever crashes between a fill and its compensation.
BookedIsHeld ==
    \A p \in DOMAIN intents :
       LET pair == {p} \cup ClosesOf(p) IN
       (/\ intents[p].action = "open"
        /\ \A i \in pair : intents[i].status \notin {"compensating", "manual_review"})
       => Holding(p, "spot") = positions[p].qty /\ Holding(p, "perp") = positions[p].qty

\* The automatic trader never opens an asset again while its own earlier
\* open of it is unsettled, under review, or holds a position.
OneAutomaticPairPerAsset ==
    \A i, j \in DOMAIN intents :
       (/\ i # j /\ {intents[i].key.kind, intents[j].key.kind} = {"open"}
        /\ intents[i].target = intents[j].target)
       => \E k \in {i, j} :
             /\ intents[k].status \notin Unsettled
             /\ positions[k].status \notin {"open", "closing"}

\* A close that was priced before another one took a part of its position.
Outdated(i) ==
    intents[i].action = "close" /\ intents[i].qty > positions[intents[i].target].qty

Unfinished ==
    {i \in DOMAIN intents : intents[i].env = "paper" /\ intents[i].status \in PaperStatuses}

\* Again and again no paper intent is left unfinished: each is booked, fails
\* or is handed to the administrator, whatever crashes or pauses; unless one
\* of them is a close for more than is left of its position.
PaperResolves == []<>(Unfinished = {} \/ \E i \in Unfinished : Outdated(i))
=============================================================================
