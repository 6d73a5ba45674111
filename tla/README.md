# Basis Hawk in TLA+

Basis Hawk scans cash-and-carry spreads (spot long, perpetual short, on one
exchange), plans paired trades, and executes, hedges, reconciles and settles
them with real or simulated orders. This directory holds the TLA+ modules of its
trading core, the TLC configurations that check them, and the TLAPS proofs about them.
Paths below are relative to the repository; `storage.py` and its neighbours
are in `src/basis_hawk/`.

## 1. The system

Two processes share one database. The API process (`basis-hawk serve`) serves
the administrator and runs the scanner; the worker process (`basis-hawk
worker`, guarded by an exclusive lock) is the only one that places orders.
The exchange is the third actor: it accepts, fills, refuses or loses requests
at any time. Nothing is passed between the processes but database rows.

| part | state it keeps | operations | talks to |
|---|---|---|---|
| execution control | `execution_control`: ready, paused, reconciling, blocked | pause, resume, reconciliation request, and writes of nearly every other part | read by planning, executor, compensator, reconciler |
| trade planning (`api.py`, `trading.py`) | `trade_previews`, `trade_intents`, `order_legs` as planned | preview, confirm open, confirm close, emergency close | control row; positions; quotes |
| sizing (`sizing.py`) | none: functions | size both legs, name the least notional, bound a price, size a compensation | planning, automatic trading, compensation, multi-leg tasks |
| live execution (`live_execution.py`) | `trade_intents.status`, `order_legs.status` | expire, preflight, journal, place two legs, record the outcomes | exchange; control row |
| live compensation | the `*_compensation` leg | protect the excess leg of an imbalanced group | exchange; acts only while paused |
| reconciliation (`reconciliation.py`) | `account_reconciliations`, control row | query orders and fills, cancel, settle, judge the account, set the control row | exchange; every service of the worker |
| settlement (`storage.py`) | intents, positions, PnL | `settle_live_open`, `settle_live_close` | reconciler |
| internal transfers (`transfers.py`) | `internal_transfers` | plan, submit, confirm, arrive | exchange; pauses and needs a pause |
| multi-leg tasks (`multi_leg*.py`, `execution_tasks.py`) | tasks, runs, orders, fills | draft, preflight, queue, claim, progress, compensate, complete | exchange; control row |
| notifications (`notifications.py`) | outbox, projection cursors | enqueue, claim, send, mark, retry, project | Telegram, SMTP |
| private streams (`private_stream.py`) | connection and heartbeat rows | connect, heartbeat, disconnect, restart | pauses on disconnect; wakes the reconciler |
| paper trading (`trading.py`) | the same rows, simulated fills | fill, compensate, settle | quotes |
| automatic trading (`automation.py`) | automation control, decisions | decide and plan after a ready reconciliation | trade planning |
| software update (`updates.py`, scripts) | request file, control row | request, pause, post-update reconciliation | host agent |
| credentials, authentication | credential, admin and session rows | save, delete, log in, rotate | control row on a change |
| scanner, portfolio, ADL, HTTP routes, exchange adapters, backup, frontend | caches and views | polling, parsing, aggregation | |

### What is hard

* A worker pass is a long sequence of short transactions and exchange calls.
  Between two of them the administrator, a confirmation and the exchange act.
  The control row is read in one transaction and written in another.
* A crash can fall anywhere. What was committed stays, the worker's memory is
  lost, and requests that left the process go on.
* An order call that raises says nothing about the order. It is `unknown`
  until a lookup by client order id finds it, or does not.
* Both legs of a group fill independently and partly. The excess is traded
  back by a protection order whose quantity is rounded to the increment.
* A position has one reservation. It is taken when a close is planned and must
  be given back on every path on which the close ends.
* The control row has a dozen writers. Some read it first, some write it
  whatever it says, and a round that lasts writes what it found at its start.
* While a worker runs, a second one starts, resets the stream rows and delivers
  notifications until it finds the database lock taken.
* A software update stops every process in the middle of whatever it does, and
  the next version must not trade on what the last one verified.

### What makes each part correct

* execution: an order is committed before it is sent and never sent twice; one
  unresolved group at a time; sandbox legs in their order.
* compensation and settlement: what is booked as hedged is what the exchange
  holds; a failed intent leaves no exposure; nothing settled can still trade.
* reconciliation: it never reports ready over an unmatched account and never
  takes back a pause; every group is resolved in the end.
* planning: a position is reserved by exactly the close that is unsettled.
* transfers: prepared under a pause, submitted at most once, within the daily limit;
  completed only when the exchange says so.
* multi-leg tasks: hedges follow anchor fills, retries and chases are bounded,
  failed tasks are flat or under review.
* notifications: sent at least once or dead after the attempt limit; a late mark
  of an earlier claim may end a later one, but never calls sent what was not.
* streams and updates: ready only on a running stream of the current
  credential; a new version reconciles first; an update takes back only its
  own pause.
* sizing: legs that match within an increment, a minimum notional that is
  neither too low nor too high, compensations that leave dust on the spot side only;
* paper and automatic trading: the books hold what was filled, across restarts;
  an asset is not opened twice.

The complete list of hazards, at their source lines, is in `PROJECT.json`.

## 2. Modules

| module | content |
|---|---|
| `LiveTrading` | the live core: executor, compensator, reconciler, settlement, exchange, and the API as far as it plans |
| `MCLiveTrading` | the scenarios (which faults, which administrator actions) of TLC's instances |
| `LiveTradingProofs` | the inductive invariants of the live core, and ten theorems: types, journal, wire, reservations, groups, order of legs, pauses, final settlements, flat failures, books equal to the account |
| `InternalTransfers` | planning, submission, confirmation and arrival of transfers; the exchange's transfer service |
| `MCInternalTransfers` | TLC's instances: kinds of exchange, limit settings |
| `InternalTransfersProofs` | the inductive invariant of the transfers and six theorems |
| `MultiLegTasks` | multi-leg tasks from draft to review, live and paper: claim, orders, lookups, chases, compensation, failure |
| `MCMultiLegTasks` | TLC's instances: targets, chunks, maker legs, words |
| `MultiLegTasksProofs` | the inductive invariant of the tasks and six theorems |
| `SumTheorems` | sums over finite sets: the lemmas on the fold that the models sum with |
| `ReliableOutbox` | the abstract specification: what an outbox promises |
| `NotificationOutbox` | the outbox rows, projection, claims, sends and marks; the refinement mapping |
| `MCNotificationOutbox` | TLC's instance: channels, conditions |
| `NotificationOutboxProofs` | the types, and that the outbox implements the abstract one |
| `TradeLedger` | previews, tickets, confirmations, planning, paper trading, the automatic trader |
| `MCTradeLedger` | TLC's scenarios |
| `TradeLedgerProofs` | the inductive invariants of tickets and reservations, of the books, and of the trader, and five theorems |
| `Sizing` | the arithmetic of `sizing.py`: legs of an open, minimum notional, protective limits, compensations |
| `MCSizing` | reference definitions that TLC compares `Sizing` with |
| `SizingProofs` | the same for all rules and amounts: four theorems |
| `ExecutionControl` | the control row with its writers: rounds, streams and their manager, credentials, updates and their agents |
| `MCExecutionControl` | TLC's instance |
| `ExecutionControlProofs` | the types, whose pause may be lifted, and that a new version reconciles |

The modules cut the system along its rows. `execution_control` is in five of
them: `ExecutionControl` has all its writers, with the executors reduced to the
pauses they write; the others have its state, and of its writers those that
matter to them. A trade intent is planned in `TradeLedger`, where
`LiveSettles`, `LiveReview` and `LiveIdle` are the outcomes of a live one, and executed in `LiveTrading`, where
planning is the two steps of a confirmation.

### How LiveTrading corresponds to the code

| variable | code |
|---|---|
| `control` | `ExecutionControlRow.state`; `blocked` stands for the missing row too (`api.py` `execution_status`) |
| `intents`, `legs`, `positions` | `TradeIntentRow`, `OrderLegRow`, `PairedPositionRow` |
| `legs[l].linked` | `exchange_order_id is not None` |
| `legs[l].target`, `.tol` | `compensation_target_base`, `compensation_tolerance_base` |
| `orders`, `held` | the exchange: its book by client order id, the account's spot and short perpetual |
| `sent` | history: how often a client order id went out |
| `pc`, `w` | where `ReconciliationService.run_once` is, and the local variables it carries across `await`s |
| `api` | a confirmation between its control check and its insert |

A worker pass runs `exec` (the executor reads control and candidates),
`examine` and `prepare` for each candidate, `place` for the legs journaled,
`comp` and `compPrepare`, then `recon`, `mark`, `observe`, `legs`, `settle`,
`comp` again, `final` and `setFinal`. Every `pc` value is a point where the
code awaits a transaction or an exchange call, and each action is what happens
up to the next one. `run_once` starts with the transfer, paper and multi-leg
executors; they touch none of this module's rows but the control row. They are
in `InternalTransfers`, `TradeLedger` and `MultiLegTasks`.

`settle_live_open` and `settle_live_close` differ in the row they book to and
in the side of the dust. They are one set of operators (`NoFills`, `Balanced`,
`CompensationRequired`, `Compensated`) with those differences in `Book`,
`Done`, `Released` and `SafelyCompensated`.

Abstracted data:
* Quantities are base units. `base_multiplier` is folded into them; `SpotGrid`
  and `PerpGrid` are the increments.
* Prices, fees, slippage, PnL and balances are left out. Where the code decides
  on them, the model allows both outcomes: `Balanced` and `Compensated` may
  always end in `ManualReview`, `GuardUnexecutable` and `ExpirePlanned` may
  drop any candidate, `CompensationSkip` may skip.
* Spot fees taken in the base asset (`spot_buy_fee_in_base`) are not modelled:
  a spot fill is what the account receives.
* One account and one base asset, hence one worker pass per account pass.
* The exchange fills a leg in steps, ends an immediate-or-cancel order at any
  time, and reports a trade with the order's state at once.

`Faults` selects what else may go wrong; `Controls` which administrator
actions may happen. With an empty set the exchange still loses, refuses and
partly fills, and calls still raise.

### How InternalTransfers corresponds to the code

| variable | code |
|---|---|
| `control`, `limits` | `ExecutionControlRow.state`, the `transfer_limits` setting |
| `transfers[t]` | `InternalTransferRow`; `linked` is `exchange_transfer_id is not None`, `day` the UTC day of `created_at` |
| `late` | the transfers for which `_confirmation_timed_out` holds |
| `wire` | the exchange: on its way, lost, refused, waiting, done, failed |
| `sent` | history: how often a transfer was submitted |
| `pc`, `w` | where `InternalTransferExecutionService.run_once`, or the rest of the pass, is, and its local variables |
| `api` | how many requests are between the ready check of `api.py:1250` and `plan_internal_transfer` |

`run_once` is `pick`, then `preflight`, `prepare`, `send`, `answer` for a
planned transfer or `query`, `judge`, `arrival` for one in flight. The steps
`recon` to `setFinal` are the writes of the control row by the rest of the
pass, with any verdict on the accounts. `PrepareRaises` is the `ValueError` of
`prepare_internal_transfer_submission` under a control row that is not paused:
nobody catches it, the process ends and the service manager starts it again.
As long as nobody pauses, it happens again in every pass, before anything else
of the pass runs.

Trading, fees and deposits move the balances at any time, so that a preflight
may find enough or not, and an arrival check may pass or not, whatever became
of the transfer. The model lets both happen in every state and keeps no
balances; what it shows therefore does not rest on them. What the exchanges
report follows `internal_transfer_status` of `accounts.py`: Gate has no query
and answers "completed", the histories of the others may not list a transfer
yet, Bitget's can be searched by the client's id. `Venues` are the exchanges
with separate accounts; at the others a request ends in `PreflightRefused`.
`lost_claim` is left out: one worker, holding the database lock, is the only
one that changes a planned transfer.

### How MultiLegTasks corresponds to the code

| variable | code |
|---|---|
| `control` | `ExecutionControlRow.state` |
| `tasks`, `stale`, `pre` | `ExecutionTaskRow.status`, an expired preflight, a preflight request in progress |
| `orders[t]` | the task's `ExecutionOrderRow`s, oldest first |
| `exch[t]` | the exchange: whether each was sent, is in the book or ended, and its fills |
| `pc`, `w` | where `MultiLegLiveExecutionService.run_once` is, its task, and what its lookup showed |

A pass claims the oldest active task and does one thing for it: it creates the
next order, looks the open one up, sends it, records it, cancels it to chase the
price, creates a compensating order, or finishes the task. `HandleFailure` is the
`except` of `run_once`: what only finished orders expose is compensated,
anything else that may be exposed goes to review. `Deficit` and `NextLeg` are
the choice of the leg in `_progress`, `Chunk` and `OnGrid` the per-order limit
and the rounding of `_create_next_order` and `quote_order`. Prices are left out: whether a maker order is still at its book
level is open, and so is every reason to raise. Lookups lag behind an order
never seen and forget one that ended; a request whose answer is lost may
arrive later; the exchange takes a client order id once, unless it refused it.
An order that ended is not taken again when its id is sent a second time, which
the code does if its row is `unknown` and a lookup no longer shows it: that the
exchange refuses the id then is assumed. Fills are all listed once a query is
complete; a list that lags behind the order's status is not modelled.

`Words` is what the exchange of a leg calls an order, by what `_remote_status`
makes of the word: a live one may be `live`, one that ended short of its
quantity `canceled` (or rejected, failed) or `filled` (`closed`, `done`), and
either may have a word the function does not know (`other`). Then the row becomes
or stays `unknown`, `partially_filled` or `cancel_pending`, as in the code, and a
live maker order without fills is not chased. What an order of the full quantity
is called does not matter. The safety run and the theorems have every word.
Templates and strategies produce tasks and are not modelled.

### How NotificationOutbox corresponds to the code

| variable | code |
|---|---|
| `world` | what the projection reads: the control row, accounts, intents, the day |
| `projected` | `notification_projection_state`: fingerprint and generation |
| `rows` | `notification_outbox`, keyed by dedupe key and channel; `wait` is the time to `next_attempt_at` or to a stale claim |
| `up`, `fresh`, `seen` | worker processes, the sources they have not read since their start, and the condition in hand |
| `batch`, `result` | the rows a worker claimed and has not marked, and what came of the first |
| `delivered` | history: rows whose message has arrived |

`ReliableOutbox` is what the rest of the system may rely on. A message is open
until it is closed, is called sent only if it was delivered, is given up only
after `Attempts` attempts, and is closed for good until it is forgotten.
`NotificationOutbox` implements it with `outcome` as the row's status, pending,
sending and retry being open, and `tries` as its attempts.

### How TradeLedger corresponds to the code

| variable | code |
|---|---|
| `control`, `automation` | the two control rows |
| `config`, `quote` | versions of settings and instrument rules, the time of the quote: what a fingerprint and a key are made of |
| `previews`, `intents`, `positions` | `TradePreviewRow`, `TradeIntentRow` with its legs' fills, `PairedPositionRow` |
| `requests[c]` | an API request, or the automatic trader, between two awaits of preview, reservation and planning |
| `worker` | the round: paper executor, live services, automatic trader |
| `scenario` | no code: which requests and switches one behaviour has, chosen in `Init` |

Every `await` of `confirm_live_open`, `confirm_live_close`, `plan_live_open`,
`plan_live_close` and their paper counterparts is a step; the trader runs through the same steps as a request.
Paper fills follow the ratios that the executor is configured with; the excess
leg gets a compensating order whose fill is a step of its own, with a crash in
between. The quantity of an open is one that `Sizing` makes of a notional, 32,
which keeps every part integral. Prices, margins and amounts are not modelled:
any step may be refused.

A close is priced in one transaction and inserted in another, and the insert
looks at the position's status only. Two requests that both hold a price can
therefore plan closes one after the other of which the second asks for more than
the first left. Settling it raises ("paper close fill exceeds the remaining
position", `_apply_paper_close_outcome`): the transaction is rolled back
(`Remains` guards `CloseSettles`), the worker ends and its container starts it
again (`PaperRaises`), and the next round meets the same close. That takes fill
ratios other than the worker's own, which fill both legs in full.

### How Sizing corresponds to the code

`Sizing` has no state: one operator per function of `sizing.py`, or per quotient
that a function rounds. The code computes with decimals; here a quantity is a
number of a unit that divides both exchanges' grids, a price a number of
another, a rate a fraction of `whole`, and each comparison of quotients one of
products, so nothing is rounded but what the code rounds. `Sized` is that
`size_paired_order` returns; the checks after its minimum are `Passes`. The
`1e-9` within which `compensation_quantity` takes a ratio for a whole number is
`1 / precision`. Left out: that decimal quotients are first cut to 28 digits,
and that the increment passes through a float (`sizing.py:78`), which gives back
any increment of up to 15 digits.

`MCSizing` states, as assumptions that TLC evaluates at the start of run
`trading`, what each operator is for without its arithmetic: the least common
multiple by search, the least notional whose legs pass, the largest legs the
money and the fee allow, the last price within the slippage, the nearest size
on the grid. The samples have grids with and without a common step, contracts
of one and two units, minimums and none, and fees of zero and a quarter.

### How ExecutionControl corresponds to the code

| variable | code |
|---|---|
| `control` | `ExecutionControlRow`: state, and who wrote the reason |
| `credentials` | `updated_at` of each account's credential |
| `rows` | `private_stream_states`: connected, and a heartbeat that is fresh |
| `streams`, `manager` | `DynamicPrivateStreamManager`: its dictionary of tasks, and where its loop is |
| `round` | `ReconciliationService.run_once`: the accounts it read, the pause it read, what it found |
| `worker`, `verified` | the process and the version it runs; history: the version whose round last wrote ready |
| `update` | status and request file, requests between the pause and the file, and where the agent is |
| `count` | how often bounded things have happened |

The shell scripts are part of the model, from the request file to the restarted
containers (`update_agent.sh`, `auto_update_agent.sh`, `deploy_vps.sh`). What a
deployment does apart from stopping, reconciling and starting may succeed or
fail at any point. The reconciliation of a round is whether every account
passed.

## 3. Runs

| run | question | instance |
|---|---|---|
| `live_settlement` | are orders sent once, and do settlement and compensation book what the exchange holds? | one open of 4 and one close; spot step 1, contracts of 2; crashes, failing preflights, lookups and handlers; resume |
| `live_groups` | one group at a time, perpetual before spot? | two opens, or one and its close; sandbox order; every fault but crashes; every control action |
| `live_progress` | is every group, every compensation resolved? | one open and one close; preflight failures; pauses and emergency closes; fairness |
| `live_pause_lost` | violation, finding 1 | one open; pause |
| `live_crash_groups` | violation, finding 2 | two opens; crash |
| `transfers` | is each transfer sent once, alone, recorded as what happened, within the limit, and ended? | two transfers of 1; Bitget and Gate; limits 2, 1 and off; two requests at once; pause, resume, a crash or a midnight; fairness |
| `transfer_timeout` | violation, finding 3 | one transfer at Gate |
| `multi_leg` | do retries, chases, lost answers, unknown words and exceptions keep the legs together? | a live task; a maker anchor of 3 in chunks of 2, an IOC hedge of 3; one chase; orders worded in every way; every fault; one crash; pauses |
| `multi_leg_resolve` | do a paper task and a live one end? | targets of 2; a hedge that waits for the whole anchor; words the code knows and does not know; raising calls; one crash; fairness |
| `notifications` | does the outbox keep its promise, and does every row close? | two workers; one source on a channel without a sender, replies on one with; two attempts; one lost batch or stopped worker; fairness |
| `trading` | does a ticket become one intent, is a position reserved once, do the books say what is held, also when a close is priced before another one takes a part? | five scenarios (below); three intents of 32; one crash; fairness |
| `control` | who may trade, in which version, watched by which stream? | one account; two edits of its credential; two faults; one update; fairness |

The bounds. In `LiveTrading`, `MaxIntents` and `MaxOpens` bound how many
intents one behaviour creates. Two are enough for an open and its close, and
for two groups that compete; each brings up to three orders. A quantity of 4
with contracts of 2 gives an imbalance that rounds to a full contract, one that
rounds with a remainder and one below a contract, on both sides of both
actions. The other runs have a quantity of 1, where each leg fills or does not,
and spend their states on interleavings. The number of worker passes, control
actions, crashes and lookups is not bounded: the state space is finite without
it. A third intent would add a second close after a partial one. The
reservation theorem (section 5) covers that for any number of intents.

Two transfers are enough for one to overtake, hide or outlive another, and two
requests at once for both to pass the ready check before either plans. The
limits 2 and 1 let the second transfer pass or not, and change between.
Bitget, Binance (as MEXC) and Gate are the three ways a transfer is found
again; the run has the two extremes. `MaxEvents` counts crashes and midnights
together: one crash may fall behind every step, or one midnight between two
plans, where the limit of the day begins anew. A day matters to nothing but
plans, so `NextDay` happens only where a plan can tell.

A target of 3 in chunks of 2 makes the second anchor order smaller than the
first and the hedge catch up in uneven steps; one chase is followed by the
fallback to an IOC order. With `MaxRetries = 0` a refused order ends the task,
which is the path to compensation. `MaxShort` bounds the orders called filled
and short of it, which nothing in the code bounds (section 4); one of them lets
the next order be sized on it. `multi_leg_resolve` has smaller targets, for its
paper task: an anchor that ends short still falls back to an IOC order, and a
hedge that ends short still leads to compensation. Two attempts are the least with a retry
before the last; an entry waits one tick for a stale claim and for a retry, so
that a claim may become stale while its batch is still being sent. A second
worker is what the code can have: it delivers until it finds the lock taken.

`trading` chooses one of five scenarios. Two requests race for a ticket, with one
key or two, while settings and the control row change; the automatic trader
works beside a request that closes its position, while quotes are renewed or
across a crash; paper trades, across a crash or of two requests at once, where
the second close can ask for too much. In one instance they would multiply, and
they share no hazard. Three intents are an open, its close and a competitor of
either.

In `control` one account has a credential that is saved, replaced and deleted.
Two faults let a lost connection meet a crash or a second worker; one update
may meet either. The row is shared by all accounts and is judged by all of
them: with a second account, one that is not ready holds the row back, which
one account shows as well. The theorems of section 5 have any number.

What the passing runs say:

* `SubmittedOnce`, `JournaledFirst`: no restart, unknown outcome or later pass
  sends an order again, and what is on the wire is in the journal.
* `ReservationConsistent`: `closing` positions and unsettled closes correspond
  one to one, manual review included (no code path leaves it).
* `QuietWhenSettled`: a settled or failed intent has no order that can still
  trade. It needs that a request does not outlive its call; see section 4.
* `HedgeMatchesExchange`: a position no close works on is exactly the short
  perpetual the exchange holds for it, with at least as much spot, and less
  than one increment of dust per settlement.
* `FailedLeavesNoExposure`: a failed intent has no perpetual exposure.
* `OneGroupAtATime`, `SpotFollowsPerp`: as named; the first without crashes.
* `PauseHeld`: in runs without concurrent administrator pauses, a pause written
  by the worker itself ends with a resume only; with them see finding 1.
* `GroupsResolve`, `CompensationsResolve`: with the fairness below, without
  crashes, lookup failures and resume.
* `TransferredOnce`, `OneInFlight`: an unanswered submission is never repeated,
  and no transfer is submitted while another awaits its confirmation, though
  several may be planned and the control row may change in between.
* `FailedNeverMoves`, `CompletedMoved`: both final outcomes are the exchange's.
  All doubt ends in `manual_review`.
* `LimitRespected`: when a plan is accepted, all that the exchange moved or may
  still move of the day's transfers is within the limit in force.
* `SupersededOrdersEnded`: no order of a task is created beside one that could
  still be filled, and the ledger has all fills of the ones before.
* `NothingOverfilled`, `HedgeNeverLeads`, `ExposureWithinOneOrder`: what the
  exchange holds, not what the rows say. A leg never exceeds its target, a hedge
  never leads, and the anchor is never ahead by more than one order, beyond
  what the hedge waits for.
* `FinishedAsRecorded`: `completed` means every leg at its target, `failed`
  means flat, both with nothing left at the exchange. One case is excepted: a
  task may fail while its last order was created and not recorded as sent.
* `ImplementsOutbox`, `EveryRowCloses`, `ConditionsProjected`: the abstract
  promise; every row is sent or dead in the end, without a sender too; and a
  condition that lasts is announced, however often it was read and lost.
* `OneIntentPerTicket`: one key, one intent; one ticket, one intent, with the
  target, action and urgency it showed; quantities and prices are not compared.
  `ReservedByOneClose`: as above, for paper, live and automatic closes.
* `BookedIsHeld`: after any fills, compensations and restarts a position is what
  was bought and sold, and `TypeOK` says that no settlement takes more off it than
  is left, with requests that race for it, too. `OneAutomaticPairPerAsset`: the trader reads and
  plans in different transactions and still never opens an asset twice.
* `ReadyIsReconciled`: a deployment never starts on the ready row of the version
  before, although a round may have overwritten the pause of the update.
* `OnlyItsOwnPause`: an update, a credential or a stream never lifts somebody
  else's pause.
* `ReadyOnlyWatched`: when edits, faults and updates have come to rest, ready
  means a running stream of the current credential and a row that says so. At
  each moment it would be too much to ask: a credential saved during a round is
  noticed by the manager after the round wrote ready.
* `TransfersResolve`, `TasksResolve`, `PaperResolves`: with the fairness below;
  the last unless a close asks for more than is left of its position, which
  raises in every round and is the administrator's to end. `TasksResolve` excepts
  a live task, and what waits behind it, only while lookups show an order that has
  ended in a word `_remote_status` does not know: the code has no end for it. Its
  run has such words and others side by side. It has no order that is called
  filled and is not, since retries would then have no limit. Section 4 has both.

### Fairness

* `LiveTrading`. `WF_vars(Worker)`: `run_forever` repeats `run_once` every 60
  seconds, or sooner, and polls for planned intents; a pass has no wait that
  can last. `WF_vars(Arrive(l))`, `WF_vars(Expire(l))`: an HTTP request ends by
  its time limit and an immediate-or-cancel order ends on its own.
  `SF_vars(CompensationStart(i))`: the compensator needs a fresh and deep
  enough market, which the program does not control. The claim is conditional
  on one coming up again and again while a compensation is due. Weak fairness
  would not do, since `pc` leaves `comp` in every pass.
* `InternalTransfers`. `WF_vars(Worker)` as above, `WF_vars(Elapse(t))`: fifteen
  minutes pass, and `SF_vars(ConfirmArrival)`: of the snapshots taken again and
  again at the arrival check, one succeeds. The last is not the program's doing
  and finding 3 shows what happens without it. The exchange owes nothing.
* `MultiLegTasks`. The steps of the worker for a live task weakly, for a paper task
  strongly: `ReconciliationService.run_once` (`reconciliation.py:155-156`) begins
  with the paper tasks in every round, however long a live one takes. Strongly too, that a lookup finds
  an order the exchange has, that its fills are complete, and that a request is
  sent. The exchange accepts what it was sent and ends what is in its book: an IOC
  order at once, a maker order because it fills, expires or is chased, which takes a
  word the code knows. The run has no refusals and a control row that is resumed.
  Nothing is assumed of how an exchange words an order that it has several words
  for.
* `NotificationOutbox`. Time passes, the two loops of a worker go on, a stopped
  worker is started again. `SF_vars(ReadCondition(w, s))`: the projection is
  disabled while it writes, and returns to each source in every iteration.
  No send has to succeed.
* `TradeLedger`. `WF_vars(PaperStep \/ RestOfRound)`: the round goes on.
* `ExecutionControl`. The worker is restarted by its container, the manager's
  loop and the round go on, a deployment that stopped the services ends, and a
  running stream sends heartbeats: `HeartbeatAges` is fair only for streams that
  do not run.

In `live_progress` crashes are excluded: a crash behind the commit of a group
leaves `submitted` legs that no lookup finds, and
`mark_unknown_order_not_found` gives up `unknown` legs only, so such an intent
waits for an operator. Resume is excluded because the compensator acts only
while paused.

Deadlock is checked in every run but those of `MultiLegTasks`, where all
tasks may be finished and nothing is left to do: new tasks are bounded.

## 4. Findings

1. `live_pause_lost`. `docs/storage-and-operations.md:555` promises that a new
   pause is read again and kept at the end of a round. The row is read in one
   transaction and overwritten in another (`reconciliation.py:159/164`,
   `453/469/474`), so a pause in between is lost.
2. `live_crash_groups`. `docs/storage-and-operations.md:535` promises that no
   group is sent before the last one is reconciled. The executor runs before
   the reconciliation and trusts the control row, which is still `ready` after
   a crash behind the commit of `prepare_live_submission`.
3. `transfer_timeout`. `docs/storage-and-operations.md:494-496` and
   `DOCS.md:218` say that an arrival which cannot be confirmed within 15 minutes
   goes to `manual_review`. `_confirm_arrival` (`transfers.py:341-348`) looks at
   the time limit only when a snapshot was taken: while snapshots fail, the
   transfer stays pending, and the ones behind it planned.

Two things a multi-leg task does against a broad reading of the documents. The
model has both; `TasksResolve` excepts the first, `MaxShort` bounds the second:

* `DOCS.md:370` sends a task to `manual_review` when a remote state is uncertain,
  and `DOCS.md:378` does so for any pending or unknown order. `_remote_status`
  (`multi_leg_live_execution.py:969-1007`) does not know the words with which some
  exchanges end an order short of its quantity: Gate's `finished` (perpetual),
  MEXC's `4` and `5`, Bybit's `PartiallyFilledCanceled`, Binance's
  `EXPIRED_IN_MATCH`, which `storage.py:4209-4227` maps for the two-leg executor.
  The row stays `unknown`, `partially_filled` or `cancel_pending`; every pass looks
  the same order up again, and neither a retry nor a review follows until
  something raises. It is also the oldest active task, so that younger ones wait
  behind it. Without its exception `TasksResolve` fails on a Gate hedge of which
  a part was filled.
* `docs/storage-and-operations.md:323` gives a task a limit of retries. The
  function returns `filled` for an order called `filled`, `closed` or `done` that is
  short of its quantity (line 978), and the limit is only looked at behind
  `canceled`, `rejected` and `failed` (line 548): IOC orders that end this way
  follow one another without end. Only the bound `MaxShort` stops them here.

Behaviour the models show that contradicts no document, or only a broad
reading of one; each is listed among the hazards:

* `docs/storage-and-operations.md:318` keeps an order that is not found
  uncertain. One complete lookup without it turns an `unknown` leg into
  `failed`, and the intent is settled on that: with `"late"` among the faults
  `QuietWhenSettled` does not hold.
* A request or a deletion of a credential behind the round's last read of the
  row turns into the state the round writes, until the manager's next look.
* A stream whose loss could not be recorded, in a worker that lost its database
  for a moment, is noticed by the age of its heartbeat only.
* An update whose request file could not be linked leaves its pause behind; the
  administrator's retry, which accepts the update's own pause, is the way out.
* Disabling the automatic trader while it evaluates a round that ends in a pause
  of its own is overwritten by `paused`.
* A ticket that was reserved with a key stays usable with that key beyond its
  expiry; its intent is planned at the market of the retry.
* A hedge that lacks less than its lot grid is never ordered, and the task ends
  in review or compensation instead of `completed`.
* Two workers that overlap may announce a condition twice; the baseline a new
  worker takes at its start may swallow one that changed while none ran.

## 5. Proofs

The theorems hold for every value of the constants that satisfies the named
assumptions of their module.

The live core (`BoundAssumption`, `GridAssumption`, `SwitchAssumption`): any
number of intents and opens, any quantity and increments, any set of faults,
late requests included, and of administrator actions.

* `LiveTradingProofs!TypeCorrect`: `Spec => []TypeOK`. `TypeOK` is inductive.
  Two steps need more than a glance: a settlement subtracts from a position's
  quantity, which stays a natural number because of the guard
  `filled <= quantity` that the code has; and a trade adds at most what is left
  of the order's quantity. One lemma per group of actions.
* `LiveTradingProofs!SubmittedAtMostOnce` and `JournalAheadOfWire`. Neither is
  inductive: `Submit` may only raise `sent` if the leg it takes from the
  worker's memory was not sent before. `JournalInv` adds that: a leg waiting in
  `w.send` is journaled and unsent, and only the step `place` has such legs.
  It is kept because `prepare_live_submission` and
  `prepare_live_compensation` take `created` legs only, which `JournaledFirst`
  says were never sent, and because no action makes a leg `created` again: a
  crash empties `w.send`, and what was in it stays unsent for ever.
* `LiveTradingProofs!ReservationsConsistent`: `ReservationConsistent` is
  inductive together with `TypeOK`. The lemmas are about the operators:
  `Released` ends exactly the reservation of its intent, `Book` of a close ends
  it, `Book` of an open touches a position that nobody reserved, and moves
  among unsettled states leave it.
* `LiveTradingProofs!SpotAfterPerp` (`SpotFollowsPerp`), with every fault.
  `PairInv` adds what makes the worker's one answer for "the perpetual leg" an
  answer about the spot leg's partner: while a spot leg waits, all legs in hand
  are of its intent, and an acknowledgement means that the exchange took the
  order. What the exchange took it keeps (`WireKept`), because only a submission
  could replace an order and `JournalInv` says it takes unsent legs.
* `LiveTradingProofs!GroupsDoNotOverlap` (`OneGroupAtATime`), from
  `NoCallsLost`: no crash, and no call that fails with its request still on the
  way. Both are needed: `LiveCrashGroups` is TLC's counterexample with a crash.
  "ready" is written by one round of the worker and used by the next, so the
  invariant follows a fact through a whole round. `HandInv`: what is on its way
  to the exchange is in the worker's hands and unanswered, so nothing is on its
  way outside `place`. `RowsInv`: an intent that the reconciliation does not list
  has its primary legs at rest, and a leg at rest stays so, for a leg that is
  "filled" is filled to its quantity and the ledger is never ahead of the
  exchange. `RunInv`: while the legs are looked up and nothing blocks, those
  looked up are at rest (`LookedUpInv`), then all are, through the account's
  result and the compensator after it (`AccountInv`), until the control row says
  "ready", which it does nowhere between then and the next reconciliation with a
  group open (`ReadyInv`). `RowsStep` shows once for all actions that legs at
  rest stay at rest, one lemma per phase the rest.
* `LiveTradingProofs!WorkerPausesHold` (`PauseHeld`), from `WorkerPausesOnly`: no
  administrator pauses beside the worker, since finding 1 is what happens when one
  does. The two steps that write the control row without a look at it are behind
  a read that found no pause (`PauseInv`), and the worker, which alone can pause
  then, does not in between.
* `LiveTradingProofs!SettledIsFinal` (`QuietWhenSettled`), from `NoneLate`: no call
  fails with its request still on the way. Crashes are allowed, between any two
  steps. Section 4 shows the hypothesis to be needed. `SettledInv` relates each row
  to its order in four parts. `AgreeInv`: what a status says of the order, as that
  a leg given up has an order that is over or never was. `HoldInv`: a request that
  was answered has arrived, so an answer is the truth about it. `QuantityInv`: no
  leg is of no quantity, which an exchange would neither fill nor refuse.
  `SettleInv`: from the lookup of a leg to the end of the round its row, once
  terminal, has all the fills of its order (`Exact`), so that a settlement works on
  exact rows; and what each status of an intent says of its legs (`IntentInv`).
  The delicate case is a leg that no lookup finds. Only an `unknown` row is given up
  then, and `AgreeInv` says that its order is not on its way: the row became
  `unknown` when its call had failed, and `HoldInv` says what that means. A crash in
  the middle leaves a row `submitted`, which nobody gives up.
* `LiveTradingProofs!FailuresAreFlat` (`FailedLeavesNoExposure`) and
  `BooksAreTheAccount` (`HedgeMatchesExchange`), from `NoneLate` too, and any
  increments of the two legs. `HedgeInv` says what an intent that is over left at
  the exchange (`ExposureInv`), that closes point to positions (`PointsInv`), and
  that a position's quantity is what its open and closes have booked, the closes
  that are not over counting zero (`BookInv`). Only a step that ends an intent
  changes what is booked, and `Ends` is what such a step is: it leaves legs and
  orders alone, and gives the position what the orders made (`Gives`). `DropEnds`
  and `SettleEnds` show that of all the ways in which an intent ends. They rest on
  `SettledInv`: the rows of an intent that ends are exact and final, so that
  quantities computed from rows are quantities at the exchange, and stay so
  (`OverKept`). The dust bound comes from the tolerance of the protection order,
  which is its own increment. `SumOfGroups` turns the sum over all legs into one
  over intents, `SumsApart` adds up the dust.

The transfers (`TransferAssumption`): any number of transfers, days, crashes
and requests, any of the exchanges with separate accounts, any amounts and
limits.

* `InternalTransfersProofs!TransferTypes`, `TransferSubmittedOnce`,
  `TransfersOneAtATime`, `FailedTransfersStay` and `CompletedTransfersMoved`
  follow from one inductive invariant, `TransferInv`. To the properties it adds
  what the worker knows of the transfer at hand (`AtHand`) and what rows say of
  the wire (`WireOK`). `AtHand`: between the pick and the submission the
  transfer stays planned and nothing is in flight, since no step of another
  actor changes the status of a planned transfer; at `judge` and `arrival` the
  exchange did what it reported, since it never takes a final outcome back.
  `WireOK`: what is not prepared was not sent; what has a remote id was taken;
  what Gate takes it has moved, which is what makes its "completed" without a
  query right. One lemma per step that changes a row; `Retried`, `Dropped` and
  `Finalized` are shared by the ways in which the service returns.
* `DailyLimitHolds` (`LimitRespected`), an action property, from the same
  invariant: what the exchange moved or may still move of a day is a part of what
  the database counts against its limit, because a failed row was not moved and a
  row that is not there was not sent. A sum of natural numbers over a part is at
  most the sum over the whole (`SumOfPart`), and a plan adds its own amount.

The multi-leg tasks (`MultiLegAssumption`): any number of tasks, legs, retries,
chases and crashes, any targets, chunks, increments and maker legs, any faults.

* `MultiLegTasksProofs!TaskTypes`, `SupersededOrdersHaveEnded`,
  `NothingIsOverfilled`, `HedgesNeverLead`, `ExposureIsBounded` and
  `FinishedIsAsRecorded` follow from one inductive invariant, `MultiLegInv`. No
  property about quantities is inductive, because each speaks of what orders
  have filled and the next fill is the exchange's choice. `MultiLegInv` states
  the bounds on what orders can still come to (`ReachIn`, with what the ledger
  has, `FilledIn`, and what the exchange has, `GotIn`, below it): a leg's
  purchases reach its target at most (`Budget`), a hedge's reach stays within
  what the anchor's fills ask for, and the anchor's reach at most one order
  beyond the hedges (`Paced`). Fills only move an order within its reach, an end
  lowers it; only a new order raises it. That order is sized on fills known to
  be final, which is `Rows` and `Matches`: only the last order of a task may be
  open, and an ended row has the exchange's fills. `Outcome` says what a status
  claims of the sums, `InHand` what the worker's memory knows between two
  transactions. One lemma per action; rounding down to the lot grid is where the
  bounds have their slack.
* `SumTheorems!SumWithout`: a sum over a finite set is any member's value and
  the sum of the others. The fold picks its elements by a choice that nobody
  knows, so this is not its definition, and induction over sets is out of the
  provers' reach. The proof takes a least counterexample, among the subsets
  ordered by inclusion, as an element of a set, for which well-foundedness is
  enough. `SumGrows`, `SumChanges` and the others follow by the same means.

The notifications (`OutboxAssumption`): any number of workers, sources,
conditions, channels and updates, any backoff, any number of attempts.

* `NotificationOutboxProofs!NotificationTypes`: `Spec => []TypeOK`, by the
  invariant `OutboxInv`, which adds what a worker has in hand: claimed rows
  that nobody forgets, and a `sent` that has arrived.
* `NotificationsImplementOutbox`: `Spec => ImplementsOutbox`, the refinement.
  The mapping sends pending, sending and retry to open. A claim is a `Try`, a
  send a `Deliver`, a mark a `Close` or a stutter, which is where `InHand` is
  needed: a late mark closes only a row that is still being sent, and what it
  calls sent is in `delivered`. One lemma per action names its abstract step.

The control row (`ControlAssumption`): any set of accounts, any number of
edits, faults and updates.

* `ExecutionControlProofs!TypeCorrect`: `Spec => []TypeOK`.
* `OnlyOwnPauseLifted`: `Spec => OnlyItsOwnPause`. It needs no invariant: each
  writer's own condition, evaluated in its transaction, is enough, whatever
  state the others are in.
* `NewVersionReconciles`: `Spec => []ReadyIsReconciled`. By itself it is not
  kept by the start of the new version, which raises `worker.version` and leaves
  the row. `UpdateInv` adds that no worker runs from the moment the services are
  stopped until they start, so that no round writes ready behind
  `update-reconcile`, and that the row is reconciling at that start.

The trade intents (`LedgerAssumption`): any number of requests, keys, assets,
previews, intents, settings, quotes and crashes, any fill ratios.

* `TradeLedgerProofs!TicketsPlanOnce` (`OneIntentPerTicket`) and
  `PositionsReservedOnce` (`ReservedByOneClose`) follow from one inductive
  invariant, `LedgerInv`. Neither property is inductive: between the reservation
  of a ticket and the insert lie several awaits, in which the ticket's row and the
  position change hands. `Tickets` says what a request in progress knows of its
  ticket: it shows what the request asks for, and once the request has passed
  its reservation the ticket has the request's key. It is kept because a ticket gets a
  key only while it has none, so two requests that passed with different
  keys hold different tickets, and the insert refuses a key that an intent has.
  `Reservations` says that a closing position names an unsettled close of its own
  and each unsettled close is the one its position names; also that an
  unsettled open, and a number no intent has yet, has no position, or booking an
  open could overwrite a reservation. The insert looks at the position again in
  its own transaction; the check of the pricing step is not enough, nor needed.
  `TicketStep` and `RequestStep` cover the steps that leave intents and positions
  alone; `StillPending`, `OpenSettled` and `CloseSettled` those of the worker.
* `LedgerTypes` (`TypeOK`) and `BooksAreTrue` (`BookedIsHeld`) follow from
  `LedgerInv` with three more parts. `BooksInv` is the accounting: a position's
  quantity is what its open booked less the sum of what its closes booked
  (`BooksAgree`), where a row books the lesser of its fills once it is settled
  and nothing before; and what a row's status says of its fills (`RowSound`): an
  order of just the excess while it is compensated, and after it the same on both
  legs. A crash between the fill and the compensation is harmless because the row
  alone tells how to go on. Inserting a close adds a zero to the sum, settling it
  changes one term (`SumWith`, `SumChanges` of `SumTheorems`). `RequestsAsk` says
  that no request holds a quantity beyond an open's, `Bounded` is the rest of
  `TypeOK`. That a position never becomes negative rests on the guard `Remains`
  alone: the quantity a close asks for is no bound, since it may be outdated. An
  earlier version of the model had no such guard; `BooksInv` was not inductive
  without it, and two racing paper closes (`Racing` in `trading`) show why.
* `OneAutomaticPair` (`OneAutomaticPairPerAsset`) follows from `TraderInv`. The
  trader reads positions in one transaction, keys of unsettled opens in the next,
  and plans in later ones. `TraderSees` says that each open of its own with a
  position is among the positions it read, then that each unsettled one is among
  the keys; it lasts because only the worker, who is the trader, settles, so none
  goes from unsettled to a position between the two reads. `TraderAsks` says that
  the asset it asks to open is free, until it is planned: other planners' keys are
  not the trader's (`ClientsAsk`), and no step of theirs puts an open of the trader
  in the way (`Quiet`, `Still`). A second process that settled opens would break
  it: one that settles between the two reads would show in neither.

Orders (no assumption beyond complete rules, positive prices and a fee rate
below one):

* `SizingProofs!LegsMatch`: both legs lie on their grids; the perpetual leg is
  never larger than the spot that the fee leaves, nor a whole increment smaller.
* `MinimumIsExact`: a request reaches the minimum notional just when its legs
  pass every check and the perpetual leg is not empty. Each part of the minimum
  is a quotient rounded up, and a number of steps reaches a rounded up quotient
  just when it reaches the amount (`CeilingReached`, `FloorReached`); the four
  parts then are the checks one by one. So the checks behind the minimum refuse
  nothing, and without the minimum's own `1 <=` an empty perpetual leg would pass
  them where the exchange names no minimum.
* `LimitWithinSlippage`: a limit price is the last on the grid within the slippage.
* `OnlySpotDustRemains`: the docstring of `compensation_quantity`. A purchase on
  either leg raises spot held over perpetual owed, a sale lowers it; rounding
  the one up and the other down leaves less than an increment, on the spot side.
  The tolerance for floats may leave a billionth of an increment on the other.

`LcmOnBothGrids` rests on a greatest common divisor existing, which is the
well-foundedness of the naturals.

Model-checked only: liveness, which is out of the prover's reach, with
`ReadyOnlyWatched`, which says what is true once edits and faults have come to
rest. Every other invariant and action property of the passing runs is stated by a
theorem. `NoCallsLost`, `NoneLate` and `WorkerPausesOnly` are hypotheses on the faults and control actions an instance admits, not on its
states; the runs that check the same properties admit no more.

## 6. Not modelled, and what is left

Not modelled, because they hold no trading state, or are sequential input and
output:

* exchange clients and stream adapters: signing, formatting, parsing. The models
  have the exchange that the services see through them, and its lost, late and
  incomplete answers.
* the scanner's spread arithmetic, portfolio and ADL views, the frontend:
  read-only for the trading core, which takes its market as an input.
* authentication: sessions, one-time codes and the login limiter; encryption.
* HTTP routes beyond the handlers of previews, confirmations, paper trades,
  pauses, settings, credentials, transfers, tasks and updates.
* backup, migrations and scripts beyond the update: archives and schema.

Left out of what is modelled: all amounts, prices, fees and margins in
`TradeLedger`, apart from the size of an open; the automatic trader's rules and
limits, apart from the number of positions; funding income and account
snapshots; several accounts in one round of `LiveTrading`; templates and
strategies of multi-leg tasks. `PROJECT.json` lists every part with its status,
and every hazard with the property about it, or the reason there is none.

What would add most:

1. `PairLifecycle`: what a paired position promises (planned, hedged, closing,
   closed or failed, with one quantity), implemented by `LiveTrading`.
2. Late requests: which of the theorems from `NoneLate` survive for the intents
   whose calls were all answered, as an invariant per intent and not per program.
3. A second account in the round of `LiveTrading`: accounts are reconciled one
   after the other under one control row.
