------------------------- MODULE InternalTransfers -------------------------
(***************************************************************************)
(* Internal transfers between the spot and the perpetual account of one    *)
(* exchange: the API plans them under the limits, the worker submits and   *)
(* confirms them one after the other at the start of each pass, and the    *)
(* exchange moves the money in its own time.                               *)
(*                                                                         *)
(* A worker step is one transaction or one exchange call.  The rest of the *)
(* pass is kept as far as it writes the control row.  Trading, fees and    *)
(* deposits move the balances all the time, so that a snapshot may show    *)
(* enough in the source account, and an arrival in the target account,     *)
(* whatever became of the transfer: the balances are not a variable.  An   *)
(* idempotency key names its transfer: replaying one changes nothing and   *)
(* is not a step.                                                          *)
(***************************************************************************)
EXTENDS Integers, FiniteSets, Functions

CONSTANTS
    MaxTransfers,   \* bound: transfers planned in one behaviour
    Venues,         \* exchanges with separate accounts
    Amounts,        \* amounts a request may name
    LimitChoices,   \* the limit settings an administrator may save
    MaxEvents,      \* bound: midnights (UTC) and deaths of the worker, together
    Controls        \* the administrator's control actions that may happen

Transfers  == 1..MaxTransfers     \* numbered in the order of created_at
LimitRows  == [per: Nat, daily: Nat]

\* _validate_transfer_limits: both zero, which disables, or both positive.
ValidLimits(value) ==
    /\ (value.per = 0) <=> (value.daily = 0)
    /\ value.per <= value.daily

ASSUME TransferAssumption ==
    /\ MaxTransfers \in Nat \ {0} /\ MaxEvents \in Nat
    /\ Venues \subseteq {"binance", "bitget", "gate", "mexc"} /\ Venues # {}
    /\ Amounts \subseteq Nat \ {0}
    /\ LimitChoices \subseteq LimitRows /\ LimitChoices # {}
    /\ \A value \in LimitChoices : ValidLimits(value)
    /\ Controls \subseteq {"pause", "resume"}

VARIABLES
    control,      \* the execution_control row's state
    limits,       \* the transfer_limits setting
    day,          \* the UTC day
    transfers,    \* the internal_transfers rows
    late,         \* transfers submitted more than confirmation_timeout ago
    wire,         \* what the exchange made of each transfer
    sent,         \* how often each transfer was submitted
    pc,           \* the worker's next step
    w,            \* the worker's memory, lost in a crash
    api,          \* requests between their ready check and their plan: how many
    crashes

rows   == <<control, limits, transfers>>
clock  == <<day, late>>
vars   == <<rows, wire, clock, sent, pc, w, api, crashes>>

---------------------------------------------------------------------------
(* Rows *)

TransferStatuses == {"none", "planned", "submitted", "pending", "completed",
                     "failed", "manual_review"}
Active   == {"submitted", "pending"}
Terminal == {"completed", "failed", "manual_review"}
Moves    == {"none", "inflight", "lost", "refused", "pending", "failed", "done"}

NoTransfer == [status |-> "none", venue |-> CHOOSE v \in Venues : TRUE,
               amount |-> 0, day |-> 0, linked |-> FALSE]

Fresh == [cur |-> 0, found |-> "unknown", safety |-> FALSE,
          ok |-> FALSE]

Init ==
    /\ control = "ready"
    /\ limits \in LimitChoices
    /\ day = 0
    /\ transfers = [t \in Transfers |-> NoTransfer]
    /\ late = {}
    /\ wire = [t \in Transfers |-> "none"]
    /\ sent = [t \in Transfers |-> 0]
    /\ pc = "pick"
    /\ w = Fresh
    /\ api = 0
    /\ crashes = 0

InStatus(S) == {t \in Transfers : transfers[t].status \in S}
SetStatus(t, status) == transfers' = [transfers EXCEPT ![t].status = status]

---------------------------------------------------------------------------
(* The API, the administrator and the clock *)

PauseExecution ==
    /\ "pause" \in Controls
    /\ control' = "paused"
    /\ UNCHANGED <<limits, transfers, wire, clock, sent, pc, w, api, crashes>>

ResumeExecution ==
    /\ "resume" \in Controls
    /\ control' = "reconciling"
    /\ UNCHANGED <<limits, transfers, wire, clock, sent, pc, w, api, crashes>>

\* save_transfer_limits
SaveTransferLimits ==
    /\ limits' \in LimitChoices \ {limits}
    /\ UNCHANGED <<control, transfers, wire, clock, sent, pc, w, api, crashes>>

\* The request looks at the control row and the account, then plans.
CheckReady ==
    /\ api < MaxTransfers /\ control = "ready"
    /\ api' = api + 1
    /\ UNCHANGED <<rows, wire, clock, sent, pc, w, crashes>>

PreflightRefused ==
    /\ api > 0
    /\ api' = api - 1
    /\ UNCHANGED <<rows, wire, clock, sent, pc, w, crashes>>

Amount == [t \in Transfers |-> transfers[t].amount]

\* Variant: a transfer under review no longer counts.
UsedWithoutReview(d) ==
    SumFunctionOnSet(Amount, {t \in Transfers :
            /\ transfers[t].status \notin {"none", "failed", "manual_review"}
            /\ transfers[t].day = d})

\* What counts against the limit of day d: all that is not clearly failed.
Counted(d) == {t \in Transfers :
                  transfers[t].status \notin {"none", "failed"} /\ transfers[t].day = d}
Used(d) == SumFunctionOnSet(Amount, Counted(d))

\* plan_internal_transfer locks the settings and the control row; the ready
\* check is not repeated.
PlanTransfer(venue, amount) ==
    /\ api > 0
    /\ api' = api - 1
    /\ limits.daily > 0 /\ amount <= limits.per
    /\ Used(day) + amount <= limits.daily
    /\ \E t \in InStatus({"none"}) :
         /\ \A u \in InStatus({"none"}) : t <= u
         /\ transfers' = [transfers EXCEPT ![t] =
              [status |-> "planned", venue |-> venue, amount |-> amount,
               day |-> day, linked |-> FALSE]]
    /\ control' = "paused"
    /\ UNCHANGED <<limits, wire, clock, sent, pc, w, crashes>>

\* A day nobody planned a transfer on is like the one before, and only a
\* request under way that may still plan one sees it end.
NextDay ==
    /\ day + crashes < MaxEvents
    /\ api > 0 /\ InStatus({"none"}) # {}
    /\ \E t \in Transfers \ InStatus({"none"}) : transfers[t].day = day
    /\ day' = day + 1
    /\ UNCHANGED <<rows, wire, late, sent, pc, w, api, crashes>>

\* _confirmation_timed_out begins to hold.
Elapse(t) ==
    /\ transfers[t].status \in Active
    /\ t \notin late
    /\ late' = late \cup {t}
    /\ UNCHANGED <<rows, wire, day, sent, pc, w, api, crashes>>

---------------------------------------------------------------------------
(* The exchange *)

Move(t, status) == wire' = [wire EXCEPT ![t] = status]

\* Gate's transfers are done when they are taken, the others may wait.
Accept(t) ==
    /\ wire[t] = "inflight"
    /\ \E s \in {"pending", "done"} :
         /\ transfers[t].venue = "gate" => s = "done"
         /\ Move(t, s)
    /\ UNCHANGED <<rows, clock, sent, pc, w, api, crashes>>

\* Refused, or never arrived: both look the same to the history.
Refuse(t) ==
    /\ wire[t] = "inflight"
    /\ \E s \in {"refused", "lost"} : Move(t, s)
    /\ UNCHANGED <<rows, clock, sent, pc, w, api, crashes>>

Complete(t) ==
    /\ wire[t] = "pending"
    /\ Move(t, "done")
    /\ UNCHANGED <<rows, clock, sent, pc, w, api, crashes>>

\* A waiting transfer may still fail; a transfer that is done stays done.
Fail(t) ==
    /\ wire[t] = "pending"
    /\ Move(t, "failed")
    /\ UNCHANGED <<rows, clock, sent, pc, w, api, crashes>>

---------------------------------------------------------------------------
(* InternalTransferExecutionService.run_once *)

First(t, S) == t \in S /\ \A u \in S : t <= u

\* Variant: planned transfers are taken before those awaiting confirmation.
PlannedFirst ==
    /\ pc = "pick"
    /\ IF InStatus({"planned"} \cup Active) = {}
       THEN pc' = "recon" /\ w' = Fresh
       ELSE \E t \in Transfers :
              /\ First(t, IF InStatus({"planned"}) # {} THEN InStatus({"planned"})
                          ELSE InStatus(Active))
              /\ w' = [Fresh EXCEPT !.cur = t]
              /\ pc' = IF transfers[t].status = "planned" THEN "preflight" ELSE "query"
    /\ UNCHANGED <<rows, wire, clock, sent, api, crashes>>

\* The oldest transfer awaiting confirmation, else the oldest planned one.
Pick ==
    /\ pc = "pick"
    /\ IF InStatus({"planned"} \cup Active) = {}
       THEN pc' = "recon" /\ w' = Fresh
       ELSE \E t \in Transfers :
              /\ First(t, IF InStatus(Active) # {} THEN InStatus(Active)
                          ELSE InStatus({"planned"}))
              /\ w' = [Fresh EXCEPT !.cur = t]
              /\ pc' = IF transfers[t].status = "planned" THEN "preflight" ELSE "query"
    /\ UNCHANGED <<rows, wire, clock, sent, api, crashes>>

\* run_once returns; the other services of the pass follow.
Return == pc' = "recon" /\ w' = Fresh

\* finalize_internal_transfer, at step p of the service.
Finalize(p, status) ==
    /\ pc = p
    /\ SetStatus(w.cur, status)
    /\ Return
    /\ UNCHANGED <<control, limits, wire, clock, sent, api, crashes>>

\* Nothing is written, a later pass tries again.
Retry(p) ==
    /\ pc = p
    /\ Return
    /\ UNCHANGED <<rows, wire, clock, sent, api, crashes>>

\* The credential was deleted in the meantime.
CredentialMissing == Finalize("preflight", "manual_review")
                     \/ Finalize("query", "manual_review")

\* Snapshot or trading state unavailable, or open orders.
PreflightRetry == Retry("preflight")

\* The account has become a shared one, or the source balance is too low.
PreflightRejected == Finalize("preflight", "failed")

PreflightPass ==
    /\ pc = "preflight"
    /\ pc' = "prepare"
    /\ UNCHANGED <<rows, wire, clock, sent, w, api, crashes>>

\* prepare_internal_transfer_submission
PrepareSubmission ==
    /\ pc = "prepare"
    /\ transfers[w.cur].status = "planned"
    /\ control = "paused"
    /\ SetStatus(w.cur, "submitted")
    /\ pc' = "send"
    /\ UNCHANGED <<control, limits, wire, clock, sent, w, api, crashes>>

\* Its ValueError is caught by nobody: the process ends and is started again.
PrepareRaises ==
    /\ pc = "prepare"
    /\ control # "paused"
    /\ pc' = "pick"
    /\ w' = Fresh
    /\ UNCHANGED <<rows, wire, clock, sent, api, crashes>>

SubmitTransfer ==
    /\ pc = "send"
    /\ Move(w.cur, "inflight")
    /\ sent' = [sent EXCEPT ![w.cur] = @ + 1]
    /\ pc' = "answer"
    /\ UNCHANGED <<rows, clock, w, api, crashes>>

Taken == {"pending", "failed", "done"}

\* Variant: the row takes the exchange's own word for its status.
AnsweredVerbatim ==
    /\ pc = "answer"
    /\ wire[w.cur] \in Taken
    /\ transfers' = [transfers EXCEPT ![w.cur].linked = TRUE,
                                      ![w.cur].status = wire[w.cur]]
    /\ Return
    /\ UNCHANGED <<control, limits, wire, clock, sent, api, crashes>>

\* record_internal_transfer_remote_id; a completed answer goes on to the arrival.
Answered ==
    /\ pc = "answer"
    /\ wire[w.cur] \in Taken
    /\ transfers' = [transfers EXCEPT ![w.cur].linked = TRUE,
                                      ![w.cur].status = "pending"]
    /\ IF transfers[w.cur].venue = "gate"
       THEN pc' = "arrival" /\ UNCHANGED w
       ELSE Return
    /\ UNCHANGED <<control, limits, wire, clock, sent, api, crashes>>

RecoverableWithoutAck(t) == transfers[t].venue = "bitget"

\* Variants: an uncertain submission is planned again, or taken for failed.
UncertainRetried ==
    /\ pc = "answer"
    /\ SetStatus(w.cur, IF RecoverableWithoutAck(w.cur) THEN "submitted"
                        ELSE "planned")
    /\ Return
    /\ UNCHANGED <<control, limits, wire, clock, sent, api, crashes>>
UncertainFailed ==
    /\ pc = "answer"
    /\ SetStatus(w.cur, IF RecoverableWithoutAck(w.cur) THEN "submitted"
                        ELSE "failed")
    /\ Return
    /\ UNCHANGED <<control, limits, wire, clock, sent, api, crashes>>

\* Any exception, whatever the exchange did or will do with the request.
SubmissionUncertain ==
    /\ pc = "answer"
    /\ SetStatus(w.cur, IF RecoverableWithoutAck(w.cur) THEN "submitted"
                        ELSE "manual_review")
    /\ Return
    /\ UNCHANGED <<control, limits, wire, clock, sent, api, crashes>>

AckMissing ==
    /\ pc = "query" /\ ~transfers[w.cur].linked /\ ~RecoverableWithoutAck(w.cur)
    /\ Finalize("query", "manual_review")

\* What internal_transfer_status may report: Gate has no query and answers
\* "completed"; the histories of the others may not list a transfer yet.
Reported(t) ==
    IF transfers[t].venue = "gate" THEN {"completed"}
    ELSE {"unknown"}
         \cup (IF wire[t] = "pending" THEN {"pending"} ELSE {})
         \cup (IF wire[t] = "failed" THEN {"failed"} ELSE {})
         \cup (IF wire[t] = "done" THEN {"completed"} ELSE {})

\* A transfer that is listed brings its remote id, persisted if it is new.
Query ==
    LET t == w.cur IN
    /\ pc = "query"
    /\ transfers[t].linked \/ RecoverableWithoutAck(t)
    /\ \E status \in Reported(t) :
         /\ w' = [w EXCEPT !.found = status]
         /\ IF status # "unknown" /\ ~transfers[t].linked
            THEN transfers' = [transfers EXCEPT ![t].linked = TRUE,
                                                ![t].status = "pending"]
            ELSE UNCHANGED transfers
    /\ pc' = "judge"
    /\ UNCHANGED <<control, limits, wire, clock, sent, api, crashes>>

\* Variant: nothing but an arrival ends the confirmation.
NeverTimedOut(p) == Retry(p)

\* The query raises, or the remote status is still open.
NotConfirmed(p) ==
    \/ w.cur \in late /\ Finalize(p, "manual_review")
    \/ w.cur \notin late /\ Retry(p)

QueryFails ==
    /\ pc = "query"
    /\ transfers[w.cur].linked \/ RecoverableWithoutAck(w.cur)
    /\ NotConfirmed("query")

RemoteFailed == w.found = "failed" /\ Finalize("judge", "failed")
RemoteOpen   == w.found \in {"unknown", "pending"} /\ NotConfirmed("judge")

\* Variant: an open remote status is left to the balance check.
AnyStatusArrives ==
    /\ pc = "judge"
    /\ w.found # "failed"
    /\ pc' = "arrival"
    /\ UNCHANGED <<rows, wire, clock, sent, w, api, crashes>>

RemoteCompleted ==
    /\ pc = "judge"
    /\ w.found = "completed"
    /\ pc' = "arrival"
    /\ UNCHANGED <<rows, wire, clock, sent, w, api, crashes>>

\* _confirm_arrival with a snapshot, that shows the expected target balance or
\* not, and without one.
ConfirmArrival == Finalize("arrival", "completed") \/ NotConfirmed("arrival")

ArrivalRetry == Retry("arrival")

---------------------------------------------------------------------------
(* The rest of the pass, as far as it writes the control row *)

ReconRead ==
    /\ pc = "recon"
    /\ w' = [Fresh EXCEPT !.safety = (control = "paused")]
    /\ pc' = IF control = "paused" THEN "final" ELSE "mark"
    /\ UNCHANGED <<rows, wire, clock, sent, api, crashes>>

MarkReconciling ==
    /\ pc = "mark"
    /\ control' = "reconciling"
    /\ pc' = "final"
    /\ UNCHANGED <<limits, transfers, wire, clock, sent, w, api, crashes>>

FinalRead ==
    /\ pc = "final"
    /\ IF control = "paused" \/ w.safety
       THEN pc' = "pick" /\ w' = Fresh
       ELSE /\ pc' = "setFinal"
            /\ \E ok \in BOOLEAN : w' = [w EXCEPT !.ok = ok]
    /\ UNCHANGED <<rows, wire, clock, sent, api, crashes>>

SetFinal ==
    /\ pc = "setFinal"
    /\ control' = IF w.ok THEN "ready" ELSE "blocked"
    /\ pc' = "pick"
    /\ w' = Fresh
    /\ UNCHANGED <<limits, transfers, wire, clock, sent, api, crashes>>

Crash ==
    /\ day + crashes < MaxEvents
    /\ crashes' = crashes + 1
    /\ pc' = "pick"
    /\ w' = Fresh
    /\ UNCHANGED <<rows, wire, clock, sent, api>>

---------------------------------------------------------------------------

Worker ==
    \/ Pick \/ CredentialMissing
    \/ PreflightRetry \/ PreflightRejected \/ PreflightPass
    \/ PrepareSubmission \/ PrepareRaises \/ SubmitTransfer
    \/ Answered \/ SubmissionUncertain
    \/ AckMissing \/ Query \/ QueryFails
    \/ RemoteFailed \/ RemoteOpen \/ RemoteCompleted
    \/ ConfirmArrival \/ ArrivalRetry
    \/ ReconRead \/ MarkReconciling \/ FinalRead \/ SetFinal

Api ==
    \/ PauseExecution \/ ResumeExecution \/ SaveTransferLimits
    \/ CheckReady \/ PreflightRefused
    \/ \E venue \in Venues, amount \in Amounts : PlanTransfer(venue, amount)

Clock == NextDay \/ \E t \in Transfers : Elapse(t)

Venue ==
    \E t \in Transfers :
        Accept(t) \/ Refuse(t) \/ Complete(t) \/ Fail(t)

Next == Worker \/ Api \/ Clock \/ Venue \/ Crash

Spec == Init /\ [][Next]_vars

\* run_forever keeps stepping, and fifteen minutes pass.
Fairness == WF_vars(Worker) /\ \A t \in Transfers : WF_vars(Elapse(t))
FairSpec == Spec /\ Fairness

\* An account snapshot succeeds again and again when one is taken.
SnapshotSpec == FairSpec /\ SF_vars(ConfirmArrival)

---------------------------------------------------------------------------
(* Properties *)

TransferRows ==
    [status: TransferStatuses, venue: Venues,
     amount: Nat, day: Nat, linked: BOOLEAN]
Steps == {"pick", "preflight", "prepare", "send", "answer", "query", "judge",
          "arrival", "recon", "mark", "final", "setFinal"}
WorkerMemory ==
    [cur: Transfers \cup {0}, found: {"unknown", "pending", "completed", "failed"},
     safety: BOOLEAN, ok: BOOLEAN]

\* Every variable stays in its domain; what the worker works on exists.
TypeOK ==
    /\ control \in {"ready", "paused", "reconciling", "blocked"}
    /\ limits \in LimitChoices
    /\ day \in Nat
    /\ transfers \in [Transfers -> TransferRows]
    /\ late \subseteq Transfers
    /\ wire \in [Transfers -> Moves]
    /\ sent \in [Transfers -> Nat]
    /\ pc \in Steps
    /\ w \in WorkerMemory
    /\ api \in 0..MaxTransfers
    /\ crashes \in Nat

\* A transfer is submitted to the exchange at most once, whatever crashes and
\* uncertain answers come after the commit of its submission.
TransferredOnce == \A t \in Transfers : sent[t] <= 1

\* Transfers are moved one at a time: never are two awaiting confirmation.
OneInFlight == \A t, u \in InStatus(Active) : t = u

\* A transfer recorded as failed, and no longer counted against the daily
\* limit, was not moved by the exchange and will not be.
FailedNeverMoves ==
    \A t \in Transfers : transfers[t].status = "failed" => wire[t] \in {"none", "failed"}

\* A completed transfer was completed by the exchange: neither a deposit nor a
\* trade that lifts the target balance passes for its arrival.
CompletedMoved ==
    \A t \in Transfers :
        transfers[t].status = "completed" => wire[t] = "done"

\* What was planned on a day and was moved by the exchange, or may still be.
Exposed(d) == {t \in Transfers :
                  /\ transfers[t].day = d
                  /\ \/ wire[t] \in {"inflight", "pending", "done"}
                     \/ transfers[t].status \in {"planned"} \cup Active}
Exposure(d) == SumFunctionOnSet(Amount, Exposed(d))

\* No plan is accepted that could bring what the exchange moves in a day above
\* the limit in force, whatever the rows say of the transfers before it.
LimitRespected ==
    [][\A t \in Transfers :
         transfers[t].status = "none" /\ transfers'[t].status # "none"
         => Exposure(day)' <= limits.daily]_vars

\* A submitted transfer is completed, failed or handed to the administrator.
TransfersResolve ==
    \A t \in Transfers : transfers[t].status \in Active ~> transfers[t].status \in Terminal
=============================================================================
