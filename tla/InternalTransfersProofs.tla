---------------------- MODULE InternalTransfersProofs ----------------------
(***************************************************************************)
(* Theorems about the internal transfers, for every number of transfers,   *)
(* every set of exchanges, amounts and limit settings, and every number of *)
(* crashes, requests, pauses and resumes.                                  *)
(***************************************************************************)
EXTENDS InternalTransfers, SumTheorems, TLAPS

AtTransfer == {"preflight", "prepare", "send", "answer", "query", "judge", "arrival"}
Confirming == {"send", "answer", "query", "judge", "arrival"}
Moved == {"done"}

\* What the worker knows of the transfer at hand: only its own steps change a
\* transfer that is planned, so that what it read stays true.
AtHand ==
    /\ pc \in AtTransfer => w.cur \in Transfers
    /\ pc \in {"preflight", "prepare"} =>
         transfers[w.cur].status = "planned" /\ InStatus(Active) = {}
    /\ pc \in Confirming => transfers[w.cur].status \in Active
    /\ pc = "send" => sent[w.cur] = 0 /\ wire[w.cur] = "none"
    /\ pc = "judge" /\ w.found = "failed" => wire[w.cur] = "failed"
    /\ pc = "judge" /\ w.found = "completed" => wire[w.cur] \in Moved
    /\ pc = "arrival" => wire[w.cur] \in Moved

\* A transfer that is not prepared was not sent; one with a remote id was taken
\* by the exchange; what Gate takes, it has moved.
WireOK ==
    \A t \in Transfers :
        /\ transfers[t].status \in {"none", "planned"} => sent[t] = 0 /\ wire[t] = "none"
        /\ transfers[t].linked => wire[t] \in Taken
        /\ transfers[t].venue = "gate" => wire[t] \notin {"pending", "failed"}

TransferInv ==
    TypeOK /\ AtHand /\ WireOK /\ TransferredOnce /\ OneInFlight
    /\ FailedNeverMoves /\ CompletedMoved

---------------------------------------------------------------------------
(* Operators *)

LEMMA FreshType == Fresh \in WorkerMemory
BY DEF Fresh, WorkerMemory

LEMMA FreshUpdates ==
    /\ \A t \in Transfers : /\ [Fresh EXCEPT !.cur = t] \in WorkerMemory
                            /\ [Fresh EXCEPT !.cur = t].cur = t
    /\ \A flag \in BOOLEAN : [Fresh EXCEPT !.safety = flag] \in WorkerMemory
BY FreshType DEF WorkerMemory

LEMMA NoTransferType == NoTransfer \in TransferRows /\ NoTransfer.status = "none"
                        /\ NoTransfer.linked = FALSE
<1>1. (CHOOSE v \in Venues : TRUE) \in Venues
  BY TransferAssumption
<1> QED
  BY <1>1 DEF NoTransfer, TransferRows, TransferStatuses

\* What SetStatus does to the rows.
LEMMA StatusSet ==
    ASSUME transfers \in [Transfers -> TransferRows], NEW t \in Transfers,
           NEW status \in TransferStatuses, SetStatus(t, status)
    PROVE  /\ transfers' \in [Transfers -> TransferRows]
           /\ transfers'[t] = [transfers[t] EXCEPT !.status = status]
           /\ transfers'[t].status = status
           /\ transfers'[t].linked = transfers[t].linked
           /\ transfers'[t].venue = transfers[t].venue
           /\ \A u \in Transfers \ {t} : transfers'[u] = transfers[u]
<1>1. \A row \in TransferRows :
        /\ [row EXCEPT !.status = status] \in TransferRows
        /\ [row EXCEPT !.status = status].status = status
        /\ [row EXCEPT !.status = status].linked = row.linked
        /\ [row EXCEPT !.status = status].venue = row.venue
  BY DEF TransferRows
<1>2. transfers'[t] = [transfers[t] EXCEPT !.status = status]
  BY DEF SetStatus
<1>3. \A u \in Transfers \ {t} : transfers'[u] = transfers[u]
  BY DEF SetStatus
<1>4. DOMAIN transfers' = Transfers /\ transfers' = [u \in Transfers |-> transfers'[u]]
  BY DEF SetStatus
<1> QED
  BY <1>1, <1>2, <1>3, <1>4

\* What recording the remote id does to the rows.
LEMMA LinkSet ==
    ASSUME transfers \in [Transfers -> TransferRows], NEW t \in Transfers,
           transfers' = [transfers EXCEPT ![t].linked = TRUE, ![t].status = "pending"]
    PROVE  /\ transfers' \in [Transfers -> TransferRows]
           /\ transfers'[t].status = "pending"
           /\ transfers'[t].venue = transfers[t].venue
           /\ \A u \in Transfers \ {t} : transfers'[u] = transfers[u]
<1> DEFINE link(row) == [[row EXCEPT !.linked = TRUE] EXCEPT !.status = "pending"]
<1>1. \A row \in TransferRows :
        /\ link(row) \in TransferRows
        /\ link(row).status = "pending"
        /\ link(row).venue = row.venue
  BY DEF TransferRows, TransferStatuses
<1>2. transfers'[t] = link(transfers[t])
  OBVIOUS
<1>3. \A u \in Transfers \ {t} : transfers'[u] = transfers[u]
  OBVIOUS
<1>4. transfers' = [u \in Transfers |-> transfers'[u]]
  OBVIOUS
<1>5. transfers[t] \in TransferRows
  OBVIOUS
<1> HIDE DEF link
<1>6. /\ transfers'[t] \in TransferRows
      /\ transfers'[t].status = "pending"
      /\ transfers'[t].venue = transfers[t].venue
  BY <1>1, <1>2, <1>5
<1>7. \A u \in Transfers : transfers'[u] \in TransferRows
  BY <1>3, <1>6
<1> QED
  BY <1>3, <1>4, <1>6, <1>7

---------------------------------------------------------------------------
(* The invariant holds at first and is kept by every step *)

LEMMA InitInv == Init => TransferInv
<1> SUFFICES ASSUME Init PROVE TransferInv
  OBVIOUS
<1>1. TypeOK
  BY NoTransferType, FreshType, TransferAssumption
  DEF Init, TypeOK, Moves, Steps, Transfers
<1>2. AtHand
  BY DEF Init, AtHand, AtTransfer, Confirming
<1>3. \A t \in Transfers : transfers[t] = NoTransfer /\ sent[t] = 0 /\ wire[t] = "none"
  BY DEF Init
<1>4. WireOK
  BY <1>3, NoTransferType DEF WireOK
<1>5. TransferredOnce
  BY <1>3 DEF TransferredOnce
<1>6. OneInFlight /\ FailedNeverMoves /\ CompletedMoved
  BY <1>3, NoTransferType
  DEF OneInFlight, FailedNeverMoves, CompletedMoved, InStatus, Active
<1> QED
  BY <1>1, <1>2, <1>4, <1>5, <1>6 DEF TransferInv

\* Nothing the worker or a property relates is touched.
LEMMA RowsUntouched ==
    ASSUME TransferInv, UNCHANGED <<transfers, wire, sent, pc, w>>, TypeOK'
    PROVE  TransferInv'
BY DEF TransferInv, AtHand, WireOK, TransferredOnce, OneInFlight, FailedNeverMoves,
       CompletedMoved, InStatus

\* The worker drops the transfer at hand.
LEMMA Dropped ==
    ASSUME TransferInv, UNCHANGED <<transfers, wire, sent>>,
           pc' \notin AtTransfer, TypeOK'
    PROVE  TransferInv'
BY DEF TransferInv, AtHand, AtTransfer, Confirming, WireOK, TransferredOnce,
       OneInFlight, FailedNeverMoves, CompletedMoved, InStatus

LEMMA Retried ==
    ASSUME TransferInv, NEW p, Retry(p)
    PROVE  TransferInv'
<1>1. TypeOK'
  BY FreshType DEF TransferInv, TypeOK, Retry, Return, rows, clock, Steps
<1> QED
  BY <1>1, Dropped DEF Retry, Return, rows, AtTransfer

\* The outcome of a transfer has to agree with what the exchange did.
LEMMA Finalized ==
    ASSUME TransferInv, NEW p \in AtTransfer, NEW status \in Terminal,
           Finalize(p, status),
           status = "failed" => wire[w.cur] \in {"none", "failed"},
           status = "completed" => wire[w.cur] \in Moved
    PROVE  TransferInv'
<1> DEFINE t == w.cur
<1>1. t \in Transfers /\ status \in TransferStatuses /\ SetStatus(t, status)
  BY DEF TransferInv, AtHand, Finalize, Terminal, TransferStatuses
<1>2. /\ transfers' \in [Transfers -> TransferRows]
      /\ transfers'[t].status = status
      /\ transfers'[t].linked = transfers[t].linked
      /\ transfers'[t].venue = transfers[t].venue
      /\ \A u \in Transfers \ {t} : transfers'[u] = transfers[u]
  BY <1>1, StatusSet DEF TransferInv, TypeOK
<1>3. UNCHANGED <<wire, sent>> /\ pc' = "recon" /\ w' = Fresh
  BY DEF Finalize, Return
<1>4. TypeOK'
  BY <1>2, FreshType DEF TransferInv, TypeOK, Finalize, Return, clock, Steps
<1>5. AtHand'
  BY <1>3 DEF AtHand, AtTransfer, Confirming
<1>6. WireOK'
  BY <1>2, <1>3 DEF TransferInv, WireOK, Terminal
<1>7. TransferredOnce'
  BY <1>3 DEF TransferInv, TransferredOnce
<1>8. OneInFlight'
  BY <1>2 DEF TransferInv, OneInFlight, InStatus, Active, Terminal
<1>9. FailedNeverMoves' /\ CompletedMoved'
  BY <1>2, <1>3 DEF TransferInv, FailedNeverMoves, CompletedMoved, Moved
<1> QED
  BY <1>4, <1>5, <1>6, <1>7, <1>8, <1>9 DEF TransferInv

LEMMA NotConfirmedKeeps ==
    ASSUME TransferInv, NEW p \in AtTransfer, NotConfirmed(p)
    PROVE  TransferInv'
<1>1. CASE Finalize(p, "manual_review")
  BY <1>1, Finalized DEF Terminal
<1>2. CASE Retry(p)
  BY <1>2, Retried
<1> QED
  BY <1>1, <1>2 DEF NotConfirmed
---------------------------------------------------------------------------
(* The environment *)

\* Requests, control actions and the clock leave the worker and the wire alone.
LEMMA ApiInv == TransferInv /\ (Api \/ Clock) => TransferInv'
<1> SUFFICES ASSUME TransferInv, Api \/ Clock PROVE TransferInv'
  OBVIOUS
<1>1. CASE PauseExecution
  <2>1. TypeOK'
    BY <1>1 DEF PauseExecution, TransferInv, TypeOK, clock
  <2> QED
    BY <1>1, <2>1, RowsUntouched DEF PauseExecution
<1>2. CASE ResumeExecution
  <2>1. TypeOK'
    BY <1>2 DEF ResumeExecution, TransferInv, TypeOK, clock
  <2> QED
    BY <1>2, <2>1, RowsUntouched DEF ResumeExecution
<1>3. CASE SaveTransferLimits
  <2>1. TypeOK'
    BY <1>3 DEF SaveTransferLimits, TransferInv, TypeOK, clock
  <2> QED
    BY <1>3, <2>1, RowsUntouched DEF SaveTransferLimits
<1>4. CASE CheckReady
  <2>1. TypeOK'
    BY <1>4, TransferAssumption DEF CheckReady, TransferInv, TypeOK, clock, rows
  <2> QED
    BY <1>4, <2>1, RowsUntouched DEF CheckReady, rows
<1>5. CASE PreflightRefused
  <2>1. TypeOK'
    BY <1>5, TransferAssumption DEF PreflightRefused, TransferInv, TypeOK, clock, rows
  <2> QED
    BY <1>5, <2>1, RowsUntouched DEF PreflightRefused, rows
<1>6. ASSUME NEW venue \in Venues, NEW amount \in Amounts, PlanTransfer(venue, amount)
      PROVE  TransferInv'
  <2> DEFINE row == [status |-> "planned", venue |-> venue, amount |-> amount,
                     day |-> day, linked |-> FALSE]
  <2>1. PICK t \in InStatus({"none"}) : transfers' = [transfers EXCEPT ![t] = row]
    BY <1>6 DEF PlanTransfer
  <2>2. /\ row \in TransferRows /\ row.status = "planned" /\ ~row.linked
    BY <1>6, TransferAssumption DEF TransferInv, TypeOK, TransferRows, TransferStatuses
  <2> HIDE DEF row
  <2>3. t \in Transfers /\ transfers[t].status = "none"
    BY DEF InStatus
  <2>4. transfers'[t] = row /\ \A u \in Transfers \ {t} : transfers'[u] = transfers[u]
    BY <2>1, <2>3 DEF TransferInv, TypeOK
  <2>5. /\ UNCHANGED <<limits, wire, day, late, sent, pc, w, crashes>>
        /\ control' = "paused" /\ api > 0 /\ api' = api - 1
    BY <1>6 DEF PlanTransfer, clock
  <2>6. TypeOK'
    <3>1. api' \in 0..MaxTransfers
      BY <2>5, TransferAssumption DEF TransferInv, TypeOK
    <3>2. transfers' \in [Transfers -> TransferRows]
      BY <2>1, <2>2, <2>3 DEF TransferInv, TypeOK
    <3> QED
      BY <2>5, <3>1, <3>2 DEF TransferInv, TypeOK
  <2>7. \A u \in Transfers : transfers'[u].status \in Active => transfers[u].status \in Active
    BY <2>2, <2>4 DEF Active
  <2>8. AtHand'
    <3>1. pc \in AtTransfer => w.cur # t
      BY <2>3 DEF TransferInv, AtHand, AtTransfer, Confirming, Active
    <3>2. InStatus(Active) = {} => InStatus(Active)' = {}
      BY <2>7 DEF InStatus
    <3>3. pc \in AtTransfer => transfers'[w.cur] = transfers[w.cur]
      BY <2>4, <3>1 DEF TransferInv, AtHand
    <3> QED
      BY <2>5, <3>2, <3>3 DEF TransferInv, AtHand, AtTransfer, Confirming
  <2>9. WireOK'
    BY <2>2, <2>3, <2>4, <2>5 DEF TransferInv, WireOK
  <2>10. TransferredOnce' /\ OneInFlight'
    BY <2>5, <2>7 DEF TransferInv, TransferredOnce, OneInFlight, InStatus
  <2>11. FailedNeverMoves' /\ CompletedMoved'
    BY <2>2, <2>4, <2>5 DEF TransferInv, FailedNeverMoves, CompletedMoved
  <2> QED
    BY <2>6, <2>8, <2>9, <2>10, <2>11 DEF TransferInv
<1>7. CASE NextDay
  <2>1. TypeOK'
    BY <1>7 DEF NextDay, TransferInv, TypeOK, rows
  <2> QED
    BY <1>7, <2>1, RowsUntouched DEF NextDay, rows
<1>8. ASSUME NEW t \in Transfers, Elapse(t) PROVE TransferInv'
  <2>1. TypeOK'
    BY <1>8 DEF Elapse, TransferInv, TypeOK, rows
  <2> QED
    BY <1>8, <2>1, RowsUntouched DEF Elapse, rows
<1> QED
  BY <1>1, <1>2, <1>3, <1>4, <1>5, <1>6, <1>7, <1>8 DEF Api, Clock

\* The exchange moves what was sent, and only forwards.
LEMMA VenueInv == TransferInv /\ Venue => TransferInv'
<1> SUFFICES ASSUME TransferInv, NEW t \in Transfers,
                    Accept(t) \/ Refuse(t) \/ Complete(t) \/ Fail(t)
             PROVE  TransferInv'
  BY DEF Venue
<1>1. PICK s \in Moves :
        /\ wire' = [wire EXCEPT ![t] = s]
        /\ \/ /\ wire[t] = "inflight"
              /\ s \in {"pending", "done"} /\ (transfers[t].venue = "gate" => s = "done")
           \/ wire[t] = "inflight" /\ s \in {"refused", "lost"}
           \/ wire[t] = "pending" /\ s \in {"done", "failed"}
  BY DEF Accept, Refuse, Complete, Fail, Move, Moves
<1>2. /\ UNCHANGED <<control, limits, transfers, day, late, sent, pc, w, api, crashes>>
  BY DEF Accept, Refuse, Complete, Fail, rows, clock
<1>3. wire \in [Transfers -> Moves]
  BY DEF TransferInv, TypeOK
<1>4. wire'[t] = s /\ \A u \in Transfers \ {t} : wire'[u] = wire[u]
  BY <1>1, <1>3
<1>5. TypeOK'
  BY <1>1, <1>2 DEF TransferInv, TypeOK
<1>6. \A u \in Transfers :
        /\ wire[u] \in Moved => wire'[u] \in Moved
        /\ wire[u] \in {"none", "failed"} => wire'[u] = wire[u]
        /\ wire[u] \in Taken => wire'[u] \in Taken
  BY <1>1, <1>4 DEF Moved, Taken
<1>7. AtHand'
  BY <1>2, <1>6 DEF TransferInv, AtHand, InStatus, AtTransfer, Confirming
<1>8. WireOK'
  <2>1. transfers[t].venue = "gate" => wire'[t] \notin {"pending", "failed"}
    BY <1>1, <1>4 DEF TransferInv, WireOK
  <2> QED
    BY <1>2, <1>4, <1>6, <2>1 DEF TransferInv, WireOK
<1>9. TransferredOnce' /\ OneInFlight'
  BY <1>2 DEF TransferInv, TransferredOnce, OneInFlight, InStatus
<1>10. FailedNeverMoves' /\ CompletedMoved'
  BY <1>2, <1>6 DEF TransferInv, FailedNeverMoves, CompletedMoved, Moved
<1> QED
  BY <1>5, <1>7, <1>8, <1>9, <1>10 DEF TransferInv
---------------------------------------------------------------------------
(* The worker *)

LEMMA PickInv == TransferInv /\ Pick => TransferInv'
<1> SUFFICES ASSUME TransferInv, Pick PROVE TransferInv'
  OBVIOUS
<1>1. UNCHANGED <<control, limits, transfers, wire, day, late, sent, api, crashes>>
  BY DEF Pick, rows, clock
<1>2. CASE InStatus({"planned"} \cup Active) = {}
  <2>1. pc' = "recon" /\ w' = Fresh
    BY <1>2 DEF Pick
  <2>2. TypeOK'
    BY <1>1, <2>1, FreshType DEF TransferInv, TypeOK, Steps
  <2> QED
    BY <1>1, <2>1, <2>2, Dropped DEF AtTransfer
<1>3. CASE InStatus({"planned"} \cup Active) # {}
  <2>1. PICK t \in Transfers :
          /\ First(t, IF InStatus(Active) # {} THEN InStatus(Active)
                      ELSE InStatus({"planned"}))
          /\ w' = [Fresh EXCEPT !.cur = t]
          /\ pc' = IF transfers[t].status = "planned" THEN "preflight" ELSE "query"
    BY <1>3 DEF Pick
  <2>2. w'.cur = t /\ w' \in WorkerMemory
    BY <2>1, FreshUpdates
  <2>3. \/ pc' = "preflight" /\ transfers[t].status = "planned" /\ InStatus(Active) = {}
        \/ pc' = "query" /\ transfers[t].status \in Active
    BY <2>1 DEF First, InStatus, Active
  <2>4. TypeOK'
    BY <1>1, <2>2, <2>3 DEF TransferInv, TypeOK, Steps
  <2>5. AtHand'
    BY <1>1, <2>2, <2>3 DEF AtHand, AtTransfer, Confirming, InStatus
  <2> QED
    BY <1>1, <2>4, <2>5
    DEF TransferInv, WireOK, TransferredOnce, OneInFlight, FailedNeverMoves,
        CompletedMoved, InStatus
<1> QED
  BY <1>2, <1>3

\* From the preflight to the exchange's answer.
LEMMA SubmissionInv ==
    ASSUME TransferInv,
           \/ CredentialMissing \/ PreflightRetry \/ PreflightRejected \/ PreflightPass
           \/ PrepareSubmission \/ PrepareRaises \/ SubmitTransfer
           \/ Answered \/ SubmissionUncertain
    PROVE  TransferInv'
<1>1. CASE CredentialMissing
  BY <1>1, Finalized DEF CredentialMissing, AtTransfer, Terminal
<1>2. CASE PreflightRetry
  BY <1>2, Retried DEF PreflightRetry
<1>3. CASE PreflightRejected
  <2>1. pc = "preflight"
    BY <1>3 DEF PreflightRejected, Finalize
  <2>2. wire[w.cur] = "none"
    BY <2>1 DEF TransferInv, AtHand, AtTransfer, WireOK
  <2> QED
    BY <1>3, <2>2, Finalized DEF PreflightRejected, AtTransfer, Terminal
<1>4. CASE PreflightPass
  <2>1. TypeOK'
    BY <1>4 DEF PreflightPass, TransferInv, TypeOK, rows, clock, Steps
  <2>2. AtHand'
    BY <1>4 DEF PreflightPass, TransferInv, AtHand, AtTransfer, Confirming, rows, InStatus
  <2> QED
    BY <1>4, <2>1, <2>2
    DEF PreflightPass, rows, TransferInv, WireOK, TransferredOnce, OneInFlight,
        FailedNeverMoves, CompletedMoved, InStatus
<1>5. CASE PrepareSubmission
  <2> DEFINE t == w.cur
  <2>1. /\ t \in Transfers /\ transfers[t].status = "planned" /\ InStatus(Active) = {}
        /\ sent[t] = 0 /\ wire[t] = "none"
    BY <1>5 DEF PrepareSubmission, TransferInv, AtHand, AtTransfer, WireOK
  <2>2. /\ transfers' \in [Transfers -> TransferRows]
        /\ transfers'[t].status = "submitted"
        /\ transfers'[t].linked = transfers[t].linked
        /\ transfers'[t].venue = transfers[t].venue
        /\ \A u \in Transfers \ {t} : transfers'[u] = transfers[u]
    BY <1>5, <2>1, StatusSet DEF PrepareSubmission, TransferInv, TypeOK, TransferStatuses
  <2>3. UNCHANGED <<control, limits, wire, day, late, sent, w, api, crashes>> /\ pc' = "send"
    BY <1>5 DEF PrepareSubmission, clock
  <2>4. TypeOK'
    BY <2>2, <2>3 DEF TransferInv, TypeOK, Steps
  <2>5. AtHand'
    BY <2>1, <2>2, <2>3 DEF AtHand, AtTransfer, Confirming, Active
  <2>6. WireOK' /\ TransferredOnce'
    BY <2>1, <2>2, <2>3 DEF TransferInv, WireOK, TransferredOnce
  <2>7. OneInFlight'
    <3>1. \A u \in Transfers : transfers'[u].status \in Active => u = t
      BY <2>1, <2>2 DEF InStatus
    <3> QED
      BY <3>1 DEF OneInFlight, InStatus
  <2>8. FailedNeverMoves' /\ CompletedMoved'
    BY <2>2, <2>3 DEF TransferInv, FailedNeverMoves, CompletedMoved
  <2> QED
    BY <2>4, <2>5, <2>6, <2>7, <2>8 DEF TransferInv
<1>6. CASE PrepareRaises
  <2>1. TypeOK'
    BY <1>6, FreshType DEF PrepareRaises, TransferInv, TypeOK, rows, clock, Steps
  <2> QED
    BY <1>6, <2>1, Dropped DEF PrepareRaises, rows, AtTransfer
<1>7. CASE SubmitTransfer
  <2> DEFINE t == w.cur
  <2>1. /\ t \in Transfers /\ transfers[t].status \in Active
        /\ sent[t] = 0 /\ wire[t] = "none"
    BY <1>7 DEF SubmitTransfer, TransferInv, AtHand, AtTransfer, Confirming
  <2>2. /\ wire' = [wire EXCEPT ![t] = "inflight"]
        /\ sent' = [sent EXCEPT ![t] = @ + 1]
        /\ pc' = "answer"
        /\ UNCHANGED <<control, limits, transfers, day, late, w, api, crashes>>
    BY <1>7 DEF SubmitTransfer, Move, rows, clock
  <2>3. /\ wire'[t] = "inflight" /\ sent'[t] = 1
        /\ \A u \in Transfers \ {t} : wire'[u] = wire[u] /\ sent'[u] = sent[u]
    BY <2>1, <2>2 DEF TransferInv, TypeOK
  <2>4. TypeOK'
    BY <2>1, <2>2 DEF TransferInv, TypeOK, Steps, Moves
  <2>5. AtHand'
    BY <2>1, <2>2 DEF AtHand, AtTransfer, Confirming
  <2>6. WireOK'
    <3>1. ~transfers[t].linked
      BY <2>1 DEF TransferInv, WireOK, Taken
    <3> QED
      BY <2>1, <2>2, <2>3, <3>1 DEF TransferInv, WireOK, Active
  <2>7. TransferredOnce' /\ OneInFlight'
    BY <2>2, <2>3 DEF TransferInv, TransferredOnce, OneInFlight, InStatus
  <2>8. FailedNeverMoves' /\ CompletedMoved'
    BY <2>1, <2>2, <2>3 DEF TransferInv, FailedNeverMoves, CompletedMoved, Active
  <2> QED
    BY <2>4, <2>5, <2>6, <2>7, <2>8 DEF TransferInv
<1>8. CASE Answered
  <2> DEFINE t == w.cur
  <2>1. t \in Transfers /\ transfers[t].status \in Active /\ wire[t] \in Taken
    BY <1>8 DEF Answered, TransferInv, AtHand, AtTransfer, Confirming
  <2>2. /\ transfers' \in [Transfers -> TransferRows]
        /\ transfers'[t].status = "pending"
        /\ transfers'[t].venue = transfers[t].venue
        /\ \A u \in Transfers \ {t} : transfers'[u] = transfers[u]
    BY <1>8, <2>1, LinkSet DEF Answered, TransferInv, TypeOK
  <2>3. UNCHANGED <<control, limits, wire, day, late, sent, api, crashes>>
    BY <1>8 DEF Answered, clock
  <2>4. \/ pc' = "arrival" /\ w' = w /\ transfers[t].venue = "gate"
        \/ pc' = "recon" /\ w' = Fresh
    BY <1>8 DEF Answered, Return
  <2>5. TypeOK'
    BY <2>2, <2>3, <2>4, FreshType DEF TransferInv, TypeOK, Steps
  <2>6. AtHand'
    <3>1. CASE pc' = "arrival" /\ w' = w /\ transfers[t].venue = "gate"
      <4>1. wire[t] \in Moved
        BY <2>1, <3>1 DEF TransferInv, WireOK, Taken, Moved
      <4> QED
        BY <2>1, <2>2, <2>3, <3>1, <4>1 DEF AtHand, AtTransfer, Confirming, Active
    <3>2. CASE pc' = "recon"
      BY <3>2 DEF AtHand, AtTransfer, Confirming
    <3> QED
      BY <2>4, <3>1, <3>2
  <2>7. WireOK' /\ TransferredOnce'
    BY <2>1, <2>2, <2>3 DEF TransferInv, WireOK, TransferredOnce
  <2>8. OneInFlight'
    BY <2>1, <2>2 DEF TransferInv, OneInFlight, InStatus
  <2>9. FailedNeverMoves' /\ CompletedMoved'
    BY <2>2, <2>3 DEF TransferInv, FailedNeverMoves, CompletedMoved
  <2> QED
    BY <2>5, <2>6, <2>7, <2>8, <2>9 DEF TransferInv
<1>9. CASE SubmissionUncertain
  <2> DEFINE t == w.cur
             s == IF RecoverableWithoutAck(t) THEN "submitted" ELSE "manual_review"
  <2>1. t \in Transfers /\ transfers[t].status \in Active
    BY <1>9 DEF SubmissionUncertain, TransferInv, AtHand, AtTransfer, Confirming
  <2>2. s \in {"submitted", "manual_review"} /\ SetStatus(t, s)
    BY <1>9 DEF SubmissionUncertain
  <2> HIDE DEF s
  <2>3. /\ transfers' \in [Transfers -> TransferRows]
        /\ transfers'[t].status = s
        /\ transfers'[t].linked = transfers[t].linked
        /\ transfers'[t].venue = transfers[t].venue
        /\ \A u \in Transfers \ {t} : transfers'[u] = transfers[u]
    BY <2>1, <2>2, StatusSet DEF TransferInv, TypeOK, TransferStatuses
  <2>4. UNCHANGED <<control, limits, wire, day, late, sent, api, crashes>>
        /\ pc' = "recon" /\ w' = Fresh
    BY <1>9 DEF SubmissionUncertain, Return, clock
  <2>5. TypeOK'
    BY <2>3, <2>4, FreshType DEF TransferInv, TypeOK, Steps
  <2>6. AtHand'
    BY <2>4 DEF AtHand, AtTransfer, Confirming
  <2>7. WireOK' /\ TransferredOnce'
    BY <2>1, <2>2, <2>3, <2>4 DEF TransferInv, WireOK, TransferredOnce, Active
  <2>8. OneInFlight'
    BY <2>1, <2>3 DEF TransferInv, OneInFlight, InStatus
  <2>9. FailedNeverMoves' /\ CompletedMoved'
    BY <2>2, <2>3, <2>4 DEF TransferInv, FailedNeverMoves, CompletedMoved
  <2> QED
    BY <2>5, <2>6, <2>7, <2>8, <2>9 DEF TransferInv
<1> QED
  BY <1>1, <1>2, <1>3, <1>4, <1>5, <1>6, <1>7, <1>8, <1>9
\* What the exchange may report agrees with what it did.
LEMMA ReportedAgrees ==
    ASSUME TransferInv, NEW t \in Transfers, NEW status \in Reported(t),
           transfers[t].linked \/ RecoverableWithoutAck(t)
    PROVE  /\ status \in {"unknown", "pending", "completed", "failed"}
           /\ status = "failed" => wire[t] = "failed"
           /\ status = "completed" => wire[t] \in Moved
           /\ status # "unknown" => wire[t] \in Taken
<1>1. CASE transfers[t].venue = "gate"
  <2>1. transfers[t].linked
    BY <1>1 DEF RecoverableWithoutAck
  <2>2. wire[t] \in Moved
    BY <1>1, <2>1 DEF TransferInv, WireOK, Taken, Moved
  <2> QED
    BY <1>1, <2>2 DEF Reported, Taken, Moved
<1>2. CASE transfers[t].venue # "gate"
  BY <1>2 DEF Reported, Taken, Moved
<1> QED
  BY <1>1, <1>2

LEMMA QueryInv == TransferInv /\ Query => TransferInv'
<1> SUFFICES ASSUME TransferInv, Query PROVE TransferInv'
  OBVIOUS
<1> DEFINE t == w.cur
<1>1. /\ t \in Transfers /\ transfers[t].status \in Active
      /\ transfers[t].linked \/ RecoverableWithoutAck(t)
  BY DEF Query, TransferInv, AtHand, AtTransfer, Confirming
<1>2. PICK status \in Reported(t) :
        /\ w' = [w EXCEPT !.found = status]
        /\ IF status # "unknown" /\ ~transfers[t].linked
           THEN transfers' = [transfers EXCEPT ![t].linked = TRUE, ![t].status = "pending"]
           ELSE UNCHANGED transfers
  BY DEF Query
<1>3. /\ status \in {"unknown", "pending", "completed", "failed"}
      /\ status = "failed" => wire[t] = "failed"
      /\ status = "completed" => wire[t] \in Moved
      /\ status # "unknown" => wire[t] \in Taken
  BY <1>1, ReportedAgrees
<1>4. UNCHANGED <<control, limits, wire, day, late, sent, api, crashes>> /\ pc' = "judge"
  BY DEF Query, clock
<1>5. w' \in WorkerMemory /\ w'.cur = t /\ w'.found = status
  BY <1>2, <1>3 DEF TransferInv, TypeOK, WorkerMemory
<1>6. /\ transfers' \in [Transfers -> TransferRows]
      /\ transfers'[t].status \in Active
      /\ transfers'[t].linked => wire[t] \in Taken
      /\ transfers'[t].venue = transfers[t].venue
      /\ \A u \in Transfers \ {t} : transfers'[u] = transfers[u]
  <2>1. CASE status # "unknown" /\ ~transfers[t].linked
    BY <1>1, <1>2, <1>3, <2>1, LinkSet DEF TransferInv, TypeOK, Active
  <2>2. CASE UNCHANGED transfers
    BY <1>1, <2>2 DEF TransferInv, TypeOK, WireOK
  <2> QED
    BY <1>2, <2>1, <2>2
<1>7. TypeOK'
  BY <1>4, <1>5, <1>6 DEF TransferInv, TypeOK, Steps
<1>8. AtHand'
  BY <1>1, <1>3, <1>4, <1>5, <1>6 DEF AtHand, AtTransfer, Confirming
<1>9. WireOK'
  BY <1>1, <1>4, <1>6 DEF TransferInv, WireOK, Active
<1>10. TransferredOnce' /\ OneInFlight'
  BY <1>1, <1>4, <1>6 DEF TransferInv, TransferredOnce, OneInFlight, InStatus
<1>11. FailedNeverMoves' /\ CompletedMoved'
  BY <1>4, <1>6 DEF TransferInv, FailedNeverMoves, CompletedMoved, Active
<1> QED
  BY <1>7, <1>8, <1>9, <1>10, <1>11 DEF TransferInv

LEMMA ConfirmationInv ==
    ASSUME TransferInv,
           \/ AckMissing \/ QueryFails \/ RemoteFailed \/ RemoteOpen
           \/ RemoteCompleted \/ ConfirmArrival \/ ArrivalRetry
    PROVE  TransferInv'
<1>1. CASE AckMissing
  BY <1>1, Finalized DEF AckMissing, AtTransfer, Terminal
<1>2. CASE QueryFails
  BY <1>2, NotConfirmedKeeps DEF QueryFails, AtTransfer
<1>3. CASE RemoteFailed
  <2>1. wire[w.cur] = "failed"
    BY <1>3 DEF RemoteFailed, Finalize, TransferInv, AtHand
  <2> QED
    BY <1>3, <2>1, Finalized DEF RemoteFailed, AtTransfer, Terminal
<1>4. CASE RemoteOpen
  BY <1>4, NotConfirmedKeeps DEF RemoteOpen, AtTransfer
<1>5. CASE RemoteCompleted
  <2>1. TypeOK'
    BY <1>5 DEF RemoteCompleted, TransferInv, TypeOK, rows, clock, Steps
  <2>2. AtHand'
    BY <1>5 DEF RemoteCompleted, TransferInv, AtHand, AtTransfer, Confirming, rows
  <2> QED
    BY <1>5, <2>1, <2>2
    DEF RemoteCompleted, rows, TransferInv, WireOK, TransferredOnce, OneInFlight,
        FailedNeverMoves, CompletedMoved, InStatus
<1>6. CASE ConfirmArrival
  <2>1. CASE Finalize("arrival", "completed")
    <3>1. wire[w.cur] \in Moved
      BY <2>1 DEF Finalize, TransferInv, AtHand
    <3> QED
      BY <2>1, <3>1, Finalized DEF AtTransfer, Terminal
  <2>2. CASE NotConfirmed("arrival")
    BY <2>2, NotConfirmedKeeps DEF AtTransfer
  <2> QED
    BY <1>6, <2>1, <2>2 DEF ConfirmArrival
<1>7. CASE ArrivalRetry
  BY <1>7, Retried DEF ArrivalRetry
<1> QED
  BY <1>1, <1>2, <1>3, <1>4, <1>5, <1>6, <1>7

\* The rest of the pass and a crash: no transfer is at hand.
LEMMA PassInv ==
    ASSUME TransferInv, ReconRead \/ MarkReconciling \/ FinalRead \/ SetFinal \/ Crash
    PROVE  TransferInv'
<1>1. CASE ReconRead
  <2>1. w' \in WorkerMemory
    <3> DEFINE flag == (control = "paused")
    <3>1. flag \in BOOLEAN /\ w' = [Fresh EXCEPT !.safety = flag]
      BY <1>1 DEF ReconRead
    <3> HIDE DEF flag
    <3> QED
      BY <3>1, FreshUpdates
  <2>2. TypeOK'
    BY <1>1, <2>1 DEF ReconRead, TransferInv, TypeOK, rows, clock, Steps
  <2> QED
    BY <1>1, <2>2, Dropped DEF ReconRead, rows, AtTransfer
<1>2. CASE MarkReconciling
  <2>1. TypeOK'
    BY <1>2 DEF MarkReconciling, TransferInv, TypeOK, clock, Steps
  <2> QED
    BY <1>2, <2>1, Dropped DEF MarkReconciling, AtTransfer
<1>3. CASE FinalRead
  <2>1. pc' \in {"pick", "setFinal"} /\ w' \in WorkerMemory
    <3>1. w \in WorkerMemory
      BY DEF TransferInv, TypeOK
    <3>2. CASE control = "paused" \/ w.safety
      BY <1>3, <3>2, FreshType DEF FinalRead
    <3>3. CASE ~(control = "paused" \/ w.safety)
      <4>1. pc' = "setFinal" /\ \E ok \in BOOLEAN : w' = [w EXCEPT !.ok = ok]
        BY <1>3, <3>3 DEF FinalRead
      <4>2. \A ok \in BOOLEAN : [w EXCEPT !.ok = ok] \in WorkerMemory
        BY <3>1 DEF WorkerMemory
      <4> QED
        BY <4>1, <4>2
    <3> QED
      BY <3>2, <3>3
  <2>2. TypeOK'
    BY <1>3, <2>1 DEF FinalRead, TransferInv, TypeOK, rows, clock, Steps
  <2> QED
    BY <1>3, <2>1, <2>2, Dropped DEF FinalRead, rows, AtTransfer
<1>4. CASE SetFinal
  <2>1. TypeOK'
    BY <1>4, FreshType DEF SetFinal, TransferInv, TypeOK, clock, Steps
  <2> QED
    BY <1>4, <2>1, Dropped DEF SetFinal, AtTransfer
<1>5. CASE Crash
  <2>1. TypeOK'
    BY <1>5, FreshType DEF Crash, TransferInv, TypeOK, rows, clock, Steps
  <2> QED
    BY <1>5, <2>1, Dropped DEF Crash, rows, AtTransfer
<1> QED
  BY <1>1, <1>2, <1>3, <1>4, <1>5

LEMMA WorkerInv == TransferInv /\ Worker => TransferInv'
BY PickInv, SubmissionInv, QueryInv, ConfirmationInv, PassInv DEF Worker

LEMMA StutterInv == TransferInv /\ UNCHANGED vars => TransferInv'
<1> SUFFICES ASSUME TransferInv, UNCHANGED vars PROVE TransferInv'
  OBVIOUS
<1>1. TypeOK'
  BY DEF TransferInv, TypeOK, vars, rows, clock
<1> QED
  BY <1>1, RowsUntouched DEF vars, rows

LEMMA TransferInvariant == Spec => []TransferInv
<1>1. Init => TransferInv
  BY InitInv
<1>2. TransferInv /\ [Next]_vars => TransferInv'
  BY ApiInv, VenueInv, WorkerInv, PassInv, StutterInv DEF Next
<1> QED
  BY <1>1, <1>2, PTL DEF Spec

---------------------------------------------------------------------------
(* Theorems *)

\* Every variable stays in its domain, and so does whatever the worker holds.
THEOREM TransferTypes == Spec => []TypeOK
<1>1. TransferInv => TypeOK
  BY DEF TransferInv
<1> QED
  BY <1>1, TransferInvariant, PTL

\* A transfer is submitted at most once: prepare_internal_transfer_submission
\* commits "submitted" before the call, and nothing makes the row "planned" again.
THEOREM TransferSubmittedOnce == Spec => []TransferredOnce
<1>1. TransferInv => TransferredOnce
  BY DEF TransferInv
<1> QED
  BY <1>1, TransferInvariant, PTL

\* run_once confirms what is in flight before it submits anything else.
THEOREM TransfersOneAtATime == Spec => []OneInFlight
<1>1. TransferInv => OneInFlight
  BY DEF TransferInv
<1> QED
  BY <1>1, TransferInvariant, PTL

\* The rows that finalize_internal_transfer closes as failed were not moved and
\* will not be: an unanswered submission is never taken for a failed one.
THEOREM FailedTransfersStay == Spec => []FailedNeverMoves
<1>1. TransferInv => FailedNeverMoves
  BY DEF TransferInv
<1> QED
  BY <1>1, TransferInvariant, PTL

\* A completed transfer was completed by the exchange, whatever the balances show.
THEOREM CompletedTransfersMoved == Spec => []CompletedMoved
<1>1. TransferInv => CompletedMoved
  BY DEF TransferInv
<1> QED
  BY <1>1, TransferInvariant, PTL

---------------------------------------------------------------------------
(* The daily limit *)

LEMMA AmountNumbers ==
    ASSUME TypeOK, NEW S \in SUBSET Transfers
    PROVE  Numbers(Amount, S) /\ \A t \in S : Amount[t] >= 0
<1>1. \A t \in Transfers : Amount[t] \in Nat
  BY DEF Amount, TypeOK, TransferRows
<1>2. IsFiniteSet(Transfers)
  BY FS_Interval, TransferAssumption DEF Transfers
<1> QED
  BY <1>1, <1>2, FS_Subset DEF Numbers

\* Only a plan makes a row of what was none.
LEMMA OnlyPlans ==
    ASSUME TransferInv, [Next]_vars, NEW t \in Transfers,
           transfers[t].status = "none", transfers'[t].status # "none"
    PROVE  \E venue \in Venues, amount \in Amounts : PlanTransfer(venue, amount)
<1> SUFFICES ASSUME ~ \E venue \in Venues, amount \in Amounts : PlanTransfer(venue, amount)
             PROVE  transfers'[t] = transfers[t]
  OBVIOUS
<1>1. CASE Venue \/ Clock \/ Crash \/ UNCHANGED vars
  BY <1>1 DEF Venue, Accept, Refuse, Complete, Fail, Clock, NextDay, Elapse, Crash, vars, rows
<1>2. CASE Api
  BY <1>2 DEF Api, PauseExecution, ResumeExecution, SaveTransferLimits, CheckReady,
              PreflightRefused, rows
<1>3. ASSUME NEW x \in Transfers, x # t, NEW row, transfers' = [transfers EXCEPT ![x] = row]
      PROVE  transfers'[t] = transfers[t]
  BY <1>3
<1>4. pc \in AtTransfer => w.cur \in Transfers /\ w.cur # t
  BY DEF TransferInv, AtHand, AtTransfer, Confirming, Active
<1>5. ASSUME NEW p \in AtTransfer, NEW s, Finalize(p, s) PROVE transfers'[t] = transfers[t]
  BY <1>4, <1>5 DEF Finalize, SetStatus
<1>6. ASSUME NEW p, Retry(p) PROVE transfers'[t] = transfers[t]
  BY <1>6 DEF Retry, rows
<1>7. ASSUME NEW p \in AtTransfer, NotConfirmed(p) PROVE transfers'[t] = transfers[t]
  BY <1>5, <1>6, <1>7 DEF NotConfirmed
<1>8. CASE Pick \/ PreflightRetry \/ PreflightPass \/ PrepareRaises \/ SubmitTransfer
  BY <1>6, <1>8 DEF Pick, PreflightRetry, PreflightPass, PrepareRaises, SubmitTransfer, rows
<1>9. CASE CredentialMissing \/ PreflightRejected \/ AckMissing
  BY <1>5, <1>9 DEF CredentialMissing, PreflightRejected, AckMissing, AtTransfer
<1>10. CASE QueryFails \/ RemoteFailed \/ RemoteOpen \/ ConfirmArrival \/ ArrivalRetry
  BY <1>5, <1>6, <1>7, <1>10
  DEF QueryFails, RemoteFailed, RemoteOpen, ConfirmArrival, ArrivalRetry, AtTransfer
<1>11. CASE PrepareSubmission \/ SubmissionUncertain
  <2>1. pc \in AtTransfer /\ \E s : transfers' = [transfers EXCEPT ![w.cur].status = s]
    BY <1>11 DEF PrepareSubmission, SubmissionUncertain, SetStatus, AtTransfer
  <2> QED
    BY <1>4, <2>1
<1>12. CASE Answered \/ Query
  <2>1. /\ pc \in AtTransfer
        /\ \/ transfers' = transfers
           \/ transfers' = [transfers EXCEPT ![w.cur].linked = TRUE,
                                             ![w.cur].status = "pending"]
    BY <1>12 DEF Answered, Query, AtTransfer
  <2> DEFINE x == w.cur
  <2>2. x # t
    BY <1>4, <2>1
  <2>3. transfers \in [Transfers -> TransferRows]
    BY DEF TransferInv, TypeOK
  <2> HIDE DEF x
  <2>4. \/ transfers' = transfers
        \/ transfers' = [transfers EXCEPT ![x].linked = TRUE, ![x].status = "pending"]
    BY <2>1 DEF x
  <2> QED
    BY <2>2, <2>3, <2>4
<1>13. CASE RemoteCompleted \/ ReconRead \/ MarkReconciling \/ FinalRead \/ SetFinal
  BY <1>13 DEF RemoteCompleted, ReconRead, MarkReconciling, FinalRead, SetFinal, rows
<1> QED
  BY <1>1, <1>2, <1>8, <1>9, <1>10, <1>11, <1>12, <1>13 DEF Next, Worker

\* A plan is accepted on what counts and its own amount.
LEMMA PlansWithinLimit ==
    ASSUME TransferInv, TransferInv', NEW venue \in Venues, NEW amount \in Amounts,
           PlanTransfer(venue, amount)
    PROVE  Exposure(day)' <= limits.daily
<1> DEFINE counted == Counted(day)
<1>1. PICK t \in Transfers :
        /\ transfers[t].status = "none"
        /\ transfers' = [transfers EXCEPT ![t] =
              [status |-> "planned", venue |-> venue, amount |-> amount,
               day |-> day, linked |-> FALSE]]
  BY DEF PlanTransfer, InStatus
<1>2. /\ Used(day) + amount <= limits.daily /\ limits.daily \in Nat /\ amount \in Nat
      /\ wire' = wire /\ day' = day
  BY TransferAssumption DEF PlanTransfer, TransferInv, TypeOK, LimitRows, clock
<1>3. /\ transfers'[t].status = "planned" /\ transfers'[t].amount = amount
      /\ \A u \in Transfers \ {t} : transfers'[u] = transfers[u]
  BY <1>1 DEF TransferInv, TypeOK
<1>4. /\ counted \subseteq Transfers /\ t \notin counted
      /\ counted \cup {t} \subseteq Transfers
  BY <1>1 DEF Counted
<1>5. Exposed(day)' \subseteq counted \cup {t}
  <2>1. Exposed(day)' \subseteq Counted(day)'
    BY DEF Exposed, Counted, TransferInv, WireOK, FailedNeverMoves, Active
  <2>2. Counted(day)' \subseteq counted \cup {t}
    BY <1>2, <1>3 DEF Counted
  <2> QED
    BY <2>1, <2>2
<1> HIDE DEF counted
<1>6. /\ \A u \in counted : Amount[u] = Amount'[u]
      /\ Amount'[t] = amount
  BY <1>3, <1>4 DEF Amount
<1>7. /\ Numbers(Amount, counted) /\ Numbers(Amount', counted \cup {t})
      /\ \A u \in counted \cup {t} : Amount'[u] >= 0
  <2>1. /\ Numbers(Amount, counted) /\ \A u \in counted : Amount[u] >= 0
        /\ IsFiniteSet(counted)
    BY <1>4, AmountNumbers DEF TransferInv, Numbers
  <2>2. IsFiniteSet(counted \cup {t})
    BY <2>1, FS_AddElement
  <2> HIDE DEF Amount
  <2> QED
    BY <1>2, <1>6, <2>1, <2>2 DEF Numbers
<1> HIDE DEF Amount
<1>8. SumFunctionOnSet(Amount', Exposed(day)') <= SumFunctionOnSet(Amount', counted \cup {t})
  BY <1>5, <1>7, SumOfPart
<1>9. SumFunctionOnSet(Amount', counted \cup {t})
        = SumFunctionOnSet(Amount', counted) + Amount'[t]
  BY <1>4, <1>7, SumWith
<1>10. SumFunctionOnSet(Amount, counted) = SumFunctionOnSet(Amount', counted)
  BY <1>6, <1>7, SumAgrees
<1>11. /\ Used(day) = SumFunctionOnSet(Amount, counted)
       /\ Exposure(day)' = SumFunctionOnSet(Amount', Exposed(day)')
  BY DEF Used, Exposure, counted
<1>12. SumFunctionOnSet(Amount, counted) \in Int /\ Exposure(day)' \in Int
  <2>1. Numbers(Amount', Exposed(day)')
    BY <1>5, <1>7, FS_Subset DEF Numbers
  <2> QED
    BY <1>7, <1>11, <2>1, SumIsInt
<1> QED
  BY <1>2, <1>6, <1>8, <1>9, <1>10, <1>11, <1>12

\* However the limits change and whatever becomes of the transfers before, a
\* plan that plan_internal_transfer accepts keeps what the exchange moves of the
\* day's transfers within the limit in force, those under review included.
THEOREM DailyLimitHolds == Spec => LimitRespected
<1>1. TransferInv /\ TransferInv' /\ [Next]_vars =>
        [\A t \in Transfers :
           transfers[t].status = "none" /\ transfers'[t].status # "none"
           => Exposure(day)' <= limits.daily]_vars
  BY OnlyPlans, PlansWithinLimit
<1> QED
  BY <1>1, TransferInvariant, PTL DEF Spec, LimitRespected
=============================================================================
