------------------------- MODULE LiveTradingProofs -------------------------
(***************************************************************************)
(* Theorems about the live trading core, for every number of intents and   *)
(* every quantity grid, with every fault and every control action.         *)
(***************************************************************************)
EXTENDS LiveTrading, SumTheorems, TLAPS

\* compensation_quantity rounds to a natural number of units.
LEMMA ExecutableNat ==
    ASSUME TypeOK, NEW l \in LegIds
    PROVE  Executable(l) \in Nat
<1> DEFINE g == Grid(l)
           q == legs[l].qty
<1>1. g \in Nat /\ g > 0
  BY GridAssumption DEF Grid
<1>2. q \in Nat
  BY DEF TypeOK, LegRows
<1> HIDE DEF g, q
<1>3. (q + g - 1) \div g \in Nat /\ q \div g \in Nat
  BY <1>1, <1>2
<1>4. ((q + g - 1) \div g) * g \in Nat /\ (q \div g) * g \in Nat
  BY <1>1, <1>3
<1> QED
  BY <1>4 DEF Executable, g, q

LEMMA FreshType == Fresh \in WorkerMemory
BY DEF Fresh, WorkerMemory, Kinds

LEMMA FreshUpdates ==
    ASSUME NEW stage \in {"exec", "pre", "post"}, NEW safety \in BOOLEAN,
           NEW ok \in BOOLEAN
    PROVE  /\ [Fresh EXCEPT !.stage = stage] \in WorkerMemory
           /\ [Fresh EXCEPT !.safety = safety, !.ok = ok] \in WorkerMemory
           /\ [Fresh EXCEPT !.safety = safety] \in WorkerMemory
           /\ [Fresh EXCEPT !.ok = ok] \in WorkerMemory
           /\ [Fresh EXCEPT !.stage = stage, !.safety = safety] \in WorkerMemory
           /\ [Fresh EXCEPT !.stage = stage, !.safety = safety, !.ok = ok]
                 \in WorkerMemory
BY FreshType DEF WorkerMemory

LEMMA ServiceDoneType ==
    ASSUME TypeOK, ServiceDone
    PROVE  pc' \in Steps /\ w' \in WorkerMemory
<1>1. w.stage \in {"exec", "pre", "post"} /\ w.safety \in BOOLEAN /\ w.ok \in BOOLEAN
  BY DEF TypeOK, WorkerMemory
<1>2. CASE w.stage = "exec"
  BY <1>2, FreshUpdates DEF ServiceDone, Steps
<1>3. CASE w.stage = "pre"
  BY <1>3, FreshType DEF ServiceDone, Steps
<1>4. CASE w.stage = "post"
  BY <1>1, <1>4, FreshUpdates DEF ServiceDone, Steps
<1> QED
  BY <1>1, <1>2, <1>3, <1>4

LEMMA InitType == Init => TypeOK
<1> SUFFICES ASSUME Init PROVE TypeOK
  OBVIOUS
<1>1. NoIntent \in IntentRows
  BY DEF NoIntent, IntentRows, IntentStatuses
<1>2. LegRow("spot", "buy", 0) \in LegRows
  BY DEF LegRow, LegRows, LegStatuses, Markets, Sides
<1>3. NoLeg \in LegRows
  BY <1>2 DEF NoLeg, LegRows, LegStatuses
<1>4. NoPosition \in PositionRows /\ NoOrder \in OrderRows
  BY DEF NoPosition, PositionRows, NoOrder, OrderRows, OrderStates
<1> QED
  BY <1>1, <1>3, <1>4, FreshType DEF Init, TypeOK, ControlStates, Steps

---------------------------------------------------------------------------
(* What the operators on rows return *)

LEMMA LegRowType ==
    ASSUME NEW market \in Markets, NEW side \in Sides, NEW qty \in Nat
    PROVE  LegRow(market, side, qty) \in LegRows
BY DEF LegRow, LegRows, LegStatuses

LEMMA LegStatusType ==
    ASSUME NEW leg \in LegRows, NEW s \in LegStatuses
    PROVE  [leg EXCEPT !.status = s] \in LegRows
BY DEF LegRows

LEMMA WithFillsType ==
    ASSUME NEW leg \in LegRows, NEW filled \in Nat
    PROVE  WithFills(leg, filled) \in LegRows
<1>1. FilledStatus(leg, filled) \in LegStatuses
  BY DEF FilledStatus, LegStatuses, LegRows
<1> QED
  BY <1>1 DEF WithFills, LegRows

LEMMA NotFoundType ==
    ASSUME NEW leg \in LegRows
    PROVE  NotFound(leg) \in LegRows
BY DEF NotFound, LegRows, LegStatuses

LEMMA FoundType ==
    ASSUME NEW leg \in LegRows, NEW order \in OrderRows
    PROVE  [leg EXCEPT !.linked = TRUE, !.status = RemoteStatus(leg, order)] \in LegRows
<1>1. RemoteStatus(leg, order) \in LegStatuses
  BY DEF RemoteStatus, LegStatuses, LegRows, OrderRows
<1> QED
  BY <1>1 DEF LegRows

LEMMA LegHandledType ==
    ASSUME NEW l \in LegIds, NEW ok \in BOOLEAN, w \in WorkerMemory
    PROVE  [w EXCEPT !.todo = @ \ {l}, !.ok = ok] \in WorkerMemory
BY DEF WorkerMemory

\* Neither outcome of reading fills leaves the domains.
LEMMA ReadFillsType ==
    ASSUME TypeOK, NEW l \in LegIds, NEW leg \in LegRows, NEW ok \in BOOLEAN,
           ReadFills(l, leg, ok)
    PROVE  legs' \in [LegIds -> LegRows] /\ w' \in WorkerMemory
<1>1. orders[l].filled \in Nat /\ leg.filled \in Nat
  BY DEF TypeOK, OrderRows, LegRows
<1>2. WithFills(leg, orders[l].filled) \in LegRows /\ WithFills(leg, leg.filled) \in LegRows
  BY <1>1, WithFillsType
<1>3. legs' \in [LegIds -> LegRows]
  BY <1>2 DEF ReadFills, TypeOK
<1>4. w' \in WorkerMemory
  BY LegHandledType DEF ReadFills, TypeOK
<1> QED
  BY <1>3, <1>4

LEMMA UnlinkedType ==
    ASSUME TypeOK, NEW l \in LegIds, NEW leg \in LegRows, NEW ok \in BOOLEAN,
           Unlinked(l, leg, ok)
    PROVE  legs' \in [LegIds -> LegRows] /\ w' \in WorkerMemory
<1>1. legs' \in [LegIds -> LegRows]
  BY DEF Unlinked, TypeOK
<1> DEFINE passed == ok /\ leg.status \in {"created", "failed", "canceled"}
<1>2. passed \in BOOLEAN
  OBVIOUS
<1>3. w' = [w EXCEPT !.todo = @ \ {l}, !.ok = passed]
  BY DEF Unlinked
<1> HIDE DEF passed
<1>4. w' \in WorkerMemory
  BY <1>2, <1>3, LegHandledType DEF TypeOK
<1> QED
  BY <1>1, <1>4

LEMMA ReleasedType ==
    ASSUME TypeOK, NEW i \in Intents
    PROVE  Released(i) \in [Intents -> PositionRows]
<1>1. positions \in [Intents -> PositionRows]
  BY DEF TypeOK
<1> QED
  BY <1>1 DEF Released, PositionRows

\* A close never books more than its position holds.
LEMMA BookType ==
    ASSUME TypeOK, NEW i \in Intents, NEW qty \in Nat, Book(i, qty),
           intents[i].action = "close" => qty <= positions[intents[i].pos].qty
    PROVE  positions' \in [Intents -> PositionRows]
<1>1. CASE intents[i].action = "open"
  BY <1>1 DEF Book, TypeOK, PositionRows
<1>2. CASE intents[i].action # "open"
  <2> DEFINE p == intents[i].pos
  <2>1. CASE p \in Intents
    <3>1. positions[p] \in PositionRows /\ qty <= positions[p].qty
      BY <1>2, <2>1 DEF TypeOK, IntentRows
    <3>2. positions[p].qty - qty \in Nat
      BY <3>1 DEF PositionRows
    <3>3. positions' = [positions EXCEPT
                          ![p] = IF positions[p].qty - qty = 0
                                 THEN [@ EXCEPT !.qty = 0, !.status = "closed"]
                                 ELSE [status |-> "open", qty |-> positions[p].qty - qty,
                                       closer |-> 0]]
      BY <1>2 DEF Book
    <3>4. [positions[p] EXCEPT !.qty = 0, !.status = "closed"] \in PositionRows
      BY <3>1 DEF PositionRows
    <3>5. [status |-> "open", qty |-> positions[p].qty - qty, closer |-> 0] \in PositionRows
      BY <3>2 DEF PositionRows
    <3> QED
      BY <3>3, <3>4, <3>5 DEF TypeOK
  <2>2. CASE p \notin Intents
    <3>1. positions' = positions
      BY <1>2, <2>2 DEF Book, TypeOK
    <3> QED
      BY <3>1 DEF TypeOK
  <2> QED
    BY <2>1, <2>2
<1> QED
  BY <1>1, <1>2

---------------------------------------------------------------------------
(* Updates of the worker's memory *)

LEMMA MemoryUpdates ==
    ASSUME w \in WorkerMemory, NEW i \in Intents, NEW Q \in SUBSET Intents,
           NEW S \in SUBSET LegIds, NEW A \in SUBSET LegIds
    PROVE  /\ [w EXCEPT !.cur = i] \in WorkerMemory
           /\ [w EXCEPT !.queue = Q] \in WorkerMemory
           /\ [w EXCEPT !.send = S] \in WorkerMemory
           /\ [w EXCEPT !.await = A] \in WorkerMemory
           /\ [w EXCEPT !.send = S, !.await = A] \in WorkerMemory
BY DEF WorkerMemory

LEMMA RespUpdate ==
    ASSUME w \in WorkerMemory, NEW k \in Kinds,
           NEW r \in {"none", "ack", "reject", "error"}
    PROVE  [w EXCEPT !.resp[k] = r] \in WorkerMemory
BY DEF WorkerMemory

LEMMA FreshMemory ==
    ASSUME NEW i \in Intents, NEW Q \in SUBSET Intents, NEW S \in SUBSET LegIds
    PROVE  /\ [Fresh EXCEPT !.queue = Q] \in WorkerMemory
           /\ [Fresh EXCEPT !.cur = i, !.send = S] \in WorkerMemory
BY FreshType DEF WorkerMemory

LEMMA LegIdsFacts ==
    ASSUME NEW i \in Intents
    PROVE  /\ \A k \in Kinds : <<i, k>> \in LegIds
           /\ Primary(i) \subseteq LegIds /\ Legs(i) \subseteq LegIds
           /\ \A l \in LegIds : l[1] \in Intents /\ l[2] \in Kinds /\ l = <<l[1], l[2]>>
BY DEF LegIds, Primary, Legs, Kinds

LEMMA NextCandidateType ==
    ASSUME TypeOK, NEW i \in Intents, NextCandidate(i)
    PROVE  pc' \in Steps /\ w' \in WorkerMemory
<1> DEFINE rest == w.queue \ {i}
<1>1. rest \in SUBSET Intents
  BY DEF TypeOK, WorkerMemory
<1>2. [Fresh EXCEPT !.queue = rest] \in WorkerMemory
  BY <1>1, FreshMemory
<1>3. [Fresh EXCEPT !.stage = "pre"] \in WorkerMemory
  BY FreshUpdates
<1> QED
  BY <1>2, <1>3 DEF NextCandidate, Steps

---------------------------------------------------------------------------
(* Type correctness, one lemma for each part of the system *)

LEMMA ApiType == TypeOK /\ Api => TypeOK'
<1> SUFFICES ASSUME TypeOK, Api PROVE TypeOK'
  OBVIOUS
<1> USE DEF TypeOK, db, remote
<1>1. CASE PauseExecution
  BY <1>1 DEF PauseExecution, ControlStates
<1>2. CASE ResumeExecution
  BY <1>2 DEF ResumeExecution, ControlStates
<1>3. CASE RequestReconciliation
  BY <1>3 DEF RequestReconciliation, ControlStates
<1>4. ASSUME NEW kind \in {"open", "close", "emergency"}, Confirm(kind) PROVE TypeOK'
  BY <1>4 DEF Confirm, ControlStates
<1>5. CASE ConfirmationFails
  BY <1>5 DEF ConfirmationFails
<1>6. CASE PlanOpen
  <2>1. PICK i \in Unplanned :
          /\ intents' = [intents EXCEPT ![i] = IntentRow("open", 0, FALSE)]
          /\ legs' = [legs EXCEPT ![<<i, "spot">>] = LegRow("spot", "buy", Lot),
                                  ![<<i, "perp">>] = LegRow("perp", "sell", Lot)]
    BY <1>6 DEF PlanOpen
  <2>2. IntentRow("open", 0, FALSE) \in IntentRows
    BY DEF IntentRow, IntentRows, IntentStatuses
  <2>3. LegRow("spot", "buy", Lot) \in LegRows /\ LegRow("perp", "sell", Lot) \in LegRows
    BY LegRowType, GridAssumption DEF Markets, Sides
  <2>4. intents' \in [Intents -> IntentRows]
    BY <2>1, <2>2
  <2>5. legs' \in [LegIds -> LegRows]
    BY <2>1, <2>3
  <2> QED
    BY <1>6, <2>4, <2>5 DEF PlanOpen
<1>7. ASSUME NEW p \in Intents, PlanClose(p) PROVE TypeOK'
  <2> DEFINE q == positions[p].qty
  <2>1. PICK i \in Unplanned :
          /\ intents' = [intents EXCEPT ![i] = IntentRow("close", p, api = "emergency")]
          /\ legs' = [legs EXCEPT ![<<i, "spot">>] = LegRow("spot", "sell", q),
                                  ![<<i, "perp">>] = LegRow("perp", "buy", q)]
          /\ positions' = [positions EXCEPT ![p].status = "closing", ![p].closer = i]
    BY <1>7 DEF PlanClose
  <2>2. IntentRow("close", p, api = "emergency") \in IntentRows
    BY DEF IntentRow, IntentRows, IntentStatuses
  <2>3. q \in Nat
    BY DEF PositionRows
  <2>4. LegRow("spot", "sell", q) \in LegRows /\ LegRow("perp", "buy", q) \in LegRows
    BY <2>3, LegRowType DEF Markets, Sides
  <2>5. intents' \in [Intents -> IntentRows]
    BY <2>1, <2>2
  <2>6. legs' \in [LegIds -> LegRows]
    BY <2>1, <2>4
  <2>7. positions' \in [Intents -> PositionRows]
    BY <2>1 DEF PositionRows, Unplanned
  <2> QED
    BY <1>7, <2>5, <2>6, <2>7 DEF PlanClose
<1> QED
  BY <1>1, <1>2, <1>3, <1>4, <1>5, <1>6, <1>7 DEF Api

LEMMA MarketType == TypeOK /\ Market => TypeOK'
<1> SUFFICES ASSUME TypeOK, NEW l \in LegIds, Arrive(l) \/ Trade(l) \/ Expire(l)
             PROVE  TypeOK'
  BY DEF Market
<1> USE DEF TypeOK, db
<1>1. CASE Arrive(l)
  BY <1>1 DEF Arrive, OrderRows, OrderStates
<1>2. CASE Trade(l)
  <2>1. PICK q \in Fillable(l) :
          /\ orders' = [orders EXCEPT ![l].filled = @ + q,
                                      ![l].state = IF orders[l].filled + q = legs[l].qty
                                                   THEN "done" ELSE "live"]
          /\ held' = [held EXCEPT ![legs[l].market] = IF Adds(l) THEN @ + q ELSE @ - q]
    BY <1>2 DEF Trade
  <2>2. legs[l].qty \in Nat /\ orders[l].filled \in Nat /\ legs[l].market \in Markets
    BY DEF LegRows, OrderRows
  <2>3. q \in Nat
    BY <2>2 DEF Fillable
  <2> DEFINE s == IF orders[l].filled + q = legs[l].qty THEN "done" ELSE "live"
             row == [orders[l] EXCEPT !.filled = @ + q, !.state = s]
  <2>4. orders' \in [LegIds -> OrderRows]
    <3>1. s \in OrderStates /\ orders[l] \in OrderRows /\ orders[l].filled + q \in Nat
      BY <2>2, <2>3 DEF OrderStates
    <3>2. orders' = [orders EXCEPT ![l] = row]
      BY <2>1
    <3> HIDE DEF s
    <3>3. row \in OrderRows
      BY <3>1 DEF OrderRows
    <3> HIDE DEF row
    <3> QED
      BY <3>2, <3>3
  <2>5. held' \in [Markets -> Int]
    BY <2>1, <2>2, <2>3
  <2> QED
    BY <1>2, <2>4, <2>5 DEF Trade
<1>3. CASE Expire(l)
  BY <1>3 DEF Expire, OrderRows, OrderStates
<1> QED
  BY <1>1, <1>2, <1>3

LEMMA ExecutorType ==
    ASSUME TypeOK, NEW i \in Intents,
           \/ ExecRead
           \/ ExpirePlanned(i) \/ GuardUnexecutable(i) \/ GuardUnavailable(i)
           \/ PreflightPass(i) \/ PreflightFail(i)
           \/ PrepareLiveSubmission(i) \/ PrepareDenied(i)
    PROVE  TypeOK'
<1> USE DEF db, remote
<1>1. CASE ExecRead
  <2>1. Candidates \in SUBSET Intents
    BY DEF Candidates
  <2>2. /\ [Fresh EXCEPT !.queue = Candidates] \in WorkerMemory
        /\ [Fresh EXCEPT !.stage = "pre"] \in WorkerMemory
    BY <2>1, FreshMemory, FreshUpdates
  <2>3. pc' \in Steps /\ w' \in WorkerMemory
    BY <1>1, <2>2 DEF ExecRead, Steps
  <2> QED
    BY <1>1, <2>3 DEF ExecRead, TypeOK
<1>2. CASE DropPlanned(i)
  <2>1. positions' \in [Intents -> PositionRows]
    BY <1>2, ReleasedType DEF DropPlanned
  <2>2. intents' \in [Intents -> IntentRows]
    BY <1>2 DEF DropPlanned, TypeOK, IntentRows, IntentStatuses
  <2>3. pc' \in Steps /\ w' \in WorkerMemory
    BY <1>2, NextCandidateType DEF DropPlanned
  <2> QED
    BY <1>2, <2>1, <2>2, <2>3 DEF DropPlanned, TypeOK
<1>3. CASE GuardUnavailable(i) \/ PrepareDenied(i)
  <2>1. pc' \in Steps /\ w' \in WorkerMemory
    BY <1>3, NextCandidateType DEF GuardUnavailable, PrepareDenied
  <2> QED
    BY <1>3, <2>1 DEF GuardUnavailable, PrepareDenied, TypeOK
<1>4. CASE PreflightPass(i)
  BY <1>4 DEF PreflightPass, TypeOK, Steps
<1>5. CASE PreflightFail(i)
  BY <1>5, FreshUpdates DEF PreflightFail, TypeOK, Steps, ControlStates
<1>6. CASE PrepareLiveSubmission(i)
  <2>1. intents' \in [Intents -> IntentRows]
    BY <1>6 DEF PrepareLiveSubmission, TypeOK, IntentRows, IntentStatuses
  <2>2. \A l \in LegIds : [legs[l] EXCEPT !.status = "submitted"] \in LegRows
    BY LegStatusType DEF TypeOK, LegStatuses
  <2>3. legs' \in [LegIds -> LegRows]
    BY <1>6, <2>2 DEF PrepareLiveSubmission, TypeOK
  <2>4. w' \in WorkerMemory
    BY <1>6, LegIdsFacts, FreshMemory DEF PrepareLiveSubmission
  <2> QED
    BY <1>6, <2>1, <2>3, <2>4 DEF PrepareLiveSubmission, TypeOK, Steps
<1> QED
  BY <1>1, <1>2, <1>3, <1>4, <1>5, <1>6 DEF ExpirePlanned, GuardUnexecutable

LEMMA PlacingType ==
    ASSUME TypeOK, NEW l \in LegIds,
           Submit(l) \/ Respond(l) \/ SkipSpot(l) \/ RecordOutcome(l)
    PROVE  TypeOK'
<1> USE DEF db, remote
<1>1. CASE Submit(l)
  <2>1. orders' \in [LegIds -> OrderRows] /\ sent' \in [LegIds -> Nat]
    BY <1>1 DEF Submit, TypeOK, OrderRows, OrderStates
  <2>2. w.send \ {l} \in SUBSET LegIds /\ w.await \cup {l} \in SUBSET LegIds
    BY DEF TypeOK, WorkerMemory
  <2>3. w' = [w EXCEPT !.send = w.send \ {l}, !.await = w.await \cup {l}]
    BY <1>1 DEF Submit
  <2>4. w' \in WorkerMemory
    BY <2>2, <2>3 DEF TypeOK, WorkerMemory
  <2> QED
    BY <1>1, <2>1, <2>4 DEF Submit, TypeOK
<1>2. CASE Respond(l)
  <2>1. l[2] \in Kinds
    BY DEF LegIds
  <2>2. PICK r \in Outcomes(l) : w' = [w EXCEPT !.resp[l[2]] = r]
    BY <1>2 DEF Respond
  <2>3. r \in {"none", "ack", "reject", "error"}
    BY DEF Outcomes
  <2>4. w' \in WorkerMemory
    BY <2>1, <2>2, <2>3, RespUpdate DEF TypeOK
  <2> QED
    BY <1>2, <2>4 DEF Respond, TypeOK
<1>3. CASE SkipSpot(l)
  <2>1. [legs[l] EXCEPT !.status = "failed"] \in LegRows
    BY LegStatusType DEF TypeOK, LegStatuses
  <2>2. legs' \in [LegIds -> LegRows]
    BY <1>3, <2>1 DEF SkipSpot, TypeOK, LegRows, LegStatuses
  <2>3. w' \in WorkerMemory
    BY <1>3 DEF SkipSpot, TypeOK, WorkerMemory
  <2> QED
    BY <1>3, <2>2, <2>3 DEF SkipSpot, TypeOK, ControlStates
<1>4. CASE RecordOutcome(l)
  <2> DEFINE s == RecordedStatus(l[2], w.resp[l[2]])
  <2>1. s \in LegStatuses
    BY DEF RecordedStatus, LegStatuses
  <2>2. legs' = [legs EXCEPT ![l].status = IF @ = "submitted" THEN s ELSE @,
                             ![l].linked = @ \/ s = "acknowledged"]
        /\ control' = (IF s = "acknowledged" THEN control ELSE "paused")
    BY <1>4 DEF RecordOutcome
  <2> HIDE DEF s
  <2>3. legs' \in [LegIds -> LegRows]
    <3>1. legs[l] \in LegRows
      BY DEF TypeOK
    <3> DEFINE t == IF legs[l].status = "submitted" THEN s ELSE legs[l].status
               b == legs[l].linked \/ s = "acknowledged"
    <3>2. t \in LegStatuses /\ b \in BOOLEAN
      BY <2>1, <3>1 DEF LegRows
    <3>3. legs' = [legs EXCEPT ![l] = [legs[l] EXCEPT !.status = t, !.linked = b]]
      BY <2>2
    <3> HIDE DEF t, b
    <3>4. [legs[l] EXCEPT !.status = t, !.linked = b] \in LegRows
      BY <3>1, <3>2 DEF LegRows
    <3> QED
      BY <3>3, <3>4 DEF TypeOK
  <2>4. control' \in ControlStates
    BY <2>2 DEF TypeOK, ControlStates
  <2>5. pc' \in Steps /\ w' \in WorkerMemory
    <3>1. CASE w.await = {l}
      BY <1>4, <3>1, ServiceDoneType DEF RecordOutcome
    <3>2. CASE w.await # {l}
      <4>1. w' = [w EXCEPT !.await = w.await \ {l}] /\ pc' = pc
        BY <1>4, <3>2 DEF RecordOutcome
      <4> QED
        BY <4>1 DEF TypeOK, WorkerMemory
    <3> QED
      BY <3>1, <3>2
  <2> QED
    BY <1>4, <2>3, <2>4, <2>5 DEF RecordOutcome, TypeOK
<1> QED
  BY <1>1, <1>2, <1>3, <1>4

LEMMA CompensatorType ==
    ASSUME TypeOK, NEW i \in Intents,
           CompensationSkip \/ CompensationStart(i) \/ PrepareLiveCompensation(i)
    PROVE  TypeOK'
<1> USE DEF db, remote
<1>1. CASE CompensationSkip
  BY <1>1, ServiceDoneType DEF CompensationSkip, TypeOK
<1>2. CASE CompensationStart(i)
  <2>1. w' \in WorkerMemory
    BY <1>2, MemoryUpdates DEF CompensationStart, TypeOK
  <2> QED
    BY <1>2, <2>1 DEF CompensationStart, TypeOK, Steps
<1>3. CASE PrepareLiveCompensation(i)
  <2> DEFINE l == <<i, "comp">>
             row == [legs[l] EXCEPT !.status = "submitted", !.qty = Executable(l),
                                    !.tol = Grid(l)]
  <2>1. l \in LegIds
    BY DEF LegIds, Kinds
  <2>2. Executable(l) \in Nat /\ Grid(l) \in Nat
    BY <2>1, ExecutableNat, GridAssumption DEF Grid
  <2>3. row \in LegRows
    BY <2>1, <2>2 DEF TypeOK, LegRows, LegStatuses
  <2>4. \/ /\ legs' = [legs EXCEPT ![l] = row]
           /\ w' = [w EXCEPT !.send = {l}]
           /\ pc' = "place"
        \/ ServiceDone /\ legs' = legs
    BY <1>3 DEF PrepareLiveCompensation
  <2> HIDE DEF row
  <2>5. legs' \in [LegIds -> LegRows]
    BY <2>3, <2>4 DEF TypeOK
  <2>6. pc' \in Steps /\ w' \in WorkerMemory
    BY <2>1, <2>4, MemoryUpdates, ServiceDoneType DEF TypeOK, Steps
  <2> QED
    BY <1>3, <2>5, <2>6 DEF PrepareLiveCompensation, TypeOK
<1> QED
  BY <1>1, <1>2, <1>3

LEMMA ReconciliationType ==
    ASSUME TypeOK,
           \/ ReconRead \/ MarkReconciling \/ Observe \/ LegsDone
           \/ AccountResult \/ AccountError \/ FinalRead \/ SetFinal
    PROVE  TypeOK'
<1> USE DEF db, remote
<1>1. CASE ReconRead
  <2>1. w' \in WorkerMemory
    BY <1>1, FreshUpdates DEF ReconRead
  <2> QED
    BY <1>1, <2>1 DEF ReconRead, TypeOK, Steps
<1>2. CASE MarkReconciling
  BY <1>2 DEF MarkReconciling, TypeOK, Steps, ControlStates
<1>3. CASE Observe
  <2>1. orders' \in [LegIds -> OrderRows]
    BY <1>3 DEF Observe, TypeOK, OrderRows, OrderStates
  <2>2. LiveOrders \in SUBSET LegIds /\ Reconcilable \in SUBSET LegIds /\ held["perp"] \in Int
    BY DEF LiveOrders, Reconcilable, TypeOK, Markets
  <2>3. w' = [w EXCEPT !.open = LiveOrders, !.perp = held["perp"],
                       !.todo = Reconcilable, !.ok = TRUE]
    BY <1>3 DEF Observe
  <2>4. w' \in WorkerMemory
    BY <2>2, <2>3 DEF TypeOK, WorkerMemory
  <2> QED
    BY <1>3, <2>1, <2>4 DEF Observe, TypeOK, Steps
<1>4. CASE LegsDone
  <2> DEFINE Q == IF w.ok
                  THEN {i \in Intents : intents[i].status \in {"executing", "compensating"}}
                  ELSE {}
  <2>1. Q \in SUBSET Intents
    OBVIOUS
  <2>2. w' = [w EXCEPT !.queue = Q]
    BY <1>4 DEF LegsDone
  <2> HIDE DEF Q
  <2>3. w' \in WorkerMemory
    BY <2>1, <2>2 DEF TypeOK, WorkerMemory
  <2> QED
    BY <1>4, <2>3 DEF LegsDone, TypeOK, Steps
<1>5. CASE AccountResult \/ AccountError
  <2>1. w.safety \in BOOLEAN
    BY DEF TypeOK, WorkerMemory
  <2>2. w' \in WorkerMemory
    BY <1>5, <2>1, FreshUpdates DEF AccountResult, AccountError
  <2> QED
    BY <1>5, <2>2 DEF AccountResult, AccountError, TypeOK, Steps
<1>6. CASE FinalRead
  <2>1. w' \in WorkerMemory
    BY <1>6, FreshType, FreshUpdates DEF FinalRead
  <2> QED
    BY <1>6, <2>1 DEF FinalRead, TypeOK, Steps
<1>7. CASE SetFinal
  BY <1>7, FreshType DEF SetFinal, TypeOK, Steps, ControlStates
<1> QED
  BY <1>1, <1>2, <1>3, <1>4, <1>5, <1>6, <1>7

LEMMA LookupType ==
    ASSUME TypeOK, NEW l \in LegIds,
           LookupFound(l) \/ LookupMissing(l) \/ LookupIncomplete(l) \/ NoLookup(l)
    PROVE  TypeOK'
<1> USE DEF db, remote
<1>1. /\ legs[l] \in LegRows /\ orders[l] \in OrderRows /\ w.ok \in BOOLEAN
      /\ NotFound(legs[l]) \in LegRows
  BY NotFoundType DEF TypeOK, WorkerMemory
<1> DEFINE found == [legs[l] EXCEPT !.linked = TRUE, !.status = RemoteStatus(legs[l], orders[l])]
<1>2. found \in LegRows
  BY <1>1, FoundType
<1>3. PICK leg \in LegRows, ok \in BOOLEAN : ReadFills(l, leg, ok) \/ Unlinked(l, leg, ok)
  <2> HIDE DEF found
  <2>1. CASE LookupFound(l)
    <3>1. ReadFills(l, found, w.ok)
      BY <2>1 DEF LookupFound, found
    <3> QED
      BY <1>1, <1>2, <3>1
  <2>2. CASE LookupMissing(l)
    BY <1>1, <2>2 DEF LookupMissing
  <2>3. CASE LookupIncomplete(l) \/ NoLookup(l)
    BY <1>1, <2>3 DEF LookupIncomplete, NoLookup
  <2> QED
    BY <2>1, <2>2, <2>3
<1>4. legs' \in [LegIds -> LegRows] /\ w' \in WorkerMemory
  BY <1>3, ReadFillsType, UnlinkedType
<1>5. UNCHANGED <<control, intents, positions, remote, sent, pc, api>>
  BY DEF LookupFound, LookupMissing, LookupIncomplete, NoLookup
<1> QED
  BY <1>4, <1>5 DEF TypeOK

\* Each way to settle an intent: nothing filled, equal fills, one leg filled
\* more than the other, or the protection leg done.
LEMMA SettlementType ==
    ASSUME TypeOK, NEW i \in Intents, Settle(i)
    PROVE  TypeOK'
<1> USE DEF db, remote
<1>1. /\ Spot(i) \in LegRows /\ Perp(i) \in LegRows /\ Comp(i) \in LegRows
      /\ Imbalance(i) \in Nat
  <2>1. Spot(i) \in LegRows /\ Perp(i) \in LegRows /\ Comp(i) \in LegRows
    BY LegIdsFacts DEF Spot, Perp, Comp, Kinds, TypeOK
  <2> QED
    BY <2>1 DEF Imbalance, LegRows
<1>2. \A s \in IntentStatuses : SetIntent(i, s) => intents' \in [Intents -> IntentRows]
  BY DEF SetIntent, TypeOK, IntentRows
<1>3. /\ control' \in ControlStates /\ intents' \in [Intents -> IntentRows]
      /\ legs' \in [LegIds -> LegRows] /\ positions' \in [Intents -> PositionRows]
  <2>1. CASE SettlementWaits(i)
    BY <2>1 DEF SettlementWaits, TypeOK
  <2>2. CASE ManualReview(i)
    BY <1>2, <2>2 DEF ManualReview, TypeOK, ControlStates, IntentStatuses
  <2>3. CASE NoFills(i)
    BY <1>2, <2>3, ReleasedType DEF NoFills, TypeOK, IntentStatuses
  <2>4. CASE Balanced(i) /\ ~ManualReview(i)
    <3>1. /\ intents[i].action = "close" =>
               Spot(i).filled <= positions[intents[i].pos].qty
          /\ Book(i, Spot(i).filled) /\ SetIntent(i, Done(i))
          /\ UNCHANGED <<control, legs>>
      BY <2>4 DEF Balanced
    <3>2. positions' \in [Intents -> PositionRows]
      BY <1>1, <3>1, BookType DEF LegRows
    <3>3. Done(i) \in IntentStatuses
      BY DEF Done, IntentStatuses
    <3> QED
      BY <1>2, <3>1, <3>2, <3>3 DEF TypeOK
  <2>5. CASE CompensationRequired(i)
    <3>1. legs[<<i, Excess(i)>>] \in LegRows
      BY LegIdsFacts DEF Excess, Kinds, TypeOK
    <3>2. CompensationLeg(i) \in LegRows
      <4> DEFINE excess == legs[<<i, Excess(i)>>]
      <4>1. excess.market \in Markets /\ OppositeSide(excess.side) \in Sides
        BY <3>1 DEF LegRows, OppositeSide, Sides
      <4>2. LegRow(excess.market, OppositeSide(excess.side), Imbalance(i)) \in LegRows
        BY <1>1, <4>1, LegRowType
      <4> QED
        BY <1>1, <4>2 DEF CompensationLeg, LegRows
    <3>3. legs' \in [LegIds -> LegRows]
      BY <2>5, <3>2 DEF CompensationRequired, TypeOK
    <3> QED
      BY <1>2, <2>5, <3>3 DEF CompensationRequired, TypeOK, ControlStates, IntentStatuses
  <2>6. CASE Compensated(i) /\ ~ManualReview(i)
    <3> DEFINE common == Adjusted(i, "perp")
               s == IF common = 0 THEN "failed" ELSE Done(i)
    <3>1. /\ SafelyCompensated(i)
          /\ intents[i].action = "close" => common <= positions[intents[i].pos].qty
          /\ IF intents[i].action = "open" /\ common = 0
             THEN UNCHANGED positions ELSE Book(i, common)
          /\ SetIntent(i, s) /\ UNCHANGED <<control, legs>>
      BY <2>6 DEF Compensated
    <3>2. common \in Nat
      <4>1. <<i, "perp">> \in LegIds
        BY DEF LegIds, Kinds
      <4>2. legs[<<i, "perp">>].filled \in Nat /\ Comp(i).filled \in Nat
        BY <1>1, <4>1 DEF TypeOK, LegRows
      <4>3. common \in Int
        BY <4>2 DEF Adjusted
      <4>4. common >= 0
        BY <3>1 DEF SafelyCompensated
      <4> QED
        BY <4>3, <4>4
    <3>3. s \in IntentStatuses
      BY DEF Done, IntentStatuses
    <3> HIDE DEF common, s
    <3>4. positions' \in [Intents -> PositionRows]
      BY <3>1, <3>2, BookType DEF TypeOK
    <3> QED
      BY <1>2, <3>1, <3>3, <3>4 DEF TypeOK
  <2> QED
    BY <2>1, <2>2, <2>3, <2>4, <2>5, <2>6 DEF Settle
<1>4. w' = [w EXCEPT !.queue = w.queue \ {i}] /\ UNCHANGED <<remote, sent, pc, api>>
  BY DEF Settle
<1>5. w' \in WorkerMemory
  BY <1>4 DEF TypeOK, WorkerMemory
<1> QED
  BY <1>3, <1>4, <1>5 DEF TypeOK

LEMMA StutterType == TypeOK /\ UNCHANGED vars => TypeOK'
BY DEF TypeOK, vars, db, remote

LEMMA CrashType == TypeOK /\ Crash => TypeOK'
BY FreshType DEF TypeOK, Crash, db, remote, Steps

LEMMA WorkerType == TypeOK /\ Worker => TypeOK'
<1> SUFFICES ASSUME TypeOK, Worker PROVE TypeOK'
  OBVIOUS
<1>1. Intents # {}
  BY BoundAssumption DEF Intents
<1>2. CASE \/ ReconRead \/ MarkReconciling \/ Observe \/ LegsDone
           \/ AccountResult \/ AccountError \/ FinalRead \/ SetFinal
  BY <1>2, ReconciliationType
<1>3. CASE ExecRead \/ CompensationSkip
  BY <1>1, <1>3, ExecutorType, CompensatorType
<1>4. ASSUME NEW i \in Intents,
             \/ ExpirePlanned(i) \/ PreflightPass(i) \/ PreflightFail(i)
             \/ GuardUnexecutable(i) \/ GuardUnavailable(i)
             \/ PrepareLiveSubmission(i) \/ PrepareDenied(i)
      PROVE  TypeOK'
  BY <1>4, ExecutorType
<1>5. ASSUME NEW i \in Intents, CompensationStart(i) \/ PrepareLiveCompensation(i)
      PROVE  TypeOK'
  BY <1>5, CompensatorType
<1>6. ASSUME NEW i \in Intents, Settle(i) PROVE TypeOK'
  BY <1>6, SettlementType
<1>7. ASSUME NEW l \in LegIds, Submit(l) \/ Respond(l) \/ SkipSpot(l) \/ RecordOutcome(l)
      PROVE  TypeOK'
  BY <1>7, PlacingType
<1>8. ASSUME NEW l \in LegIds,
             LookupFound(l) \/ LookupMissing(l) \/ LookupIncomplete(l) \/ NoLookup(l)
      PROVE  TypeOK'
  BY <1>8, LookupType
<1> QED
  BY <1>2, <1>3, <1>4, <1>5, <1>6, <1>7, <1>8 DEF Worker

\* The rows, the exchange's book and the worker's memory stay well formed:
\* no settlement books a negative quantity and no rounding leaves the
\* naturals, whatever the grids, the faults and the interleaving.
THEOREM TypeCorrect == Spec => []TypeOK
<1>1. TypeOK /\ [Next]_vars => TypeOK'
  BY ApiType, MarketType, WorkerType, CrashType, StutterType DEF Next
<1> QED
  BY InitType, <1>1, PTL DEF Spec

---------------------------------------------------------------------------
(* The journal and the wire.  A leg waiting to be sent is journaled and was *)
(* never sent; only Submit sends, and nothing makes a journaled leg         *)
(* "created" again.                                                         *)

JournalInv ==
    /\ JournaledFirst
    /\ SubmittedOnce
    /\ \A l \in w.send : sent[l] = 0 /\ Journaled(l)
    /\ pc # "place" => w.send = {}

\* What every step but the three that prepare or send does.
JournalKept ==
    /\ sent' = sent
    /\ \A l \in LegIds : Journaled(l) => Journaled(l)'
    /\ w'.send \subseteq w.send
    /\ pc' # "place" => w'.send = {}

LEMMA KeptJournal ==
    ASSUME TypeOK, JournalInv, JournalKept
    PROVE  JournalInv'
<1>1. w.send \subseteq LegIds
  BY DEF TypeOK, WorkerMemory
<1>2. JournaledFirst' /\ SubmittedOnce'
  BY DEF JournalInv, JournalKept, JournaledFirst, SubmittedOnce
<1>3. \A l \in w'.send : (sent[l] = 0 /\ Journaled(l))'
  BY <1>1 DEF JournalInv, JournalKept
<1> QED
  BY <1>2, <1>3 DEF JournalInv, JournalKept

\* Steps that touch neither the legs nor the intents.
LEMMA LedgerKept ==
    ASSUME UNCHANGED <<intents, legs, sent>>,
           w'.send \subseteq w.send, pc' # "place" => w'.send = {}
    PROVE  JournalKept
BY DEF JournalKept, Journaled

LEMMA ServiceDoneSend ==
    ASSUME TypeOK, ServiceDone
    PROVE  pc' # "place" /\ w'.send = {} /\ w'.await = {}
<1>1. w.stage \in {"exec", "pre", "post"}
  BY DEF TypeOK, WorkerMemory
<1>2. CASE w.stage = "exec"
  BY <1>2 DEF ServiceDone, Fresh
<1>3. CASE w.stage = "pre"
  BY <1>3 DEF ServiceDone, Fresh
<1>4. CASE w.stage = "post"
  BY <1>4 DEF ServiceDone, Fresh
<1> QED
  BY <1>1, <1>2, <1>3, <1>4

LEMMA NextCandidateSend ==
    ASSUME NEW i \in Intents, NextCandidate(i)
    PROVE  pc' # "place" /\ w'.send = {} /\ w'.await = {}
BY DEF NextCandidate, Fresh

\* Planning fills rows that nothing journaled occupies.
LEMMA ApiJournal ==
    ASSUME TypeOK, JournalInv, Api PROVE JournalInv'
<1>1. UNCHANGED <<sent, w, pc>>
  BY DEF Api, PauseExecution, ResumeExecution, RequestReconciliation, Confirm,
         ConfirmationFails, PlanOpen, PlanClose, db, remote
<1>2. \A l \in LegIds : Journaled(l) => Journaled(l)'
  <2>1. CASE PlanOpen
    <3>1. PICK i \in Unplanned :
            /\ intents' = [intents EXCEPT ![i] = IntentRow("open", 0, FALSE)]
            /\ legs' = [legs EXCEPT ![<<i, "spot">>] = LegRow("spot", "buy", Lot),
                                    ![<<i, "perp">>] = LegRow("perp", "sell", Lot)]
      BY <2>1 DEF PlanOpen
    <3>2. SUFFICES ASSUME NEW l \in LegIds, Journaled(l) PROVE Journaled(l)'
      OBVIOUS
    <3>3. l[1] # i
      BY <3>2 DEF Journaled, Unplanned
    <3>4. intents'[l[1]] = intents[l[1]] /\ legs'[l] = legs[l]
      BY <3>1, <3>3 DEF TypeOK, LegIds
    <3> QED
      BY <3>2, <3>4 DEF Journaled
  <2>2. ASSUME NEW p \in Intents, PlanClose(p)
        PROVE  \A l \in LegIds : Journaled(l) => Journaled(l)'
    <3> DEFINE q == positions[p].qty
    <3>1. PICK i \in Unplanned :
            /\ intents' = [intents EXCEPT ![i] = IntentRow("close", p, api = "emergency")]
            /\ legs' = [legs EXCEPT ![<<i, "spot">>] = LegRow("spot", "sell", q),
                                    ![<<i, "perp">>] = LegRow("perp", "buy", q)]
      BY <2>2 DEF PlanClose
    <3>2. SUFFICES ASSUME NEW l \in LegIds, Journaled(l) PROVE Journaled(l)'
      OBVIOUS
    <3>3. l[1] # i
      BY <3>2 DEF Journaled, Unplanned
    <3>4. intents'[l[1]] = intents[l[1]] /\ legs'[l] = legs[l]
      BY <3>1, <3>3 DEF TypeOK, LegIds
    <3> QED
      BY <3>2, <3>4 DEF Journaled
  <2>3. CASE \/ PauseExecution \/ ResumeExecution \/ RequestReconciliation
             \/ ConfirmationFails
             \/ \E kind \in {"open", "close", "emergency"} : Confirm(kind)
    <3>1. UNCHANGED <<intents, legs>>
      BY <2>3 DEF PauseExecution, ResumeExecution, RequestReconciliation, Confirm,
                  ConfirmationFails, db
    <3> QED
      BY <3>1 DEF Journaled
  <2> QED
    BY <2>1, <2>2, <2>3 DEF Api
<1>3. JournalKept
  BY <1>1, <1>2 DEF JournalKept, JournalInv
<1> QED
  BY <1>3, KeptJournal

LEMMA MarketJournal ==
    ASSUME TypeOK, JournalInv, Market PROVE JournalInv'
<1>1. UNCHANGED <<intents, legs, sent, w, pc>>
  BY DEF Market, Arrive, Trade, Expire, db
<1> QED
  BY <1>1, LedgerKept, KeptJournal DEF JournalInv

LEMMA ExecutorJournal ==
    ASSUME TypeOK, JournalInv, NEW i \in Intents,
           \/ ExecRead
           \/ ExpirePlanned(i) \/ GuardUnexecutable(i) \/ GuardUnavailable(i)
           \/ PreflightPass(i) \/ PreflightFail(i)
           \/ PrepareLiveSubmission(i) \/ PrepareDenied(i)
    PROVE  JournalInv'
<1>1. CASE ExecRead
  <2>1. UNCHANGED <<intents, legs, sent>> /\ pc' # "place" /\ w'.send = {}
    BY <1>1 DEF ExecRead, Fresh, db
  <2> QED
    BY <2>1, LedgerKept, KeptJournal
<1>2. CASE DropPlanned(i)
  <2>1. /\ intents' = [intents EXCEPT ![i].status = "failed"]
        /\ UNCHANGED <<legs, sent>> /\ NextCandidate(i)
    BY <1>2 DEF DropPlanned
  <2>2. \A l \in LegIds : Journaled(l) => Journaled(l)'
    BY <2>1 DEF Journaled, TypeOK, LegIds
  <2> QED
    BY <2>1, <2>2, NextCandidateSend, KeptJournal DEF JournalKept
<1>3. CASE GuardUnavailable(i) \/ PrepareDenied(i)
  <2>1. UNCHANGED <<intents, legs, sent>> /\ NextCandidate(i)
    BY <1>3 DEF GuardUnavailable, PrepareDenied, db
  <2> QED
    BY <2>1, NextCandidateSend, LedgerKept, KeptJournal
<1>4. CASE PreflightPass(i)
  <2>1. UNCHANGED <<intents, legs, sent, w>> /\ w.send = {}
    BY <1>4 DEF PreflightPass, JournalInv, db
  <2> QED
    BY <2>1, LedgerKept, KeptJournal
<1>5. CASE PreflightFail(i)
  <2>1. UNCHANGED <<intents, legs, sent>> /\ w'.send = {}
    BY <1>5 DEF PreflightFail, Fresh
  <2> QED
    BY <2>1, LedgerKept, KeptJournal
<1>6. CASE PrepareLiveSubmission(i)
  <2>1. Primary(i) \subseteq LegIds
    BY LegIdsFacts
  <2>2. \A l \in Primary(i) : sent[l] = 0
    BY <1>6, <2>1 DEF PrepareLiveSubmission, JournalInv, JournaledFirst, Journaled, TypeOK
  <2>3. /\ intents' = [intents EXCEPT ![i].status = "executing"]
        /\ legs' = [l \in LegIds |-> IF l \in Primary(i)
                                     THEN [legs[l] EXCEPT !.status = "submitted"]
                                     ELSE legs[l]]
        /\ sent' = sent /\ pc' = "place"
    BY <1>6 DEF PrepareLiveSubmission
  <2>4. w'.send = Primary(i)
    BY <1>6 DEF PrepareLiveSubmission, Fresh
  <2>5. \A l \in LegIds : Journaled(l) => Journaled(l)'
    BY <2>3 DEF Journaled, TypeOK, LegIds, LegRows, IntentRows
  <2>6. \A l \in Primary(i) : Journaled(l)'
    <3> SUFFICES ASSUME NEW l \in Primary(i) PROVE Journaled(l)'
      OBVIOUS
    <3>1. l \in LegIds /\ l[1] = i
      BY <2>1 DEF Primary
    <3>2. legs'[l].status = "submitted" /\ intents'[i].status = "executing"
      BY <2>3, <3>1 DEF TypeOK, LegRows, IntentRows
    <3> QED
      BY <3>1, <3>2 DEF Journaled
  <2>7. JournaledFirst' /\ SubmittedOnce'
    BY <2>3, <2>5 DEF JournalInv, JournaledFirst, SubmittedOnce
  <2> QED
    BY <2>2, <2>3, <2>4, <2>6, <2>7 DEF JournalInv
<1> QED
  BY <1>1, <1>2, <1>3, <1>4, <1>5, <1>6 DEF ExpirePlanned, GuardUnexecutable

LEMMA PlacingJournal ==
    ASSUME TypeOK, JournalInv, NEW l \in LegIds,
           Submit(l) \/ Respond(l) \/ SkipSpot(l) \/ RecordOutcome(l)
    PROVE  JournalInv'
<1>1. CASE Submit(l)
  <2>1. l \in w.send /\ sent[l] = 0 /\ Journaled(l) /\ pc = "place"
    BY <1>1 DEF Submit, JournalInv
  <2>2. /\ sent' = [sent EXCEPT ![l] = @ + 1] /\ w'.send = w.send \ {l}
        /\ UNCHANGED <<intents, legs, pc>>
    BY <1>1 DEF Submit, TypeOK, WorkerMemory, db
  <2>3. sent'[l] = 1 /\ \A m \in LegIds \ {l} : sent'[m] = sent[m]
    BY <2>1, <2>2 DEF TypeOK
  <2>4. \A m \in LegIds : Journaled(m) = Journaled(m)'
    BY <2>2 DEF Journaled
  <2>5. JournaledFirst' /\ SubmittedOnce'
    BY <2>1, <2>3, <2>4 DEF JournalInv, JournaledFirst, SubmittedOnce
  <2>6. \A m \in w'.send : (sent[m] = 0 /\ Journaled(m))'
    BY <2>2, <2>3, <2>4 DEF JournalInv, TypeOK, WorkerMemory
  <2> QED
    BY <2>1, <2>2, <2>5, <2>6 DEF JournalInv
<1>2. CASE Respond(l)
  <2>1. UNCHANGED <<intents, legs, sent, pc>> /\ w'.send = w.send
    BY <1>2 DEF Respond, TypeOK, WorkerMemory, db
  <2> QED
    BY <2>1, LedgerKept, KeptJournal DEF JournalInv
<1>3. CASE SkipSpot(l)
  <2>1. /\ legs' = [legs EXCEPT ![l].status = IF @ = "submitted" THEN "failed" ELSE @]
        /\ UNCHANGED <<intents, sent>> /\ w'.send = {}
    BY <1>3 DEF SkipSpot, TypeOK, WorkerMemory
  <2>2. \A m \in LegIds : Journaled(m) => Journaled(m)'
    BY <2>1 DEF Journaled, TypeOK, LegRows
  <2> QED
    BY <2>1, <2>2, KeptJournal DEF JournalKept
<1>4. CASE RecordOutcome(l)
  <2> DEFINE s == RecordedStatus(l[2], w.resp[l[2]])
  <2>1. /\ legs' = [legs EXCEPT ![l].status = IF @ = "submitted" THEN s ELSE @,
                                ![l].linked = @ \/ s = "acknowledged"]
        /\ UNCHANGED <<intents, sent>>
    BY <1>4 DEF RecordOutcome
  <2>2. s \notin {"absent", "created"}
    BY DEF RecordedStatus
  <2> HIDE DEF s
  <2>3. \A m \in LegIds : Journaled(m) => Journaled(m)'
    BY <2>1, <2>2 DEF Journaled, TypeOK, LegRows
  <2>4. w'.send = {}
    <3>1. CASE w.await = {l}
      BY <1>4, <3>1, ServiceDoneSend DEF RecordOutcome
    <3>2. CASE w.await # {l}
      BY <1>4, <3>2 DEF RecordOutcome, TypeOK, WorkerMemory
    <3> QED
      BY <3>1, <3>2
  <2> QED
    BY <2>1, <2>3, <2>4, KeptJournal DEF JournalKept
<1> QED
  BY <1>1, <1>2, <1>3, <1>4

LEMMA CompensatorJournal ==
    ASSUME TypeOK, JournalInv, NEW i \in Intents,
           CompensationSkip \/ CompensationStart(i) \/ PrepareLiveCompensation(i)
    PROVE  JournalInv'
<1>1. CASE CompensationSkip
  <2>1. UNCHANGED <<intents, legs, sent>>
    BY <1>1 DEF CompensationSkip, db
  <2> QED
    BY <1>1, <2>1, ServiceDoneSend, LedgerKept, KeptJournal DEF CompensationSkip
<1>2. CASE CompensationStart(i)
  <2>1. UNCHANGED <<intents, legs, sent>> /\ w'.send = w.send /\ w.send = {}
    BY <1>2 DEF CompensationStart, JournalInv, TypeOK, WorkerMemory, db
  <2> QED
    BY <2>1, LedgerKept, KeptJournal
<1>3. CASE PrepareLiveCompensation(i)
  <2> DEFINE l == <<i, "comp">>
  <2>0. l \in LegIds
    BY DEF LegIds, Kinds
  <2>1. UNCHANGED <<intents, sent>>
    BY <1>3 DEF PrepareLiveCompensation
  <2>2. CASE /\ intents[i].status = "compensating" /\ legs[l].status = "created"
             /\ legs' = [legs EXCEPT ![l].status = "submitted",
                                     ![l].qty = Executable(l), ![l].tol = Grid(l)]
             /\ w' = [w EXCEPT !.send = {l}]
             /\ pc' = "place"
    <3>1. sent[l] = 0
      BY <2>0, <2>2 DEF JournalInv, JournaledFirst, Journaled, TypeOK
    <3>2. legs'[l].status = "submitted" /\ \A m \in LegIds \ {l} : legs'[m] = legs[m]
      BY <2>0, <2>2 DEF TypeOK, LegRows
    <3>3. Journaled(l)' /\ \A m \in LegIds : Journaled(m) => Journaled(m)'
      BY <2>1, <2>2, <3>2 DEF Journaled
    <3>4. w'.send = {l}
      BY <2>2 DEF TypeOK, WorkerMemory
    <3>5. JournaledFirst' /\ SubmittedOnce'
      BY <2>1, <3>3 DEF JournalInv, JournaledFirst, SubmittedOnce
    <3> QED
      BY <2>1, <2>2, <3>1, <3>3, <3>4, <3>5 DEF JournalInv
  <2>3. CASE ServiceDone /\ UNCHANGED legs
    BY <2>1, <2>3, ServiceDoneSend, LedgerKept, KeptJournal
  <2> QED
    BY <1>3, <2>2, <2>3 DEF PrepareLiveCompensation
<1> QED
  BY <1>1, <1>2, <1>3

LEMMA ReconciliationJournal ==
    ASSUME TypeOK, JournalInv,
           \/ ReconRead \/ MarkReconciling \/ Observe \/ LegsDone
           \/ AccountResult \/ AccountError \/ FinalRead \/ SetFinal
    PROVE  JournalInv'
<1>1. UNCHANGED <<intents, legs, sent>> /\ pc # "place"
  BY DEF ReconRead, MarkReconciling, Observe, LegsDone, AccountResult, AccountError,
         FinalRead, SetFinal, db, remote
<1>2. w.send = {}
  BY <1>1 DEF JournalInv
<1>3. w'.send = {}
  <2>1. CASE MarkReconciling \/ Observe \/ LegsDone
    BY <1>2, <2>1 DEF MarkReconciling, Observe, LegsDone, TypeOK, WorkerMemory
  <2>2. CASE ReconRead \/ FinalRead \/ SetFinal
    BY <2>2 DEF ReconRead, FinalRead, SetFinal, Fresh
  <2>3. CASE AccountResult \/ AccountError
    BY <2>3 DEF AccountResult, AccountError, Fresh
  <2> QED
    BY <2>1, <2>2, <2>3
<1> QED
  BY <1>1, <1>2, <1>3, LedgerKept, KeptJournal

\* What the exchange reports never turns a leg back into a "created" one.
LEMMA LookupJournal ==
    ASSUME TypeOK, JournalInv, NEW l \in LegIds,
           LookupFound(l) \/ LookupMissing(l) \/ LookupIncomplete(l) \/ NoLookup(l)
    PROVE  JournalInv'
<1> DEFINE Out == {"absent", "created"}
           found == [legs[l] EXCEPT !.linked = TRUE, !.status = RemoteStatus(legs[l], orders[l])]
<1>1. UNCHANGED <<intents, sent, pc>> /\ pc # "place"
  BY DEF LookupFound, LookupMissing, LookupIncomplete, NoLookup
<1>2. w.send = {}
  BY <1>1 DEF JournalInv
<1>3. legs[l] \in LegRows
  BY DEF TypeOK
<1>4. PICK leg \in LegRows, ok \in BOOLEAN :
        /\ legs[l].status \notin Out => leg.status \notin Out
        /\ ReadFills(l, leg, ok) \/ Unlinked(l, leg, ok)
  <2>1. found \in LegRows /\ (legs[l].status \notin Out => found.status \notin Out)
    BY <1>3, FoundType DEF RemoteStatus, LegRows, TypeOK
  <2>2. /\ NotFound(legs[l]) \in LegRows
        /\ legs[l].status \notin Out => NotFound(legs[l]).status \notin Out
    BY <1>3, NotFoundType DEF NotFound, LegRows
  <2>3. w.ok \in BOOLEAN
    BY DEF TypeOK, WorkerMemory
  <2>4. CASE LookupFound(l)
    <3>1. ReadFills(l, found, w.ok)
      BY <2>4 DEF LookupFound
    <3> HIDE DEF found
    <3> QED
      BY <2>1, <2>3, <3>1
  <2>5. CASE LookupMissing(l)
    BY <2>2, <2>3, <2>5 DEF LookupMissing
  <2>6. CASE LookupIncomplete(l) \/ NoLookup(l)
    <3> HIDE DEF found
    <3>1. \E ok \in BOOLEAN : ReadFills(l, legs[l], ok) \/ Unlinked(l, legs[l], ok)
      BY <2>3, <2>6 DEF LookupIncomplete, NoLookup
    <3> QED
      BY <1>3, <3>1
  <2> QED
    BY <2>4, <2>5, <2>6
<1>5. /\ \A m \in LegIds \ {l} : legs'[m] = legs[m]
      /\ leg.status \notin Out => legs'[l].status \notin Out
  <2>1. \A f : leg.status \notin Out => WithFills(leg, f).status \notin Out
    BY <1>4 DEF WithFills, FilledStatus, LegRows
  <2>2. PICK new : /\ legs' = [legs EXCEPT ![l] = new]
                   /\ leg.status \notin Out => new.status \notin Out
    BY <1>4, <2>1 DEF ReadFills, Unlinked
  <2> QED
    BY <2>2 DEF TypeOK
<1>6. \A m \in LegIds : Journaled(m) => Journaled(m)'
  BY <1>1, <1>4, <1>5 DEF Journaled
<1>7. w'.send = {}
  BY <1>2, <1>4 DEF ReadFills, Unlinked, TypeOK, WorkerMemory
<1> QED
  BY <1>1, <1>6, <1>7, KeptJournal DEF JournalKept

LEMMA SettlementJournal ==
    ASSUME TypeOK, JournalInv, NEW i \in Intents, Settle(i)
    PROVE  JournalInv'
<1>1. UNCHANGED <<sent, pc>> /\ pc # "place" /\ w'.send = w.send
  BY DEF Settle, TypeOK, WorkerMemory
<1>2. \A s : s \notin {"none", "planned"} /\ SetIntent(i, s) =>
        \A j \in Intents : intents[j].status \notin {"none", "planned"} =>
          intents'[j].status \notin {"none", "planned"}
  BY DEF SetIntent, TypeOK, IntentRows
<1>3. \A j \in Intents : intents[j].status \notin {"none", "planned"} =>
        intents'[j].status \notin {"none", "planned"}
  <2>1. CASE SettlementWaits(i)
    BY <2>1 DEF SettlementWaits, db
  <2>2. CASE ManualReview(i) \/ NoFills(i)
    BY <1>2, <2>2 DEF ManualReview, NoFills
  <2>3. CASE Balanced(i) /\ ~ManualReview(i)
    <3>1. SetIntent(i, Done(i)) /\ Done(i) \notin {"none", "planned"}
      BY <2>3 DEF Balanced, Done
    <3> QED
      BY <1>2, <3>1
  <2>4. CASE CompensationRequired(i)
    <3>1. SetIntent(i, "compensating")
      BY <2>4 DEF CompensationRequired
    <3> QED
      BY <1>2, <3>1
  <2>5. CASE Compensated(i) /\ ~ManualReview(i)
    <3> DEFINE s == IF Adjusted(i, "perp") = 0 THEN "failed" ELSE Done(i)
    <3>1. SetIntent(i, s) /\ s \notin {"none", "planned"}
      BY <2>5 DEF Compensated, Done
    <3> QED
      BY <1>2, <3>1
  <2> QED
    BY <2>1, <2>2, <2>3, <2>4, <2>5 DEF Settle
<1>4. \A m \in LegIds : legs[m].status # "absent" => legs'[m] = legs[m]
  <2>1. UNCHANGED legs \/ CompensationRequired(i)
    <3>1. SettlementWaits(i) => UNCHANGED legs
      BY DEF SettlementWaits, db
    <3>2. NoFills(i) \/ Balanced(i) => UNCHANGED legs
      BY DEF NoFills, Balanced, ManualReview
    <3>3. Compensated(i) => UNCHANGED legs
      BY DEF Compensated, ManualReview
    <3> QED
      BY <3>1, <3>2, <3>3 DEF Settle
  <2>2. CASE CompensationRequired(i)
    <3>1. /\ legs[<<i, "comp">>].status = "absent"
          /\ legs' = [legs EXCEPT ![<<i, "comp">>] = CompensationLeg(i)]
      BY <2>2 DEF CompensationRequired, Comp
    <3> QED
      BY <3>1 DEF TypeOK
  <2> QED
    BY <2>1, <2>2
<1>5. \A m \in LegIds : Journaled(m) => Journaled(m)'
  BY <1>3, <1>4 DEF Journaled, LegIds
<1> QED
  BY <1>1, <1>5, KeptJournal DEF JournalKept, JournalInv

LEMMA CrashJournal ==
    ASSUME TypeOK, JournalInv, Crash
    PROVE  JournalInv'
<1>1. UNCHANGED <<intents, legs, sent>> /\ w'.send = {}
  BY DEF Crash, Fresh, db
<1> QED
  BY <1>1, LedgerKept, KeptJournal

LEMMA WorkerJournal ==
    ASSUME TypeOK, JournalInv, Worker
    PROVE  JournalInv'
<1>1. Intents # {}
  BY BoundAssumption DEF Intents
<1>2. CASE \/ ReconRead \/ MarkReconciling \/ Observe \/ LegsDone
           \/ AccountResult \/ AccountError \/ FinalRead \/ SetFinal
  BY <1>2, ReconciliationJournal
<1>3. CASE ExecRead \/ CompensationSkip
  BY <1>1, <1>3, ExecutorJournal, CompensatorJournal
<1>4. ASSUME NEW i \in Intents,
             \/ ExpirePlanned(i) \/ PreflightPass(i) \/ PreflightFail(i)
             \/ GuardUnexecutable(i) \/ GuardUnavailable(i)
             \/ PrepareLiveSubmission(i) \/ PrepareDenied(i)
      PROVE  JournalInv'
  BY <1>4, ExecutorJournal
<1>5. ASSUME NEW i \in Intents, CompensationStart(i) \/ PrepareLiveCompensation(i)
      PROVE  JournalInv'
  BY <1>5, CompensatorJournal
<1>6. ASSUME NEW i \in Intents, Settle(i) PROVE JournalInv'
  BY <1>6, SettlementJournal
<1>7. ASSUME NEW l \in LegIds, Submit(l) \/ Respond(l) \/ SkipSpot(l) \/ RecordOutcome(l)
      PROVE  JournalInv'
  BY <1>7, PlacingJournal
<1>8. ASSUME NEW l \in LegIds,
             LookupFound(l) \/ LookupMissing(l) \/ LookupIncomplete(l) \/ NoLookup(l)
      PROVE  JournalInv'
  BY <1>8, LookupJournal
<1> QED
  BY <1>2, <1>3, <1>4, <1>5, <1>6, <1>7, <1>8 DEF Worker

LEMMA JournalStep ==
    ASSUME TypeOK, JournalInv, [Next]_vars PROVE JournalInv'
<1>1. CASE UNCHANGED vars
  <2>1. UNCHANGED <<intents, legs, sent, w, pc>>
    BY <1>1 DEF vars, db, remote
  <2> QED
    BY <2>1, LedgerKept, KeptJournal DEF JournalInv
<1> QED
  BY <1>1, ApiJournal, MarketJournal, WorkerJournal, CrashJournal DEF Next

LEMMA JournalInvariant == Spec => []JournalInv
<1>1. Init => JournalInv
  BY DEF Init, JournalInv, JournaledFirst, SubmittedOnce, Fresh
<1>2. TypeOK /\ JournalInv /\ [Next]_vars => JournalInv'
  BY JournalStep
<1> QED
  BY <1>1, <1>2, TypeCorrect, PTL DEF Spec

\* No order is put on the wire twice, however the worker crashes, whatever
\* outcome is unknown and however often reconciliation runs in between.
THEOREM SubmittedAtMostOnce == Spec => []SubmittedOnce
<1>1. JournalInv => SubmittedOnce
  BY DEF JournalInv
<1> QED
  BY <1>1, JournalInvariant, PTL

\* Nothing reaches the exchange that the committed ledger does not know.
THEOREM JournalAheadOfWire == Spec => []JournaledFirst
<1>1. JournalInv => JournaledFirst
  BY DEF JournalInv
<1> QED
  BY <1>1, JournalInvariant, PTL

---------------------------------------------------------------------------
(* Reservations.  ReservationConsistent is inductive: a position is taken    *)
(* and given back in the same transaction as the close that reserves it.    *)

\* The status of an intent matters to reservations only for a close.
Reserving(i) == intents[i].action = "close" /\ intents[i].status \in Unsettled

LEMMA ReservationsKept ==
    ASSUME TypeOK, ReservationConsistent, positions' = positions,
           \A i \in Intents : intents'[i].action = intents[i].action
                              /\ intents'[i].pos = intents[i].pos
                              /\ Reserving(i) = Reserving(i)'
    PROVE  ReservationConsistent'
<1>1. ASSUME NEW p \in Intents, positions'[p].status = "closing"
      PROVE  /\ positions'[p].closer \in Intents
             /\ Reserving(positions[p].closer)' /\ intents'[positions[p].closer].pos = p
  BY <1>1 DEF ReservationConsistent, Reserving
<1>2. ASSUME NEW i \in Intents, Reserving(i)'
      PROVE  /\ intents'[i].pos \in Intents
             /\ positions'[intents'[i].pos].status = "closing"
             /\ positions'[intents'[i].pos].closer = i
  BY <1>2 DEF ReservationConsistent, Reserving
<1> QED
  BY <1>1, <1>2 DEF ReservationConsistent, Reserving

\* A close that ends releases or books its own position and no other.
LEMMA ReservationEnds ==
    ASSUME TypeOK, ReservationConsistent, NEW i \in Intents, Reserving(i),
           NEW s, s \notin Unsettled, SetIntent(i, s),
           NEW row, row.status # "closing",
           positions' = [positions EXCEPT ![intents[i].pos] = row]
    PROVE  ReservationConsistent'
<1> DEFINE p == intents[i].pos
<1>1. p \in Intents /\ positions[p].status = "closing" /\ positions[p].closer = i
  BY DEF ReservationConsistent, Reserving
<1>2. /\ positions'[p].status # "closing"
      /\ \A x \in Intents \ {p} : positions'[x] = positions[x]
  BY <1>1 DEF TypeOK
<1>3. /\ intents'[i].status = s /\ intents'[i].pos = p
      /\ \A j \in Intents \ {i} : intents'[j] = intents[j]
  BY DEF SetIntent, TypeOK, IntentRows
<1>4. ASSUME NEW x \in Intents, positions'[x].status = "closing"
      PROVE  /\ positions'[x].closer \in Intents
             /\ LET c == intents'[positions'[x].closer] IN
                  c.action = "close" /\ c.pos = x /\ c.status \in Unsettled
  <2>1. x # p /\ positions'[x] = positions[x]
    BY <1>2, <1>4
  <2>2. positions[x].closer \in Intents /\ intents[positions[x].closer].pos = x
    BY <1>4, <2>1 DEF ReservationConsistent
  <2>3. positions[x].closer # i
    BY <2>1, <2>2
  <2> QED
    BY <1>3, <1>4, <2>1, <2>3 DEF ReservationConsistent
<1>5. ASSUME NEW j \in Intents, intents'[j].action = "close", intents'[j].status \in Unsettled
      PROVE  /\ intents'[j].pos \in Intents
             /\ positions'[intents'[j].pos].status = "closing"
             /\ positions'[intents'[j].pos].closer = j
  <2>1. j # i /\ intents'[j] = intents[j]
    BY <1>3, <1>5
  <2>2. /\ intents[j].pos \in Intents
        /\ positions[intents[j].pos].status = "closing"
        /\ positions[intents[j].pos].closer = j
    BY <1>5, <2>1 DEF ReservationConsistent
  <2>3. intents[j].pos # p
    BY <1>1, <2>1, <2>2
  <2> QED
    BY <1>2, <2>1, <2>2, <2>3
<1> QED
  BY <1>4, <1>5 DEF ReservationConsistent

\* Giving a close up: drop_planned, or a settlement without fills.
LEMMA ReleasedReservation ==
    ASSUME TypeOK, ReservationConsistent, NEW i \in Intents,
           intents[i].status \in Unsettled,
           SetIntent(i, "failed"), positions' = Released(i)
    PROVE  ReservationConsistent'
<1>1. "failed" \notin Unsettled
  BY DEF Unsettled
<1>2. CASE intents[i].action = "close"
  <2> DEFINE p == intents[i].pos
             row == [positions[p] EXCEPT !.status = "open", !.closer = 0]
  <2>1. Reserving(i)
    BY <1>2 DEF Reserving
  <2>2. p \in Intents /\ positions[p].status = "closing" /\ positions[p].closer = i
    BY <2>1 DEF ReservationConsistent, Reserving
  <2>3. positions' = [positions EXCEPT ![p] = row]
    BY <1>2, <2>2 DEF Released
  <2>4. row.status = "open"
    BY <2>2 DEF TypeOK, PositionRows
  <2> HIDE DEF row
  <2> QED
    BY <1>1, <2>1, <2>3, <2>4, ReservationEnds
<1>3. CASE intents[i].action # "close"
  <2>1. positions' = positions
    BY <1>3 DEF Released
  <2>2. \A j \in Intents : intents'[j].action = intents[j].action
                           /\ intents'[j].pos = intents[j].pos
                           /\ Reserving(j) = Reserving(j)'
    BY <1>3 DEF SetIntent, Reserving, TypeOK, IntentRows
  <2> QED
    BY <2>1, <2>2, ReservationsKept
<1> QED
  BY <1>2, <1>3

\* Steps that leave every intent's part in reservations alone.
LEMMA StatusMoves ==
    ASSUME TypeOK, ReservationConsistent, NEW i \in Intents, NEW s, SetIntent(i, s),
           positions' = positions,
           intents[i].status \in Unsettled /\ s \in Unsettled
    PROVE  ReservationConsistent'
<1>1. \A j \in Intents : intents'[j].action = intents[j].action
                         /\ intents'[j].pos = intents[j].pos
                         /\ Reserving(j) = Reserving(j)'
  BY DEF SetIntent, Reserving, TypeOK, IntentRows
<1> QED
  BY <1>1, ReservationsKept

LEMMA RowsKept ==
    ASSUME TypeOK, ReservationConsistent, UNCHANGED <<intents, positions>>
    PROVE  ReservationConsistent'
BY DEF ReservationConsistent

\* A settled open makes a position where there was none.
LEMMA OpenedPosition ==
    ASSUME TypeOK, ReservationConsistent, NEW i \in Intents,
           intents[i].action = "open", positions[i].status = "none",
           NEW s, SetIntent(i, s), NEW row, row.status # "closing",
           positions' = [positions EXCEPT ![i] = row] \/ positions' = positions
    PROVE  ReservationConsistent'
<1>1. /\ positions'[i].status # "closing"
      /\ \A x \in Intents \ {i} : positions'[x] = positions[x]
  BY DEF TypeOK
<1>2. /\ intents'[i].action = "open"
      /\ \A j \in Intents \ {i} : intents'[j] = intents[j]
  BY DEF SetIntent, TypeOK, IntentRows
<1>3. ASSUME NEW x \in Intents, positions'[x].status = "closing"
      PROVE  /\ positions'[x].closer \in Intents
             /\ LET c == intents'[positions'[x].closer] IN
                  c.action = "close" /\ c.pos = x /\ c.status \in Unsettled
  <2>1. positions'[x] = positions[x] /\ positions[x].closer # i
    BY <1>1, <1>3 DEF ReservationConsistent
  <2> QED
    BY <1>2, <1>3, <2>1 DEF ReservationConsistent
<1>4. ASSUME NEW j \in Intents, intents'[j].action = "close", intents'[j].status \in Unsettled
      PROVE  /\ intents'[j].pos \in Intents
             /\ positions'[intents'[j].pos].status = "closing"
             /\ positions'[intents'[j].pos].closer = j
  <2>1. intents'[j] = intents[j] /\ intents[j].pos # i
    BY <1>2, <1>4 DEF ReservationConsistent
  <2> QED
    BY <1>1, <1>4, <2>1 DEF ReservationConsistent
<1> QED
  BY <1>3, <1>4 DEF ReservationConsistent

LEMMA BookedReservation ==
    ASSUME TypeOK, ReservationConsistent, NEW i \in Intents, Settling(i),
           NEW s, s \notin Unsettled, SetIntent(i, s), NEW qty, Book(i, qty)
    PROVE  ReservationConsistent'
<1>1. CASE intents[i].action = "open"
  <2> DEFINE row == [status |-> "open", qty |-> qty, closer |-> 0]
  <2>1. positions' = [positions EXCEPT ![i] = row] /\ positions[i].status = "none"
    BY <1>1 DEF Book, Settling
  <2>2. row.status # "closing"
    OBVIOUS
  <2> HIDE DEF row
  <2> QED
    BY <1>1, <2>1, <2>2, OpenedPosition
<1>2. CASE intents[i].action # "open"
  <2> DEFINE p == intents[i].pos
             rest == positions[p].qty - qty
             row == IF rest = 0
                    THEN [positions[p] EXCEPT !.qty = 0, !.status = "closed"]
                    ELSE [status |-> "open", qty |-> rest, closer |-> 0]
  <2>1. Reserving(i)
    BY <1>2 DEF Settling, Reserving, Unsettled, TypeOK, IntentRows
  <2>2. p \in Intents
    BY <2>1 DEF ReservationConsistent, Reserving
  <2>3. positions' = [positions EXCEPT ![p] = row]
    BY <1>2 DEF Book
  <2>4. row.status # "closing"
    BY <2>2 DEF TypeOK, PositionRows
  <2> HIDE DEF row
  <2> QED
    BY <2>1, <2>3, <2>4, ReservationEnds
<1> QED
  BY <1>1, <1>2

LEMMA SettlementReservation ==
    ASSUME TypeOK, ReservationConsistent, NEW i \in Intents, Settle(i)
    PROVE  ReservationConsistent'
<1>1. CASE SettlementWaits(i)
  BY <1>1, RowsKept DEF SettlementWaits, db
<1>2. CASE Settling(i) /\ (NoFills(i) \/ Balanced(i) \/ CompensationRequired(i) \/ Compensated(i))
  <2>1. intents[i].status \in Unsettled
    BY <1>2 DEF Settling, Unsettled
  <2>2. {"failed", "hedged", "closed"} \cap Unsettled = {}
    BY DEF Unsettled
  <2>3. CASE ManualReview(i)
    BY <2>1, <2>3, StatusMoves DEF ManualReview, Unsettled
  <2>4. CASE CompensationRequired(i)
    BY <2>1, <2>4, StatusMoves DEF CompensationRequired, Unsettled
  <2>5. CASE NoFills(i)
    BY <2>1, <2>5, ReleasedReservation DEF NoFills
  <2>6. CASE Balanced(i) /\ ~ManualReview(i)
    <3>1. Book(i, Spot(i).filled) /\ SetIntent(i, Done(i)) /\ Done(i) \notin Unsettled
      BY <2>2, <2>6 DEF Balanced, Done
    <3> QED
      BY <1>2, <3>1, BookedReservation
  <2>7. CASE Compensated(i) /\ ~ManualReview(i)
    <3> DEFINE common == Adjusted(i, "perp")
               s == IF common = 0 THEN "failed" ELSE Done(i)
    <3>1. SetIntent(i, s) /\ s \notin Unsettled
      BY <2>2, <2>7 DEF Compensated, Done
    <3>2. \/ intents[i].action = "open" /\ positions' = positions
          \/ Book(i, common)
      BY <2>7 DEF Compensated
    <3> HIDE DEF s, common
    <3>3. CASE Book(i, common)
      BY <1>2, <3>1, <3>3, BookedReservation
    <3>4. CASE intents[i].action = "open" /\ positions' = positions
      <4>1. positions[i].status = "none"
        BY <1>2, <3>4 DEF Settling
      <4> QED
        BY <3>1, <3>4, <4>1, OpenedPosition
    <3> QED
      BY <3>2, <3>3, <3>4
  <2> QED
    BY <1>2, <2>3, <2>4, <2>5, <2>6, <2>7
<1> QED
  BY <1>1, <1>2 DEF Settle

\* create_paper_close_intent reserves the position with its intent.
LEMMA ApiReservation ==
    ASSUME TypeOK, ReservationConsistent, Api
    PROVE  ReservationConsistent'
<1>1. CASE PlanOpen
  <2>1. PICK i \in Unplanned : intents' = [intents EXCEPT ![i] = IntentRow("open", 0, FALSE)]
    BY <1>1 DEF PlanOpen
  <2>2. /\ intents'[i].action = "open" /\ intents[i].status = "none"
        /\ \A j \in Intents \ {i} : intents'[j] = intents[j]
        /\ positions' = positions
    BY <1>1, <2>1 DEF PlanOpen, IntentRow, Unplanned, TypeOK
  <2> QED
    BY <2>2 DEF ReservationConsistent, Unsettled
<1>2. ASSUME NEW p \in Intents, PlanClose(p)
      PROVE  ReservationConsistent'
  <2>1. PICK i \in Unplanned :
          /\ intents' = [intents EXCEPT ![i] = IntentRow("close", p, api = "emergency")]
          /\ positions' = [positions EXCEPT ![p].status = "closing", ![p].closer = i]
    BY <1>2 DEF PlanClose
  <2>2. i \in Intents /\ intents[i].status = "none" /\ positions[p].status = "open"
    BY <1>2 DEF PlanClose, Closable, Unplanned
  <2>3. /\ intents'[i].action = "close" /\ intents'[i].pos = p /\ intents'[i].status = "planned"
        /\ \A j \in Intents \ {i} : intents'[j] = intents[j]
    BY <2>1, <2>2 DEF IntentRow, TypeOK
  <2>4. /\ positions'[p].status = "closing" /\ positions'[p].closer = i
        /\ \A x \in Intents \ {p} : positions'[x] = positions[x]
    BY <2>1 DEF TypeOK, PositionRows
  <2>5. ASSUME NEW x \in Intents, positions'[x].status = "closing"
        PROVE  /\ positions'[x].closer \in Intents
               /\ LET c == intents'[positions'[x].closer] IN
                    c.action = "close" /\ c.pos = x /\ c.status \in Unsettled
    <3>1. CASE x = p
      BY <2>2, <2>3, <2>4, <3>1 DEF Unsettled
    <3>2. CASE x # p
      <4>1. positions'[x] = positions[x] /\ positions[x].closer # i
        BY <2>2, <2>4, <2>5, <3>2 DEF ReservationConsistent, Unsettled
      <4> QED
        BY <2>3, <2>5, <4>1 DEF ReservationConsistent
    <3> QED
      BY <3>1, <3>2
  <2>6. ASSUME NEW j \in Intents, intents'[j].action = "close",
               intents'[j].status \in Unsettled
        PROVE  /\ intents'[j].pos \in Intents
               /\ positions'[intents'[j].pos].status = "closing"
               /\ positions'[intents'[j].pos].closer = j
    <3>1. CASE j = i
      BY <2>3, <2>4, <3>1
    <3>2. CASE j # i
      <4>1. intents'[j] = intents[j] /\ intents[j].pos # p
        BY <2>2, <2>3, <2>6, <3>2 DEF ReservationConsistent
      <4> QED
        BY <2>4, <2>6, <4>1 DEF ReservationConsistent
    <3> QED
      BY <3>1, <3>2
  <2> QED
    BY <2>5, <2>6 DEF ReservationConsistent
<1>3. CASE \/ PauseExecution \/ ResumeExecution \/ RequestReconciliation
           \/ ConfirmationFails
           \/ \E kind \in {"open", "close", "emergency"} : Confirm(kind)
  <2>1. UNCHANGED <<intents, positions>>
    BY <1>3 DEF PauseExecution, ResumeExecution, RequestReconciliation, Confirm,
                ConfirmationFails, db
  <2> QED
    BY <2>1, RowsKept
<1> QED
  BY <1>1, <1>2, <1>3 DEF Api

LEMMA ExecutorReservation ==
    ASSUME TypeOK, ReservationConsistent, NEW i \in Intents,
           \/ ExecRead
           \/ ExpirePlanned(i) \/ GuardUnexecutable(i) \/ GuardUnavailable(i)
           \/ PreflightPass(i) \/ PreflightFail(i)
           \/ PrepareLiveSubmission(i) \/ PrepareDenied(i)
    PROVE  ReservationConsistent'
<1>1. CASE DropPlanned(i)
  <2>1. SetIntent(i, "failed") /\ positions' = Released(i) /\ intents[i].status \in Unsettled
    BY <1>1 DEF DropPlanned, SetIntent, Unsettled
  <2> QED
    BY <2>1, ReleasedReservation
<1>2. CASE PrepareLiveSubmission(i)
  <2>1. /\ SetIntent(i, "executing") /\ positions' = positions
        /\ intents[i].status \in Unsettled /\ "executing" \in Unsettled
    BY <1>2 DEF PrepareLiveSubmission, SetIntent, Unsettled
  <2> QED
    BY <2>1, StatusMoves
<1>3. CASE \/ ExecRead \/ GuardUnavailable(i) \/ PreflightPass(i) \/ PreflightFail(i)
           \/ PrepareDenied(i)
  <2>1. UNCHANGED <<intents, positions>>
    BY <1>3 DEF ExecRead, GuardUnavailable, PreflightPass, PreflightFail, PrepareDenied, db
  <2> QED
    BY <2>1, RowsKept
<1> QED
  BY <1>1, <1>2, <1>3 DEF ExpirePlanned, GuardUnexecutable

\* Everything else leaves intents and positions alone.
LEMMA OtherReservation ==
    ASSUME NEW i \in Intents, NEW l \in LegIds,
           \/ CompensationSkip \/ CompensationStart(i) \/ PrepareLiveCompensation(i)
           \/ ReconRead \/ MarkReconciling \/ Observe \/ LegsDone
           \/ AccountResult \/ AccountError \/ FinalRead \/ SetFinal
           \/ Submit(l) \/ Respond(l) \/ SkipSpot(l) \/ RecordOutcome(l)
           \/ LookupFound(l) \/ LookupMissing(l) \/ LookupIncomplete(l) \/ NoLookup(l)
           \/ Arrive(l) \/ Trade(l) \/ Expire(l) \/ Crash
    PROVE  UNCHANGED <<intents, positions>>
BY DEF db, CompensationSkip, CompensationStart, PrepareLiveCompensation, ReconRead,
       MarkReconciling, Observe, LegsDone, AccountResult, AccountError, FinalRead,
       SetFinal, Submit, Respond, SkipSpot, RecordOutcome, LookupFound, LookupMissing,
       LookupIncomplete, NoLookup, Arrive, Trade, Expire, Crash

\* No reservation outlives its close and no close loses its reservation,
\* whether it is dropped, filled, compensated or handed to the administrator.
THEOREM ReservationsConsistent == Spec => []ReservationConsistent
<1>1. Init => ReservationConsistent
  BY DEF Init, ReservationConsistent, NoIntent, NoPosition, Unsettled
<1>2. TypeOK /\ ReservationConsistent /\ [Next]_vars => ReservationConsistent'
  <2> SUFFICES ASSUME TypeOK, ReservationConsistent, [Next]_vars
               PROVE  ReservationConsistent'
    OBVIOUS
  <2>0. 1 \in Intents /\ <<1, "spot">> \in LegIds
    BY BoundAssumption DEF Intents, LegIds, Kinds
  <2>1. CASE UNCHANGED vars
    BY <2>1, RowsKept DEF vars, db
  <2>2. CASE Api
    BY <2>2, ApiReservation
  <2>3. CASE Crash \/ Market
    BY <2>0, <2>3, OtherReservation, RowsKept DEF Market
  <2>4. CASE Worker
    <3>1. ASSUME NEW i \in Intents, Settle(i) PROVE ReservationConsistent'
      BY <3>1, SettlementReservation
    <3>2. ASSUME NEW i \in Intents,
                 \/ ExecRead
                 \/ ExpirePlanned(i) \/ GuardUnexecutable(i) \/ GuardUnavailable(i)
                 \/ PreflightPass(i) \/ PreflightFail(i)
                 \/ PrepareLiveSubmission(i) \/ PrepareDenied(i)
          PROVE  ReservationConsistent'
      BY <3>2, ExecutorReservation
    <3>3. ASSUME NEW i \in Intents, NEW l \in LegIds,
                 \/ CompensationSkip \/ CompensationStart(i) \/ PrepareLiveCompensation(i)
                 \/ ReconRead \/ MarkReconciling \/ Observe \/ LegsDone
                 \/ AccountResult \/ AccountError \/ FinalRead \/ SetFinal
                 \/ Submit(l) \/ Respond(l) \/ SkipSpot(l) \/ RecordOutcome(l)
                 \/ LookupFound(l) \/ LookupMissing(l) \/ LookupIncomplete(l) \/ NoLookup(l)
          PROVE  ReservationConsistent'
      BY <3>3, OtherReservation, RowsKept
    <3>4. CASE \/ ExecRead \/ CompensationSkip \/ ReconRead \/ MarkReconciling \/ Observe
               \/ LegsDone \/ AccountResult \/ AccountError \/ FinalRead \/ SetFinal
      BY <2>0, <3>2, <3>3, <3>4
    <3>5. CASE \E i \in Intents :
                 \/ ExpirePlanned(i) \/ PreflightPass(i) \/ PreflightFail(i)
                 \/ GuardUnexecutable(i) \/ GuardUnavailable(i)
                 \/ PrepareLiveSubmission(i) \/ PrepareDenied(i)
                 \/ CompensationStart(i) \/ PrepareLiveCompensation(i) \/ Settle(i)
      BY <2>0, <3>1, <3>2, <3>3, <3>5
    <3>6. CASE \E l \in LegIds :
                 \/ Submit(l) \/ Respond(l) \/ SkipSpot(l) \/ RecordOutcome(l)
                 \/ LookupFound(l) \/ LookupMissing(l) \/ LookupIncomplete(l) \/ NoLookup(l)
      BY <2>0, <3>3, <3>6
    <3> QED
      BY <2>4, <3>4, <3>5, <3>6 DEF Worker
  <2> QED
    BY <2>1, <2>2, <2>3, <2>4 DEF Next
<1> QED
  BY <1>1, <1>2, TypeCorrect, PTL DEF Spec

---------------------------------------------------------------------------
(* The Gate sandbox order of legs.  A spot leg waiting to be sent shares     *)
(* the worker's hands with its own group only, so an acknowledgement of "the *)
(* perpetual leg" is one of its partner; and what the exchange took it never *)
(* gives back, since no order is sent again.                                *)

Taken(l) == orders[l].state \in {"live", "done"}
InHand   == w.send \cup w.await

PairInv ==
    /\ \A l \in LegIds : sent[l] = 0 => orders[l].state = "none"
    /\ \A i \in Intents : <<i, "spot">> \in w.send =>
         /\ \A l \in InHand : l[1] = i
         /\ w.resp["perp"] = "ack" => Taken(<<i, "perp">>)
    /\ Sequential => \A i \in Intents : sent[<<i, "spot">>] > 0 => Taken(<<i, "perp">>)

\* What every step but a submission does to the wire and to the book.
WireKept ==
    /\ sent' = sent
    /\ \A l \in LegIds : Taken(l) => Taken(l)'
    /\ \A l \in LegIds : orders[l].state \in {"none", "rejected"} =>
         orders'[l].state = orders[l].state
    /\ \A l \in LegIds : orders'[l].state = "inflight" => orders[l].state = "inflight"
    /\ \A l \in LegIds : orders'[l].state = "live" => orders[l].state \in {"inflight", "live"}
    /\ \A l \in LegIds : orders'[l].filled >= orders[l].filled

LEMMA MarketWire ==
    ASSUME TypeOK, NEW l \in LegIds, Arrive(l) \/ Trade(l) \/ Expire(l)
    PROVE  WireKept
<1>1. /\ sent' = sent /\ orders[l].state \in {"inflight", "live"}
      /\ \A m \in LegIds \ {l} : orders'[m] = orders[m]
  BY DEF Arrive, Trade, Expire, TypeOK
<1>2. orders[l].state = "live" => orders'[l].state \in {"live", "done"}
  <2>1. CASE Trade(l)
    <3>1. PICK q \in Fillable(l) :
            orders' = [orders EXCEPT ![l].filled = @ + q,
                                     ![l].state = IF orders[l].filled + q = legs[l].qty
                                                  THEN "done" ELSE "live"]
      BY <2>1 DEF Trade
    <3>2. orders'[l].state = IF orders[l].filled + q = legs[l].qty THEN "done" ELSE "live"
      BY <3>1 DEF TypeOK, OrderRows
    <3> QED
      BY <3>2
  <2>2. CASE Arrive(l) \/ Expire(l)
    BY <2>2 DEF Arrive, Expire, TypeOK, OrderRows
  <2> QED
    BY <2>1, <2>2
<1>3. orders'[l].filled >= orders[l].filled
  <2>1. CASE Trade(l)
    <3>1. PICK q \in Fillable(l) :
            orders' = [orders EXCEPT ![l].filled = @ + q,
                                     ![l].state = IF orders[l].filled + q = legs[l].qty
                                                  THEN "done" ELSE "live"]
      BY <2>1 DEF Trade
    <3>2. orders[l].filled \in Nat /\ legs[l].qty \in Nat
      BY DEF TypeOK, OrderRows, LegRows
    <3>3. q \in Nat
      BY <3>2 DEF Fillable
    <3>4. orders'[l].filled = orders[l].filled + q
      BY <3>1 DEF TypeOK, OrderRows
    <3> QED
      BY <3>2, <3>3, <3>4
  <2>2. CASE Arrive(l) \/ Expire(l)
    BY <2>2 DEF Arrive, Expire, TypeOK, OrderRows
  <2> QED
    BY <2>1, <2>2
<1>4. \A m \in LegIds : orders[m].filled \in Nat
  BY DEF TypeOK, OrderRows
<1> QED
  BY <1>1, <1>2, <1>3, <1>4 DEF WireKept, Taken

\* Only a submission puts an order on the wire; a cancellation of Observe
\* ends live orders.
LEMMA OtherWire ==
    ASSUME TypeOK, [Next]_vars, \A l \in LegIds : ~Submit(l)
    PROVE  WireKept
<1>1. CASE Market
  BY <1>1, MarketWire DEF Market
<1>2. CASE Observe
  <2>1. PICK C \in SUBSET LiveOrders :
          orders' = [l \in LegIds |-> IF l \in C THEN [orders[l] EXCEPT !.state = "done"]
                                      ELSE orders[l]]
    BY <1>2 DEF Observe
  <2> QED
    BY <1>2, <2>1 DEF Observe, WireKept, Taken, LiveOrders, TypeOK, OrderRows
<1>3. CASE UNCHANGED <<orders, sent>>
  BY <1>3 DEF WireKept, Taken, TypeOK, OrderRows
<1>4. CASE UNCHANGED vars \/ Crash \/ Api
  <2>1. UNCHANGED <<orders, sent>>
    BY <1>4 DEF vars, Crash, Api, db, remote, PauseExecution, ResumeExecution,
                RequestReconciliation, Confirm, ConfirmationFails, PlanOpen, PlanClose
  <2> QED
    BY <1>3, <2>1
<1>5. CASE Worker
  <2>1. Observe \/ UNCHANGED <<orders, sent>>
    BY <1>5 DEF Worker, remote, ExecRead, CompensationSkip, ReconRead, MarkReconciling,
                LegsDone, AccountResult, AccountError, FinalRead, SetFinal, ExpirePlanned,
                PreflightPass, PreflightFail, GuardUnexecutable, GuardUnavailable,
                DropPlanned, PrepareLiveSubmission, PrepareDenied, CompensationStart,
                PrepareLiveCompensation, Settle, Respond, SkipSpot, RecordOutcome,
                LookupFound, LookupMissing, LookupIncomplete, NoLookup
  <2> QED
    BY <1>2, <1>3, <2>1
<1> QED
  BY <1>1, <1>4, <1>5 DEF Next

\* Legs are in hand only between a preparation and the last outcome.
LEMMA StepsToPlace ==
    ASSUME TypeOK, [Next]_vars, pc' = "place"
    PROVE  \/ UNCHANGED <<w, pc>>
           \/ \E i \in Intents : PrepareLiveSubmission(i) \/ PrepareLiveCompensation(i)
           \/ \E l \in LegIds : Submit(l) \/ Respond(l) \/ SkipSpot(l) \/ RecordOutcome(l)
<1>1. CASE UNCHANGED vars \/ Api \/ Market
  BY <1>1 DEF vars, db, Api, PauseExecution, ResumeExecution, RequestReconciliation,
              Confirm, ConfirmationFails, PlanOpen, PlanClose, Market, Arrive, Trade, Expire
<1>2. CASE Crash
  BY <1>2 DEF Crash
<1>3. CASE Worker
  <2>1. ASSUME NEW i \in Intents,
               \/ ExpirePlanned(i) \/ PreflightPass(i) \/ PreflightFail(i)
               \/ GuardUnexecutable(i) \/ GuardUnavailable(i) \/ PrepareDenied(i)
               \/ CompensationStart(i) \/ Settle(i)
        PROVE  FALSE
    <3>1. ~NextCandidate(i)
      BY NextCandidateSend
    <3> QED
      BY <2>1, <3>1 DEF ExpirePlanned, GuardUnexecutable, DropPlanned, PreflightPass,
                        PreflightFail, GuardUnavailable, PrepareDenied,
                        CompensationStart, Settle
  <2>2. ASSUME NEW l \in LegIds,
               LookupFound(l) \/ LookupMissing(l) \/ LookupIncomplete(l) \/ NoLookup(l)
        PROVE  FALSE
    BY <2>2 DEF LookupFound, LookupMissing, LookupIncomplete, NoLookup
  <2>3. ~CompensationSkip
    BY ServiceDoneSend DEF CompensationSkip
  <2>4. ~(\/ ExecRead \/ ReconRead \/ MarkReconciling \/ Observe \/ LegsDone
          \/ AccountResult \/ AccountError \/ FinalRead \/ SetFinal)
    BY DEF ExecRead, ReconRead, MarkReconciling, Observe, LegsDone, AccountResult,
           AccountError, FinalRead, SetFinal
  <2> QED
    BY <1>3, <2>1, <2>2, <2>3, <2>4 DEF Worker
<1> QED
  BY <1>1, <1>2, <1>3 DEF Next

LEMMA PairSubmit ==
    ASSUME TypeOK, JournalInv, PairInv, NEW l \in LegIds, Submit(l)
    PROVE  PairInv'
<1>1. l \in w.send /\ sent[l] = 0 /\ ~Taken(l)
  BY DEF Submit, JournalInv, PairInv, Taken
<1>2. /\ w'.send = w.send \ {l} /\ w'.await = w.await \cup {l} /\ w'.resp = w.resp
  BY DEF Submit, TypeOK, WorkerMemory
<1>3. /\ sent'[l] = 1 /\ \A m \in LegIds \ {l} : sent'[m] = sent[m] /\ orders'[m] = orders[m]
  BY <1>1 DEF Submit, TypeOK
<1>4. \A m \in LegIds : Taken(m) => Taken(m)'
  BY <1>1, <1>3 DEF Taken
<1>5. \A m \in LegIds : sent'[m] = 0 => orders'[m].state = "none"
  BY <1>3 DEF PairInv
<1>6. ASSUME NEW i \in Intents, <<i, "spot">> \in w'.send
      PROVE  /\ \A m \in InHand' : m[1] = i
             /\ w'.resp["perp"] = "ack" => Taken(<<i, "perp">>)'
  <2>1. <<i, "perp">> \in LegIds
    BY LegIdsFacts DEF Kinds
  <2> QED
    BY <1>1, <1>2, <1>4, <1>6, <2>1 DEF PairInv, InHand
<1>7. ASSUME Sequential, NEW i \in Intents, sent'[<<i, "spot">>] > 0
      PROVE  Taken(<<i, "perp">>)'
  <2>1. <<i, "spot">> \in LegIds /\ <<i, "perp">> \in LegIds
    BY LegIdsFacts DEF Kinds
  <2>2. Taken(<<i, "perp">>)
    <3>1. CASE l = <<i, "spot">>
      BY <1>1, <1>7, <3>1 DEF Submit, PairInv
    <3>2. CASE l # <<i, "spot">>
      BY <1>3, <1>7, <2>1, <3>2 DEF PairInv
    <3> QED
      BY <3>1, <3>2
  <2> QED
    BY <1>4, <2>1, <2>2
<1> QED
  BY <1>5, <1>6, <1>7 DEF PairInv

\* A leg just prepared, and one that awaits its outcome.
LEMMA PairHand ==
    ASSUME TypeOK, JournalInv, PairInv, JournalInv', WireKept, [Next]_vars,
           \A l \in LegIds : ~Submit(l),
           NEW i \in Intents, <<i, "spot">> \in w'.send
    PROVE  /\ \A l \in InHand' : l[1] = i
           /\ w'.resp["perp"] = "ack" => Taken(<<i, "perp">>)'
<1>0. <<i, "perp">> \in LegIds
  BY LegIdsFacts DEF Kinds
<1>1. pc' = "place"
  BY DEF JournalInv
<1>2. CASE UNCHANGED <<w, pc>>
  BY <1>0, <1>2 DEF PairInv, InHand, WireKept
<1>3. ASSUME NEW j \in Intents, PrepareLiveSubmission(j)
      PROVE  (\A l \in InHand' : l[1] = i) /\ w'.resp["perp"] # "ack"
  <2>1. w'.send = Primary(j) /\ w'.await = {} /\ w'.resp["perp"] = "none"
    BY <1>3 DEF PrepareLiveSubmission, Fresh, Kinds
  <2> QED
    BY <2>1 DEF Primary, InHand
<1>4. ASSUME NEW j \in Intents, PrepareLiveCompensation(j)
      PROVE  FALSE
  <2>1. w' = [w EXCEPT !.send = {<<j, "comp">>}]
    BY <1>1, <1>4, ServiceDoneSend DEF PrepareLiveCompensation
  <2> QED
    BY <2>1 DEF TypeOK, WorkerMemory
<1>5. ASSUME NEW l \in LegIds, Respond(l)
      PROVE  /\ \A m \in InHand' : m[1] = i
             /\ w'.resp["perp"] = "ack" => Taken(<<i, "perp">>)'
  <2>1. PICK r \in Outcomes(l) : w' = [w EXCEPT !.resp[l[2]] = r]
    BY <1>5 DEF Respond
  <2>2. w'.send = w.send /\ w'.await = w.await
    BY <2>1 DEF TypeOK, WorkerMemory
  <2>3. \A m \in InHand : m[1] = i
    BY <2>2 DEF PairInv
  <2>4. l \in InHand /\ l = <<l[1], l[2]>>
    BY <1>5, LegIdsFacts DEF Respond, InHand, LegIds
  <2>5. CASE l[2] # "perp"
    <3>1. w'.resp["perp"] = w.resp["perp"]
      BY <2>1, <2>5 DEF TypeOK, WorkerMemory
    <3> QED
      BY <1>0, <2>2, <2>3, <3>1 DEF PairInv, InHand, WireKept
  <2>6. CASE l[2] = "perp"
    <3>1. l = <<i, "perp">>
      BY <2>3, <2>4, <2>6
    <3>2. w'.resp["perp"] = r
      BY <2>1, <2>6 DEF TypeOK, WorkerMemory, Kinds
    <3>3. r = "ack" => Taken(l)
      BY DEF Outcomes, Taken
    <3> QED
      BY <1>0, <2>2, <2>3, <3>1, <3>2, <3>3 DEF InHand, WireKept
  <2> QED
    BY <2>5, <2>6
<1>6. ASSUME NEW l \in LegIds, SkipSpot(l) \/ RecordOutcome(l)
      PROVE  FALSE
  <2>1. CASE SkipSpot(l)
    BY <2>1 DEF SkipSpot, TypeOK, WorkerMemory
  <2>2. CASE RecordOutcome(l) /\ w.await = {l}
    BY <1>1, <2>2, ServiceDoneSend DEF RecordOutcome
  <2>3. CASE RecordOutcome(l) /\ w.await # {l}
    BY <2>3 DEF RecordOutcome, TypeOK, WorkerMemory
  <2> QED
    BY <1>6, <2>1, <2>2, <2>3
<1> QED
  BY <1>1, <1>2, <1>3, <1>4, <1>5, <1>6, StepsToPlace

LEMMA PairInvariant == Spec => []PairInv
<1>1. Init => PairInv
  BY DEF Init, PairInv, Fresh, NoOrder, LegIds, Kinds
<1>2. TypeOK /\ JournalInv /\ PairInv /\ [Next]_vars => PairInv'
  <2> SUFFICES ASSUME TypeOK, JournalInv, PairInv, [Next]_vars PROVE PairInv'
    OBVIOUS
  <2>1. CASE \E l \in LegIds : Submit(l)
    BY <2>1, PairSubmit
  <2>2. CASE \A l \in LegIds : ~Submit(l)
    <3>1. JournalInv' /\ WireKept
      BY <2>2, JournalStep, OtherWire
    <3>2. \A i \in Intents : <<i, "spot">> \in LegIds /\ <<i, "perp">> \in LegIds
      BY LegIdsFacts DEF Kinds
    <3>3. \A l \in LegIds : sent'[l] = 0 => orders'[l].state = "none"
      BY <3>1 DEF PairInv, WireKept
    <3>4. Sequential => \A i \in Intents : sent'[<<i, "spot">>] > 0 => Taken(<<i, "perp">>)'
      BY <3>1, <3>2 DEF PairInv, WireKept
    <3>5. \A i \in Intents : <<i, "spot">> \in w'.send =>
            /\ \A l \in InHand' : l[1] = i
            /\ w'.resp["perp"] = "ack" => Taken(<<i, "perp">>)'
      BY <2>2, <3>1, PairHand
    <3> QED
      BY <3>3, <3>4, <3>5 DEF PairInv
  <2> QED
    BY <2>1, <2>2
<1> QED
  BY <1>1, <1>2, TypeCorrect, JournalInvariant, PTL DEF Spec

\* In the Gate sandbox no spot order is on the wire whose perpetual order the
\* exchange has not taken, whatever crashes or is paused between the two.
THEOREM SpotAfterPerp == Spec => []SpotFollowsPerp
<1>1. PairInv => SpotFollowsPerp
  BY DEF PairInv, SpotFollowsPerp, Taken
<1> QED
  BY <1>1, PairInvariant, PTL

---------------------------------------------------------------------------
(* One group at a time.  When control is "ready" and the executor runs, the *)
(* reconciliation before it left every primary leg at rest.  It does so      *)
(* because no call is open then: without a crash, and when a call that       *)
(* failed left nothing on its way, the legs on the wire are those the worker *)
(* waits for.                                                                *)

AtRest(l)   == legs[l].status \in Terminal \cup {"absent", "created"}
AllAtRest   == \A l \in LegIds : l[2] # "comp" => AtRest(l)
Untouched   == {"absent", "created"}
Idle        == {"none", "planned", "closed", "failed"}
NoCallsLost == "crash" \notin Faults /\ "late" \notin Faults

\* What the ledger says of a leg the exchange has done, and the legs of an
\* intent that the reconciliation does not list are at rest.
RowSound(l) ==
    /\ legs[l].filled <= orders[l].filled
    /\ legs[l].status \in Untouched => ~legs[l].linked
    /\ legs[l].status = "filled" => legs[l].filled >= legs[l].qty

RowsInv ==
    \A l \in LegIds :
        /\ RowSound(l)
        /\ l[2] # "comp" /\ intents[l[1]].status \in Idle => AtRest(l)

\* The legs in hand belong to one intent, and what is on its way to the
\* exchange is in hand and unanswered.
NoAnswers == \A k \in Kinds : w.resp[k] = "none"

HandInv ==
    /\ pc # "place" => InHand = {} /\ NoAnswers
    /\ \A l, m \in InHand : l[1] = m[1]
    /\ \A l \in w.send : l \notin w.await /\ w.resp[l[2]] = "none"
    /\ \A l \in w.await : sent[l] > 0
    /\ \A l \in LegIds : orders[l].state = "inflight" =>
         l \in w.await /\ w.resp[l[2]] = "none"
    /\ w.stage = "post" => \A l \in InHand : l[2] = "comp"

\* How "ready" comes about: the legs looked up so far, then all of them, then
\* the result of the account until it becomes the control state.
ReadyInv ==
    control = "ready" =>
        /\ pc \in {"exec", "examine", "prepare"} => AllAtRest
        /\ pc \in {"exec", "examine", "prepare", "place", "comp", "compPrepare",
                   "recon", "mark"}
        /\ w.stage # "post"
LookedUpInv ==
    pc = "legs" /\ w.open = {} =>
        /\ LiveOrders = {}
        /\ w.ok => \A l \in LegIds \ w.todo : l[2] # "comp" => AtRest(l)
AccountInv ==
    /\ pc = "settle" /\ w.ok /\ w.open = {} => AllAtRest
    /\ (w.stage = "post" \/ pc \in {"final", "setFinal"}) /\ w.ok => AllAtRest
    /\ w.stage = "post" => pc \in {"place", "comp", "compPrepare"}
RunInv == ReadyInv /\ LookedUpInv /\ AccountInv

LEMMA EmptiedAnswers ==
    ASSUME TypeOK
    PROVE  /\ ServiceDone => NoAnswers'
           /\ \A i \in Intents : NextCandidate(i) => NoAnswers'
<1>1. w.stage \in {"exec", "pre", "post"}
  BY DEF TypeOK, WorkerMemory
<1>2. ASSUME ServiceDone PROVE NoAnswers'
  <2>1. CASE w.stage = "exec"
    BY <1>2, <2>1 DEF ServiceDone, Fresh, NoAnswers
  <2>2. CASE w.stage = "pre"
    BY <1>2, <2>2 DEF ServiceDone, Fresh, NoAnswers
  <2>3. CASE w.stage = "post"
    <3>1. w'.resp = [k \in Kinds |-> "none"]
      BY <1>2, <2>3 DEF ServiceDone, Fresh
    <3> QED
      BY <3>1 DEF NoAnswers
  <2> QED
    BY <1>1, <2>1, <2>2, <2>3
<1>3. ASSUME NEW i \in Intents, NextCandidate(i) PROVE NoAnswers'
  BY <1>3 DEF NextCandidate, Fresh, NoAnswers
<1> QED
  BY <1>2, <1>3

\* Every step but those on the legs in hand keeps them where they are, or
\* starts from a worker with empty hands and leaves it so.
LEMMA HandsElsewhere ==
    ASSUME TypeOK, pc # "place" => InHand = {} /\ NoAnswers, ~Crash, [Next]_vars,
           \A i \in Intents : ~PrepareLiveSubmission(i) /\ ~PrepareLiveCompensation(i),
           \A l \in LegIds : ~Submit(l) /\ ~Respond(l) /\ ~SkipSpot(l) /\ ~RecordOutcome(l)
    PROVE  \/ UNCHANGED <<w, pc>>
           \/ pc # "place" /\ InHand' = {} /\ NoAnswers' /\ pc' # "place"
<1>0. pc # "place" => w.send = {} /\ w.await = {} /\ NoAnswers
  BY DEF InHand
<1>1. CASE UNCHANGED vars \/ Api \/ Market
  BY <1>1 DEF vars, db, Api, PauseExecution, ResumeExecution, RequestReconciliation,
              Confirm, ConfirmationFails, PlanOpen, PlanClose, Market, Arrive, Trade, Expire
<1>2. ~Crash
  OBVIOUS
<1>3. ASSUME NEW i \in Intents,
             \/ ExpirePlanned(i) \/ GuardUnexecutable(i) \/ GuardUnavailable(i)
             \/ PrepareDenied(i)
      PROVE  pc # "place" /\ InHand' = {} /\ NoAnswers' /\ pc' # "place"
  <2>1. NextCandidate(i) /\ pc # "place"
    BY <1>3 DEF ExpirePlanned, GuardUnexecutable, DropPlanned, GuardUnavailable, PrepareDenied
  <2> QED
    BY <2>1, NextCandidateSend, EmptiedAnswers DEF InHand
<1>4. ASSUME NEW i \in Intents, PreflightPass(i) \/ PreflightFail(i) \/ CompensationStart(i)
      PROVE  pc # "place" /\ InHand' = {} /\ NoAnswers' /\ pc' # "place"
  <2>1. CASE PreflightPass(i)
    BY <1>0, <2>1 DEF PreflightPass, InHand, NoAnswers
  <2>2. CASE PreflightFail(i)
    BY <2>2 DEF PreflightFail, InHand, NoAnswers, Fresh
  <2>3. CASE CompensationStart(i)
    BY <1>0, <2>3 DEF CompensationStart, InHand, NoAnswers, TypeOK, WorkerMemory
  <2> QED
    BY <1>4, <2>1, <2>2, <2>3
<1>5. ASSUME NEW i \in Intents, Settle(i)
      PROVE  pc # "place" /\ InHand' = {} /\ NoAnswers' /\ pc' # "place"
  BY <1>0, <1>5 DEF Settle, InHand, NoAnswers, TypeOK, WorkerMemory
<1>6. ASSUME NEW l \in LegIds,
             LookupFound(l) \/ LookupMissing(l) \/ LookupIncomplete(l) \/ NoLookup(l)
      PROVE  pc # "place" /\ InHand' = {} /\ NoAnswers' /\ pc' # "place"
  <2>1. pc = "legs" /\ pc' = "legs"
    BY <1>6 DEF LookupFound, LookupMissing, LookupIncomplete, NoLookup
  <2>2. \E leg, ok : ReadFills(l, leg, ok) \/ Unlinked(l, leg, ok)
    BY <1>6 DEF LookupFound, LookupMissing, LookupIncomplete, NoLookup
  <2>3. w'.send = w.send /\ w'.await = w.await /\ w'.resp = w.resp
    BY <2>2 DEF ReadFills, Unlinked, TypeOK, WorkerMemory
  <2> QED
    BY <1>0, <2>1, <2>3 DEF InHand, NoAnswers
<1>7. CASE CompensationSkip
  BY <1>7, ServiceDoneSend, EmptiedAnswers DEF CompensationSkip, InHand
<1>8. CASE MarkReconciling \/ Observe \/ LegsDone
  BY <1>0, <1>8 DEF MarkReconciling, Observe, LegsDone, InHand, NoAnswers, TypeOK, WorkerMemory
<1>9. CASE ExecRead \/ ReconRead \/ AccountResult \/ AccountError \/ FinalRead \/ SetFinal
  <2>1. CASE ExecRead \/ ReconRead
    BY <2>1 DEF ExecRead, ReconRead, InHand, NoAnswers, Fresh
  <2>2. CASE AccountResult \/ AccountError
    <3>1. /\ w'.send = {} /\ w'.await = {} /\ w'.resp = Fresh.resp
          /\ pc # "place" /\ pc' # "place"
      BY <2>2 DEF AccountResult, AccountError, Fresh
    <3> QED
      BY <3>1 DEF Fresh, InHand, NoAnswers
  <2>3. CASE FinalRead \/ SetFinal
    BY <2>3 DEF FinalRead, SetFinal, InHand, NoAnswers, Fresh
  <2> QED
    BY <1>9, <2>1, <2>2, <2>3
<1>10. Next \/ UNCHANGED vars
  OBVIOUS
<1> QED
  BY <1>1, <1>2, <1>3, <1>4, <1>5, <1>6, <1>7, <1>8, <1>9, <1>10 DEF Next, Worker

\* Nothing is in hand, so nothing may be on its way.
LEMMA EmptyHands ==
    ASSUME InHand' = {}, NoAnswers', \A l \in LegIds : orders'[l].state # "inflight"
    PROVE  HandInv'
BY DEF HandInv, InHand

LEMMA HandSubmit ==
    ASSUME TypeOK, JournalInv, HandInv, NEW l \in LegIds, Submit(l)
    PROVE  HandInv'
<1>1. l \in w.send /\ l \notin w.await /\ sent[l] = 0 /\ pc = "place" /\ pc' = "place"
  BY DEF Submit, JournalInv, HandInv
<1>2. /\ w'.send = w.send \ {l} /\ w'.await = w.await \cup {l} /\ w'.resp = w.resp
      /\ w'.stage = w.stage
  BY DEF Submit, TypeOK, WorkerMemory
<1>3. InHand' = InHand
  BY <1>1, <1>2 DEF InHand
<1>4. /\ sent'[l] = 1
      /\ \A m \in LegIds \ {l} : sent'[m] = sent[m] /\ orders'[m] = orders[m]
  BY <1>1 DEF Submit, TypeOK
<1>5. w.await \subseteq LegIds /\ w.send \subseteq LegIds
  BY DEF TypeOK, WorkerMemory
<1>6. \A m \in w'.await : sent'[m] > 0
  BY <1>2, <1>4, <1>5 DEF HandInv
<1>7. \A m \in LegIds : orders'[m].state = "inflight" => m \in w'.await /\ w'.resp[m[2]] = "none"
  BY <1>1, <1>2, <1>4 DEF HandInv
<1> QED
  BY <1>1, <1>2, <1>3, <1>6, <1>7 DEF HandInv

LEMMA HandRespond ==
    ASSUME TypeOK, HandInv, NoCallsLost, NEW l \in LegIds, Respond(l)
    PROVE  HandInv'
<1>1. /\ l \in w.await /\ orders[l].state # "inflight"
      /\ UNCHANGED <<orders, sent, pc>> /\ pc = "place"
  BY DEF Respond, NoCallsLost, remote
<1>2. PICK r \in Outcomes(l) : w' = [w EXCEPT !.resp[l[2]] = r]
  BY DEF Respond
<1>3. w'.send = w.send /\ w'.await = w.await /\ w'.stage = w.stage /\ InHand' = InHand
  BY <1>2 DEF TypeOK, WorkerMemory, InHand
<1>4. ASSUME NEW m \in InHand, m # l PROVE w'.resp[m[2]] = w.resp[m[2]]
  <2>1. m \in LegIds /\ l \in InHand
    BY <1>1 DEF TypeOK, WorkerMemory, InHand
  <2>2. m[1] = l[1] /\ m = <<m[1], m[2]>> /\ l = <<l[1], l[2]>>
    BY <2>1, LegIdsFacts DEF HandInv, LegIds
  <2>3. m[2] # l[2]
    BY <1>4, <2>2
  <2> QED
    BY <1>2, <2>3 DEF TypeOK, WorkerMemory
<1>5. \A m \in w'.send : m \notin w'.await /\ w'.resp[m[2]] = "none"
  BY <1>1, <1>3, <1>4 DEF HandInv, InHand
<1>6. \A m \in LegIds : orders'[m].state = "inflight" => m \in w'.await /\ w'.resp[m[2]] = "none"
  BY <1>1, <1>3, <1>4 DEF HandInv, InHand
<1> QED
  BY <1>1, <1>3, <1>5, <1>6 DEF HandInv

\* The last outcome recorded has been answered, like those before it.
LEMMA HandRecord ==
    ASSUME TypeOK, HandInv, NEW l \in LegIds, SkipSpot(l) \/ RecordOutcome(l)
    PROVE  HandInv'
<1>1. UNCHANGED <<orders, sent>>
  BY DEF SkipSpot, RecordOutcome, remote
<1>2. CASE SkipSpot(l)
  <2>1. w'.send = {} /\ w'.await = w.await /\ w'.resp = w.resp /\ w'.stage = w.stage
    BY <1>2 DEF SkipSpot, TypeOK, WorkerMemory
  <2>2. InHand' \subseteq InHand /\ pc' = "place"
    BY <1>2, <2>1 DEF SkipSpot, InHand
  <2> QED
    BY <1>1, <2>1, <2>2 DEF HandInv
<1>3. CASE RecordOutcome(l)
  <2>1. \A m \in w.await : orders[m].state # "inflight"
    <3> SUFFICES ASSUME NEW m \in w.await PROVE orders[m].state # "inflight"
      OBVIOUS
    <3>1. m \in LegIds /\ w.resp[m[2]] # "none"
      BY <1>3 DEF RecordOutcome, TypeOK, WorkerMemory
    <3> QED
      BY <3>1 DEF HandInv
  <2>2. \A m \in LegIds : orders'[m].state # "inflight"
    BY <1>1, <2>1 DEF HandInv
  <2>3. CASE w.await = {l}
    <3>1. InHand' = {} /\ NoAnswers'
      BY <1>3, <2>3, ServiceDoneSend, EmptiedAnswers DEF RecordOutcome, InHand
    <3> QED
      BY <2>2, <3>1, EmptyHands
  <2>4. CASE w.await # {l}
    <3>1. /\ w'.send = {} /\ w'.await = w.await \ {l} /\ w'.resp = w.resp
          /\ w'.stage = w.stage /\ pc' = "place"
      BY <1>3, <2>4 DEF RecordOutcome, TypeOK, WorkerMemory
    <3>2. InHand' \subseteq InHand
      BY <3>1 DEF InHand
    <3> QED
      BY <1>1, <2>2, <3>1, <3>2 DEF HandInv
  <2> QED
    BY <2>3, <2>4
<1> QED
  BY <1>2, <1>3

LEMMA HandPrepare ==
    ASSUME TypeOK, HandInv, NEW i \in Intents,
           PrepareLiveSubmission(i) \/ PrepareLiveCompensation(i)
    PROVE  HandInv'
<1>1. pc # "place" /\ w.send = {} /\ w.await = {} /\ UNCHANGED <<orders, sent>>
  BY DEF PrepareLiveSubmission, PrepareLiveCompensation, HandInv, InHand, remote
<1>2. \A l \in LegIds : orders'[l].state # "inflight"
  BY <1>1 DEF HandInv
<1>3. CASE PrepareLiveSubmission(i)
  <2>1. /\ w'.send = Primary(i) /\ w'.await = {} /\ w'.stage = "exec" /\ pc' = "place"
        /\ \A k \in Kinds : w'.resp[k] = "none"
    BY <1>3 DEF PrepareLiveSubmission, Fresh
  <2> QED
    BY <1>2, <2>1 DEF HandInv, InHand, Primary, Kinds
<1>4. CASE PrepareLiveCompensation(i)
  <2>1. CASE ServiceDone
    BY <1>2, <2>1, ServiceDoneSend, EmptiedAnswers, EmptyHands DEF InHand
  <2>2. CASE w' = [w EXCEPT !.send = {<<i, "comp">>}] /\ pc' = "place"
    <3>1. /\ w'.send = {<<i, "comp">>} /\ w'.await = {} /\ w'.resp = w.resp
      BY <1>1, <2>2 DEF TypeOK, WorkerMemory
    <3> QED
      BY <1>1, <1>2, <2>2, <3>1 DEF HandInv, InHand, NoAnswers, Kinds
  <2> QED
    BY <1>4, <2>1, <2>2 DEF PrepareLiveCompensation
<1> QED
  BY <1>3, <1>4

LEMMA HandInitially == Init => HandInv
BY DEF Init, HandInv, InHand, NoAnswers, Fresh, NoOrder

LEMMA HandStep ==
    ASSUME TypeOK, JournalInv, HandInv, NoCallsLost, [Next]_vars
    PROVE  HandInv'
<1>1. CASE \E l \in LegIds : Submit(l) \/ Respond(l) \/ SkipSpot(l) \/ RecordOutcome(l)
  BY <1>1, HandSubmit, HandRespond, HandRecord
<1>2. CASE \E i \in Intents : PrepareLiveSubmission(i) \/ PrepareLiveCompensation(i)
  BY <1>2, HandPrepare
<1>3. CASE /\ \A l \in LegIds : ~Submit(l) /\ ~Respond(l) /\ ~SkipSpot(l) /\ ~RecordOutcome(l)
           /\ \A i \in Intents : ~PrepareLiveSubmission(i) /\ ~PrepareLiveCompensation(i)
  <2>1. WireKept
    BY <1>3, OtherWire
  <2>2. CASE UNCHANGED <<w, pc>>
    BY <2>1, <2>2 DEF WireKept, HandInv, InHand, NoAnswers
  <2>3. CASE pc # "place" /\ InHand' = {} /\ NoAnswers' /\ pc' # "place"
    <3>1. \A l \in LegIds : orders[l].state # "inflight"
      BY <2>3 DEF HandInv, InHand
    <3>2. \A l \in LegIds : orders'[l].state # "inflight"
      BY <2>1, <3>1 DEF WireKept
    <3> QED
      BY <2>3, <3>2, EmptyHands
  <2>4. ~Crash /\ (pc # "place" => InHand = {} /\ NoAnswers)
    BY DEF NoCallsLost, Crash, HandInv
  <2> QED
    BY <1>3, <2>2, <2>3, <2>4, HandsElsewhere
<1> QED
  BY <1>1, <1>2, <1>3

---------------------------------------------------------------------------
(* The rows *)

\* What looking a leg up makes of it.
LEMMA WithFillsSound ==
    ASSUME NEW leg \in LegRows, NEW f \in Nat, leg.filled <= f,
           leg.status = "filled" => leg.filled >= leg.qty
    PROVE  LET row == WithFills(leg, f) IN
           /\ row.filled = f /\ row.linked = leg.linked
           /\ row.status = "filled" => f >= row.qty
           /\ row.status \in Untouched => leg.status \in Untouched
           /\ leg.status \in Terminal => row.status \in Terminal
<1> DEFINE s == FilledStatus(leg, f)
<1>1. /\ s = "filled" => f >= leg.qty
      /\ s \in Untouched => leg.status \in Untouched
      /\ leg.status \in Terminal => s \in Terminal
  <2>1. leg.qty \in Nat /\ leg.filled \in Nat
    BY DEF LegRows
  <2>2. leg.status = "filled" => f >= leg.qty
    BY <2>1
  <2>3. CASE f >= leg.qty
    BY <2>3 DEF FilledStatus, Untouched, Terminal
  <2>4. CASE ~(f >= leg.qty) /\ f > 0 /\ leg.status \notin {"canceled", "failed"}
    BY <2>2, <2>4 DEF FilledStatus, Untouched, Terminal
  <2>5. CASE ~(f >= leg.qty) /\ ~(f > 0 /\ leg.status \notin {"canceled", "failed"})
    BY <2>2, <2>5 DEF FilledStatus, Untouched, Terminal
  <2> QED
    BY <2>3, <2>4, <2>5
<1> HIDE DEF s
<1> DEFINE row == [leg EXCEPT !.filled = f, !.status = s]
<1>2. row.filled = f /\ row.linked = leg.linked /\ row.status = s /\ row.qty = leg.qty
  BY DEF LegRows
<1>3. row = WithFills(leg, f)
  BY DEF WithFills, s
<1> QED
  BY <1>1, <1>2, <1>3

\* A row that planning or a settlement writes, one that a recorded outcome
\* changes, and one that a lookup changes, are sound, and a leg at rest stays so.
RowKept(l) == RowSound(l)' /\ (AtRest(l) => AtRest(l)')

LEMMA UnchangedRow ==
    ASSUME TypeOK, NEW l \in LegIds, RowSound(l), legs'[l] = legs[l],
           orders'[l].filled >= orders[l].filled, orders'[l].filled \in Nat
    PROVE  RowKept(l)
<1>1. orders[l].filled \in Nat /\ legs[l].filled \in Nat
  BY DEF TypeOK, OrderRows, LegRows
<1> QED
  BY <1>1 DEF RowKept, RowSound, AtRest

LEMMA NewRow ==
    ASSUME TypeOK, NEW l \in LegIds, UNCHANGED orders, legs'[l].status = "created",
           legs'[l].filled = 0, ~legs'[l].linked
    PROVE  RowKept(l)
<1>1. orders[l].filled >= 0
  BY DEF TypeOK, OrderRows
<1> QED
  BY <1>1 DEF RowKept, RowSound, AtRest, Untouched

LEMMA PlannedRows ==
    ASSUME TypeOK, RowsInv, PlanOpen \/ \E p \in Intents : PlanClose(p)
    PROVE  /\ \A l \in LegIds : RowKept(l)
           /\ \A l \in LegIds : l[2] # "comp" /\ intents'[l[1]].status \in Idle => AtRest(l)'
<1> DEFINE Written(i) ==
             /\ \A j \in Intents \ {i} : intents'[j] = intents[j]
             /\ \A l \in LegIds \ Primary(i) : legs'[l] = legs[l]
             /\ \A l \in Primary(i) : /\ legs'[l].status = "created" /\ legs'[l].filled = 0
                                      /\ ~legs'[l].linked
<1>0. \A i \in Intents : Primary(i) = {<<i, "spot">>, <<i, "perp">>} /\ Primary(i) \subseteq LegIds
  BY LegIdsFacts DEF Primary
<1>2. \A m, x, y : LET row == LegRow(m, x, y) IN
        row.status = "created" /\ row.filled = 0 /\ ~row.linked
  BY DEF LegRow
<1>1. \E i \in Intents : Written(i)
  <2>1. CASE PlanOpen
    <3>1. PICK i \in Unplanned :
            /\ intents' = [intents EXCEPT ![i] = IntentRow("open", 0, FALSE)]
            /\ legs' = [legs EXCEPT ![<<i, "spot">>] = LegRow("spot", "buy", Lot),
                                    ![<<i, "perp">>] = LegRow("perp", "sell", Lot)]
      BY <2>1 DEF PlanOpen
    <3>2. Written(i)
      BY <1>0, <1>2, <3>1 DEF TypeOK, Unplanned
    <3> QED
      BY <3>2 DEF Unplanned
  <2>2. ASSUME NEW p \in Intents, PlanClose(p)
        PROVE  \E i \in Intents : Written(i)
    <3> DEFINE q == positions[p].qty
    <3>1. PICK i \in Unplanned :
            /\ intents' = [intents EXCEPT ![i] = IntentRow("close", p, api = "emergency")]
            /\ legs' = [legs EXCEPT ![<<i, "spot">>] = LegRow("spot", "sell", q),
                                    ![<<i, "perp">>] = LegRow("perp", "buy", q)]
      BY <2>2 DEF PlanClose
    <3> HIDE DEF q
    <3>2. Written(i)
      BY <1>0, <1>2, <3>1 DEF TypeOK, Unplanned
    <3> QED
      BY <3>2 DEF Unplanned
  <2> QED
    BY <2>1, <2>2
<1>3. PICK i \in Intents : Written(i)
  BY <1>1
<1>4. UNCHANGED orders
  BY DEF PlanOpen, PlanClose, remote
<1>5. \A l \in LegIds : orders'[l].filled \in Nat /\ orders'[l].filled >= orders[l].filled
  BY <1>4 DEF TypeOK, OrderRows
<1>6. \A l \in LegIds : RowKept(l)
  <2>1. \A l \in LegIds \ Primary(i) : RowKept(l)
    BY <1>3, <1>5, UnchangedRow DEF RowsInv
  <2>2. \A l \in LegIds : l \in Primary(i) => RowKept(l)
    BY <1>3, <1>4, NewRow
  <2> QED
    BY <2>1, <2>2
<1>7. ASSUME NEW l \in LegIds, l[2] # "comp", intents'[l[1]].status \in Idle
      PROVE  AtRest(l)'
  <2>1. CASE l[1] = i
    <3>1. l \in Primary(i)
      BY <1>7, <2>1, LegIdsFacts DEF Primary, LegIds, Kinds
    <3> QED
      BY <1>3, <3>1 DEF AtRest
  <2>2. CASE l[1] # i
    <3>1. intents'[l[1]] = intents[l[1]]
      BY <1>3, <2>2, LegIdsFacts
    <3> QED
      BY <1>6, <1>7, <3>1 DEF RowsInv, RowKept
  <2> QED
    BY <2>1, <2>2
<1> QED
  BY <1>6, <1>7

\* One changed row.
LEMMA OneRow ==
    ASSUME TypeOK, RowsInv, UNCHANGED orders, NEW l \in LegIds, RowKept(l),
           \A m \in LegIds \ {l} : legs'[m] = legs[m]
    PROVE  \A m \in LegIds : RowKept(m)
<1>1. \A m \in LegIds : orders'[m].filled \in Nat /\ orders'[m].filled >= orders[m].filled
  BY DEF TypeOK, OrderRows
<1> QED
  BY <1>1, UnchangedRow DEF RowsInv

LEMMA RecordedRows ==
    ASSUME TypeOK, JournalInv, HandInv, RowsInv, NEW l \in LegIds,
           SkipSpot(l) \/ RecordOutcome(l)
    PROVE  \A m \in LegIds : RowKept(m)
<1>1. legs[l].status \notin Untouched /\ UNCHANGED orders
  <2>1. Journaled(l)
    BY DEF SkipSpot, RecordOutcome, JournalInv, JournaledFirst, HandInv
  <2> QED
    BY <2>1 DEF Journaled, Untouched, SkipSpot, RecordOutcome, remote
<1>2. RowSound(l) /\ legs[l] \in LegRows
  BY DEF RowsInv, TypeOK
<1>3. PICK s \in {"acknowledged", "unknown", "failed"}, b \in BOOLEAN :
        legs' = [legs EXCEPT ![l] = [legs[l] EXCEPT
                   !.status = IF legs[l].status = "submitted" THEN s ELSE legs[l].status,
                   !.linked = legs[l].linked \/ b]]
  <2>1. CASE SkipSpot(l)
    <3>1. legs' = [legs EXCEPT ![l] = [legs[l] EXCEPT
                     !.status = IF legs[l].status = "submitted" THEN "failed" ELSE legs[l].status,
                     !.linked = legs[l].linked \/ FALSE]]
      BY <1>2, <2>1 DEF SkipSpot, TypeOK, LegRows
    <3> QED
      BY <3>1
  <2>2. CASE RecordOutcome(l)
    <3> DEFINE s == RecordedStatus(l[2], w.resp[l[2]])
    <3>1. s \in {"acknowledged", "unknown", "failed"}
      BY DEF RecordedStatus
    <3>2. legs' = [legs EXCEPT ![l].status = IF @ = "submitted" THEN s ELSE @,
                               ![l].linked = @ \/ s = "acknowledged"]
      BY <2>2 DEF RecordOutcome
    <3> HIDE DEF s
    <3>3. legs' = [legs EXCEPT ![l] = [legs[l] EXCEPT
                     !.status = IF legs[l].status = "submitted" THEN s ELSE legs[l].status,
                     !.linked = legs[l].linked \/ s = "acknowledged"]]
      BY <1>2, <3>2 DEF TypeOK, LegRows
    <3> QED
      BY <3>1, <3>3
  <2> QED
    BY <2>1, <2>2
<1>4. /\ legs'[l].status = (IF legs[l].status = "submitted" THEN s ELSE legs[l].status)
      /\ legs'[l].filled = legs[l].filled /\ legs'[l].qty = legs[l].qty
      /\ \A m \in LegIds \ {l} : legs'[m] = legs[m]
  BY <1>2, <1>3 DEF TypeOK, LegRows
<1>5. RowKept(l)
  BY <1>1, <1>2, <1>4 DEF RowKept, RowSound, AtRest, Untouched, Terminal
<1> QED
  BY <1>1, <1>4, <1>5, OneRow

\* A lookup that finds the order, misses it, or reads the fills again.
LEMMA LookedUpRows ==
    ASSUME TypeOK, RowsInv, NEW l \in LegIds,
           LookupFound(l) \/ LookupMissing(l) \/ LookupIncomplete(l) \/ NoLookup(l)
    PROVE  \A m \in LegIds : RowKept(m)
<1> DEFINE old == legs[l]
           found == [old EXCEPT !.linked = TRUE, !.status = RemoteStatus(old, orders[l])]
           Leads(leg) ==
             /\ leg \in LegRows /\ leg.filled = old.filled
             /\ leg.status \in Untouched => old.status \in Untouched /\ ~leg.linked
             /\ leg.status = "filled" => leg.filled >= leg.qty
             /\ AtRest(l) => leg.status \in Terminal \cup Untouched
<1>1. old \in LegRows /\ RowSound(l) /\ UNCHANGED orders
  BY DEF RowsInv, TypeOK, LookupFound, LookupMissing, LookupIncomplete, NoLookup, remote
<1>2. orders[l] \in OrderRows
  BY DEF TypeOK
<1>3. Leads(old)
  BY <1>1 DEF RowSound, AtRest, Untouched
<1>4. LookupFound(l) => Leads(found)
  <2>1. found \in LegRows
    BY <1>1, <1>2, FoundType DEF RemoteStatus, LegRows, TypeOK
  <2>2. /\ found.filled = old.filled /\ found.qty = old.qty
        /\ found.status = RemoteStatus(old, orders[l])
    BY <1>1 DEF LegRows
  <2> QED
    BY <1>1, <2>1, <2>2 DEF LookupFound, RemoteStatus, Recoverable, Untouched, Terminal,
                            RowSound, AtRest
<1>5. Leads(NotFound(old))
  <2>1. NotFound(old) \in LegRows
    BY <1>1, NotFoundType
  <2>2. NotFound(old) = old \/ NotFound(old) = [old EXCEPT !.status = "failed"]
    BY DEF NotFound
  <2>3. CASE NotFound(old) = [old EXCEPT !.status = "failed"]
    <3>1. NotFound(old).status = "failed" /\ NotFound(old).filled = old.filled
      BY <1>1, <2>3 DEF LegRows
    <3> QED
      BY <2>1, <3>1 DEF Untouched, Terminal
  <2> QED
    BY <1>3, <2>2, <2>3
<1>6. PICK leg, ok : Leads(leg) /\ (Unlinked(l, leg, ok) \/
        (ReadFills(l, leg, ok) /\ leg.status \notin Untouched))
  <2> HIDE DEF found
  <2>1. CASE LookupFound(l)
    <3>1. ReadFills(l, found, w.ok) /\ old.status \notin Untouched
      BY <2>1 DEF LookupFound, found, Recoverable, Untouched
    <3> QED
      BY <1>4, <2>1, <3>1
  <2>2. CASE LookupMissing(l)
    <3>1. /\ old.status \notin Untouched
          /\ ReadFills(l, NotFound(old), FALSE) \/ Unlinked(l, NotFound(old), w.ok)
      BY <2>2 DEF LookupMissing, Recoverable, Untouched
    <3> QED
      BY <1>5, <3>1
  <2>3. CASE LookupIncomplete(l) \/ NoLookup(l)
    <3>1. (old.linked /\ \E ok : ReadFills(l, old, ok)) \/ \E ok : Unlinked(l, old, ok)
      BY <2>3 DEF LookupIncomplete, NoLookup
    <3>2. old.linked => old.status \notin Untouched
      BY <1>1 DEF RowSound
    <3> QED
      BY <1>3, <3>1, <3>2
  <2> QED
    BY <2>1, <2>2, <2>3
<1>7. \A m \in LegIds \ {l} : legs'[m] = legs[m]
  BY <1>6 DEF ReadFills, Unlinked, TypeOK
<1>8. RowKept(l)
  <2>1. orders[l].filled \in Nat /\ old.filled \in Nat /\ old.filled <= orders[l].filled
    BY <1>1, <1>2 DEF OrderRows, LegRows, RowSound
  <2>2. CASE Unlinked(l, leg, ok)
    <3>1. legs'[l] = leg
      BY <2>2 DEF Unlinked, TypeOK
    <3> QED
      BY <1>1, <1>6, <2>1, <3>1 DEF RowKept, RowSound, AtRest, Untouched
  <2>3. ASSUME NEW f \in Nat, old.filled <= f, f <= orders[l].filled,
               legs' = [legs EXCEPT ![l] = WithFills(leg, f)],
               leg.status \notin Untouched
        PROVE  RowKept(l)
    <3>1. legs'[l] = WithFills(leg, f)
      BY <2>3 DEF TypeOK
    <3>2. leg \in LegRows /\ leg.filled <= f /\ (leg.status = "filled" => leg.filled >= leg.qty)
      BY <1>6, <2>3
    <3> DEFINE row == WithFills(leg, f)
    <3>3. /\ row.filled = f
          /\ row.status = "filled" => f >= row.qty
          /\ row.status \in Untouched => leg.status \in Untouched
          /\ leg.status \in Terminal => row.status \in Terminal
      BY <2>3, <3>2, WithFillsSound
    <3> HIDE DEF row
    <3>4. legs'[l] = row
      BY <3>1 DEF row
    <3> QED
      BY <1>1, <1>6, <2>3, <3>3, <3>4 DEF RowKept, RowSound, AtRest, Untouched
  <2> QED
    BY <1>6, <2>1, <2>2, <2>3 DEF ReadFills
<1> QED
  BY <1>1, <1>7, <1>8, OneRow

\* What a step other than the preparation of a group does to the rows: they
\* stay sound, primary legs at rest stay so, and an intent becomes idle only
\* with its primary legs at rest.
RowsMove ==
    /\ \A l \in LegIds : RowSound(l)'
    /\ \A l \in LegIds : l[2] # "comp" /\ AtRest(l) => AtRest(l)'
    /\ \A l \in LegIds : l[2] # "comp" /\ intents'[l[1]].status \in Idle => AtRest(l)'

LEMMA RowsMoved == ASSUME RowsMove PROVE RowsInv'
BY DEF RowsMove, RowsInv

LEMMA KeptRows ==
    ASSUME RowsInv, UNCHANGED intents, \A l \in LegIds : RowKept(l)
    PROVE  RowsMove
BY DEF RowsMove, RowsInv, RowKept

\* A group that is prepared leaves the rows of the others alone.
LEMMA PreparedRows ==
    ASSUME TypeOK, RowsInv, NEW i \in Intents, PrepareLiveSubmission(i)
    PROVE  RowsInv'
<1>1. /\ intents' = [intents EXCEPT ![i].status = "executing"]
      /\ legs' = [l \in LegIds |-> IF l \in Primary(i)
                                   THEN [legs[l] EXCEPT !.status = "submitted"]
                                   ELSE legs[l]]
      /\ UNCHANGED orders
  BY DEF PrepareLiveSubmission, remote
<1>2. intents'[i].status \notin Idle /\ \A j \in Intents \ {i} : intents'[j] = intents[j]
  BY <1>1 DEF TypeOK, IntentRows, Idle
<1>3. \A l \in LegIds : RowSound(l)'
  <2> SUFFICES ASSUME NEW l \in LegIds PROVE RowSound(l)'
    OBVIOUS
  <2>1. RowSound(l) /\ legs[l] \in LegRows
    BY DEF RowsInv, TypeOK
  <2>2. CASE l \in Primary(i)
    <3>1. legs'[l].status = "submitted" /\ legs'[l].filled = legs[l].filled
      BY <1>1, <2>1, <2>2 DEF LegRows
    <3> QED
      BY <1>1, <2>1, <3>1 DEF RowSound, Untouched
  <2>3. CASE l \notin Primary(i)
    BY <1>1, <2>1, <2>3 DEF RowSound
  <2> QED
    BY <2>2, <2>3
<1>4. ASSUME NEW l \in LegIds, l[2] # "comp", intents'[l[1]].status \in Idle
      PROVE  AtRest(l)'
  <2>1. l[1] \in Intents \ {i}
    BY <1>2, <1>4, LegIdsFacts DEF LegIds
  <2>2. l \notin Primary(i)
    BY <2>1 DEF Primary
  <2>3. legs'[l] = legs[l] /\ intents'[l[1]] = intents[l[1]]
    BY <1>1, <1>2, <2>1, <2>2
  <2> QED
    BY <1>4, <2>3 DEF RowsInv, AtRest
<1> QED
  BY <1>3, <1>4 DEF RowsInv

LEMMA CompensationRows ==
    ASSUME TypeOK, RowsInv, NEW i \in Intents, PrepareLiveCompensation(i)
    PROVE  RowsMove
<1> DEFINE c == <<i, "comp">>
<1>0. c \in LegIds /\ legs[c] \in LegRows /\ RowSound(c)
  BY LegIdsFacts DEF Kinds, TypeOK, RowsInv
<1>1. UNCHANGED <<intents, orders>>
  BY DEF PrepareLiveCompensation, remote
<1>2. CASE UNCHANGED legs
  BY <1>1, <1>2 DEF RowsMove, RowsInv, RowSound, AtRest
<1>3. CASE legs' # legs
  <2>1. /\ legs[c].status = "created"
        /\ legs' = [legs EXCEPT ![c].status = "submitted", ![c].qty = Executable(c),
                                ![c].tol = Grid(c)]
    BY <1>3 DEF PrepareLiveCompensation
  <2>2. /\ legs'[c].status = "submitted" /\ legs'[c].filled = legs[c].filled
        /\ \A l \in LegIds \ {c} : legs'[l] = legs[l]
    BY <1>0, <2>1 DEF TypeOK, LegRows
  <2>3. RowSound(c)'
    BY <1>0, <1>1, <2>2 DEF RowSound, Untouched
  <2>4. \A l \in LegIds \ {c} : RowSound(l)' /\ (AtRest(l) => AtRest(l)')
    BY <1>1, <2>2 DEF RowsInv, RowSound, AtRest
  <2>5. \A l \in LegIds : l[2] # "comp" => l # c
    OBVIOUS
  <2> QED
    BY <1>1, <2>3, <2>4, <2>5 DEF RowsMove, RowsInv
<1> QED
  BY <1>2, <1>3

\* A settlement gives an intent up or books it when its legs are at rest.
LEMMA SettledRows ==
    ASSUME TypeOK, RowsInv, NEW i \in Intents, Settle(i)
    PROVE  RowsMove
<1> DEFINE c == <<i, "comp">>
<1>0. c \in LegIds
  BY LegIdsFacts DEF Kinds
<1>1. UNCHANGED orders
  BY DEF Settle, remote
<1>2. /\ \A l \in LegIds \ {c} : legs'[l] = legs[l]
      /\ \/ legs'[c] = legs[c]
         \/ legs'[c].status = "created" /\ legs'[c].filled = 0 /\ ~legs'[c].linked
  <2>1. CASE UNCHANGED legs
    <3>1. \A l \in LegIds : legs'[l] = legs[l]
      BY <2>1
    <3> QED
      BY <1>0, <3>1
  <2>2. CASE CompensationRequired(i)
    <3>1. /\ legs' = [legs EXCEPT ![c] = CompensationLeg(i)]
      BY <2>2 DEF CompensationRequired
    <3>2. /\ CompensationLeg(i).status = "created" /\ CompensationLeg(i).filled = 0
          /\ ~CompensationLeg(i).linked
      BY DEF CompensationLeg, LegRow
    <3> QED
      BY <1>0, <3>1, <3>2 DEF TypeOK
  <2>3. SettlementWaits(i) => UNCHANGED legs
    BY DEF SettlementWaits, db
  <2>4. NoFills(i) \/ Balanced(i) => UNCHANGED legs
    BY DEF NoFills, Balanced, ManualReview
  <2>5. Compensated(i) => UNCHANGED legs
    BY DEF Compensated, ManualReview
  <2> QED
    BY <2>1, <2>2, <2>3, <2>4, <2>5 DEF Settle
<1>3. \A l \in LegIds : RowKept(l)
  <2>1. \A l \in LegIds : orders'[l].filled \in Nat /\ orders'[l].filled >= orders[l].filled
    BY <1>1 DEF TypeOK, OrderRows
  <2>2. \A l \in LegIds : legs'[l] = legs[l] => RowKept(l)
    BY <2>1, UnchangedRow DEF RowsInv
  <2>3. RowKept(c)
    BY <1>0, <1>1, <1>2, <2>2, NewRow
  <2> QED
    BY <1>2, <2>2, <2>3
<1>4. CASE UNCHANGED intents
  BY <1>3, <1>4, KeptRows
<1>5. CASE intents' # intents
  <2>1. PrimariesTerminal(i) /\ \E s : SetIntent(i, s)
    BY <1>5 DEF Settle, SettlementWaits, db, NoFills, Balanced, CompensationRequired,
                Compensated, ManualReview
  <2>2. \A j \in Intents \ {i} : intents'[j] = intents[j]
    BY <2>1 DEF SetIntent, TypeOK
  <2>3. ASSUME NEW l \in LegIds, l[2] # "comp", intents'[l[1]].status \in Idle
        PROVE  AtRest(l)'
    <3>1. CASE l[1] = i
      <4>1. l \in Primary(i)
        BY <2>3, <3>1, LegIdsFacts DEF Primary, LegIds, Kinds
      <4> QED
        BY <1>3, <2>1, <4>1 DEF PrimariesTerminal, AtRest, RowKept
    <3>2. CASE l[1] # i
      <4>1. intents'[l[1]] = intents[l[1]]
        BY <2>2, <3>2, LegIdsFacts
      <4> QED
        BY <1>3, <2>3, <4>1 DEF RowsInv, RowKept
    <3> QED
      BY <3>1, <3>2
  <2> QED
    BY <1>3, <2>3 DEF RowsMove, RowKept
<1> QED
  BY <1>4, <1>5

LEMMA DroppedRows ==
    ASSUME TypeOK, RowsInv, NEW i \in Intents, DropPlanned(i)
    PROVE  RowsMove
<1>1. /\ intents' = [intents EXCEPT ![i].status = "failed"] /\ intents[i].status = "planned"
      /\ UNCHANGED <<legs, orders>>
  BY DEF DropPlanned, remote
<1>2. \A j \in Intents : intents'[j].status \in Idle => intents[j].status \in Idle
  BY <1>1 DEF TypeOK, IntentRows, Idle
<1> QED
  BY <1>1, <1>2, LegIdsFacts DEF RowsMove, RowsInv, RowSound, AtRest

\* Every other step leaves the intents and the legs alone.
LEMMA OtherRows ==
    ASSUME TypeOK, NEW i \in Intents, NEW l \in LegIds,
           \/ UNCHANGED vars \/ PauseExecution \/ ResumeExecution \/ RequestReconciliation
           \/ ConfirmationFails
           \/ \E kind \in {"open", "close", "emergency"} : Confirm(kind)
           \/ Market \/ Crash \/ ExecRead \/ CompensationSkip \/ ReconRead \/ MarkReconciling
           \/ Observe \/ LegsDone \/ AccountResult \/ AccountError \/ FinalRead \/ SetFinal
           \/ PreflightPass(i) \/ PreflightFail(i) \/ GuardUnavailable(i) \/ PrepareDenied(i)
           \/ CompensationStart(i) \/ Submit(l) \/ Respond(l)
    PROVE  UNCHANGED <<intents, legs>>
BY DEF vars, db, remote, PauseExecution, ResumeExecution, RequestReconciliation, Confirm,
       ConfirmationFails, Market, Arrive, Trade, Expire, Crash, ExecRead, CompensationSkip,
       ReconRead, MarkReconciling, Observe, LegsDone, AccountResult, AccountError,
       FinalRead, SetFinal, PreflightPass, PreflightFail, GuardUnavailable, PrepareDenied,
       CompensationStart, Submit, Respond

LEMMA FillsGrow ==
    ASSUME TypeOK, [Next]_vars
    PROVE  \A l \in LegIds : orders'[l].filled >= orders[l].filled
<1>1. CASE \A l \in LegIds : ~Submit(l)
  BY <1>1, OtherWire DEF WireKept
<1>2. ASSUME NEW l \in LegIds, Submit(l)
      PROVE  \A m \in LegIds : orders'[m].filled >= orders[m].filled
  <2>1. \A m \in LegIds : orders[m].filled \in Nat
    BY DEF TypeOK, OrderRows
  <2>2. \A m \in LegIds : orders'[m].filled = orders[m].filled
    BY <1>2 DEF Submit, TypeOK, OrderRows
  <2> QED
    BY <2>1, <2>2
<1> QED
  BY <1>1, <1>2

LEMMA RowsStep ==
    ASSUME TypeOK, TypeOK', JournalInv, HandInv, RowsInv, [Next]_vars,
           \A i \in Intents : ~PrepareLiveSubmission(i)
    PROVE  RowsMove
<1>1. CASE UNCHANGED <<intents, legs>>
  <2>1. \A l \in LegIds : RowKept(l)
    BY <1>1, FillsGrow, UnchangedRow DEF RowsInv, TypeOK, OrderRows
  <2> QED
    BY <1>1, <2>1, KeptRows
<1>2. CASE PlanOpen \/ \E p \in Intents : PlanClose(p)
  BY <1>2, PlannedRows DEF RowsMove, RowKept
<1>3. ASSUME NEW l \in LegIds, SkipSpot(l) \/ RecordOutcome(l) PROVE RowsMove
  <2>1. UNCHANGED intents
    BY <1>3 DEF SkipSpot, RecordOutcome
  <2> QED
    BY <1>3, <2>1, RecordedRows, KeptRows
<1>4. ASSUME NEW l \in LegIds,
             LookupFound(l) \/ LookupMissing(l) \/ LookupIncomplete(l) \/ NoLookup(l)
      PROVE  RowsMove
  <2>1. UNCHANGED intents
    BY <1>4 DEF LookupFound, LookupMissing, LookupIncomplete, NoLookup
  <2> QED
    BY <1>4, <2>1, LookedUpRows, KeptRows
<1>5. ASSUME NEW i \in Intents,
             \/ ExpirePlanned(i) \/ GuardUnexecutable(i)
             \/ PrepareLiveCompensation(i) \/ Settle(i)
      PROVE  RowsMove
  BY <1>5, DroppedRows, CompensationRows, SettledRows DEF ExpirePlanned, GuardUnexecutable
<1>6. \E i \in Intents, l \in LegIds : TRUE
  BY BoundAssumption, LegIdsFacts DEF Intents, Kinds
<1>7. CASE Market \/ Crash \/ UNCHANGED vars
  BY <1>1, <1>6, <1>7, OtherRows
<1>8. CASE Api
  BY <1>1, <1>2, <1>6, <1>8, OtherRows DEF Api
<1>9. CASE Worker
  <2>1. CASE \/ ExecRead \/ CompensationSkip \/ ReconRead \/ MarkReconciling \/ Observe
             \/ LegsDone \/ AccountResult \/ AccountError \/ FinalRead \/ SetFinal
    BY <1>1, <1>6, <2>1, OtherRows
  <2>2. CASE \E i \in Intents :
               \/ ExpirePlanned(i) \/ PreflightPass(i) \/ PreflightFail(i)
               \/ GuardUnexecutable(i) \/ GuardUnavailable(i) \/ PrepareDenied(i)
               \/ CompensationStart(i) \/ PrepareLiveCompensation(i) \/ Settle(i)
    BY <1>1, <1>5, <1>6, <2>2, OtherRows
  <2>3. CASE \E l \in LegIds :
               \/ Submit(l) \/ Respond(l) \/ SkipSpot(l) \/ RecordOutcome(l)
               \/ LookupFound(l) \/ LookupMissing(l) \/ LookupIncomplete(l) \/ NoLookup(l)
    BY <1>1, <1>3, <1>4, <1>6, <2>3, OtherRows
  <2> QED
    BY <1>9, <2>1, <2>2, <2>3 DEF Worker
<1> QED
  BY <1>7, <1>8, <1>9 DEF Next

---------------------------------------------------------------------------
(* The runs of the worker *)

LEMMA ReadyAgain ==
    ASSUME TypeOK, [Next]_vars, control' = "ready"
    PROVE  control = "ready" \/ SetFinal
<1>1. CASE Api \/ Market \/ Crash \/ UNCHANGED vars
  BY <1>1 DEF vars, db, Api, PauseExecution, ResumeExecution, RequestReconciliation,
              Confirm, ConfirmationFails, PlanOpen, PlanClose, Market, Arrive, Trade,
              Expire, Crash
<1>2. ASSUME NEW i \in Intents, Settle(i)
      PROVE  control = "ready"
  BY <1>2 DEF Settle, SettlementWaits, NoFills, Balanced, CompensationRequired, Compensated,
              ManualReview, db
<1>3. CASE Worker
  BY <1>2, <1>3 DEF Worker, db, ExecRead, CompensationSkip, ReconRead, MarkReconciling,
     Observe, LegsDone, AccountResult, AccountError, FinalRead, ExpirePlanned,
     PreflightPass, PreflightFail, GuardUnexecutable, GuardUnavailable, DropPlanned,
     PrepareLiveSubmission, PrepareDenied, CompensationStart, PrepareLiveCompensation,
     Submit, Respond, SkipSpot, RecordOutcome, LookupFound, LookupMissing,
     LookupIncomplete, NoLookup
<1> QED
  BY <1>1, <1>3 DEF Next

LEMMA RestKept == ASSUME RowsMove, AllAtRest PROVE AllAtRest'
BY DEF RowsMove, AllAtRest

\* The API and the exchange, and the steps on the legs in hand but the last.
LEMMA RunElsewhere ==
    ASSUME TypeOK, HandInv, RunInv, RowsMove, [Next]_vars, pc' = pc,
           control' = "ready" => control = "ready",
           w'.stage = w.stage, w'.open = w.open, w'.ok = w.ok, w'.todo = w.todo,
           pc = "legs" => WireKept
    PROVE  RunInv'
<1>1. ReadyInv'
  BY RestKept DEF RunInv, ReadyInv
<1>2. AccountInv'
  BY RestKept DEF RunInv, AccountInv
<1>3. LookedUpInv'
  <2> SUFFICES ASSUME pc = "legs", w.open = {}
               PROVE  /\ LiveOrders' = {}
                      /\ w.ok => \A l \in LegIds \ w.todo : l[2] # "comp" => AtRest(l)'
    BY DEF LookedUpInv
  <2>1. \A l \in LegIds : orders[l].state \notin {"inflight", "live"}
    BY DEF HandInv, InHand, RunInv, LookedUpInv, LiveOrders
  <2>2. LiveOrders' = {}
    BY <2>1 DEF WireKept, LiveOrders
  <2>3. w.ok => \A l \in LegIds \ w.todo : l[2] # "comp" => AtRest(l)'
    BY DEF RowsMove, RunInv, LookedUpInv
  <2> QED
    BY <2>2, <2>3
<1> QED
  BY <1>1, <1>2, <1>3 DEF RunInv

\* Where the run goes on when the executor or the compensator returns.
LEMMA RunServiceDone ==
    ASSUME TypeOK, RunInv, RowsMove, ServiceDone, pc \in {"place", "comp", "compPrepare"},
           control' = "ready" => control = "ready"
    PROVE  RunInv'
<1>1. CASE w.stage = "exec"
  <2>1. pc' = "comp" /\ w'.stage = "pre"
    BY <1>1 DEF ServiceDone, Fresh
  <2> QED
    BY <2>1 DEF RunInv, ReadyInv, LookedUpInv, AccountInv
<1>2. CASE w.stage = "pre"
  <2>1. pc' = "recon" /\ w'.stage = "exec"
    BY <1>2 DEF ServiceDone, Fresh
  <2> QED
    BY <2>1 DEF RunInv, ReadyInv, LookedUpInv, AccountInv
<1>3. CASE w.stage = "post"
  <2>1. pc' = "final" /\ w'.stage = "exec" /\ w'.ok = w.ok
    BY <1>3 DEF ServiceDone, Fresh
  <2>2. control' # "ready"
    BY <1>3 DEF RunInv, ReadyInv
  <2>3. w'.ok => AllAtRest'
    BY <1>3, <2>1, RestKept DEF RunInv, AccountInv
  <2> QED
    BY <2>1, <2>2, <2>3 DEF RunInv, ReadyInv, LookedUpInv, AccountInv
<1>4. w.stage \in {"exec", "pre", "post"}
  BY DEF TypeOK, WorkerMemory
<1> QED
  BY <1>1, <1>2, <1>3, <1>4

LEMMA RunExecutor ==
    ASSUME TypeOK, RunInv, NEW i \in Intents, [Next]_vars,
           (\A j \in Intents : ~PrepareLiveSubmission(j)) => RowsMove,
           \/ ExecRead
           \/ ExpirePlanned(i) \/ PreflightPass(i) \/ PreflightFail(i)
           \/ GuardUnexecutable(i) \/ GuardUnavailable(i)
           \/ PrepareLiveSubmission(i) \/ PrepareDenied(i)
    PROVE  RunInv'
<1>1. CASE PrepareLiveSubmission(i)
  <2>1. pc' = "place" /\ w'.stage = "exec"
    BY <1>1 DEF PrepareLiveSubmission, Fresh
  <2> QED
    BY <2>1 DEF RunInv, ReadyInv, LookedUpInv, AccountInv
<1>2. CASE PreflightFail(i)
  <2>1. pc' = "comp" /\ w'.stage = "pre" /\ control' = "paused"
    BY <1>2 DEF PreflightFail, Fresh
  <2> QED
    BY <2>1 DEF RunInv, ReadyInv, LookedUpInv, AccountInv
<1>3. CASE ~PrepareLiveSubmission(i) /\ ~PreflightFail(i)
  <2>1. /\ pc \in {"exec", "examine", "prepare"}
        /\ UNCHANGED <<control, legs>>
    BY <1>3 DEF ExecRead, ExpirePlanned, PreflightPass, GuardUnexecutable, DropPlanned,
                GuardUnavailable, PrepareDenied, db
  <2>2. /\ pc' \in {"examine", "prepare", "comp"}
        /\ w'.stage \in {"exec", "pre"} \/ w' = w
        /\ pc' = "comp" => w'.stage = "pre"
    <3>1. NextCandidate(i) => pc' \in {"examine", "comp"} /\ w'.stage \in {"exec", "pre"}
                              /\ (pc' = "comp" => w'.stage = "pre")
      BY DEF NextCandidate, Fresh
    <3>2. ExecRead => pc' \in {"examine", "comp"} /\ w'.stage \in {"exec", "pre"}
                      /\ (pc' = "comp" => w'.stage = "pre")
      BY DEF ExecRead, Fresh
    <3>3. PreflightPass(i) => pc' = "prepare" /\ w' = w
      BY DEF PreflightPass
    <3> QED
      BY <1>3, <3>1, <3>2, <3>3 DEF ExpirePlanned, GuardUnexecutable, DropPlanned,
                                    GuardUnavailable, PrepareDenied
  <2>3. AllAtRest => AllAtRest'
    BY <2>1 DEF AllAtRest, AtRest
  <2>4. ReadyInv'
    BY <2>1, <2>2, <2>3 DEF RunInv, ReadyInv
  <2>5. AccountInv' /\ LookedUpInv'
    BY <2>1, <2>2, <2>3 DEF RunInv, AccountInv, LookedUpInv
  <2> QED
    BY <2>4, <2>5 DEF RunInv
<1> QED
  BY <1>1, <1>2, <1>3

LEMMA RunPlacing ==
    ASSUME TypeOK, HandInv, RunInv, RowsMove, [Next]_vars, NEW l \in LegIds,
           Submit(l) \/ Respond(l) \/ SkipSpot(l) \/ RecordOutcome(l)
    PROVE  RunInv'
<1>1. pc = "place" /\ (control' = "ready" => control = "ready")
  BY ReadyAgain DEF Submit, Respond, SkipSpot, RecordOutcome, SetFinal
<1>2. CASE RecordOutcome(l) /\ w.await = {l}
  BY <1>1, <1>2, RunServiceDone DEF RecordOutcome
<1>3. CASE Submit(l) \/ Respond(l) \/ SkipSpot(l) \/ (RecordOutcome(l) /\ w.await # {l})
  <2>1. /\ pc' = pc /\ w'.stage = w.stage /\ w'.open = w.open /\ w'.ok = w.ok
        /\ w'.todo = w.todo
    <3>1. CASE Respond(l)
      <4>1. PICK r \in Outcomes(l) : w' = [w EXCEPT !.resp[l[2]] = r]
        BY <3>1 DEF Respond
      <4> QED
        BY <3>1, <4>1 DEF Respond, TypeOK, WorkerMemory
    <3>2. CASE Submit(l)
      BY <3>2 DEF Submit, TypeOK, WorkerMemory
    <3>3. CASE SkipSpot(l)
      BY <3>3 DEF SkipSpot, TypeOK, WorkerMemory
    <3>4. CASE RecordOutcome(l) /\ w.await # {l}
      BY <3>4 DEF RecordOutcome, TypeOK, WorkerMemory
    <3> QED
      BY <1>3, <3>1, <3>2, <3>3, <3>4
  <2> QED
    BY <1>1, <2>1, RunElsewhere
<1> QED
  BY <1>2, <1>3

LEMMA RunCompensator ==
    ASSUME TypeOK, HandInv, RunInv, RowsMove, [Next]_vars, NEW i \in Intents,
           CompensationSkip \/ CompensationStart(i) \/ PrepareLiveCompensation(i)
    PROVE  RunInv'
<1>1. pc \in {"comp", "compPrepare"} /\ (control' = "ready" => control = "ready")
  BY ReadyAgain DEF CompensationSkip, CompensationStart, PrepareLiveCompensation, SetFinal
<1>2. CASE ServiceDone
  BY <1>1, <1>2, RunServiceDone
<1>3. CASE ~ServiceDone
  <2>1. pc' \in {"compPrepare", "place"} /\ w'.stage = w.stage /\ w'.ok = w.ok
    BY <1>3 DEF CompensationSkip, CompensationStart, PrepareLiveCompensation, TypeOK,
                WorkerMemory
  <2>2. ReadyInv'
    BY <1>1, <2>1 DEF RunInv, ReadyInv
  <2>3. AccountInv' /\ LookedUpInv'
    BY <2>1, RestKept DEF RunInv, AccountInv, LookedUpInv
  <2> QED
    BY <2>2, <2>3 DEF RunInv
<1> QED
  BY <1>2, <1>3

\* The list of local legs leaves out only those of idle intents.
LEMMA RunObserve ==
    ASSUME TypeOK, HandInv, RowsInv, RunInv, RowsMove, Observe
    PROVE  RunInv'
<1>1. /\ pc = "observe" /\ pc' = "legs" /\ control' = control
      /\ w'.open = LiveOrders /\ w'.todo = Reconcilable /\ w'.stage = w.stage
  BY DEF Observe, TypeOK, WorkerMemory, db
<1>2. PICK C \in SUBSET LiveOrders :
        orders' = [l \in LegIds |-> IF l \in C THEN [orders[l] EXCEPT !.state = "done"]
                                    ELSE orders[l]]
  BY DEF Observe
<1>3. w'.open = {} => LiveOrders' = {}
  BY <1>1, <1>2 DEF LiveOrders, TypeOK, OrderRows
<1>4. ASSUME NEW l \in LegIds \ Reconcilable, l[2] # "comp"
      PROVE  AtRest(l)'
  <2>1. intents[l[1]].status \in Idle \/ legs[l].status = "absent"
    BY <1>4 DEF Reconcilable, Settled, Idle
  <2>2. AtRest(l)
    BY <1>4, <2>1 DEF RowsInv, AtRest
  <2> QED
    BY <1>4, <2>2 DEF RowsMove
<1>5. ReadyInv'
  BY <1>1 DEF RunInv, ReadyInv
<1>6. LookedUpInv'
  BY <1>1, <1>3, <1>4 DEF LookedUpInv
<1>7. AccountInv'
  BY <1>1 DEF RunInv, AccountInv
<1> QED
  BY <1>5, <1>6, <1>7 DEF RunInv

LEMMA RunReconciliation ==
    ASSUME TypeOK, HandInv, RunInv, RowsMove, [Next]_vars,
           \/ ReconRead \/ MarkReconciling \/ LegsDone
           \/ AccountResult \/ AccountError \/ FinalRead \/ SetFinal
    PROVE  RunInv'
<1>1. CASE ReconRead
  <2>1. /\ pc' \in {"observe", "mark"} /\ w'.stage = "exec" /\ control' = control
        /\ pc' = "observe" => control = "paused"
    BY <1>1 DEF ReconRead, Fresh, db
  <2> QED
    BY <2>1 DEF RunInv, ReadyInv, LookedUpInv, AccountInv
<1>2. CASE MarkReconciling
  <2>1. pc = "mark" /\ pc' = "observe" /\ control' = "reconciling" /\ w' = w
    BY <1>2 DEF MarkReconciling
  <2> QED
    BY <2>1 DEF RunInv, ReadyInv, LookedUpInv, AccountInv
<1>3. CASE LegsDone
  <2>1. /\ pc = "legs" /\ pc' = "settle" /\ w.todo = {} /\ UNCHANGED <<control, legs>>
        /\ w'.open = w.open /\ w'.ok = w.ok /\ w'.stage = w.stage
    BY <1>3 DEF LegsDone, TypeOK, WorkerMemory, db
  <2>2. w.ok /\ w.open = {} => AllAtRest
    BY <2>1 DEF RunInv, LookedUpInv, AllAtRest
  <2>3. AccountInv'
    BY <2>1, <2>2, RestKept DEF RunInv, AccountInv
  <2> QED
    BY <2>1, <2>3 DEF RunInv, ReadyInv, LookedUpInv
<1>4. CASE AccountResult
  <2>1. PICK ready \in BOOLEAN :
          /\ ready => ~AccountReasons
          /\ w' = [Fresh EXCEPT !.stage = "post", !.safety = w.safety, !.ok = ready]
    BY <1>4 DEF AccountResult
  <2>2. /\ pc = "settle" /\ pc' = "comp" /\ control' = control
        /\ w'.stage = "post" /\ w'.ok = ready
    BY <1>4, <2>1 DEF AccountResult, Fresh, db
  <2>3. ready => AllAtRest
    BY <2>1, <2>2 DEF AccountReasons, RunInv, AccountInv
  <2> QED
    BY <2>2, <2>3, RestKept DEF RunInv, ReadyInv, LookedUpInv, AccountInv
<1>5. CASE AccountError
  <2>1. /\ pc \in {"observe", "legs", "settle"} /\ pc' = "comp" /\ control' = control
        /\ w'.stage = "post" /\ w'.ok = FALSE
    BY <1>5 DEF AccountError, Fresh, db
  <2> QED
    BY <2>1 DEF RunInv, ReadyInv, LookedUpInv, AccountInv
<1>6. CASE FinalRead
  <2>1. pc = "final" /\ control' = control /\ w'.stage = "exec"
    BY <1>6 DEF FinalRead, Fresh, db
  <2>2. pc' = "exec" \/ (pc' = "setFinal" /\ (w'.ok => w.ok))
    BY <1>6 DEF FinalRead, Fresh
  <2>3. control' # "ready"
    BY <2>1 DEF RunInv, ReadyInv
  <2> QED
    BY <2>1, <2>2, <2>3, RestKept DEF RunInv, ReadyInv, LookedUpInv, AccountInv
<1>7. CASE SetFinal
  <2>1. /\ pc = "setFinal" /\ pc' = "exec" /\ w'.stage = "exec"
        /\ control' = (IF w.ok THEN "ready" ELSE "blocked")
    BY <1>7 DEF SetFinal, Fresh
  <2>2. control' = "ready" => AllAtRest'
    BY <2>1, RestKept DEF RunInv, AccountInv
  <2> QED
    BY <2>1, <2>2 DEF RunInv, ReadyInv, LookedUpInv, AccountInv
<1> QED
  BY <1>1, <1>2, <1>3, <1>4, <1>5, <1>6, <1>7

\* A leg that is found complete, or not found and given up, is at rest; a
\* lookup that leaves one open clears ok.
LEMMA RunLookup ==
    ASSUME TypeOK, HandInv, RowsInv, RunInv, RowsMove, NEW l \in LegIds,
           LookupFound(l) \/ LookupMissing(l) \/ LookupIncomplete(l) \/ NoLookup(l)
    PROVE  RunInv'
<1> DEFINE found == [legs[l] EXCEPT !.linked = TRUE, !.status = RemoteStatus(legs[l], orders[l])]
<1>1. /\ pc = "legs" /\ pc' = "legs" /\ UNCHANGED <<control, orders>>
  BY DEF LookupFound, LookupMissing, LookupIncomplete, NoLookup, remote
<1>2. /\ w'.todo = w.todo \ {l} /\ w'.open = w.open /\ w'.stage = w.stage
  <2>1. \E leg, ok : ReadFills(l, leg, ok) \/ Unlinked(l, leg, ok)
    BY DEF LookupFound, LookupMissing, LookupIncomplete, NoLookup
  <2> QED
    BY <2>1 DEF ReadFills, Unlinked, TypeOK, WorkerMemory
<1>3. legs[l] \in LegRows /\ orders[l] \in OrderRows
  BY DEF TypeOK
<1>4. w'.ok => w.ok /\ (w.open = {} /\ l[2] # "comp" => AtRest(l)')
  <2>1. \A leg, ok : ReadFills(l, leg, ok) =>
          (w'.ok => ok /\ legs'[l] = WithFills(leg, orders[l].filled))
    BY DEF ReadFills, TypeOK, WorkerMemory
  <2>2. \A leg, ok : Unlinked(l, leg, ok) =>
          (w'.ok => ok /\ leg.status \in {"created", "failed", "canceled"} /\ legs'[l] = leg)
    BY DEF Unlinked, TypeOK, WorkerMemory
  <2>3. CASE LookupFound(l)
    <3> SUFFICES ASSUME w'.ok PROVE w.ok /\ (w.open = {} => AtRest(l)')
      OBVIOUS
    <3>1. w.ok /\ legs'[l] = WithFills(found, orders[l].filled)
      BY <2>1, <2>3 DEF LookupFound
    <3>2. ASSUME w.open = {}
          PROVE  orders[l].state \in {"done", "rejected"}
      BY <1>1, <2>3, <3>2 DEF RunInv, LookedUpInv, LiveOrders, LookupFound, Listed
    <3>3. found.status = RemoteStatus(legs[l], orders[l]) /\ found.qty = legs[l].qty
      BY <1>3 DEF LegRows
    <3>4. /\ orders[l].state = "rejected" => found.status = "failed"
          /\ orders[l].state = "done" /\ orders[l].filled < found.qty =>
               found.status = "canceled"
      BY <3>3 DEF RemoteStatus
    <3>5. orders[l].filled < found.qty \/ orders[l].filled >= found.qty
      BY <1>3, <3>3 DEF LegRows, OrderRows
    <3>6. found \in LegRows
      BY <1>3, <2>3, FoundType DEF LookupFound
    <3> HIDE DEF found
    <3>7. legs'[l].status = FilledStatus(found, orders[l].filled)
      BY <3>1, <3>6 DEF WithFills, LegRows
    <3>8. w.open = {} => legs'[l].status \in Terminal
      BY <3>2, <3>4, <3>5, <3>7 DEF FilledStatus, Terminal
    <3> QED
      BY <3>1, <3>8 DEF AtRest
  <2>4. CASE LookupMissing(l)
    <3>1. ReadFills(l, NotFound(legs[l]), FALSE) \/ Unlinked(l, NotFound(legs[l]), w.ok)
      BY <2>4 DEF LookupMissing
    <3>2. w'.ok => w.ok /\ legs'[l].status \in {"created", "failed", "canceled"}
      BY <2>1, <2>2, <3>1
    <3> QED
      BY <3>2 DEF AtRest, Terminal
  <2>5. CASE LookupIncomplete(l)
    BY <2>1, <2>2, <2>5 DEF LookupIncomplete
  <2>6. CASE NoLookup(l)
    <3>1. AtRest(l)
      BY <1>3, <2>6 DEF NoLookup, AtRest, LegRows, LegStatuses, Recoverable, Terminal
    <3>2. ReadFills(l, legs[l], w.ok) \/ Unlinked(l, legs[l], w.ok)
      BY <2>6 DEF NoLookup
    <3> QED
      BY <2>1, <2>2, <3>1, <3>2 DEF RowsMove
  <2> QED
    BY <2>3, <2>4, <2>5, <2>6
<1>5. LookedUpInv'
  BY <1>1, <1>2, <1>4 DEF RunInv, LookedUpInv, RowsMove, LiveOrders
<1>6. ReadyInv' /\ AccountInv'
  BY <1>1, <1>2 DEF RunInv, ReadyInv, AccountInv
<1> QED
  BY <1>5, <1>6 DEF RunInv

LEMMA RunSettle ==
    ASSUME TypeOK, HandInv, RunInv, RowsMove, [Next]_vars, NEW i \in Intents, Settle(i)
    PROVE  RunInv'
<1>1. pc = "settle" /\ pc' = pc
  BY DEF Settle
<1>2. /\ w'.stage = w.stage /\ w'.open = w.open /\ w'.ok = w.ok /\ w'.todo = w.todo
  BY DEF Settle, TypeOK, WorkerMemory
<1>3. control' = "ready" => control = "ready"
  BY <1>1, ReadyAgain DEF SetFinal
<1> QED
  BY <1>1, <1>2, <1>3, RunElsewhere

LEMMA RunStep ==
    ASSUME TypeOK, TypeOK', JournalInv, HandInv, RowsInv, RunInv, NoCallsLost, [Next]_vars
    PROVE  RowsInv' /\ RunInv'
<1>1. (\A i \in Intents : ~PrepareLiveSubmission(i)) => RowsMove
  BY RowsStep
<1>2. RowsInv'
  BY <1>1, RowsMoved, PreparedRows
<1> SUFFICES RunInv'
  BY <1>2
<1>3. Intents # {}
  BY BoundAssumption DEF Intents
<1>4. ASSUME NEW i \in Intents,
             \/ ExecRead
             \/ ExpirePlanned(i) \/ PreflightPass(i) \/ PreflightFail(i)
             \/ GuardUnexecutable(i) \/ GuardUnavailable(i)
             \/ PrepareLiveSubmission(i) \/ PrepareDenied(i)
      PROVE  RunInv'
  BY <1>1, <1>4, RunExecutor
<1>5. CASE \A i \in Intents : ~PrepareLiveSubmission(i)
  <2>1. RowsMove
    BY <1>1, <1>5
  <2>2. CASE Api \/ Market \/ UNCHANGED vars
    <3>1. /\ UNCHANGED <<w, pc>>
          /\ \A l \in LegIds : ~Submit(l)
      <4>1. UNCHANGED <<w, pc>>
        BY <2>2 DEF vars, db, Api, PauseExecution, ResumeExecution, RequestReconciliation,
                Confirm, ConfirmationFails, PlanOpen, PlanClose, Market, Arrive, Trade, Expire
      <4>2. ASSUME NEW l \in LegIds, Submit(l) PROVE FALSE
        <5>1. l \in w.send /\ l \notin w'.send
          BY <4>2 DEF Submit, TypeOK, WorkerMemory
        <5> QED
          BY <4>1, <5>1
      <4> QED
        BY <4>1, <4>2
    <3>2. control' = "ready" => control = "ready"
      BY <3>1, ReadyAgain DEF SetFinal
    <3> QED
      BY <2>1, <3>1, <3>2, OtherWire, RunElsewhere
  <2>3. ~Crash
    BY DEF NoCallsLost, Crash
  <2>4. CASE Worker
    <3>1. CASE ExecRead
      BY <1>3, <1>4, <3>1
    <3>2. CASE CompensationSkip
      BY <1>3, <2>1, <3>2, RunCompensator
    <3>3. CASE Observe
      BY <2>1, <3>3, RunObserve
    <3>4. CASE \/ ReconRead \/ MarkReconciling \/ LegsDone
               \/ AccountResult \/ AccountError \/ FinalRead \/ SetFinal
      BY <2>1, <3>4, RunReconciliation
    <3>5. CASE \E i \in Intents :
                 \/ ExpirePlanned(i) \/ PreflightPass(i) \/ PreflightFail(i)
                 \/ GuardUnexecutable(i) \/ GuardUnavailable(i) \/ PrepareDenied(i)
                 \/ CompensationStart(i) \/ PrepareLiveCompensation(i) \/ Settle(i)
      BY <1>4, <2>1, <3>5, RunCompensator, RunSettle
    <3>6. CASE \E l \in LegIds :
                 \/ Submit(l) \/ Respond(l) \/ SkipSpot(l) \/ RecordOutcome(l)
                 \/ LookupFound(l) \/ LookupMissing(l) \/ LookupIncomplete(l) \/ NoLookup(l)
      BY <2>1, <3>6, RunPlacing, RunLookup
    <3> QED
      BY <1>5, <2>4, <3>1, <3>2, <3>3, <3>4, <3>5, <3>6 DEF Worker
  <2> QED
    BY <2>2, <2>3, <2>4 DEF Next
<1> QED
  BY <1>4, <1>5

LEMMA RunInvariant ==
    ASSUME NoCallsLost PROVE Spec => [](HandInv /\ RowsInv /\ RunInv)
<1>1. Init => HandInv /\ RowsInv /\ RunInv
  <2> SUFFICES ASSUME Init PROVE RowsInv /\ RunInv
    BY HandInitially
  <2>1. RowsInv
    BY DEF Init, RowsInv, RowSound, AtRest, NoLeg, LegRow, NoOrder, Untouched
  <2>2. RunInv
    BY DEF Init, RunInv, ReadyInv, LookedUpInv, AccountInv, Fresh
  <2> QED
    BY <2>1, <2>2
<1>2. TypeOK /\ TypeOK' /\ JournalInv /\ HandInv /\ RowsInv /\ RunInv /\ [Next]_vars
        => HandInv' /\ RowsInv' /\ RunInv'
  BY HandStep, RunStep
<1> QED
  BY <1>1, <1>2, TypeCorrect, JournalInvariant, PTL DEF Spec

\* Only the preparation of a group takes an intent from planned to executing.
LEMMA OnlyPrepared ==
    ASSUME TypeOK, [Next]_vars, NEW i \in Intents,
           intents[i].status = "planned", intents'[i].status = "executing"
    PROVE  PrepareLiveSubmission(i)
<1>1. intents' # intents
  OBVIOUS
<1>2. ~(PlanOpen \/ \E p \in Intents : PlanClose(p))
  <2>1. ASSUME NEW j \in Unplanned, NEW r, intents' = [intents EXCEPT ![j] = r]
        PROVE  FALSE
    <3>1. j # i
      BY DEF Unplanned
    <3> QED
      BY <2>1, <3>1 DEF TypeOK
  <2> QED
    BY <2>1 DEF PlanOpen, PlanClose
<1>3. ASSUME NEW j \in Intents, DropPlanned(j) PROVE FALSE
  <2>1. intents' = [intents EXCEPT ![j].status = "failed"]
    BY <1>3 DEF DropPlanned
  <2> QED
    BY <2>1 DEF TypeOK, IntentRows
<1>4. ASSUME NEW j \in Intents, Settle(j) PROVE FALSE
  <2>1. \E s : SetIntent(j, s)
    BY <1>1, <1>4 DEF Settle, SettlementWaits, db, NoFills, Balanced, CompensationRequired,
                      Compensated, ManualReview
  <2>2. j # i
    BY <1>1, <1>4 DEF Settle, SettlementWaits, Settling, db
  <2> QED
    BY <2>1, <2>2 DEF SetIntent, TypeOK
<1>5. ASSUME NEW j \in Intents, PrepareLiveSubmission(j) PROVE j = i
  BY <1>5 DEF PrepareLiveSubmission, TypeOK
<1>6. ASSUME NEW l \in LegIds,
             \/ SkipSpot(l) \/ RecordOutcome(l) \/ LookupFound(l) \/ LookupMissing(l)
             \/ LookupIncomplete(l) \/ NoLookup(l)
      PROVE  FALSE
  BY <1>1, <1>6 DEF SkipSpot, RecordOutcome, LookupFound, LookupMissing, LookupIncomplete,
                    NoLookup
<1>7. ASSUME NEW j \in Intents, PrepareLiveCompensation(j) PROVE FALSE
  BY <1>1, <1>7 DEF PrepareLiveCompensation
<1>8. \E l \in LegIds : TRUE
  BY LegIdsFacts DEF Kinds
<1>9. CASE UNCHANGED vars \/ Market \/ Crash \/ Api
  BY <1>1, <1>2, <1>8, <1>9, OtherRows DEF Api
<1>10. CASE Worker
  <2>1. CASE \/ ExecRead \/ CompensationSkip \/ ReconRead \/ MarkReconciling
             \/ Observe \/ LegsDone \/ AccountResult \/ AccountError \/ FinalRead \/ SetFinal
    BY <1>1, <1>8, <2>1, OtherRows
  <2>2. CASE \E j \in Intents :
               \/ ExpirePlanned(j) \/ PreflightPass(j) \/ PreflightFail(j)
               \/ GuardUnexecutable(j) \/ GuardUnavailable(j)
               \/ PrepareLiveSubmission(j) \/ PrepareDenied(j)
               \/ CompensationStart(j) \/ PrepareLiveCompensation(j) \/ Settle(j)
    BY <1>1, <1>3, <1>4, <1>5, <1>7, <1>8, <2>2, OtherRows DEF ExpirePlanned, GuardUnexecutable
  <2>3. CASE \E l \in LegIds :
               \/ Submit(l) \/ Respond(l) \/ SkipSpot(l) \/ RecordOutcome(l)
               \/ LookupFound(l) \/ LookupMissing(l) \/ LookupIncomplete(l) \/ NoLookup(l)
    BY <1>1, <1>6, <2>3, OtherRows
  <2> QED
    BY <1>10, <2>1, <2>2, <2>3 DEF Worker
<1> QED
  BY <1>9, <1>10 DEF Next

\* Without a crash, and when no call fails with its request still on the way,
\* a new group is submitted only when every primary leg of the others is
\* terminal or was never submitted: "ready" is never stale when it is used.
THEOREM GroupsDoNotOverlap == ASSUME NoCallsLost PROVE Spec => OneGroupAtATime
<1> DEFINE Fits == \A i \in Intents :
             /\ intents[i].status = "planned" /\ intents'[i].status = "executing"
             /\ ~intents[i].emergency
             => \A j \in Intents \ {i} : \A l \in Primary(j) :
                  legs[l].status \in Terminal \cup {"absent", "created"}
<1>1. TypeOK /\ RunInv /\ [Next]_vars => [Fits]_vars
  <2> SUFFICES ASSUME TypeOK, RunInv, [Next]_vars, NEW i \in Intents,
                      intents[i].status = "planned", intents'[i].status = "executing",
                      ~intents[i].emergency,
                      NEW j \in Intents \ {i}, NEW l \in Primary(j)
               PROVE  legs[l].status \in Terminal \cup {"absent", "created"}
    OBVIOUS
  <2>1. PrepareLiveSubmission(i)
    BY OnlyPrepared
  <2>2. control = "ready" /\ pc = "prepare"
    BY <2>1 DEF PrepareLiveSubmission, MaySubmit
  <2>3. l \in LegIds /\ l[2] # "comp"
    BY LegIdsFacts DEF Primary
  <2> QED
    BY <2>2, <2>3 DEF RunInv, ReadyInv, AllAtRest, AtRest
<1> QED
  BY <1>1, TypeCorrect, RunInvariant, PTL DEF Spec, OneGroupAtATime

---------------------------------------------------------------------------
(* A pause lasts until it is resumed *)

\* Nobody pauses beside the worker: with the administrator's pauses and
\* emergency closes, LivePauseLost is a counterexample.
WorkerPausesOnly == "pause" \notin Controls /\ "emergency" \notin Controls

\* A round that is about to write the control row saw it without a pause.
PauseInv == pc \in {"mark", "setFinal"} => control # "paused"

LEMMA PauseStep ==
    ASSUME TypeOK, WorkerPausesOnly, PauseInv, [Next]_vars
    PROVE  PauseInv' /\ (control = "paused" /\ control' # "paused" => ResumeExecution)
<1>0. ServiceDone => pc' \in {"comp", "recon", "final"}
  <2>1. w.stage \in {"exec", "pre", "post"}
    BY DEF TypeOK, WorkerMemory
  <2> QED
    BY <2>1 DEF ServiceDone
<1>1. CASE Market \/ Crash \/ UNCHANGED vars
  BY <1>1 DEF Market, Arrive, Trade, Expire, Crash, vars, db, PauseInv
<1>2. CASE Api
  BY <1>2 DEF Api, WorkerPausesOnly, PauseInv, db, PauseExecution, ResumeExecution,
              RequestReconciliation, Confirm, ConfirmationFails, PlanOpen, PlanClose
<1>3. CASE ReconRead \/ MarkReconciling \/ FinalRead \/ SetFinal
  BY <1>3 DEF ReconRead, MarkReconciling, FinalRead, SetFinal, PauseInv, db
<1>4. CASE ExecRead \/ CompensationSkip \/ Observe \/ LegsDone \/ AccountResult \/ AccountError
  BY <1>0, <1>4 DEF ExecRead, CompensationSkip, Observe, LegsDone, AccountResult, AccountError,
                    PauseInv, db
<1>5. ASSUME NEW i \in Intents,
             \/ ExpirePlanned(i) \/ PreflightPass(i) \/ PreflightFail(i)
             \/ GuardUnexecutable(i) \/ GuardUnavailable(i)
             \/ PrepareLiveSubmission(i) \/ PrepareDenied(i)
      PROVE  PauseInv' /\ (control' = control \/ control' = "paused")
  BY <1>5 DEF ExpirePlanned, PreflightPass, PreflightFail, GuardUnexecutable, GuardUnavailable,
              DropPlanned, NextCandidate, PrepareLiveSubmission, PrepareDenied, PauseInv, db
<1>6. ASSUME NEW i \in Intents, CompensationStart(i) \/ PrepareLiveCompensation(i)
      PROVE  PauseInv' /\ (control' = control \/ control' = "paused")
  BY <1>0, <1>6 DEF CompensationStart, PrepareLiveCompensation, PauseInv, db
<1>7. ASSUME NEW i \in Intents, Settle(i)
      PROVE  PauseInv' /\ (control' = control \/ control' = "paused")
  BY <1>7 DEF Settle, SettlementWaits, NoFills, Balanced, CompensationRequired, Compensated,
              ManualReview, PauseInv, db
<1>8. ASSUME NEW l \in LegIds, Submit(l) \/ Respond(l) \/ SkipSpot(l) \/ RecordOutcome(l)
      PROVE  PauseInv' /\ (control' = control \/ control' = "paused")
  <2>1. CASE RecordOutcome(l)
    <3>1. pc = "place" /\ (ServiceDone \/ UNCHANGED pc)
      BY <2>1 DEF RecordOutcome
    <3>2. control' = control \/ control' = "paused"
      BY <2>1 DEF RecordOutcome
    <3> QED
      BY <1>0, <3>1, <3>2 DEF PauseInv
  <2> QED
    BY <1>8, <2>1 DEF Submit, Respond, SkipSpot, PauseInv, db
<1>9. ASSUME NEW l \in LegIds,
             LookupFound(l) \/ LookupMissing(l) \/ LookupIncomplete(l) \/ NoLookup(l)
      PROVE  PauseInv' /\ (control' = control \/ control' = "paused")
  BY <1>9 DEF LookupFound, LookupMissing, LookupIncomplete, NoLookup, PauseInv, db
<1> QED
  BY <1>1, <1>2, <1>3, <1>4, <1>5, <1>6, <1>7, <1>8, <1>9 DEF Next, Worker

\* While no administrator pauses beside it, a pause that the worker wrote, on a
\* failed preflight, an outcome it does not know, an imbalance or a review, is
\* taken back by a resume only: no round and no request for one overwrites it.
THEOREM WorkerPausesHold == ASSUME WorkerPausesOnly PROVE Spec => PauseHeld
<1>1. Init => PauseInv
  BY DEF Init, PauseInv
<1>2. TypeOK /\ PauseInv /\ [Next]_vars => PauseInv'
  BY PauseStep
<1>3. TypeOK /\ PauseInv /\ [Next]_vars =>
        [control = "paused" /\ control' # "paused" => ResumeExecution]_vars
  BY PauseStep
<1> QED
  BY <1>1, <1>2, <1>3, TypeCorrect, PTL DEF Spec, PauseHeld

---------------------------------------------------------------------------
(* What the exchange has of every leg, and when an intent is over *)

\* No request outlives its call: a fault of the network that an instance admits
\* or not.  The worker may crash with a request on its way.
NoneLate == "late" \notin Faults
Never    == {"none", "lost", "rejected"}
Waiting  == {"inflight", "live"}

\* What a leg's row says of the order the exchange has, and the other way
\* around: a terminal row has an order that trades no more.
Agrees(order, leg) ==
    /\ order.state \in Never \cup {"inflight"} => order.filled = 0
    /\ order.filled <= leg.qty
    /\ order.state \in Waiting => order.filled < leg.qty
    /\ leg.filled <= order.filled
    /\ leg.status \in Untouched => ~leg.linked /\ order.state = "none"
    /\ leg.status \notin Untouched => leg.qty > 0
    /\ leg.status = "unknown" => order.state # "inflight"
    /\ leg.status = "filled" => leg.filled >= leg.qty
    /\ leg.status \in Terminal => /\ order.state \notin Waiting
                                  /\ ~leg.linked => order.state \in Never

AgreeInv == \A l \in LegIds : Agrees(orders[l], legs[l])

\* Nothing is planned for no quantity.
QuantityInv ==
    /\ \A l \in LegIds : l[2] # "comp" /\ legs[l].status # "absent" => legs[l].qty > 0
    /\ \A p \in Intents : positions[p].status \in {"open", "closing"} => positions[p].qty > 0
    /\ pc = "compPrepare" =>
         /\ w.cur \in Intents
         /\ legs[<<w.cur, "comp">>].status = "created" => Executable(<<w.cur, "comp">>) > 0

\* What the worker waits for: a request that was answered has arrived.
HoldInv ==
    /\ pc # "place" => InHand = {} /\ NoAnswers
    /\ \A l, m \in InHand : l[1] = m[1]
    /\ \A l \in w.send : /\ legs[l].status = "submitted" /\ sent[l] = 0
                         /\ w.resp[l[2]] = "none"
    /\ \A l \in w.await : /\ sent[l] > 0
                          /\ w.resp[l[2]] # "none" => orders[l].state # "inflight"
                          /\ w.resp[l[2]] = "reject" => orders[l].state = "rejected"
                          /\ w.resp[l[2]] = "ack" => Taken(l)

\* A leg whose fills are all booked and whose order is over.
Exact(l) == legs[l].status \in Terminal => legs[l].filled = orders[l].filled
Final(l) == legs[l].status \in Terminal \cup Untouched /\ legs[l].filled = orders[l].filled

Over == {"hedged", "closed", "failed"}

\* The rows of one intent, as it goes on.
Sided(i) ==
    /\ Spot(i).market = "spot" /\ Perp(i).market = "perp"
    /\ Spot(i).side = (IF intents[i].action = "open" THEN "buy" ELSE "sell")
    /\ Perp(i).side = (IF intents[i].action = "open" THEN "sell" ELSE "buy")
Reversed(i) ==
    /\ Comp(i).status # "absent"
    /\ Comp(i).market = Excess(i) /\ Comp(i).side = OppositeSide(legs[<<i, Excess(i)>>].side)
    /\ Comp(i).status # "created" => Comp(i).tol = Grid(<<i, "comp">>)
IntentInv(i) ==
    /\ intents[i].status \in {"none", "planned"} => \A l \in Legs(i) : legs[l].status \in Untouched
    /\ intents[i].status \in {"none", "planned", "executing"} => Comp(i).status = "absent"
    /\ intents[i].status # "none" => Sided(i)
    /\ intents[i].status \in Over => \A l \in Legs(i) : Final(l)
    /\ intents[i].status = "compensating" =>
         /\ \A l \in Primary(i) : legs[l].status \in Terminal /\ Final(l)
         /\ Imbalance(i) # 0 /\ Reversed(i)

SettleInv ==
    /\ \A i \in Intents : IntentInv(i)
    /\ pc \in {"legs", "settle"} /\ w.ok => \A l \in LegIds \ w.todo : Exact(l)
    /\ pc = "settle" => w.todo = {} /\ (w.queue # {} => w.ok)

---------------------------------------------------------------------------
(* What one change of an order or of a leg's row makes of their agreement *)

LEMMA ArrivalAgrees ==
    ASSUME NEW o \in OrderRows, NEW leg \in LegRows, Agrees(o, leg), o.state = "inflight",
           NEW s \in {"live", "rejected", "lost"}
    PROVE  Agrees([o EXCEPT !.state = s], leg)
<1> DEFINE new == [o EXCEPT !.state = s]
<1>1. new.state = s /\ new.filled = o.filled
  BY DEF OrderRows
<1> HIDE DEF new
<1> QED
  BY <1>1 DEF Agrees, Never, Waiting, OrderRows, LegRows, Untouched, Terminal

LEMMA TradeAgrees ==
    ASSUME NEW o \in OrderRows, NEW leg \in LegRows, Agrees(o, leg), o.state = "live",
           NEW q \in Nat, q <= leg.qty - o.filled, NEW new \in OrderRows,
           new.filled = o.filled + q,
           new.state = IF o.filled + q = leg.qty THEN "done" ELSE "live"
    PROVE  Agrees(new, leg)
<1>1. leg.qty \in Nat /\ o.filled \in Nat /\ leg.filled \in Nat
  BY DEF OrderRows, LegRows
<1> QED
  BY <1>1 DEF Agrees, Never, Waiting, Untouched, Terminal

LEMMA EndAgrees ==
    ASSUME NEW o \in OrderRows, NEW leg \in LegRows, Agrees(o, leg), o.state = "live"
    PROVE  Agrees([o EXCEPT !.state = "done"], leg)
<1> DEFINE new == [o EXCEPT !.state = "done"]
<1>1. new.state = "done" /\ new.filled = o.filled
  BY DEF OrderRows
<1> HIDE DEF new
<1> QED
  BY <1>1 DEF Agrees, Never, Waiting, OrderRows, LegRows, Untouched, Terminal

LEMMA SentAgrees ==
    ASSUME NEW o \in OrderRows, NEW leg \in LegRows, Agrees(o, leg), o.state = "none",
           leg.status = "submitted"
    PROVE  Agrees([o EXCEPT !.state = "inflight"], leg)
<1> DEFINE new == [o EXCEPT !.state = "inflight"]
<1>1. new.state = "inflight" /\ new.filled = o.filled
  BY DEF OrderRows
<1> HIDE DEF new
<1> QED
  BY <1>1 DEF Agrees, Never, Waiting, OrderRows, LegRows, Untouched, Terminal

\* A new row has no order, and a prepared one has none yet.
LEMMA NewLegAgrees ==
    ASSUME NEW o \in OrderRows, NEW leg \in LegRows, Agrees(o, leg), o.state = "none",
           NEW new \in LegRows, new.filled = 0, ~new.linked,
           new.status = "created" \/ (new.status = "submitted" /\ new.qty > 0)
    PROVE  Agrees(o, new)
BY DEF Agrees, Never, Waiting, OrderRows, LegRows, Untouched, Terminal

\* A recorded outcome tells what has become of the order.
LEMMA OutcomeAgrees ==
    ASSUME NEW o \in OrderRows, NEW leg \in LegRows, Agrees(o, leg), leg.status \notin Untouched,
           NEW s \in {"acknowledged", "unknown", "failed"}, NEW new \in LegRows,
           s = "unknown" => o.state # "inflight",
           s = "failed" => o.state \in {"none", "rejected"},
           new.status = IF leg.status = "submitted" THEN s ELSE leg.status,
           leg.linked => new.linked, new.filled = leg.filled, new.qty = leg.qty
    PROVE  Agrees(o, new)
BY DEF Agrees, Never, Waiting, OrderRows, LegRows, Untouched, Terminal

\* A lookup that finds the order, or misses it, and the fills read afterwards.
LEMMA FoundAgrees ==
    ASSUME NEW o \in OrderRows, NEW leg \in LegRows, Agrees(o, leg),
           leg.status \in Recoverable, o.state \in {"live", "done", "rejected"}
    PROVE  Agrees(o, [leg EXCEPT !.linked = TRUE, !.status = RemoteStatus(leg, o)])
<1> DEFINE s == RemoteStatus(leg, o)
           new == [leg EXCEPT !.linked = TRUE, !.status = s]
<1>1. /\ s \in {"failed", "canceled"} => o.state \in {"done", "rejected"}
      /\ s \notin {"failed", "canceled"} => s \in {"acknowledged", "partially_filled"}
  BY DEF RemoteStatus, Recoverable
<1> HIDE DEF s
<1>2. new.status = s /\ new.linked = TRUE /\ new.filled = leg.filled /\ new.qty = leg.qty
  BY DEF LegRows
<1> HIDE DEF new
<1>3. Agrees(o, new)
  BY <1>1, <1>2 DEF Agrees, Never, Waiting, OrderRows, LegRows, Untouched, Terminal, Recoverable
<1> QED
  BY <1>3 DEF new, s

LEMMA MissingAgrees ==
    ASSUME NEW o \in OrderRows, NEW leg \in LegRows, Agrees(o, leg),
           o.state \notin {"live", "done"}
    PROVE  Agrees(o, NotFound(leg))
<1>1. CASE leg.status = "unknown" /\ ~leg.linked
  <2> DEFINE new == [leg EXCEPT !.status = "failed"]
  <2>1. new.status = "failed" /\ new.linked = leg.linked /\ new.filled = leg.filled /\ new.qty = leg.qty
    BY DEF LegRows
  <2> HIDE DEF new
  <2>2. o.state \in Never
    BY <1>1 DEF Agrees, OrderRows, OrderStates, Never
  <2>3. Agrees(o, new)
    BY <1>1, <2>1, <2>2 DEF Agrees, Never, Waiting, OrderRows, LegRows, Untouched, Terminal
  <2> QED
    BY <1>1, <2>3 DEF NotFound, new
<1>2. CASE ~(leg.status = "unknown" /\ ~leg.linked)
  BY <1>2 DEF NotFound
<1> QED
  BY <1>1, <1>2

LEMMA FillsAgree ==
    ASSUME NEW o \in OrderRows, NEW leg \in LegRows, Agrees(o, leg), leg.linked,
           NEW f \in {leg.filled, o.filled}
    PROVE  /\ Agrees(o, WithFills(leg, f))
           /\ leg.status \in Terminal => WithFills(leg, f).status \in Terminal
           /\ leg.status \in Terminal \/ WithFills(leg, f).status \in Terminal =>
                o.state \notin Waiting
           /\ WithFills(leg, f).filled = f
<1>1. leg.qty \in Nat /\ o.filled \in Nat /\ leg.filled \in Nat /\ f \in Nat /\ f <= o.filled
  BY DEF OrderRows, LegRows, Agrees
<1> DEFINE s == FilledStatus(leg, f)
           new == [leg EXCEPT !.filled = f, !.status = s]
<1>2. \/ s = "filled" /\ f >= leg.qty
      \/ s = "partially_filled" /\ leg.status \notin Terminal
      \/ s = leg.status
  BY <1>1 DEF FilledStatus, Agrees, Terminal
<1>3. new.status = s /\ new.linked = leg.linked /\ new.filled = f /\ new.qty = leg.qty
  BY DEF LegRows
<1> HIDE DEF s, new
<1>4. leg.status \notin Untouched /\ leg.qty > 0
  BY DEF Agrees
<1>5. Agrees(o, new)
  BY <1>1, <1>2, <1>3, <1>4 DEF Agrees, Never, Waiting, Untouched, Terminal
<1>6. leg.status \in Terminal => new.status \in Terminal
  BY <1>2, <1>3 DEF Terminal
<1>7. new = WithFills(leg, f)
  BY DEF new, s, WithFills
<1> QED
  BY <1>3, <1>5, <1>6, <1>7 DEF Agrees

---------------------------------------------------------------------------
(* Who writes the rows, the book and the intents *)

LooksUp(l)  == LookupFound(l) \/ LookupMissing(l) \/ LookupIncomplete(l) \/ NoLookup(l)
Records(l)  == SkipSpot(l) \/ RecordOutcome(l)
Plans       == PlanOpen \/ \E p \in Intents : PlanClose(p)
Drops(i)    == ExpirePlanned(i) \/ GuardUnexecutable(i)
Asks(i)     == Settle(i) /\ CompensationRequired(i)

\* A settlement that writes no leg.
LEMMA SettledLegs ==
    ASSUME NEW i \in Intents, Settle(i)
    PROVE  Asks(i) \/ UNCHANGED legs
BY DEF Settle, SettlementWaits, db, NoFills, Balanced, Compensated, ManualReview, Asks

LEMMA LegWriters ==
    ASSUME [Next]_vars, ~Plans,
           \A i \in Intents : ~PrepareLiveSubmission(i) /\ ~PrepareLiveCompensation(i) /\ ~Asks(i),
           \A l \in LegIds : ~Records(l) /\ ~LooksUp(l)
    PROVE  UNCHANGED legs
<1>1. CASE Market \/ Crash \/ UNCHANGED vars
  BY <1>1 DEF vars, db, remote, Market, Arrive, Trade, Expire, Crash
<1>2. CASE Api
  BY <1>2 DEF Api, Plans, db, remote, PauseExecution, ResumeExecution, RequestReconciliation,
              Confirm, ConfirmationFails
<1>3. CASE Worker
  <2>1. CASE \/ ExecRead \/ CompensationSkip \/ ReconRead \/ MarkReconciling \/ Observe
             \/ LegsDone \/ AccountResult \/ AccountError \/ FinalRead \/ SetFinal
    BY <2>1 DEF db, ExecRead, CompensationSkip, ReconRead, MarkReconciling, Observe, LegsDone,
                AccountResult, AccountError, FinalRead, SetFinal
  <2>2. ASSUME NEW i \in Intents,
               \/ ExpirePlanned(i) \/ PreflightPass(i) \/ PreflightFail(i)
               \/ GuardUnexecutable(i) \/ GuardUnavailable(i) \/ PrepareDenied(i)
               \/ CompensationStart(i) \/ Settle(i)
        PROVE  UNCHANGED legs
    BY <2>2, SettledLegs DEF db, ExpirePlanned, GuardUnexecutable, DropPlanned, PreflightPass,
       PreflightFail, GuardUnavailable, PrepareDenied, CompensationStart
  <2>3. ASSUME NEW l \in LegIds, Submit(l) \/ Respond(l)
        PROVE  UNCHANGED legs
    BY <2>3 DEF db, Submit, Respond
  <2> QED
    BY <1>3, <2>1, <2>2, <2>3 DEF Worker, Records, LooksUp
<1> QED
  BY <1>1, <1>2, <1>3 DEF Next

LEMMA OrderWriters ==
    ASSUME [Next]_vars, \A l \in LegIds : ~Submit(l), ~Market, ~Observe
    PROVE  UNCHANGED orders
<1>1. CASE Crash \/ Api \/ UNCHANGED vars
  BY <1>1 DEF vars, Crash, Api, db, remote, PauseExecution, ResumeExecution,
              RequestReconciliation, Confirm, ConfirmationFails, PlanOpen, PlanClose
<1>2. CASE Worker
  BY <1>2 DEF Worker, remote, ExecRead, CompensationSkip, ReconRead, MarkReconciling,
              LegsDone, AccountResult, AccountError, FinalRead, SetFinal, ExpirePlanned,
              PreflightPass, PreflightFail, GuardUnexecutable, GuardUnavailable,
              DropPlanned, PrepareLiveSubmission, PrepareDenied, CompensationStart,
              PrepareLiveCompensation, Settle, Respond, SkipSpot, RecordOutcome,
              LookupFound, LookupMissing, LookupIncomplete, NoLookup
<1> QED
  BY <1>1, <1>2 DEF Next

LEMMA IntentWriters ==
    ASSUME [Next]_vars, ~Plans,
           \A i \in Intents : ~PrepareLiveSubmission(i) /\ ~Drops(i) /\ ~Settle(i)
    PROVE  UNCHANGED <<intents, positions>>
<1>1. CASE Market \/ Crash \/ UNCHANGED vars
  BY <1>1 DEF vars, db, remote, Market, Arrive, Trade, Expire, Crash
<1>2. CASE Api
  BY <1>2 DEF Api, Plans, db, remote, PauseExecution, ResumeExecution, RequestReconciliation,
              Confirm, ConfirmationFails
<1>3. CASE Worker
  BY <1>3 DEF Worker, Drops, db, ExecRead, CompensationSkip, ReconRead, MarkReconciling, Observe,
              LegsDone, AccountResult, AccountError, FinalRead, SetFinal, PreflightPass,
              PreflightFail, GuardUnavailable, PrepareDenied, CompensationStart,
              PrepareLiveCompensation, Submit, Respond, SkipSpot, RecordOutcome,
              LookupFound, LookupMissing, LookupIncomplete, NoLookup
<1> QED
  BY <1>1, <1>2, <1>3 DEF Next

\* What planning writes.
PlannedGroup(i) ==
    LET row  == intents'[i]
        spot == legs'[<<i, "spot">>]
        perp == legs'[<<i, "perp">>]
    IN  /\ intents[i].status = "none" /\ row.status = "planned"
        /\ row.action = "open" => spot.side = "buy" /\ perp.side = "sell"
        /\ row.action # "open" => spot.side = "sell" /\ perp.side = "buy"
        /\ spot.market = "spot" /\ perp.market = "perp"
        /\ \A leg \in {spot, perp} : /\ leg.status = "created" /\ leg.filled = 0
                                     /\ ~leg.linked /\ leg.qty > 0
        /\ \A j \in Intents \ {i} : intents'[j] = intents[j]
        /\ \A l \in LegIds \ Primary(i) : legs'[l] = legs[l]

LEMMA PlansGroup ==
    ASSUME TypeOK, QuantityInv, Plans
    PROVE  /\ \E i \in Intents : PlannedGroup(i)
           /\ UNCHANGED <<orders, pc, w, sent>>
           /\ \A p \in Intents : positions'[p].qty = positions[p].qty
           /\ \A p \in Intents : positions'[p].status # positions[p].status =>
                positions[p].status = "open"
<1>0. \A i \in Intents : /\ Primary(i) \subseteq LegIds
                         /\ Primary(i) = {<<i, "spot">>, <<i, "perp">>}
  BY LegIdsFacts DEF Primary
<1>1. \A m, x, y : LET row == LegRow(m, x, y) IN
        /\ row.status = "created" /\ row.filled = 0 /\ ~row.linked
        /\ row.market = m /\ row.side = x /\ row.qty = y
  BY DEF LegRow
<1>2. CASE PlanOpen
  <2>1. PICK i \in Unplanned :
          /\ intents' = [intents EXCEPT ![i] = IntentRow("open", 0, FALSE)]
          /\ legs' = [legs EXCEPT ![<<i, "spot">>] = LegRow("spot", "buy", Lot),
                                  ![<<i, "perp">>] = LegRow("perp", "sell", Lot)]
    BY <1>2 DEF PlanOpen
  <2>2. i \in Intents /\ intents[i].status = "none"
    BY DEF Unplanned
  <2>3. /\ legs'[<<i, "spot">>] = LegRow("spot", "buy", Lot)
        /\ legs'[<<i, "perp">>] = LegRow("perp", "sell", Lot)
        /\ \A l \in LegIds \ Primary(i) : legs'[l] = legs[l]
    BY <1>0, <2>1, <2>2 DEF TypeOK
  <2>4. /\ intents'[i].status = "planned" /\ intents'[i].action = "open"
        /\ \A j \in Intents \ {i} : intents'[j] = intents[j]
    BY <2>1, <2>2 DEF TypeOK, IntentRow
  <2>5. PlannedGroup(i)
    BY <1>1, <2>2, <2>3, <2>4, GridAssumption DEF PlannedGroup
  <2> QED
    BY <1>2, <2>2, <2>5 DEF PlanOpen, remote
<1>3. ASSUME NEW p \in Intents, PlanClose(p)
      PROVE  /\ \E i \in Intents : PlannedGroup(i)
             /\ UNCHANGED <<orders, pc, w, sent>>
             /\ \A r \in Intents : positions'[r].qty = positions[r].qty
             /\ \A r \in Intents : positions'[r].status # positions[r].status =>
                  positions[r].status = "open"
  <2> DEFINE q == positions[p].qty
  <2>1. PICK i \in Unplanned :
          /\ intents' = [intents EXCEPT ![i] = IntentRow("close", p, api = "emergency")]
          /\ legs' = [legs EXCEPT ![<<i, "spot">>] = LegRow("spot", "sell", q),
                                  ![<<i, "perp">>] = LegRow("perp", "buy", q)]
          /\ positions' = [positions EXCEPT ![p].status = "closing", ![p].closer = i]
    BY <1>3 DEF PlanClose
  <2>2. i \in Intents /\ intents[i].status = "none"
    BY DEF Unplanned
  <2>3. q > 0 /\ positions[p].status = "open"
    BY <1>3 DEF PlanClose, Closable, QuantityInv
  <2>4. /\ \A r \in Intents : positions'[r].qty = positions[r].qty
        /\ \A r \in Intents : positions'[r].status # positions[r].status =>
             positions[r].status = "open"
    BY <2>1, <2>3 DEF TypeOK, PositionRows
  <2> HIDE DEF q
  <2>5. /\ legs'[<<i, "spot">>] = LegRow("spot", "sell", q)
        /\ legs'[<<i, "perp">>] = LegRow("perp", "buy", q)
        /\ \A l \in LegIds \ Primary(i) : legs'[l] = legs[l]
    BY <1>0, <2>1, <2>2 DEF TypeOK
  <2>6. /\ intents'[i].status = "planned" /\ intents'[i].action = "close"
        /\ \A j \in Intents \ {i} : intents'[j] = intents[j]
    BY <2>1, <2>2 DEF TypeOK, IntentRow
  <2>7. PlannedGroup(i)
    BY <1>1, <2>2, <2>3, <2>5, <2>6 DEF PlannedGroup
  <2> QED
    BY <1>3, <2>2, <2>4, <2>7 DEF PlanClose, remote
<1> QED
  BY <1>2, <1>3 DEF Plans

---------------------------------------------------------------------------
(* What recording an outcome or looking an order up makes of its row *)

SameTerms(leg, old) ==
    /\ leg.qty = old.qty /\ leg.market = old.market /\ leg.side = old.side
    /\ leg.tol = old.tol /\ leg.target = old.target

\* The row a lookup starts from, before fills are read.
Starts(l, leg) ==
    /\ leg \in LegRows /\ Agrees(orders[l], leg) /\ SameTerms(leg, legs[l])
    /\ leg.filled = legs[l].filled
    /\ legs[l].status \in Terminal \cup Untouched => leg = legs[l]
    /\ leg.status \in Untouched => legs[l].status \in Untouched

RowMoves(l) ==
    /\ \A m \in LegIds \ {l} : legs'[m] = legs[m]
    /\ UNCHANGED <<orders, intents, positions, sent>>
    /\ SameTerms(legs'[l], legs[l]) /\ Agrees(orders[l], legs'[l])
    /\ legs[l].status \in Untouched => legs'[l] = legs[l]
    /\ legs'[l].status \in Untouched => legs[l].status \in Untouched
    /\ legs[l].status \in Terminal => legs'[l].status \in Terminal
    /\ Final(l) => legs'[l].filled = legs[l].filled

LEMMA LookupStarts ==
    ASSUME TypeOK, AgreeInv, NEW l \in LegIds, LooksUp(l)
    PROVE  \E leg \in LegRows, ok \in BOOLEAN :
             /\ Starts(l, leg) /\ (ok => w.ok)
             /\ (leg.linked /\ ReadFills(l, leg, ok)) \/ (~leg.linked /\ Unlinked(l, leg, ok))
<1> DEFINE old == legs[l]
           o == orders[l]
           found == [old EXCEPT !.linked = TRUE, !.status = RemoteStatus(old, o)]
<1>1. old \in LegRows /\ o \in OrderRows /\ Agrees(o, old) /\ w.ok \in BOOLEAN
  BY DEF TypeOK, AgreeInv, WorkerMemory
<1>2. Starts(l, old)
  BY <1>1 DEF Starts, SameTerms
<1>3. CASE LookupFound(l)
  <2>1. /\ old.status \in Recoverable /\ o.state \in {"live", "done", "rejected"}
        /\ ReadFills(l, found, w.ok)
    BY <1>3 DEF LookupFound, Listed
  <2>2. found \in LegRows /\ Agrees(o, found)
    BY <1>1, <2>1, FoundType, FoundAgrees
  <2>3. /\ SameTerms(found, old) /\ found.filled = old.filled /\ found.linked
        /\ found.status = RemoteStatus(old, o)
    BY <1>1 DEF LegRows, SameTerms
  <2>4. found.status \notin Untouched
    BY <2>1, <2>3 DEF RemoteStatus, Recoverable, Untouched
  <2> HIDE DEF found
  <2>5. Starts(l, found)
    BY <2>1, <2>2, <2>3, <2>4 DEF Starts, Recoverable, Terminal, Untouched
  <2> QED
    BY <1>1, <2>1, <2>2, <2>3, <2>5
<1>4. CASE LookupMissing(l)
  <2> DEFINE lost == NotFound(old)
  <2>1. /\ old.status \in Recoverable /\ o.state \notin {"live", "done"}
        /\ (lost.linked /\ ReadFills(l, lost, FALSE)) \/ (~lost.linked /\ Unlinked(l, lost, w.ok))
    BY <1>4 DEF LookupMissing, Listed
  <2>2. lost \in LegRows /\ Agrees(o, lost)
    BY <1>1, <2>1, NotFoundType, MissingAgrees
  <2>3. /\ SameTerms(lost, old) /\ lost.filled = old.filled
        /\ lost.status = old.status \/ lost.status = "failed"
    BY <1>1 DEF LegRows, SameTerms, NotFound
  <2> HIDE DEF lost
  <2>4. Starts(l, lost)
    BY <2>1, <2>2, <2>3 DEF Starts, Recoverable, Terminal, Untouched
  <2> QED
    BY <1>1, <2>1, <2>2, <2>4
<1>5. CASE LookupIncomplete(l)
  <2>1. (old.linked /\ ReadFills(l, old, FALSE)) \/ (~old.linked /\ Unlinked(l, old, FALSE))
    BY <1>5 DEF LookupIncomplete
  <2> QED
    BY <1>1, <1>2, <2>1
<1>6. CASE NoLookup(l)
  <2>1. (old.linked /\ ReadFills(l, old, w.ok)) \/ (~old.linked /\ Unlinked(l, old, w.ok))
    BY <1>6 DEF NoLookup
  <2> QED
    BY <1>1, <1>2, <2>1
<1> QED
  BY <1>3, <1>4, <1>5, <1>6 DEF LooksUp

LEMMA LookupMoves ==
    ASSUME TypeOK, AgreeInv, NEW l \in LegIds, LooksUp(l)
    PROVE  /\ RowMoves(l) /\ UNCHANGED pc /\ pc = "legs"
           /\ w'.todo = w.todo \ {l} /\ w'.send = w.send /\ w'.await = w.await
           /\ w'.resp = w.resp /\ w'.queue = w.queue
           /\ w'.ok => w.ok /\ (legs'[l].status \in Terminal => legs'[l].filled = orders[l].filled)
<1>1. PICK leg \in LegRows, ok \in BOOLEAN :
        /\ Starts(l, leg) /\ (ok => w.ok)
        /\ (leg.linked /\ ReadFills(l, leg, ok)) \/ (~leg.linked /\ Unlinked(l, leg, ok))
  BY LookupStarts
<1>2. UNCHANGED <<orders, intents, positions, sent, pc>> /\ pc = "legs"
  BY DEF LooksUp, LookupFound, LookupMissing, LookupIncomplete, NoLookup, remote
<1>3. orders[l] \in OrderRows /\ legs[l] \in LegRows /\ Agrees(orders[l], legs[l])
  BY DEF TypeOK, AgreeInv
<1>4. CASE ~leg.linked /\ Unlinked(l, leg, ok)
  <2>1. /\ legs'[l] = leg /\ \A m \in LegIds \ {l} : legs'[m] = legs[m]
        /\ w'.todo = w.todo \ {l} /\ w'.send = w.send /\ w'.await = w.await
        /\ w'.resp = w.resp /\ w'.queue = w.queue
        /\ w'.ok => w.ok
    BY <1>1, <1>4 DEF Unlinked, TypeOK, WorkerMemory
  <2>2. leg.status \in Terminal => leg.filled = orders[l].filled
    BY <1>1, <1>3, <1>4 DEF Starts, Agrees, OrderRows, LegRows
  <2>3. RowMoves(l)
    BY <1>1, <1>2, <2>1 DEF RowMoves, Starts
  <2> QED
    BY <1>2, <2>1, <2>2, <2>3
<1>5. ASSUME leg.linked, NEW f \in {leg.filled, orders[l].filled}, NEW b \in BOOLEAN,
             legs' = [legs EXCEPT ![l] = WithFills(leg, f)],
             w' = [w EXCEPT !.todo = @ \ {l}, !.ok = b],
             b => w.ok /\ f = orders[l].filled
      PROVE  /\ RowMoves(l) 
             /\ w'.todo = w.todo \ {l} /\ w'.send = w.send /\ w'.await = w.await
             /\ w'.resp = w.resp /\ w'.queue = w.queue
             /\ w'.ok => w.ok /\ (legs'[l].status \in Terminal => legs'[l].filled = orders[l].filled)
  <2> DEFINE new == WithFills(leg, f)
  <2>1. /\ Agrees(orders[l], new) /\ new.filled = f
        /\ leg.status \in Terminal => new.status \in Terminal
    BY <1>1, <1>3, <1>5, FillsAgree DEF Starts
  <2>2. SameTerms(new, legs[l]) /\ new.linked = leg.linked
    BY <1>1 DEF Starts, SameTerms, WithFills, LegRows
  <2>3. leg.status \notin Untouched /\ new.status \notin Untouched
    BY <1>1, <1>5, <2>1, <2>2 DEF Starts, Agrees
  <2> HIDE DEF new
  <2>4. legs'[l] = new /\ \A m \in LegIds \ {l} : legs'[m] = legs[m]
    BY <1>5 DEF TypeOK, new
  <2>5. legs[l].status \notin Untouched
    BY <1>1, <2>3 DEF Starts
  <2>6. Final(l) => new.filled = legs[l].filled
    BY <1>1, <1>5, <2>1 DEF Final, Starts
  <2>7. legs[l].status \in Terminal => new.status \in Terminal
    BY <1>1, <2>1 DEF Starts
  <2>8. RowMoves(l)
    BY <1>2, <2>1, <2>2, <2>3, <2>4, <2>5, <2>6, <2>7 DEF RowMoves
  <2>9. /\ w'.todo = w.todo \ {l} /\ w'.send = w.send /\ w'.await = w.await
        /\ w'.resp = w.resp /\ w'.queue = w.queue /\ w'.ok = b
    BY <1>5 DEF TypeOK, WorkerMemory
  <2> QED
    BY <1>5, <2>1, <2>4, <2>8, <2>9
<1>6. CASE leg.linked /\ ReadFills(l, leg, ok)
  BY <1>1, <1>2, <1>5, <1>6 DEF ReadFills
<1> QED
  BY <1>1, <1>4, <1>6

LEMMA RecordMoves ==
    ASSUME TypeOK, JournalInv, PairInv, AgreeInv, HoldInv, NEW l \in LegIds, Records(l)
    PROVE  RowMoves(l) /\ pc = "place"
<1> DEFINE old == legs[l]
<1>1. old \in LegRows /\ orders[l] \in OrderRows /\ Agrees(orders[l], old)
  BY DEF TypeOK, AgreeInv
<1>2. UNCHANGED <<orders, intents, positions, sent>> /\ pc = "place"
  BY DEF Records, SkipSpot, RecordOutcome, remote
<1>3. old.status \notin Untouched
  <2>1. Journaled(l)
    BY DEF Records, SkipSpot, RecordOutcome, JournalInv, JournaledFirst, HoldInv
  <2> QED
    BY <2>1 DEF Journaled, Untouched
<1>4. PICK s \in {"acknowledged", "unknown", "failed"}, b \in BOOLEAN :
        /\ legs' = [legs EXCEPT ![l] = [old EXCEPT
                      !.status = IF old.status = "submitted" THEN s ELSE old.status,
                      !.linked = old.linked \/ b]]
        /\ s = "unknown" => orders[l].state # "inflight"
        /\ s = "failed" => orders[l].state \in {"none", "rejected"}
  <2>1. CASE SkipSpot(l)
    <3>1. orders[l].state = "none"
      BY <2>1 DEF SkipSpot, HoldInv, PairInv
    <3>2. legs' = [legs EXCEPT ![l] = [old EXCEPT
                     !.status = IF old.status = "submitted" THEN "failed" ELSE old.status,
                     !.linked = old.linked \/ FALSE]]
      BY <1>1, <2>1 DEF SkipSpot, TypeOK, LegRows
    <3> QED
      BY <3>1, <3>2
  <2>2. CASE RecordOutcome(l)
    <3> DEFINE s == RecordedStatus(l[2], w.resp[l[2]])
    <3>1. /\ s \in {"acknowledged", "unknown", "failed"}
          /\ s = "failed" => w.resp[l[2]] = "reject"
      BY DEF RecordedStatus
    <3>2. legs' = [legs EXCEPT ![l].status = IF @ = "submitted" THEN s ELSE @,
                               ![l].linked = @ \/ s = "acknowledged"]
      BY <2>2 DEF RecordOutcome
    <3>3. /\ w.resp[l[2]] # "none" /\ l \in w.await
      BY <2>2 DEF RecordOutcome
    <3> HIDE DEF s
    <3>4. legs' = [legs EXCEPT ![l] = [old EXCEPT
                     !.status = IF old.status = "submitted" THEN s ELSE old.status,
                     !.linked = old.linked \/ s = "acknowledged"]]
      BY <1>1, <3>2 DEF TypeOK, LegRows
    <3>5. /\ orders[l].state # "inflight"
          /\ s = "failed" => orders[l].state = "rejected"
      BY <3>1, <3>3 DEF HoldInv
    <3> QED
      BY <3>1, <3>4, <3>5
  <2> QED
    BY <2>1, <2>2 DEF Records
<1> DEFINE new == [old EXCEPT
                     !.status = IF old.status = "submitted" THEN s ELSE old.status,
                     !.linked = old.linked \/ b]
<1>5. /\ new.status = (IF old.status = "submitted" THEN s ELSE old.status)
      /\ new.linked = (old.linked \/ b)
      /\ new.filled = old.filled /\ SameTerms(new, old) /\ new \in LegRows
  BY <1>1, <1>4 DEF LegRows, SameTerms, LegStatuses
<1>6. legs'[l] = new /\ \A m \in LegIds \ {l} : legs'[m] = legs[m]
  BY <1>4 DEF TypeOK
<1> HIDE DEF new
<1>7. Agrees(orders[l], new)
  BY <1>1, <1>3, <1>4, <1>5, OutcomeAgrees DEF SameTerms
<1>8. new.status \notin Untouched /\ (old.status \in Terminal => new.status \in Terminal)
  BY <1>3, <1>5 DEF Untouched, Terminal
<1> QED
  BY <1>2, <1>3, <1>5, <1>6, <1>7, <1>8 DEF RowMoves

---------------------------------------------------------------------------
(* Rows and orders agree in every state *)

LEMMA SameAgrees ==
    ASSUME AgreeInv, NEW l \in LegIds, legs'[l] = legs[l], orders'[l] = orders[l]
    PROVE  Agrees(orders[l], legs[l])'
BY DEF AgreeInv

LEMMA PreparedAgree ==
    ASSUME TypeOK, TypeOK', AgreeInv, QuantityInv, NEW i \in Intents,
           PrepareLiveSubmission(i) \/ PrepareLiveCompensation(i) \/ Asks(i)
    PROVE  AgreeInv'
<1> DEFINE c == <<i, "comp">>
<1>0. c \in LegIds /\ Primary(i) \subseteq LegIds /\ (\A l \in Primary(i) : l[2] # "comp")
  BY LegIdsFacts DEF Kinds, Primary
<1>1. /\ \A l \in LegIds : orders[l] \in OrderRows /\ legs[l] \in LegRows /\ legs'[l] \in LegRows
      /\ UNCHANGED orders
  BY DEF TypeOK, PrepareLiveSubmission, PrepareLiveCompensation, Asks, Settle, remote
<1>2. \A l \in LegIds : legs[l].status \in Untouched =>
        orders[l].state = "none" /\ legs[l].filled = 0 /\ ~legs[l].linked
  BY <1>1 DEF AgreeInv, Agrees, Never, OrderRows, LegRows
<1>3. CASE PrepareLiveSubmission(i)
  <2> SUFFICES ASSUME NEW l \in LegIds PROVE Agrees(orders[l], legs[l])'
    BY DEF AgreeInv
  <2>1. CASE l \in Primary(i)
    <3>1. legs[l].status = "created" /\ legs'[l] = [legs[l] EXCEPT !.status = "submitted"]
      BY <1>3, <2>1 DEF PrepareLiveSubmission
    <3>2. legs[l].qty > 0
      BY <1>0, <2>1, <3>1 DEF QuantityInv
    <3>3. /\ legs'[l].status = "submitted" /\ legs'[l].qty = legs[l].qty
          /\ legs'[l].filled = legs[l].filled /\ legs'[l].linked = legs[l].linked
      BY <1>1, <3>1 DEF LegRows
    <3> QED
      BY <1>1, <1>2, <3>1, <3>2, <3>3, NewLegAgrees DEF AgreeInv, Untouched
  <2>2. CASE l \notin Primary(i)
    BY <1>1, <1>3, <2>2, SameAgrees DEF PrepareLiveSubmission
  <2> QED
    BY <2>1, <2>2
<1>4. CASE PrepareLiveCompensation(i) /\ legs' # legs
  <2>1. /\ legs[c].status = "created" /\ pc = "compPrepare" /\ i = w.cur
        /\ legs' = [legs EXCEPT ![c].status = "submitted", ![c].qty = Executable(c),
                                ![c].tol = Grid(c)]
    BY <1>4 DEF PrepareLiveCompensation
  <2>2. Executable(c) > 0
    BY <2>1 DEF QuantityInv
  <2>3. /\ legs'[c].status = "submitted" /\ legs'[c].qty = Executable(c)
        /\ legs'[c].filled = legs[c].filled /\ legs'[c].linked = legs[c].linked
        /\ \A l \in LegIds \ {c} : legs'[l] = legs[l]
    BY <1>0, <2>1 DEF TypeOK, LegRows
  <2>4. Agrees(orders[c], legs'[c])
    BY <1>0, <1>1, <1>2, <2>1, <2>2, <2>3, NewLegAgrees DEF AgreeInv, Untouched
  <2> QED
    BY <1>1, <2>3, <2>4, SameAgrees DEF AgreeInv
<1>5. CASE Asks(i)
  <2>1. legs[c].status = "absent" /\ legs' = [legs EXCEPT ![c] = CompensationLeg(i)]
    BY <1>5 DEF Asks, CompensationRequired, Comp
  <2>2. /\ CompensationLeg(i).status = "created" /\ CompensationLeg(i).filled = 0
        /\ ~CompensationLeg(i).linked
    BY DEF CompensationLeg, LegRow
  <2>3. legs'[c] = CompensationLeg(i) /\ \A l \in LegIds \ {c} : legs'[l] = legs[l]
    BY <1>0, <2>1 DEF TypeOK
  <2>4. Agrees(orders[c], legs'[c])
    BY <1>0, <1>1, <1>2, <2>1, <2>2, <2>3, NewLegAgrees DEF AgreeInv, Untouched
  <2> QED
    BY <1>1, <2>3, <2>4, SameAgrees DEF AgreeInv
<1>6. CASE UNCHANGED legs
  BY <1>1, <1>6 DEF AgreeInv
<1> QED
  BY <1>3, <1>4, <1>5, <1>6

LEMMA OrdersAgree ==
    ASSUME TypeOK, TypeOK', JournalInv, PairInv, AgreeInv, HoldInv, UNCHANGED legs,
           Market \/ Observe \/ \E l \in LegIds : Submit(l)
    PROVE  AgreeInv'
<1>1. \A l \in LegIds : /\ orders[l] \in OrderRows /\ orders'[l] \in OrderRows
                        /\ legs[l] \in LegRows /\ Agrees(orders[l], legs[l])
  BY DEF TypeOK, AgreeInv
<1> DEFINE Same(l) == \A m \in LegIds \ {l} : orders'[m] = orders[m]
<1>2. ASSUME NEW l \in LegIds, Same(l), Agrees(orders'[l], legs[l]) PROVE AgreeInv'
  BY <1>2, SameAgrees DEF AgreeInv
<1>3. ASSUME NEW l \in LegIds, Arrive(l) PROVE AgreeInv'
  <2>1. PICK s \in {"live", "rejected", "lost"} : orders' = [orders EXCEPT ![l].state = s]
    BY <1>3 DEF Arrive
  <2>2. orders'[l] = [orders[l] EXCEPT !.state = s] /\ Same(l) /\ orders[l].state = "inflight"
    BY <1>3, <2>1 DEF Arrive, TypeOK
  <2>3. Agrees([orders[l] EXCEPT !.state = s], legs[l])
    BY <1>1, <2>2, ArrivalAgrees
  <2>4. Agrees(orders'[l], legs[l])
    BY <2>2, <2>3
  <2> QED
    BY <1>2, <2>2, <2>4
<1>4. ASSUME NEW l \in LegIds, Trade(l) PROVE AgreeInv'
  <2>1. PICK q \in Fillable(l) :
          orders' = [orders EXCEPT ![l].filled = @ + q,
                                   ![l].state = IF orders[l].filled + q = legs[l].qty
                                                THEN "done" ELSE "live"]
    BY <1>4 DEF Trade
  <2>2. legs[l].qty \in Nat /\ orders[l].filled \in Nat
    BY <1>1 DEF OrderRows, LegRows
  <2>3. q \in Nat /\ q <= legs[l].qty - orders[l].filled
    BY <2>2 DEF Fillable
  <2>4. /\ orders'[l].filled = orders[l].filled + q
        /\ orders'[l].state = IF orders[l].filled + q = legs[l].qty THEN "done" ELSE "live"
        /\ Same(l) /\ orders[l].state = "live"
    BY <1>1, <1>4, <2>1 DEF Trade, TypeOK, OrderRows
  <2>5. Agrees(orders'[l], legs[l])
    BY <1>1, <2>3, <2>4, TradeAgrees
  <2> QED
    BY <1>2, <2>4, <2>5
<1>5. ASSUME NEW l \in LegIds, Expire(l) PROVE AgreeInv'
  <2>1. /\ orders'[l] = [orders[l] EXCEPT !.state = "done"] /\ Same(l)
        /\ orders[l].state = "live"
    BY <1>5 DEF Expire, TypeOK
  <2> QED
    BY <1>1, <1>2, <2>1, EndAgrees
<1>6. ASSUME NEW l \in LegIds, Submit(l) PROVE AgreeInv'
  <2>1. orders'[l] = [orders[l] EXCEPT !.state = "inflight"] /\ Same(l) /\ l \in w.send
    BY <1>6 DEF Submit, TypeOK
  <2>2. orders[l].state = "none" /\ legs[l].status = "submitted"
    BY <2>1 DEF HoldInv, PairInv
  <2> QED
    BY <1>1, <1>2, <2>1, <2>2, SentAgrees
<1>7. CASE Observe
  <2>1. PICK C \in SUBSET LiveOrders :
          orders' = [l \in LegIds |-> IF l \in C THEN [orders[l] EXCEPT !.state = "done"]
                                      ELSE orders[l]]
    BY <1>7 DEF Observe
  <2>2. \A l \in LegIds : \/ orders'[l] = orders[l]
                          \/ /\ orders[l].state = "live"
                             /\ orders'[l] = [orders[l] EXCEPT !.state = "done"]
    BY <2>1 DEF LiveOrders
  <2>3. \A l \in LegIds : Agrees(orders'[l], legs[l])
    BY <1>1, <2>2, EndAgrees
  <2> QED
    BY <2>3 DEF AgreeInv
<1> QED
  BY <1>3, <1>4, <1>5, <1>6, <1>7 DEF Market

LEMMA AgreeStep ==
    ASSUME TypeOK, TypeOK', JournalInv, PairInv, AgreeInv, QuantityInv, HoldInv, [Next]_vars
    PROVE  AgreeInv'
<1>1. CASE Plans
  <2>1. PICK i \in Intents : PlannedGroup(i)
    BY <1>1, PlansGroup
  <2>2. UNCHANGED orders
    BY <1>1, PlansGroup
  <2> SUFFICES ASSUME NEW l \in LegIds PROVE Agrees(orders[l], legs[l])'
    BY DEF AgreeInv
  <2>3. CASE l \in Primary(i)
    <3>1. orders[l].state = "none"
      BY <2>1, <2>3 DEF PlannedGroup, JournalInv, JournaledFirst, Journaled, PairInv, Primary, TypeOK
    <3>2. /\ legs'[l].status = "created" /\ legs'[l].filled = 0 /\ ~legs'[l].linked
      BY <2>1, <2>3 DEF PlannedGroup, Primary
    <3>3. legs[l] \in LegRows /\ legs'[l] \in LegRows /\ orders[l] \in OrderRows
      BY DEF TypeOK
    <3> QED
      BY <2>2, <3>1, <3>2, <3>3, NewLegAgrees DEF AgreeInv
  <2>4. CASE l \notin Primary(i)
    BY <2>1, <2>2, <2>4, SameAgrees DEF PlannedGroup
  <2> QED
    BY <2>3, <2>4
<1>2. ASSUME NEW i \in Intents,
             PrepareLiveSubmission(i) \/ PrepareLiveCompensation(i) \/ Asks(i)
      PROVE  AgreeInv'
  BY <1>2, PreparedAgree
<1>3. ASSUME NEW l \in LegIds, Records(l) \/ LooksUp(l)
      PROVE  AgreeInv'
  <2>1. RowMoves(l)
    BY <1>3, RecordMoves, LookupMoves
  <2> QED
    BY <2>1, SameAgrees DEF AgreeInv, RowMoves
<1>4. CASE UNCHANGED legs
  <2>1. CASE Market \/ Observe \/ \E l \in LegIds : Submit(l)
    BY <1>4, <2>1, OrdersAgree
  <2>2. CASE ~(Market \/ Observe \/ \E l \in LegIds : Submit(l))
    BY <1>4, <2>2, OrderWriters, SameAgrees DEF AgreeInv
  <2> QED
    BY <2>1, <2>2
<1> QED
  BY <1>1, <1>2, <1>3, <1>4, LegWriters

---------------------------------------------------------------------------
(* No leg and no open position is of no quantity *)

Stand(row) == row.status \in {"open", "closing"} => row.qty > 0

LEMMA BookStands ==
    ASSUME TypeOK, QuantityInv, NEW i \in Intents, NEW qty \in Nat, Book(i, qty),
           intents[i].action = "open" => qty > 0,
           intents[i].action = "close" => qty <= positions[intents[i].pos].qty
    PROVE  \A p \in Intents : Stand(positions'[p])
<1>1. \A p \in Intents : Stand(positions[p]) /\ positions[p] \in PositionRows
  BY DEF QuantityInv, Stand, TypeOK
<1>2. CASE intents[i].action = "open"
  <2>1. positions' = [positions EXCEPT ![i] = [status |-> "open", qty |-> qty, closer |-> 0]]
    BY <1>2 DEF Book
  <2> QED
    BY <1>1, <1>2, <2>1 DEF TypeOK, Stand
<1>3. CASE intents[i].action # "open"
  <2> DEFINE p == intents[i].pos
             rest == positions[p].qty - qty
             row == IF rest = 0 THEN [positions[p] EXCEPT !.qty = 0, !.status = "closed"]
                    ELSE [status |-> "open", qty |-> rest, closer |-> 0]
  <2>1. positions' = [positions EXCEPT ![p] = row]
    BY <1>3 DEF Book
  <2>2. CASE p \in Intents
    <3>1. rest \in Nat
      BY <1>1, <1>3, <2>2 DEF PositionRows, TypeOK, IntentRows
    <3>2. Stand(row)
      BY <1>1, <2>2, <3>1 DEF Stand, PositionRows
    <3> HIDE DEF row
    <3>3. \A r \in Intents : positions'[r] = IF r = p THEN row ELSE positions[r]
      BY <2>1 DEF TypeOK
    <3> QED
      BY <1>1, <3>2, <3>3
  <2>3. CASE p \notin Intents
    <3> HIDE DEF row
    <3>1. positions' = positions
      BY <2>1, <2>3 DEF TypeOK
    <3> QED
      BY <1>1, <3>1
  <2> QED
    BY <2>2, <2>3
<1> QED
  BY <1>2, <1>3

\* What is booked of a group that needed a protection order.
LEMMA AdjustedType ==
    ASSUME TypeOK, NEW i \in Intents
    PROVE  /\ Adjusted(i, "spot") \in Int /\ Adjusted(i, "perp") \in Int
           /\ Spot(i) \in LegRows /\ Perp(i) \in LegRows /\ Comp(i) \in LegRows
<1>1. /\ Spot(i) \in LegRows /\ Perp(i) \in LegRows /\ Comp(i) \in LegRows
  BY LegIdsFacts DEF TypeOK, Spot, Perp, Comp, Kinds
<1> QED
  BY <1>1 DEF Adjusted, LegRows, Spot, Perp, Comp

LEMMA SettledStands ==
    ASSUME TypeOK, QuantityInv, NEW i \in Intents, Settle(i)
    PROVE  \A p \in Intents : Stand(positions'[p])
<1>1. \A p \in Intents : Stand(positions[p])
  BY DEF QuantityInv, Stand
<1>2. CASE UNCHANGED positions
  BY <1>1, <1>2
<1>3. CASE NoFills(i)
  <2>1. positions' = Released(i)
    BY <1>3 DEF NoFills
  <2> QED
    BY <1>1, <2>1 DEF Released, Stand, TypeOK, PositionRows
<1>4. CASE Balanced(i) /\ ~UNCHANGED positions
  <2>1. /\ Spot(i).filled > 0 /\ Book(i, Spot(i).filled)
        /\ intents[i].action = "close" => Spot(i).filled <= positions[intents[i].pos].qty
    BY <1>4 DEF Balanced, ManualReview
  <2>2. Spot(i).filled \in Nat
    BY AdjustedType DEF LegRows
  <2> QED
    BY <2>1, <2>2, BookStands
<1>5. CASE Compensated(i) /\ ~UNCHANGED positions
  <2> DEFINE common == Adjusted(i, "perp")
  <2>1. /\ SafelyCompensated(i) /\ Book(i, common)
        /\ ~(intents[i].action = "open" /\ common = 0)
        /\ intents[i].action = "close" => common <= positions[intents[i].pos].qty
    BY <1>5 DEF Compensated, ManualReview
  <2>2. common \in Nat
    BY <2>1, AdjustedType DEF SafelyCompensated
  <2> HIDE DEF common
  <2> QED
    BY <2>1, <2>2, BookStands
<1> QED
  BY <1>2, <1>3, <1>4, <1>5 DEF Settle, SettlementWaits, CompensationRequired, db

\* How the worker comes to prepare a protection order.
LEMMA StepsToPrepare ==
    ASSUME TypeOK, [Next]_vars, pc' = "compPrepare"
    PROVE  UNCHANGED <<w, pc>> \/ \E i \in Intents : CompensationStart(i)
<1>1. CASE UNCHANGED vars \/ Api \/ Market
  BY <1>1 DEF vars, db, Api, PauseExecution, ResumeExecution, RequestReconciliation,
              Confirm, ConfirmationFails, PlanOpen, PlanClose, Market, Arrive, Trade, Expire
<1>2. CASE Crash
  BY <1>2 DEF Crash
<1>0. ServiceDone => pc' # "compPrepare"
  BY DEF ServiceDone, TypeOK, WorkerMemory
<1>3. CASE Worker
  <2>1. ASSUME NEW i \in Intents,
               \/ ExpirePlanned(i) \/ PreflightPass(i) \/ PreflightFail(i)
               \/ GuardUnexecutable(i) \/ GuardUnavailable(i) \/ PrepareDenied(i)
               \/ PrepareLiveSubmission(i) \/ PrepareLiveCompensation(i) \/ Settle(i)
        PROVE  FALSE
    <3>1. ~NextCandidate(i)
      BY DEF NextCandidate
    <3> QED
      BY <1>0, <2>1, <3>1 DEF ExpirePlanned, GuardUnexecutable, DropPlanned, PreflightPass,
         PreflightFail, GuardUnavailable, PrepareDenied, PrepareLiveSubmission,
         PrepareLiveCompensation, Settle
  <2>2. ASSUME NEW l \in LegIds,
               \/ LookupFound(l) \/ LookupMissing(l) \/ LookupIncomplete(l) \/ NoLookup(l)
               \/ Submit(l) \/ Respond(l) \/ SkipSpot(l) \/ RecordOutcome(l)
        PROVE  FALSE
    BY <1>0, <2>2 DEF LookupFound, LookupMissing, LookupIncomplete, NoLookup, Submit, Respond,
                      SkipSpot, RecordOutcome
  <2>3. ~CompensationSkip
    BY <1>0 DEF CompensationSkip
  <2>4. ~(\/ ExecRead \/ ReconRead \/ MarkReconciling \/ Observe \/ LegsDone
          \/ AccountResult \/ AccountError \/ FinalRead \/ SetFinal)
    BY DEF ExecRead, ReconRead, MarkReconciling, Observe, LegsDone, AccountResult,
           AccountError, FinalRead, SetFinal
  <2> QED
    BY <1>3, <2>1, <2>2, <2>3, <2>4 DEF Worker
<1> QED
  BY <1>1, <1>2, <1>3 DEF Next

Sized == \A l \in LegIds : l[2] # "comp" /\ legs[l].status # "absent" => legs[l].qty > 0

LEMMA SizedStep ==
    ASSUME TypeOK, JournalInv, PairInv, AgreeInv, QuantityInv, HoldInv, [Next]_vars
    PROVE  Sized'
<1>0. Sized
  BY DEF QuantityInv, Sized
<1>1. CASE Plans
  <2>1. PICK i \in Intents : PlannedGroup(i)
    BY <1>1, PlansGroup
  <2>2. \A l \in LegIds : legs'[l] = legs[l] \/ legs'[l].qty > 0
    BY <2>1 DEF PlannedGroup, Primary
  <2> QED
    BY <1>0, <2>2 DEF Sized
<1>2. ASSUME NEW i \in Intents, PrepareLiveSubmission(i) PROVE Sized'
  <2>1. /\ legs' = [l \in LegIds |-> IF l \in Primary(i)
                                     THEN [legs[l] EXCEPT !.status = "submitted"]
                                     ELSE legs[l]]
        /\ \A l \in Primary(i) : legs[l].status = "created"
    BY <1>2 DEF PrepareLiveSubmission
  <2>2. \A l \in LegIds : /\ legs'[l].qty = legs[l].qty
                          /\ legs[l].status = "absent" => legs'[l].status = "absent"
    BY <2>1 DEF TypeOK, LegRows
  <2> QED
    BY <1>0, <2>2 DEF Sized
<1>3. ASSUME NEW i \in Intents, PrepareLiveCompensation(i) \/ Asks(i) PROVE Sized'
  <2>1. \A l \in LegIds : l[2] # "comp" => legs'[l] = legs[l]
    BY <1>3 DEF PrepareLiveCompensation, Asks, CompensationRequired, TypeOK
  <2> QED
    BY <1>0, <2>1 DEF Sized
<1>4. ASSUME NEW l \in LegIds, Records(l) \/ LooksUp(l) PROVE Sized'
  <2>1. RowMoves(l)
    BY <1>4, RecordMoves, LookupMoves
  <2>2. \A m \in LegIds : /\ legs'[m].qty = legs[m].qty
                          /\ legs[m].status = "absent" => legs'[m].status = "absent"
    BY <2>1 DEF RowMoves, SameTerms, Untouched
  <2> QED
    BY <1>0, <2>2 DEF Sized
<1>5. CASE UNCHANGED legs
  BY <1>0, <1>5 DEF Sized
<1> QED
  BY <1>1, <1>2, <1>3, <1>4, <1>5, LegWriters

LEMMA QuantityStep ==
    ASSUME TypeOK, JournalInv, PairInv, AgreeInv, QuantityInv, HoldInv, [Next]_vars
    PROVE  QuantityInv'
<1>1. \A p \in Intents : Stand(positions[p])
  BY DEF QuantityInv, Stand
<1>2. \A p \in Intents : Stand(positions'[p])
  <2>1. CASE Plans
    BY <1>1, <2>1, PlansGroup DEF Stand
  <2>2. ASSUME NEW i \in Intents, PrepareLiveSubmission(i)
        PROVE  \A p \in Intents : Stand(positions'[p])
    BY <1>1, <2>2 DEF PrepareLiveSubmission
  <2>3. ASSUME NEW i \in Intents, Drops(i)
        PROVE  \A p \in Intents : Stand(positions'[p])
    <3>1. positions' = Released(i)
      BY <2>3 DEF Drops, ExpirePlanned, GuardUnexecutable, DropPlanned
    <3> QED
      BY <1>1, <3>1 DEF Released, Stand, TypeOK, PositionRows
  <2> QED
    BY <1>1, <2>1, <2>2, <2>3, SettledStands, IntentWriters
<1>3. ASSUME pc' = "compPrepare"
      PROVE  (/\ w.cur \in Intents
              /\ legs[<<w.cur, "comp">>].status = "created" =>
                   Executable(<<w.cur, "comp">>) > 0)'
  <2>1. CASE \E i \in Intents : CompensationStart(i)
    <3>1. PICK i \in Intents : CompensationStart(i)
      BY <2>1
    <3>2. w'.cur = i /\ UNCHANGED legs /\ Executable(<<i, "comp">>) > 0
      BY <3>1 DEF CompensationStart, db, TypeOK, WorkerMemory
    <3> QED
      BY <3>2 DEF Executable, Grid
  <2>2. CASE UNCHANGED <<w, pc>>
    <3> DEFINE c == <<w.cur, "comp">>
    <3>1. w.cur \in Intents /\ c \in LegIds /\ (legs[c].status = "created" => Executable(c) > 0)
      BY <1>3, <2>2, LegIdsFacts DEF QuantityInv, Kinds
    <3>2. legs'[c] = legs[c]
      <4>1. CASE Plans
        <5>1. PICK i \in Intents : PlannedGroup(i)
          BY <4>1, PlansGroup
        <5> QED
          BY <3>1, <5>1 DEF PlannedGroup, Primary
      <4>2. ASSUME NEW i \in Intents,
                   PrepareLiveSubmission(i) \/ PrepareLiveCompensation(i) \/ Asks(i)
            PROVE  legs'[c] = legs[c]
        BY <1>3, <2>2, <4>2, ServiceDoneSend DEF PrepareLiveSubmission, PrepareLiveCompensation, Asks, Settle,
                          ServiceDone, TypeOK, WorkerMemory
      <4>3. \A l \in LegIds : ~Records(l) /\ ~LooksUp(l)
        BY <1>3, <2>2 DEF Records, SkipSpot, RecordOutcome, LooksUp, LookupFound, LookupMissing,
                          LookupIncomplete, NoLookup
      <4> QED
        BY <4>1, <4>2, <4>3, LegWriters
    <3>3. Executable(c)' = Executable(c)
      BY <2>2, <3>2 DEF Executable, Grid
    <3> QED
      BY <2>2, <3>1, <3>2, <3>3
  <2> QED
    BY <1>3, <2>1, <2>2, StepsToPrepare
<1> QED
  BY <1>2, <1>3, SizedStep DEF QuantityInv, Stand, Sized

---------------------------------------------------------------------------
(* What the worker holds *)

LEMMA EmptyHold ==
    ASSUME InHand' = {}, NoAnswers' PROVE HoldInv'
BY DEF HoldInv, InHand

LEMMA HoldSubmit ==
    ASSUME TypeOK, JournalInv, HoldInv, NEW l \in LegIds, Submit(l)
    PROVE  HoldInv'
<1>1. l \in w.send /\ sent[l] = 0 /\ l \notin w.await /\ w.resp[l[2]] = "none" /\ pc' = "place"
  BY DEF Submit, HoldInv
<1>2. /\ w'.send = w.send \ {l} /\ w'.await = w.await \cup {l} /\ w'.resp = w.resp
      /\ legs' = legs
  BY DEF Submit, TypeOK, WorkerMemory, db
<1>3. /\ sent'[l] = 1
      /\ \A m \in LegIds \ {l} : sent'[m] = sent[m] /\ orders'[m] = orders[m]
  BY <1>1 DEF Submit, TypeOK
<1>4. InHand' = InHand /\ w.await \subseteq LegIds /\ w.send \subseteq LegIds
  BY <1>1, <1>2 DEF InHand, TypeOK, WorkerMemory
<1>5. \A m \in w'.send : m \in w.send /\ m # l
  BY <1>2
<1>6. \A m \in w'.send : legs'[m].status = "submitted" /\ sent'[m] = 0 /\ w'.resp[m[2]] = "none"
  BY <1>2, <1>3, <1>4, <1>5 DEF HoldInv
<1>7. \A m \in w'.await :
        /\ sent'[m] > 0
        /\ w'.resp[m[2]] # "none" => orders'[m].state # "inflight"
        /\ w'.resp[m[2]] = "reject" => orders'[m].state = "rejected"
        /\ w'.resp[m[2]] = "ack" => orders'[m].state \in {"live", "done"}
  BY <1>1, <1>2, <1>3, <1>4 DEF HoldInv, Taken
<1> QED
  BY <1>1, <1>4, <1>6, <1>7 DEF HoldInv, Taken

LEMMA HoldRespond ==
    ASSUME TypeOK, HoldInv, NoneLate, NEW l \in LegIds, Respond(l)
    PROVE  HoldInv'
<1>1. /\ l \in w.await /\ orders[l].state # "inflight" /\ pc = "place"
      /\ UNCHANGED <<orders, legs, sent, pc>>
  BY DEF Respond, NoneLate, remote, db
<1>2. PICK r \in Outcomes(l) : w' = [w EXCEPT !.resp[l[2]] = r]
  BY DEF Respond
<1>3. w'.send = w.send /\ w'.await = w.await /\ InHand' = InHand
  BY <1>2 DEF TypeOK, WorkerMemory, InHand
<1>4. /\ w'.resp[l[2]] = r
      /\ r = "reject" => orders[l].state = "rejected"
      /\ r = "ack" => Taken(l)
  BY <1>1, <1>2 DEF Outcomes, Taken, TypeOK, WorkerMemory, LegIds
<1>5. ASSUME NEW m \in InHand, m # l PROVE w'.resp[m[2]] = w.resp[m[2]]
  <2>1. m \in LegIds /\ l \in InHand
    BY <1>1 DEF TypeOK, WorkerMemory, InHand
  <2>2. m[1] = l[1] /\ m = <<m[1], m[2]>> /\ l = <<l[1], l[2]>>
    BY <2>1, LegIdsFacts DEF HoldInv, LegIds
  <2>3. m[2] # l[2]
    BY <1>5, <2>2
  <2> QED
    BY <1>2, <2>3 DEF TypeOK, WorkerMemory
<1>6. \A m \in w'.send : legs'[m].status = "submitted" /\ sent'[m] = 0 /\ w'.resp[m[2]] = "none"
  <2> SUFFICES ASSUME NEW m \in w.send
               PROVE  legs'[m].status = "submitted" /\ sent'[m] = 0 /\ w'.resp[m[2]] = "none"
    BY <1>3
  <2>1. m \in InHand /\ m # l
    BY <1>1 DEF HoldInv, InHand
  <2> QED
    BY <1>1, <1>5, <2>1 DEF HoldInv
<1>7. \A m \in w'.await :
        /\ sent'[m] > 0
        /\ w'.resp[m[2]] # "none" => orders'[m].state # "inflight"
        /\ w'.resp[m[2]] = "reject" => orders'[m].state = "rejected"
        /\ w'.resp[m[2]] = "ack" => orders'[m].state \in {"live", "done"}
  BY <1>1, <1>3, <1>4, <1>5 DEF HoldInv, Taken, InHand
<1> QED
  BY <1>1, <1>3, <1>6, <1>7 DEF HoldInv, Taken

LEMMA HoldRecord ==
    ASSUME TypeOK, HoldInv, NEW l \in LegIds, Records(l)
    PROVE  HoldInv'
<1>1. UNCHANGED <<orders, sent>>
  BY DEF Records, SkipSpot, RecordOutcome, remote
<1>2. ASSUME w'.send = {}, w'.await \subseteq w.await, w'.resp = w.resp, pc' = "place"
      PROVE  HoldInv'
  BY <1>1, <1>2 DEF HoldInv, InHand, Taken
<1>3. CASE SkipSpot(l)
  <2>1. w'.send = {} /\ w'.await = w.await /\ w'.resp = w.resp /\ pc' = "place"
    BY <1>3 DEF SkipSpot, TypeOK, WorkerMemory
  <2> QED
    BY <1>2, <2>1
<1>4. CASE RecordOutcome(l) /\ ServiceDone
  BY <1>4, ServiceDoneSend, EmptiedAnswers, EmptyHold DEF InHand
<1>5. CASE RecordOutcome(l) /\ ~ServiceDone
  <2>1. /\ w'.send = {} /\ w'.await = w.await \ {l} /\ w'.resp = w.resp /\ pc' = "place"
    BY <1>5 DEF RecordOutcome, TypeOK, WorkerMemory
  <2> QED
    BY <1>2, <2>1
<1> QED
  BY <1>3, <1>4, <1>5 DEF Records

LEMMA HoldPrepare ==
    ASSUME TypeOK, JournalInv, HoldInv, NEW i \in Intents,
           PrepareLiveSubmission(i) \/ PrepareLiveCompensation(i)
    PROVE  HoldInv'
<1>1. pc # "place" /\ w.await = {} /\ NoAnswers /\ UNCHANGED sent
  BY DEF PrepareLiveSubmission, PrepareLiveCompensation, HoldInv, InHand, remote
<1>2. \A l \in LegIds : legs[l].status = "created" => sent[l] = 0
  BY DEF JournalInv, JournaledFirst, Journaled, TypeOK
<1>3. CASE PrepareLiveSubmission(i)
  <2>1. /\ w'.send = Primary(i) /\ w'.await = {} /\ pc' = "place"
        /\ \A k \in Kinds : w'.resp[k] = "none"
    BY <1>3 DEF PrepareLiveSubmission, Fresh
  <2>2. \A l \in Primary(i) : legs'[l].status = "submitted" /\ sent'[l] = 0
    BY <1>1, <1>2, <1>3, LegIdsFacts DEF PrepareLiveSubmission, TypeOK, LegRows
  <2>3. \A l \in Primary(i) : l[1] = i /\ l[2] \in Kinds
    BY DEF Primary, Kinds
  <2> QED
    BY <2>1, <2>2, <2>3 DEF HoldInv, InHand
<1>4. CASE PrepareLiveCompensation(i) /\ ServiceDone
  BY <1>4, ServiceDoneSend, EmptiedAnswers, EmptyHold DEF InHand
<1>5. CASE PrepareLiveCompensation(i) /\ ~ServiceDone
  <2> DEFINE c == <<i, "comp">>
  <2>1. /\ legs[c].status = "created" /\ w' = [w EXCEPT !.send = {c}] /\ pc' = "place"
        /\ legs' = [legs EXCEPT ![c].status = "submitted", ![c].qty = Executable(c),
                                ![c].tol = Grid(c)]
    BY <1>5 DEF PrepareLiveCompensation
  <2>2. c \in LegIds /\ c[1] = i /\ c[2] \in Kinds
    BY LegIdsFacts DEF Kinds
  <2>3. w'.send = {c} /\ w'.await = {} /\ w'.resp = w.resp
    BY <1>1, <2>1 DEF TypeOK, WorkerMemory
  <2>4. legs'[c].status = "submitted" /\ sent'[c] = 0
    BY <1>1, <1>2, <2>1, <2>2 DEF TypeOK, LegRows
  <2> HIDE DEF c
  <2> QED
    BY <1>1, <2>1, <2>2, <2>3, <2>4 DEF HoldInv, InHand, NoAnswers
<1> QED
  BY <1>3, <1>4, <1>5

\* A journaled leg that waits to be sent is not written by anybody else.
LEMMA SendKept ==
    ASSUME TypeOK, JournalInv, QuantityInv, [Next]_vars, pc = "place", NEW l \in w.send,
           \A m \in LegIds : ~Records(m)
    PROVE  legs'[l] = legs[l]
<1>1. l \in LegIds /\ intents[l[1]].status # "none"
  BY DEF JournalInv, Journaled, TypeOK, WorkerMemory
<1>2. CASE Plans
  <2>1. PICK i \in Intents : PlannedGroup(i)
    BY <1>2, PlansGroup
  <2>2. l \notin Primary(i)
    BY <1>1, <2>1 DEF PlannedGroup, Primary
  <2> QED
    BY <1>1, <2>1, <2>2 DEF PlannedGroup
<1>3. \A m \in LegIds : ~LooksUp(m)
  BY DEF LooksUp, LookupFound, LookupMissing, LookupIncomplete, NoLookup
<1>4. \A i \in Intents : ~PrepareLiveSubmission(i) /\ ~PrepareLiveCompensation(i) /\ ~Asks(i)
  BY DEF PrepareLiveSubmission, PrepareLiveCompensation, Asks, Settle
<1> QED
  BY <1>2, <1>3, <1>4, LegWriters

LEMMA HoldStep ==
    ASSUME NoneLate, TypeOK, JournalInv, QuantityInv, HoldInv, [Next]_vars
    PROVE  HoldInv'
<1>1. CASE \E l \in LegIds : Submit(l) \/ Respond(l) \/ Records(l)
  BY <1>1, HoldSubmit, HoldRespond, HoldRecord
<1>2. CASE \E i \in Intents : PrepareLiveSubmission(i) \/ PrepareLiveCompensation(i)
  BY <1>2, HoldPrepare
<1>3. CASE Crash
  BY <1>3, EmptyHold DEF Crash, Fresh, InHand, NoAnswers
<1>4. CASE /\ \A l \in LegIds : ~Submit(l) /\ ~Respond(l) /\ ~Records(l)
           /\ \A i \in Intents : ~PrepareLiveSubmission(i) /\ ~PrepareLiveCompensation(i)
           /\ ~Crash
  <2>1. WireKept
    BY <1>4, OtherWire
  <2>2. \/ UNCHANGED <<w, pc>>
        \/ pc # "place" /\ InHand' = {} /\ NoAnswers' /\ pc' # "place"
    BY <1>4, HandsElsewhere DEF Records, HoldInv
  <2>3. CASE UNCHANGED <<w, pc>>
    <3>1. \A l \in w.send : legs'[l] = legs[l]
      BY <1>4, SendKept DEF HoldInv, InHand
    <3>2. w.send \subseteq LegIds /\ w.await \subseteq LegIds
      BY DEF TypeOK, WorkerMemory
    <3>3. \A l \in w'.send : /\ legs'[l].status = "submitted" /\ sent'[l] = 0
                             /\ w'.resp[l[2]] = "none"
      BY <2>1, <2>3, <3>1, <3>2 DEF HoldInv, WireKept
    <3>4. \A l \in w'.await :
            /\ sent'[l] > 0
            /\ w'.resp[l[2]] # "none" => orders'[l].state # "inflight"
            /\ w'.resp[l[2]] = "reject" => orders'[l].state = "rejected"
            /\ w'.resp[l[2]] = "ack" => Taken(l)'
      BY <2>1, <2>3, <3>2 DEF HoldInv, WireKept
    <3> QED
      BY <2>3, <3>3, <3>4 DEF HoldInv, InHand, NoAnswers, Taken
  <2> QED
    BY <2>2, <2>3, EmptyHold
<1> QED
  BY <1>1, <1>2, <1>3, <1>4

---------------------------------------------------------------------------
(* The rows of one intent *)

\* The order of a leg that is over, or was never sent, does not move.
LEMMA OrderStill ==
    ASSUME TypeOK, AgreeInv, HoldInv, [Next]_vars, NEW l \in LegIds,
           legs[l].status \in Terminal \cup Untouched
    PROVE  orders'[l] = orders[l]
<1>1. orders[l].state \notin Waiting
  BY DEF AgreeInv, Agrees, Waiting
<1>2. ASSUME NEW m \in LegIds, Submit(m) PROVE orders'[l] = orders[l]
  <2>1. m # l
    BY <1>2 DEF Submit, HoldInv, Terminal, Untouched
  <2> QED
    BY <1>2, <2>1 DEF Submit, TypeOK
<1>3. ASSUME NEW m \in LegIds, Arrive(m) \/ Trade(m) \/ Expire(m)
      PROVE  orders'[l] = orders[l]
  <2>1. m # l
    BY <1>1, <1>3 DEF Arrive, Trade, Expire, Waiting
  <2> QED
    BY <1>3, <2>1 DEF Arrive, Trade, Expire, TypeOK
<1>4. CASE Observe
  BY <1>1, <1>4 DEF Observe, LiveOrders, Waiting
<1> QED
  BY <1>2, <1>3, <1>4, OrderWriters DEF Market

\* What recording, looking up and standing still have in common.
LegMoves(l) ==
    /\ SameTerms(legs'[l], legs[l])
    /\ legs[l].status \in Untouched => legs'[l] = legs[l]
    /\ legs'[l].status \in Untouched => legs[l].status \in Untouched
    /\ legs[l].status \in Terminal => legs'[l].status \in Terminal
    /\ Final(l) => legs'[l].filled = legs[l].filled

LEMMA StillMoves ==
    ASSUME NEW l \in LegIds, legs'[l] = legs[l] PROVE LegMoves(l)
BY DEF LegMoves, SameTerms

LEMMA RowMovesLeg ==
    ASSUME NEW l \in LegIds, NEW m \in LegIds, RowMoves(m) PROVE LegMoves(l)
<1>1. CASE l = m
  BY <1>1 DEF RowMoves, LegMoves
<1>2. CASE l # m
  BY <1>2, StillMoves DEF RowMoves
<1> QED
  BY <1>1, <1>2

LEMMA FinalStays ==
    ASSUME TypeOK, AgreeInv, HoldInv, [Next]_vars, NEW l \in LegIds, Final(l), LegMoves(l)
    PROVE  /\ Final(l)' /\ legs'[l].filled = legs[l].filled
           /\ legs[l].status \in Terminal => legs'[l].status \in Terminal
<1>1. orders'[l] = orders[l]
  BY OrderStill DEF Final
<1> QED
  BY <1>1 DEF Final, LegMoves

\* Who writes the rows of an intent.
LEMMA IntentMoves ==
    ASSUME TypeOK, JournalInv, PairInv, AgreeInv, QuantityInv, HoldInv, [Next]_vars,
           NEW i \in Intents
    PROVE  \/ PlannedGroup(i) \/ PrepareLiveSubmission(i) \/ Drops(i) \/ Settle(i)
           \/ PrepareLiveCompensation(i)
           \/ intents'[i] = intents[i] /\ \A l \in Legs(i) : LegMoves(l)
<1>0. Legs(i) \subseteq LegIds /\ \A l \in Legs(i) : l[1] = i
  BY LegIdsFacts DEF Legs, Primary
<1>1. CASE Plans
  <2>1. PICK j \in Intents : PlannedGroup(j)
    BY <1>1, PlansGroup
  <2>2. CASE j # i
    <3>1. \A l \in Legs(i) : l \notin Primary(j)
      BY <1>0, <2>2 DEF Primary
    <3> QED
      BY <1>0, <2>1, <2>2, <3>1, StillMoves DEF PlannedGroup
  <2> QED
    BY <2>1, <2>2
<1>2. ASSUME NEW j \in Intents, j # i, PrepareLiveSubmission(j)
      PROVE  intents'[i] = intents[i] /\ \A l \in Legs(i) : LegMoves(l)
  <2>1. \A l \in Legs(i) : l \notin Primary(j)
    BY <1>0, <1>2 DEF Primary
  <2>2. \A l \in Legs(i) : legs'[l] = legs[l]
    BY <1>0, <1>2, <2>1 DEF PrepareLiveSubmission
  <2>3. intents'[i] = intents[i]
    BY <1>2 DEF PrepareLiveSubmission, TypeOK
  <2> QED
    BY <1>0, <2>2, <2>3, StillMoves
<1>3. ASSUME NEW j \in Intents, j # i, Drops(j)
      PROVE  intents'[i] = intents[i] /\ \A l \in Legs(i) : LegMoves(l)
  <2>1. UNCHANGED legs /\ intents'[i] = intents[i]
    BY <1>3 DEF Drops, ExpirePlanned, GuardUnexecutable, DropPlanned, TypeOK
  <2> QED
    BY <1>0, <2>1, StillMoves
<1>4. ASSUME NEW j \in Intents, j # i, Settle(j)
      PROVE  intents'[i] = intents[i] /\ \A l \in Legs(i) : LegMoves(l)
  <2>1. intents'[i] = intents[i]
    BY <1>4 DEF Settle, SettlementWaits, db, NoFills, Balanced, CompensationRequired,
                Compensated, ManualReview, SetIntent, TypeOK
  <2>2. ASSUME NEW l \in Legs(i) PROVE legs'[l] = legs[l]
    <3>1. CASE Asks(j)
      <4>1. l # <<j, "comp">>
        BY <1>0, <1>4
      <4> QED
        BY <1>0, <3>1, <4>1 DEF Asks, CompensationRequired, TypeOK
    <3> QED
      BY <1>4, <3>1, SettledLegs
  <2> QED
    BY <1>0, <2>1, <2>2, StillMoves
<1>5. ASSUME NEW j \in Intents, j # i, PrepareLiveCompensation(j)
      PROVE  intents'[i] = intents[i] /\ \A l \in Legs(i) : LegMoves(l)
  <2>1. ASSUME NEW l \in Legs(i) PROVE legs'[l] = legs[l]
    <3>1. l # <<j, "comp">>
      BY <1>0, <1>5
    <3> QED
      BY <1>0, <1>5, <3>1 DEF PrepareLiveCompensation, TypeOK
  <2> QED
    BY <1>0, <1>5, <2>1, StillMoves DEF PrepareLiveCompensation
<1>6. ASSUME NEW m \in LegIds, Records(m) \/ LooksUp(m)
      PROVE  intents'[i] = intents[i] /\ \A l \in Legs(i) : LegMoves(l)
  <2>1. RowMoves(m)
    BY <1>6, RecordMoves, LookupMoves
  <2> QED
    BY <1>0, <2>1, RowMovesLeg DEF RowMoves
<1>7. CASE /\ ~Plans
           /\ \A j \in Intents : /\ ~PrepareLiveSubmission(j) /\ ~Drops(j) /\ ~Settle(j)
                                 /\ ~PrepareLiveCompensation(j)
           /\ \A m \in LegIds : ~Records(m) /\ ~LooksUp(m)
  <2>1. UNCHANGED intents
    BY <1>7, IntentWriters
  <2>2. UNCHANGED legs
    BY <1>7, LegWriters DEF Asks
  <2> QED
    BY <1>0, <2>1, <2>2, StillMoves
<1> QED
  BY <1>1, <1>2, <1>3, <1>4, <1>5, <1>6, <1>7

LEMMA GroupLegs ==
    ASSUME TypeOK, NEW i \in Intents
    PROVE  /\ Legs(i) = {<<i, "spot">>, <<i, "perp">>, <<i, "comp">>}
           /\ Primary(i) = {<<i, "spot">>, <<i, "perp">>}
           /\ Legs(i) \subseteq LegIds
           /\ intents[i] \in IntentRows
           /\ Spot(i) \in LegRows /\ Perp(i) \in LegRows /\ Comp(i) \in LegRows
BY AdjustedType, LegIdsFacts DEF Legs, Primary, TypeOK

\* The rows of an intent that nobody takes a decision about.
LEMMA IntentKept ==
    ASSUME TypeOK, TypeOK', AgreeInv, HoldInv, [Next]_vars, NEW i \in Intents, IntentInv(i),
           intents'[i] = intents[i], \A l \in Legs(i) : LegMoves(l)
    PROVE  IntentInv(i)'
<1> DEFINE s == <<i, "spot">>
           p == <<i, "perp">>
           c == <<i, "comp">>
<1>0. /\ Legs(i) = {s, p, c} /\ Primary(i) = {s, p} /\ Legs(i) \subseteq LegIds
      /\ s \in LegIds /\ p \in LegIds /\ c \in LegIds
  BY GroupLegs
<1>1. LegMoves(s) /\ LegMoves(p) /\ LegMoves(c)
  BY <1>0
<1>2. Sided(i) => Sided(i)'
  BY <1>1 DEF Sided, LegMoves, SameTerms, Spot, Perp
<1>3. \A l \in Legs(i) : Final(l) =>
        /\ Final(l)' /\ legs'[l].filled = legs[l].filled
        /\ legs[l].status \in Terminal => legs'[l].status \in Terminal
  BY <1>0, FinalStays
<1>4. intents[i].status \in {"none", "planned"} => \A l \in Legs(i) : legs'[l].status \in Untouched
  BY <1>0, <1>1 DEF IntentInv, LegMoves
<1>5. legs[c].status \in Untouched => legs'[c] = legs[c]
  BY <1>1 DEF LegMoves
<1>6. intents[i].status \in Over => \A l \in Legs(i) : Final(l)'
  BY <1>3 DEF IntentInv
<1>7. ASSUME intents[i].status = "compensating"
      PROVE  /\ \A l \in Primary(i) : legs'[l].status \in Terminal /\ Final(l)'
             /\ Imbalance(i)' # 0 /\ Reversed(i)'
  <2>1. /\ \A l \in Primary(i) : legs[l].status \in Terminal /\ Final(l)
        /\ Imbalance(i) # 0 /\ Reversed(i)
    BY <1>7 DEF IntentInv
  <2>2. legs'[s].filled = legs[s].filled /\ legs'[p].filled = legs[p].filled
    BY <1>0, <1>3, <2>1
  <2>3. Imbalance(i)' = Imbalance(i) /\ Excess(i)' = Excess(i)
    BY <2>2 DEF Imbalance, Excess, Spot, Perp
  <2>4. /\ legs'[<<i, Excess(i)>>].side = legs[<<i, Excess(i)>>].side
        /\ legs'[c].market = legs[c].market /\ legs'[c].side = legs[c].side
        /\ legs'[c].tol = legs[c].tol
    BY <1>1 DEF LegMoves, SameTerms, Excess
  <2>5. legs'[c].status # "absent" /\ (legs'[c].status # "created" => legs[c].status # "created")
    BY <1>1, <1>5, <2>1 DEF LegMoves, Reversed, Comp, Untouched
  <2>6. Reversed(i)'
    BY <2>1, <2>3, <2>4, <2>5 DEF Reversed, Comp, OppositeSide, Grid
  <2> QED
    BY <1>0, <1>3, <2>1, <2>3, <2>6
<1>8. Comp(i).status = "absent" => Comp(i)'.status = "absent"
  BY <1>5 DEF Comp, Untouched
<1>9. (intents[i].status)' = intents[i].status
  OBVIOUS
<1> QED
  BY <1>2, <1>4, <1>6, <1>7, <1>8, <1>9 DEF IntentInv, Legs, Primary

LEMMA IntentPlanned ==
    ASSUME TypeOK, TypeOK', NEW i \in Intents, IntentInv(i), PlannedGroup(i)
    PROVE  IntentInv(i)'
<1>0. Legs(i) = {<<i, "spot">>, <<i, "perp">>, <<i, "comp">>} /\ Legs(i) \subseteq LegIds
  BY GroupLegs
<1>1. Comp(i)' = Comp(i) /\ Comp(i).status = "absent"
  BY <1>0 DEF PlannedGroup, IntentInv, Comp, Primary
<1>2. Sided(i)'
  BY DEF PlannedGroup, Sided, Spot, Perp
<1>3. \A l \in Legs(i) : legs'[l].status \in Untouched
  BY <1>0, <1>1 DEF PlannedGroup, Untouched, Comp
<1>4. (intents[i].status)' = "planned"
  BY DEF PlannedGroup
<1> QED
  BY <1>1, <1>2, <1>3, <1>4 DEF IntentInv, Over, Legs, Primary

LEMMA IntentSubmitted ==
    ASSUME TypeOK, TypeOK', NEW i \in Intents, IntentInv(i), PrepareLiveSubmission(i)
    PROVE  IntentInv(i)'
<1>0. /\ <<i, "spot">> \in LegIds /\ <<i, "perp">> \in LegIds /\ <<i, "comp">> \in LegIds
      /\ <<i, "comp">> \notin Primary(i)
  BY GroupLegs DEF Primary
<1>1. \A l \in LegIds : /\ legs'[l].market = legs[l].market /\ legs'[l].side = legs[l].side
                        /\ l \notin Primary(i) => legs'[l] = legs[l]
  BY DEF PrepareLiveSubmission, TypeOK, LegRows
<1>2. intents'[i].status = "executing" /\ intents'[i].action = intents[i].action
  BY DEF PrepareLiveSubmission, TypeOK, IntentRows
<1>3. intents[i].status = "planned"
  BY DEF PrepareLiveSubmission
<1>4. Sided(i)'
  BY <1>0, <1>1, <1>2, <1>3 DEF IntentInv, Sided, Spot, Perp
<1>5. Comp(i)'.status = "absent"
  BY <1>0, <1>1, <1>3 DEF IntentInv, Comp
<1> QED
  BY <1>2, <1>4, <1>5 DEF IntentInv, Over

LEMMA UntouchedFinal ==
    ASSUME TypeOK, AgreeInv, NEW l \in LegIds, legs[l].status \in Untouched
    PROVE  Final(l)
BY DEF TypeOK, AgreeInv, Agrees, Never, LegRows, OrderRows, Final

\* The decision about an intent leaves its legs and their orders alone.
LEMMA IntentEnds ==
    ASSUME TypeOK, TypeOK', NEW i \in Intents, IntentInv(i), UNCHANGED <<legs, orders>>,
           intents[i].status # "none", NEW s \in Over \cup {"manual_review"},
           intents'[i] = [intents[i] EXCEPT !.status = s],
           s \in Over => \A l \in Legs(i) : Final(l)
    PROVE  IntentInv(i)'
<1>1. intents'[i].status = s /\ intents'[i].action = intents[i].action
  BY DEF TypeOK, IntentRows
<1>2. Sided(i)'
  BY <1>1 DEF IntentInv, Sided, Spot, Perp
<1>3. \A l : Final(l)' = Final(l)
  BY DEF Final
<1> QED
  BY <1>1, <1>2, <1>3 DEF IntentInv, Over, Legs, Primary

\* Settlement decides on complete fills of legs that are over.
LEMMA IntentSettled ==
    ASSUME TypeOK, TypeOK', AgreeInv, SettleInv, NEW i \in Intents, Settle(i)
    PROVE  IntentInv(i)'
<1> DEFINE c == <<i, "comp">>
<1>0. /\ Legs(i) = {<<i, "spot">>, <<i, "perp">>, c}
      /\ Primary(i) = {<<i, "spot">>, <<i, "perp">>} /\ Legs(i) \subseteq LegIds
      /\ intents[i] \in IntentRows
      /\ Spot(i) \in LegRows /\ Perp(i) \in LegRows /\ Comp(i) \in LegRows
  BY GroupLegs
<1>1. UNCHANGED orders /\ IntentInv(i)
  BY DEF Settle, remote, SettleInv
<1>2. \A l \in LegIds : Exact(l)
  <2>1. pc = "settle" /\ w.queue # {}
    BY DEF Settle, First
  <2> QED
    BY <2>1 DEF SettleInv
<1>3. CASE UNCHANGED <<intents, legs>>
  BY <1>1, <1>3 DEF IntentInv, Sided, Final, Imbalance, Reversed, Excess, Grid, Spot, Perp,
                    Comp, Legs, Primary
<1>4. CASE Settling(i) /\ PrimariesTerminal(i) /\ ~UNCHANGED <<intents, legs>>
  <2>1. \A l \in Primary(i) : legs[l].status \in Terminal /\ Final(l)
    BY <1>0, <1>2, <1>4 DEF PrimariesTerminal, Exact, Final
  <2>2. intents[i].status \in {"executing", "compensating"}
    BY <1>4 DEF Settling
  <2>3. Comp(i).status \in Terminal \cup Untouched => \A l \in Legs(i) : Final(l)
    BY <1>0, <1>2, <2>1, UntouchedFinal DEF Comp, Exact, Final
  <2>4. ASSUME NEW s, SetIntent(i, s)
        PROVE  intents'[i] = [intents[i] EXCEPT !.status = s]
    BY <2>4 DEF SetIntent, TypeOK
  <2>5. CASE NoFills(i) \/ Balanced(i)
    <3>1. Imbalance(i) = 0 /\ UNCHANGED legs
      BY <2>5 DEF NoFills, Balanced, Imbalance, ManualReview
    <3>2. Comp(i).status = "absent"
      BY <1>1, <2>2, <3>1 DEF IntentInv
    <3>3. \A l \in Legs(i) : Final(l)
      BY <2>3, <3>2 DEF Untouched
    <3>4. \E s \in Over \cup {"manual_review"} : SetIntent(i, s)
      BY <2>5 DEF NoFills, Balanced, ManualReview, Done, Over
    <3> QED
      BY <1>1, <2>2, <2>4, <3>1, <3>3, <3>4, IntentEnds
  <2>6. CASE Compensated(i)
    <3>1. UNCHANGED legs /\ Comp(i).status \in Terminal
      BY <2>6 DEF Compensated, ManualReview
    <3>2. \E s \in Over \cup {"manual_review"} : SetIntent(i, s)
      BY <2>6 DEF Compensated, ManualReview, Done, Over
    <3> QED
      BY <1>1, <2>2, <2>3, <2>4, <3>1, <3>2, IntentEnds
  <2>7. CASE CompensationRequired(i)
    <3>1. /\ intents'[i].status = "compensating" /\ intents'[i].action = intents[i].action
          /\ intents[i].status = "executing"
      <4>1. SetIntent(i, "compensating") /\ intents[i].status = "executing"
        BY <2>7 DEF CompensationRequired
      <4>2. intents'[i] = [intents[i] EXCEPT !.status = "compensating"]
        BY <2>4, <4>1
      <4> QED
        BY <1>0, <4>1, <4>2 DEF IntentRows
    <3>2. legs'[c] = CompensationLeg(i) /\ \A l \in LegIds \ {c} : legs'[l] = legs[l]
      BY <1>0, <2>7 DEF CompensationRequired, TypeOK
    <3>3. \A l \in Primary(i) : l \in LegIds \ {c}
      BY <1>0
    <3>4. \A l \in Primary(i) : legs'[l].status \in Terminal /\ Final(l)'
      BY <1>1, <2>1, <3>2, <3>3 DEF Final
    <3>5. Spot(i)' = Spot(i) /\ Perp(i)' = Perp(i)
      BY <1>0, <3>2, <3>3 DEF Spot, Perp
    <3>6. Imbalance(i)' = Imbalance(i) /\ Excess(i)' = Excess(i) /\ Imbalance(i) # 0
      BY <2>7, <3>5 DEF Imbalance, Excess, CompensationRequired
    <3>7. Sided(i) /\ Sided(i)'
      BY <1>1, <3>1, <3>5 DEF IntentInv, Sided
    <3> DEFINE e == <<i, Excess(i)>>
    <3>8. /\ CompensationLeg(i).status = "created" /\ CompensationLeg(i).market = legs[e].market
          /\ CompensationLeg(i).side = OppositeSide(legs[e].side)
      BY DEF CompensationLeg, LegRow
    <3>9. e \in Primary(i) /\ legs'[e] = legs[e] /\ legs[e].market = Excess(i)
      BY <1>0, <3>2, <3>3, <3>7 DEF Excess, Sided, Spot, Perp
    <3>10. Reversed(i)'
      BY <3>2, <3>6, <3>8, <3>9 DEF Reversed, Comp, OppositeSide
    <3> QED
      BY <3>1, <3>4, <3>6, <3>7, <3>10 DEF IntentInv, Over, Primary
  <2> QED
    BY <1>4, <2>5, <2>6, <2>7 DEF Settle, SettlementWaits, db
<1> QED
  BY <1>3, <1>4 DEF Settle, SettlementWaits, db

LEMMA IntentCompensates ==
    ASSUME TypeOK, TypeOK', NEW i \in Intents, IntentInv(i), PrepareLiveCompensation(i)
    PROVE  IntentInv(i)'
<1> DEFINE c == <<i, "comp">>
<1>0. /\ Primary(i) = {<<i, "spot">>, <<i, "perp">>} /\ Primary(i) \subseteq LegIds
      /\ c \in LegIds /\ \A l \in Primary(i) : l # c
  BY GroupLegs, LegIdsFacts
<1>1. UNCHANGED <<intents, orders>>
  BY DEF PrepareLiveCompensation, remote
<1>2. CASE UNCHANGED legs
  BY <1>1, <1>2 DEF IntentInv, Sided, Final, Imbalance, Reversed, Excess, Grid, Spot, Perp,
                    Comp, Legs, Primary
<1>3. CASE ~UNCHANGED legs
  <2>1. /\ intents[i].status = "compensating" /\ legs[c].status = "created"
        /\ legs' = [legs EXCEPT ![c].status = "submitted", ![c].qty = Executable(c),
                                ![c].tol = Grid(c)]
    BY <1>3 DEF PrepareLiveCompensation
  <2>2. /\ legs'[c].status = "submitted" /\ legs'[c].tol = Grid(c)
        /\ legs'[c].market = legs[c].market /\ legs'[c].side = legs[c].side
        /\ \A l \in LegIds \ {c} : legs'[l] = legs[l]
    BY <1>0, <2>1 DEF TypeOK, LegRows
  <2>3. Spot(i)' = Spot(i) /\ Perp(i)' = Perp(i) /\ \A l \in Primary(i) : legs'[l] = legs[l]
    BY <1>0, <2>2 DEF Spot, Perp
  <2>4. /\ Imbalance(i)' = Imbalance(i) /\ Excess(i)' = Excess(i)
        /\ Sided(i) => Sided(i)'
    BY <1>1, <2>3 DEF Imbalance, Excess, Sided
  <2>5. \A l \in Primary(i) : Final(l) => Final(l)'
    BY <1>1, <2>3 DEF Final
  <2>6. /\ legs[<<i, Excess(i)>>] = legs'[<<i, Excess(i)>>]
        /\ Grid(c)' = Grid(c)
    BY <1>0, <2>2, <2>3 DEF Excess, Grid
  <2>7. Reversed(i) => Reversed(i)'
    BY <2>2, <2>4, <2>6 DEF Reversed, Comp
  <2> QED
    BY <1>1, <2>1, <2>3, <2>4, <2>5, <2>7 DEF IntentInv, Over, Primary
<1> QED
  BY <1>2, <1>3

LEMMA IntentStep ==
    ASSUME TypeOK, TypeOK', JournalInv, PairInv, AgreeInv, QuantityInv, HoldInv, SettleInv,
           [Next]_vars, NEW i \in Intents
    PROVE  IntentInv(i)'
<1>1. IntentInv(i)
  BY DEF SettleInv
<1>2. CASE Drops(i)
  <2>1. /\ intents[i].status = "planned" /\ UNCHANGED <<legs, orders>>
        /\ intents' = [intents EXCEPT ![i].status = "failed"]
    BY <1>2 DEF Drops, ExpirePlanned, GuardUnexecutable, DropPlanned, remote
  <2>2. intents'[i] = [intents[i] EXCEPT !.status = "failed"]
    BY <2>1 DEF TypeOK
  <2>3. \A l \in Legs(i) : Final(l)
    BY <1>1, <2>1, GroupLegs, UntouchedFinal DEF IntentInv
  <2> QED
    BY <1>1, <2>1, <2>2, <2>3, IntentEnds DEF Over
<1> QED
  BY <1>1, <1>2, IntentMoves, IntentPlanned, IntentSubmitted, IntentSettled,
     IntentCompensates, IntentKept

---------------------------------------------------------------------------
(* What was looked up is complete *)

LookedUp ==
    /\ pc \in {"legs", "settle"} /\ w.ok => \A l \in LegIds \ w.todo : Exact(l)
    /\ pc = "settle" => w.todo = {} /\ (w.queue # {} => w.ok)

\* How the worker comes to look legs up and to settle.
LEMMA StepsToSettle ==
    ASSUME TypeOK, [Next]_vars, pc' \in {"legs", "settle"}
    PROVE  \/ UNCHANGED <<w, pc>> \/ Observe \/ LegsDone
           \/ \E i \in Intents : Settle(i)
           \/ \E l \in LegIds : LooksUp(l)
<1>1. CASE UNCHANGED vars \/ Api \/ Market
  BY <1>1 DEF vars, db, Api, PauseExecution, ResumeExecution, RequestReconciliation,
              Confirm, ConfirmationFails, PlanOpen, PlanClose, Market, Arrive, Trade, Expire
<1>2. CASE Crash
  BY <1>2 DEF Crash
<1>0. ~ServiceDone
  BY DEF ServiceDone, TypeOK, WorkerMemory
<1>3. CASE Worker
  <2>1. ASSUME NEW i \in Intents,
               \/ ExpirePlanned(i) \/ PreflightPass(i) \/ PreflightFail(i)
               \/ GuardUnexecutable(i) \/ GuardUnavailable(i) \/ PrepareDenied(i)
               \/ PrepareLiveSubmission(i) \/ CompensationStart(i) \/ PrepareLiveCompensation(i)
        PROVE  FALSE
    <3>1. ~NextCandidate(i)
      BY DEF NextCandidate
    <3> QED
      BY <1>0, <2>1, <3>1 DEF ExpirePlanned, GuardUnexecutable, DropPlanned, PreflightPass,
         PreflightFail, GuardUnavailable, PrepareDenied, PrepareLiveSubmission,
         CompensationStart, PrepareLiveCompensation
  <2>2. ASSUME NEW l \in LegIds, Submit(l) \/ Respond(l) \/ SkipSpot(l) \/ RecordOutcome(l)
        PROVE  FALSE
    BY <1>0, <2>2 DEF Submit, Respond, SkipSpot, RecordOutcome
  <2>3. ~(CompensationSkip \/ ExecRead \/ ReconRead \/ MarkReconciling
          \/ AccountResult \/ AccountError \/ FinalRead \/ SetFinal)
    BY <1>0 DEF CompensationSkip, ExecRead, ReconRead, MarkReconciling, AccountResult,
                AccountError, FinalRead, SetFinal
  <2> QED
    BY <1>3, <2>1, <2>2, <2>3 DEF Worker, LooksUp
<1> QED
  BY <1>1, <1>2, <1>3 DEF Next

\* A complete leg stays complete, and a new one is not over yet.
LEMMA ExactStays ==
    ASSUME TypeOK, AgreeInv, HoldInv, [Next]_vars, NEW l \in LegIds, Exact(l),
           legs'[l] = legs[l] \/ legs'[l].status \notin Terminal
    PROVE  Exact(l)'
<1>1. CASE legs'[l] = legs[l] /\ legs[l].status \in Terminal
  BY <1>1, OrderStill DEF Exact
<1> QED
  BY <1>1 DEF Exact

LEMMA LookedUpStep ==
    ASSUME TypeOK, TypeOK', JournalInv, PairInv, AgreeInv, QuantityInv, HoldInv, SettleInv,
           [Next]_vars
    PROVE  LookedUp'
<1>1. LookedUp /\ \A i \in Intents : IntentInv(i)
  BY DEF SettleInv, LookedUp
<1>2. CASE pc' \notin {"legs", "settle"}
  BY <1>2 DEF LookedUp
<1>3. CASE Observe
  <2>1. pc' = "legs" /\ UNCHANGED <<intents, legs>>
    BY <1>3 DEF Observe, db
  <2>2. w'.todo = Reconcilable
    BY <1>3 DEF Observe, TypeOK, WorkerMemory
  <2> SUFFICES ASSUME NEW l \in LegIds \ Reconcilable PROVE Exact(l)'
    BY <2>1, <2>2 DEF LookedUp
  <2>3. legs[l].status = "absent" \/ intents[l[1]].status \in {"closed", "failed", "none"}
    BY DEF Reconcilable, Settled
  <2>4. l \in Legs(l[1]) /\ l[1] \in Intents
    BY LegIdsFacts DEF Legs, Primary, Kinds, LegIds
  <2>5. legs[l].status \in Untouched \/ Final(l)
    BY <1>1, <2>3, <2>4 DEF IntentInv, Over, Untouched
  <2>6. Exact(l)
    BY <2>5 DEF Exact, Final, Untouched, Terminal
  <2> QED
    BY <2>1, <2>6, ExactStays
<1>4. CASE LegsDone
  <2>1. pc = "legs" /\ w.todo = {} /\ UNCHANGED <<legs, orders>>
    BY <1>4 DEF LegsDone, db, remote
  <2>2. w'.todo = w.todo /\ w'.ok = w.ok /\ (~w.ok => w'.queue = {})
    BY <1>4 DEF LegsDone, TypeOK, WorkerMemory
  <2> QED
    BY <1>1, <2>1, <2>2 DEF LookedUp, Exact
<1>5. ASSUME NEW i \in Intents, Settle(i) PROVE LookedUp'
  <2>1. /\ w'.todo = w.todo /\ w'.ok = w.ok /\ w'.queue \subseteq w.queue
        /\ pc = "settle" /\ pc' = "settle" /\ w.queue # {}
    BY <1>5 DEF Settle, First, TypeOK, WorkerMemory
  <2>2. \A l \in LegIds : legs'[l] = legs[l] \/ legs'[l].status \notin Terminal
    <3>1. CASE Asks(i)
      <4>1. legs' = [legs EXCEPT ![<<i, "comp">>] = CompensationLeg(i)]
        BY <3>1 DEF Asks, CompensationRequired
      <4>2. CompensationLeg(i).status = "created"
        BY DEF CompensationLeg, LegRow
      <4> QED
        BY <4>1, <4>2 DEF TypeOK, Terminal
    <3> QED
      BY <1>5, <3>1, SettledLegs
  <2>3. \A l \in LegIds : Exact(l) => Exact(l)'
    BY <2>2, ExactStays
  <2> QED
    BY <1>1, <2>1, <2>3 DEF LookedUp
<1>6. ASSUME NEW l \in LegIds, LooksUp(l) PROVE LookedUp'
  <2>1. /\ RowMoves(l) /\ pc = "legs" /\ pc' = "legs" /\ w'.todo = w.todo \ {l}
        /\ w'.ok => w.ok /\ (legs'[l].status \in Terminal => legs'[l].filled = orders[l].filled)
    BY <1>6, LookupMoves
  <2>2. ASSUME w'.ok, NEW m \in LegIds \ w'.todo PROVE Exact(m)'
    <3>1. CASE m = l
      BY <2>1, <2>2, <3>1 DEF Exact, RowMoves
    <3>2. CASE m # l
      <4>1. Exact(m)
        BY <1>1, <2>1, <2>2, <3>2 DEF LookedUp
      <4> QED
        BY <2>1, <3>2, <4>1, ExactStays DEF RowMoves
    <3> QED
      BY <3>1, <3>2
  <2> QED
    BY <2>1, <2>2 DEF LookedUp
<1>7. CASE UNCHANGED <<w, pc>> /\ pc \in {"legs", "settle"}
  <2>1. \A l \in LegIds : legs'[l] = legs[l] \/ legs'[l].status \notin Terminal
    <3>1. CASE Plans
      <4>1. PICK i \in Intents : PlannedGroup(i)
        BY <3>1, PlansGroup
      <4> QED
        BY <4>1 DEF PlannedGroup, Primary, Terminal
    <3>2. ASSUME NEW i \in Intents, Asks(i) PROVE FALSE
      BY <1>7, <3>2 DEF Asks, Settle, First, TypeOK, WorkerMemory
    <3>3. ASSUME NEW l \in LegIds, LooksUp(l) PROVE FALSE
      <4>1. l \in w.todo /\ w'.todo = w.todo \ {l}
        BY <3>3, LookupMoves DEF LooksUp, LookupFound, LookupMissing, LookupIncomplete,
                                 NoLookup, NextLeg
      <4> QED
        BY <1>7, <4>1
    <3>4. /\ \A i \in Intents : ~PrepareLiveSubmission(i) /\ ~PrepareLiveCompensation(i)
          /\ \A l \in LegIds : ~Records(l)
      BY <1>7 DEF PrepareLiveSubmission, PrepareLiveCompensation, Records, SkipSpot, RecordOutcome
    <3> QED
      BY <3>1, <3>2, <3>3, <3>4, LegWriters
  <2>2. \A l \in LegIds : Exact(l) => Exact(l)'
    BY <2>1, ExactStays
  <2> QED
    BY <1>1, <1>7, <2>2 DEF LookedUp
<1> QED
  BY <1>2, <1>3, <1>4, <1>5, <1>6, <1>7, StepsToSettle

LEMMA SettleStep ==
    ASSUME TypeOK, TypeOK', JournalInv, PairInv, AgreeInv, QuantityInv, HoldInv, SettleInv,
           [Next]_vars
    PROVE  SettleInv'
<1>1. \A i \in Intents : IntentInv(i)'
  BY IntentStep
<1> QED
  BY <1>1, LookedUpStep DEF SettleInv, LookedUp

---------------------------------------------------------------------------
(* The settlement and the exchange *)

SettledInv == AgreeInv /\ QuantityInv /\ HoldInv /\ SettleInv

LEMMA SettledInitially == Init => SettledInv
<1> SUFFICES ASSUME Init PROVE SettledInv
  OBVIOUS
<1>1. \A l \in LegIds : legs[l] = NoLeg /\ orders[l] = NoOrder
  BY DEF Init
<1>2. /\ NoLeg.status = "absent" /\ NoLeg.filled = 0 /\ ~NoLeg.linked /\ NoLeg.qty = 0
      /\ NoOrder.state = "none" /\ NoOrder.filled = 0
  BY DEF NoLeg, LegRow, NoOrder
<1>3. AgreeInv
  BY <1>1, <1>2 DEF AgreeInv, Agrees, Never, Waiting, Untouched, Terminal
<1>4. QuantityInv
  BY <1>1, <1>2 DEF Init, QuantityInv, NoPosition
<1>5. HoldInv
  BY DEF Init, HoldInv, InHand, NoAnswers, Fresh
<1>6. ASSUME NEW i \in Intents PROVE IntentInv(i)
  <2>1. intents[i].status = "none"
    BY DEF Init, NoIntent
  <2>2. \A l \in Legs(i) : legs[l].status = "absent"
    BY <1>1, <1>2, LegIdsFacts
  <2>3. Comp(i).status = "absent"
    BY <2>2 DEF Comp, Legs
  <2> QED
    BY <2>1, <2>2, <2>3 DEF IntentInv, Over, Untouched
<1>7. SettleInv
  BY <1>6 DEF Init, SettleInv
<1> QED
  BY <1>3, <1>4, <1>5, <1>7 DEF SettledInv

LEMMA SettledInvariant ==
    ASSUME NoneLate PROVE Spec => []SettledInv
<1>1. TypeOK /\ TypeOK' /\ JournalInv /\ PairInv /\ SettledInv /\ [Next]_vars => SettledInv'
  BY AgreeStep, QuantityStep, HoldStep, SettleStep DEF SettledInv
<1> QED
  BY <1>1, SettledInitially, TypeCorrect, JournalInvariant, PairInvariant, PTL DEF Spec

\* When no call fails with its request still on the way, the settlement books
\* quantities that are final: no order of an intent it closed can still trade,
\* whatever crashes, lookups and partial fills came before.
THEOREM SettledIsFinal == ASSUME NoneLate PROVE Spec => []QuietWhenSettled
<1>1. TypeOK /\ SettledInv => QuietWhenSettled
  <2> SUFFICES ASSUME TypeOK, SettledInv, NEW i \in Intents,
                      intents[i].status \in {"hedged", "closed", "failed"}, NEW l \in Legs(i)
               PROVE  orders[l].state \notin {"inflight", "live"}
    BY DEF QuietWhenSettled
  <2>1. l \in LegIds
    BY GroupLegs
  <2>2. Final(l) /\ Agrees(orders[l], legs[l])
    BY <2>1 DEF SettledInv, SettleInv, IntentInv, Over, AgreeInv
  <2> QED
    BY <2>2 DEF Final, Agrees, Waiting
<1> QED
  BY <1>1, TypeCorrect, SettledInvariant, PTL

---------------------------------------------------------------------------
(* The ledger and the account *)

\* What an intent's orders made of the account, and what of it is booked.
Net(i, market) == SumFunctionOnSet(Traded(market), Legs(i))
Booked == [i \in Intents |-> IF intents[i].status \in Over THEN Net(i, "perp") ELSE 0]

\* The open that made position p and its closes.
Members(p) == {i \in Intents : i = p \/ intents[i].pos = p}

\* An intent that is over left spot dust of less than an increment.
ExposureInv(i) ==
    intents[i].status \in Over =>
        /\ Net(i, "spot") - Net(i, "perp") \in 0..(LargerGrid - 1)
        /\ intents[i].status = "failed" => Net(i, "perp") = 0

\* A close points to a position, and a position is what its members booked.
PointsInv(i) ==
    /\ intents[i].status = "none" \/ intents[i].action = "open" => intents[i].pos = 0
    /\ intents[i].pos # 0 => positions[intents[i].pos].status # "none"
BookInv(p) ==
    positions[p].status # "none" =>
        /\ intents[p].action = "open" /\ intents[p].status = "hedged"
        /\ positions[p].qty = SumFunctionOnSet(Booked, Members(p))

HedgeInv == \A i \in Intents : ExposureInv(i) /\ PointsInv(i) /\ BookInv(i)

---------------------------------------------------------------------------
(* What an intent's orders made of the account *)

LEMMA TradedInt ==
    ASSUME TypeOK, NEW market \in Markets, NEW l \in LegIds
    PROVE  Traded(market)[l] \in Int
BY DEF Traded, TypeOK, OrderRows

LEMMA NetOfLegs ==
    ASSUME TypeOK, NEW i \in Intents, NEW market \in Markets
    PROVE  /\ Net(i, market) = Traded(market)[<<i, "spot">>] + Traded(market)[<<i, "perp">>]
                                 + Traded(market)[<<i, "comp">>]
           /\ Net(i, market) \in Int
           /\ Numbers(Traded(market), Legs(i))
<1> DEFINE f == Traded(market)
           s == <<i, "spot">>
           p == <<i, "perp">>
           c == <<i, "comp">>
<1>0. Legs(i) = {s, p, c} /\ s \in LegIds /\ p \in LegIds /\ c \in LegIds
  BY GroupLegs
<1>1. f[s] \in Int /\ f[p] \in Int /\ f[c] \in Int
  BY <1>0, TradedInt
<1>2. s # p /\ s # c /\ p # c
  OBVIOUS
<1> HIDE DEF f, s, p, c
<1> DEFINE one == {s}
           two == {s, p}
           three == {s, p, c}
<1>3. one \cup {p} = two /\ two \cup {c} = three /\ {} \cup {s} = one
  OBVIOUS
<1>4. p \notin one /\ c \notin two /\ s \notin {}
  BY <1>2
<1>5. \A l \in three : f[l] \in Int
  BY <1>1
<1>6. one \subseteq three /\ two \subseteq three /\ three \subseteq three
  OBVIOUS
<1> HIDE DEF one, two, three
<1>7. IsFiniteSet(one) /\ IsFiniteSet(two) /\ IsFiniteSet(three)
  BY <1>3, FS_EmptySet, FS_AddElement
<1>8. Numbers(f, three) /\ Numbers(f, two) /\ Numbers(f, one)
  BY <1>5, <1>6, <1>7 DEF Numbers
<1>9. /\ SumFunctionOnSet(f, one) = 0 + f[s]
      /\ SumFunctionOnSet(f, two) = SumFunctionOnSet(f, one) + f[p]
      /\ SumFunctionOnSet(f, three) = SumFunctionOnSet(f, two) + f[c]
  <2>1. SumFunctionOnSet(f, {} \cup {s}) = SumFunctionOnSet(f, {}) + f[s]
    BY <1>3, <1>4, <1>8, SumWith
  <2>2. SumFunctionOnSet(f, one \cup {p}) = SumFunctionOnSet(f, one) + f[p]
    BY <1>3, <1>4, <1>8, SumWith
  <2>3. SumFunctionOnSet(f, two \cup {c}) = SumFunctionOnSet(f, two) + f[c]
    BY <1>3, <1>4, <1>8, SumWith
  <2>4. SumFunctionOnSet(f, {}) = 0
    BY SumOfNothing
  <2> QED
    BY <1>3, <2>1, <2>2, <2>3, <2>4
<1>10. SumFunctionOnSet(f, three) = f[s] + f[p] + f[c]
  BY <1>1, <1>9
<1> QED
  BY <1>0, <1>1, <1>8, <1>10 DEF Net, f, s, p, c, three

\* Nothing of it changes while the terms and the fills stay.
LEMMA NetKept ==
    ASSUME TypeOK, NEW i \in Intents, NEW market \in Markets,
           \A l \in Legs(i) : /\ legs'[l].market = legs[l].market /\ legs'[l].side = legs[l].side
                              /\ orders'[l].filled = orders[l].filled
    PROVE  Net(i, market)' = Net(i, market)
<1>1. \A l \in Legs(i) : Traded(market)'[l] = Traded(market)[l]
  BY GroupLegs DEF Traded, Adds
<1>2. Numbers(Traded(market), Legs(i))
  BY NetOfLegs
<1>3. SumFunctionOnSet(Traded(market), Legs(i)) = SumFunctionOnSet(Traded(market)', Legs(i))
  BY <1>1, <1>2, SumAgrees
<1> QED
  BY <1>3 DEF Net, Legs, Primary

\* The primary orders alone, and with the protection order taken off.
LEMMA NetWithout ==
    ASSUME TypeOK, NEW i \in Intents, Sided(i), \A l \in Legs(i) : Final(l), Comp(i).filled = 0
    PROVE  LET open == intents[i].action = "open" IN
           /\ Net(i, "spot") = IF open THEN Spot(i).filled ELSE -Spot(i).filled
           /\ Net(i, "perp") = IF open THEN Perp(i).filled ELSE -Perp(i).filled
<1> DEFINE s == <<i, "spot">>
           p == <<i, "perp">>
           c == <<i, "comp">>
           open == intents[i].action = "open"
<1>0. /\ Legs(i) = {s, p, c} /\ s \in LegIds /\ p \in LegIds /\ c \in LegIds
      /\ legs[s].filled \in Nat /\ legs[p].filled \in Nat
  BY GroupLegs DEF Spot, Perp, LegRows
<1>1. /\ orders[s].filled = legs[s].filled /\ orders[p].filled = legs[p].filled
      /\ orders[c].filled = 0
  BY <1>0 DEF Final, Comp
<1>2. /\ Traded("spot")[s] = IF open THEN legs[s].filled ELSE -legs[s].filled
      /\ Traded("spot")[p] = 0 /\ Traded("spot")[c] = 0
  BY <1>0, <1>1 DEF Traded, Adds, Sided, Spot, Perp
<1>3. /\ Traded("perp")[p] = IF open THEN legs[p].filled ELSE -legs[p].filled
      /\ Traded("perp")[s] = 0 /\ Traded("perp")[c] = 0
  BY <1>0, <1>1 DEF Traded, Adds, Sided, Spot, Perp
<1>4. /\ Net(i, "spot") = Traded("spot")[s] + Traded("spot")[p] + Traded("spot")[c]
      /\ Net(i, "perp") = Traded("perp")[s] + Traded("perp")[p] + Traded("perp")[c]
  BY NetOfLegs DEF Markets
<1> QED
  BY <1>0, <1>2, <1>3, <1>4 DEF Spot, Perp

LEMMA NetAdjusted ==
    ASSUME TypeOK, NEW i \in Intents, Sided(i), Reversed(i), \A l \in Legs(i) : Final(l)
    PROVE  LET open == intents[i].action = "open" IN
           /\ Net(i, "spot") = IF open THEN Adjusted(i, "spot") ELSE -Adjusted(i, "spot")
           /\ Net(i, "perp") = IF open THEN Adjusted(i, "perp") ELSE -Adjusted(i, "perp")
<1> DEFINE s == <<i, "spot">>
           p == <<i, "perp">>
           c == <<i, "comp">>
           open == intents[i].action = "open"
           back == legs[c].filled
<1>0. /\ Legs(i) = {s, p, c} /\ s \in LegIds /\ p \in LegIds /\ c \in LegIds
      /\ legs[s].filled \in Nat /\ legs[p].filled \in Nat /\ back \in Nat
  BY GroupLegs DEF Spot, Perp, Comp, LegRows
<1>1. /\ orders[s].filled = legs[s].filled /\ orders[p].filled = legs[p].filled
      /\ orders[c].filled = back
  BY <1>0 DEF Final
<1>2. /\ Traded("spot")[s] = IF open THEN legs[s].filled ELSE -legs[s].filled
      /\ Traded("spot")[p] = 0
  BY <1>0, <1>1 DEF Traded, Adds, Sided, Spot, Perp
<1>3. /\ Traded("perp")[p] = IF open THEN legs[p].filled ELSE -legs[p].filled
      /\ Traded("perp")[s] = 0
  BY <1>0, <1>1 DEF Traded, Adds, Sided, Spot, Perp
<1>4. /\ Net(i, "spot") = Traded("spot")[s] + Traded("spot")[p] + Traded("spot")[c]
      /\ Net(i, "perp") = Traded("perp")[s] + Traded("perp")[p] + Traded("perp")[c]
  BY NetOfLegs DEF Markets
<1>5. CASE Excess(i) = "spot"
  <2>1. legs[c].market = "spot" /\ (legs[c].side = "buy" <=> ~open)
    BY <1>5 DEF Reversed, Sided, Comp, Spot, OppositeSide
  <2>2. Traded("spot")[c] = (IF open THEN -back ELSE back) /\ Traded("perp")[c] = 0
    BY <1>0, <1>1, <2>1 DEF Traded, Adds
  <2>3. Adjusted(i, "spot") = legs[s].filled - back /\ Adjusted(i, "perp") = legs[p].filled
    BY <1>0, <1>5 DEF Adjusted, Comp
  <2> HIDE DEF back
  <2> QED
    BY <1>0, <1>2, <1>3, <1>4, <2>2, <2>3
<1>6. CASE Excess(i) = "perp"
  <2>1. legs[c].market = "perp" /\ (legs[c].side = "sell" <=> ~open)
    BY <1>6 DEF Reversed, Sided, Comp, Perp, OppositeSide
  <2>2. Traded("perp")[c] = (IF open THEN -back ELSE back) /\ Traded("spot")[c] = 0
    BY <1>0, <1>1, <2>1 DEF Traded, Adds
  <2>3. Adjusted(i, "perp") = legs[p].filled - back /\ Adjusted(i, "spot") = legs[s].filled
    BY <1>0, <1>6 DEF Adjusted, Comp
  <2> HIDE DEF back
  <2> QED
    BY <1>0, <1>2, <1>3, <1>4, <2>2, <2>3
<1> QED
  BY <1>5, <1>6 DEF Excess

---------------------------------------------------------------------------
(* How an intent comes to be over, and what it then gives *)

\* Nothing is done to an intent that is over.
LEMMA OverKept ==
    ASSUME TypeOK, JournalInv, PairInv, AgreeInv, QuantityInv, HoldInv, SettleInv,
           [Next]_vars, NEW i \in Intents, intents[i].status \in Over
    PROVE  /\ intents'[i] = intents[i]
           /\ \A market \in Markets : Net(i, market)' = Net(i, market)
<1>0. Legs(i) \subseteq LegIds /\ \A l \in Legs(i) : Final(l)
  BY GroupLegs DEF SettleInv, IntentInv
<1>1. CASE UNCHANGED <<intents, legs, orders>>
  BY <1>1, NetKept
<1>2. CASE intents'[i] = intents[i] /\ \A l \in Legs(i) : LegMoves(l)
  <2>1. \A l \in Legs(i) : /\ legs'[l].market = legs[l].market /\ legs'[l].side = legs[l].side
                           /\ orders'[l].filled = orders[l].filled
    BY <1>0, <1>2, OrderStill DEF Final, LegMoves, SameTerms
  <2> QED
    BY <1>2, <2>1, NetKept
<1>3. CASE Settle(i) \/ PrepareLiveCompensation(i)
  BY <1>1, <1>3 DEF Settle, Settling, SettlementWaits, PrepareLiveCompensation, db, remote, Over
<1>4. ~PlannedGroup(i) /\ ~PrepareLiveSubmission(i) /\ ~Drops(i)
  BY DEF Over, PlannedGroup, PrepareLiveSubmission, Drops, ExpirePlanned, GuardUnexecutable,
         DropPlanned
<1> QED
  BY <1>2, <1>3, <1>4, IntentMoves

\* What the end of intent i gives: an open its position, a close what it took
\* off its own, a failure nothing.
Gives(i) ==
    LET p == intents[i].pos IN
    /\ intents[i].action = "open" =>
         \/ intents'[i].status = "failed" /\ positions' = positions
         \/ /\ intents'[i].status = "hedged" /\ positions[i].status = "none"
            /\ positions' = [positions EXCEPT
                               ![i] = [status |-> "open", qty |-> Net(i, "perp"), closer |-> 0]]
    /\ intents[i].action = "close" =>
         \A r \in Intents :
            /\ positions'[r].status = "none" <=> positions[r].status = "none"
            /\ positions'[r].qty = IF r = p THEN positions[r].qty + Net(i, "perp")
                                   ELSE positions[r].qty
Ends(i) ==
    /\ intents'[i] = [intents[i] EXCEPT !.status = intents'[i].status]
    /\ \A j \in Intents \ {i} : intents'[j] = intents[j]
    /\ UNCHANGED <<legs, orders>>
    /\ Net(i, "spot") - Net(i, "perp") \in 0..(LargerGrid - 1)
    /\ intents'[i].status = "failed" => Net(i, "perp") = 0
    /\ Gives(i)

LEMMA ReleaseGives ==
    ASSUME TypeOK, ReservationConsistent, NEW i \in Intents, intents[i].status \in Unsettled,
           positions' = Released(i), intents'[i].status = "failed", Net(i, "perp") = 0
    PROVE  Gives(i)
<1>1. CASE intents[i].action = "open"
  BY <1>1 DEF Gives, Released
<1>2. CASE intents[i].action = "close"
  <2>1. \A r \in Intents : /\ positions'[r].status = "none" <=> positions[r].status = "none"
                           /\ positions'[r].qty = positions[r].qty /\ positions[r].qty \in Nat
    BY DEF Released, TypeOK, PositionRows
  <2> QED
    BY <1>2, <2>1 DEF Gives
<1> QED
  BY <1>1, <1>2 DEF TypeOK, IntentRows

LEMMA BookGives ==
    ASSUME TypeOK, ReservationConsistent, NEW i \in Intents, Settling(i), NEW q \in Nat,
           intents[i].action = "close" => q <= positions[intents[i].pos].qty,
           Net(i, "perp") = (IF intents[i].action = "open" THEN q ELSE -q),
           \/ Book(i, q) /\ (intents[i].action = "open" => intents'[i].status = "hedged")
           \/ /\ intents[i].action = "open" /\ positions' = positions
              /\ intents'[i].status = "failed"
    PROVE  Gives(i)
<1>0. intents[i].action \in {"open", "close"} /\ intents[i].status \in Unsettled
  BY DEF TypeOK, IntentRows, Settling, Unsettled
<1>1. CASE intents[i].action = "open"
  BY <1>1 DEF Gives, Book, Settling
<1>2. CASE intents[i].action = "close"
  <2> DEFINE p == intents[i].pos
             rest == positions[p].qty - q
             row == IF rest = 0 THEN [positions[p] EXCEPT !.qty = 0, !.status = "closed"]
                    ELSE [status |-> "open", qty |-> rest, closer |-> 0]
  <2>1. p \in Intents /\ positions[p].status = "closing" /\ positions[p] \in PositionRows
    BY <1>0, <1>2 DEF ReservationConsistent, TypeOK
  <2>2. positions' = [positions EXCEPT ![p] = row]
    BY <1>2 DEF Book
  <2>3. positions[p].qty \in Nat /\ row.qty = positions[p].qty - q /\ row.status # "none"
    BY <2>1 DEF PositionRows
  <2> HIDE DEF row
  <2>4. /\ positions'[p] = row
        /\ \A r \in Intents \ {p} : positions'[r] = positions[r]
    BY <2>1, <2>2 DEF TypeOK
  <2> HIDE DEF p
  <2>5. \A r \in Intents :
            /\ positions'[r].status = "none" <=> positions[r].status = "none"
            /\ positions'[r].qty = IF r = p THEN positions[r].qty - q ELSE positions[r].qty
    BY <2>1, <2>3, <2>4
  <2>6. positions[p].qty + (-q) = positions[p].qty - q
    BY <2>3
  <2> QED
    BY <1>2, <2>1, <2>5, <2>6 DEF Gives, p
<1> QED
  BY <1>0, <1>1, <1>2

LEMMA LargerGridPositive ==
    LargerGrid \in Nat \ {0} /\ \A l : Grid(l) \in Nat /\ Grid(l) <= LargerGrid
BY GridAssumption DEF LargerGrid, Grid

\* A planned intent that is dropped, never sent, gives nothing.
LEMMA DropEnds ==
    ASSUME TypeOK, ReservationConsistent, AgreeInv, SettleInv, NEW i \in Intents, Drops(i)
    PROVE  Ends(i)
<1>1. /\ intents[i].status = "planned" /\ intents' = [intents EXCEPT ![i].status = "failed"]
      /\ positions' = Released(i) /\ UNCHANGED <<legs, orders>>
  BY DEF Drops, ExpirePlanned, GuardUnexecutable, DropPlanned, remote
<1>2. /\ intents'[i].status = "failed"
      /\ intents'[i] = [intents[i] EXCEPT !.status = intents'[i].status]
      /\ \A j \in Intents \ {i} : intents'[j] = intents[j]
  BY <1>1 DEF TypeOK, IntentRows
<1>3. Sided(i) /\ \A l \in Legs(i) : legs[l].status \in Untouched
  BY <1>1 DEF SettleInv, IntentInv
<1>4. \A l \in Legs(i) : Final(l) /\ legs[l].filled = 0
  BY <1>3, GroupLegs, UntouchedFinal DEF TypeOK, LegRows, OrderRows, AgreeInv, Agrees, Never
<1>5. Spot(i).filled = 0 /\ Perp(i).filled = 0 /\ Comp(i).filled = 0
  BY <1>4, GroupLegs DEF Spot, Perp, Comp
<1>6. Net(i, "spot") = 0 /\ Net(i, "perp") = 0
  BY <1>3, <1>4, <1>5, NetWithout
<1>7. Gives(i)
  BY <1>1, <1>2, <1>6, ReleaseGives DEF Unsettled
<1> QED
  BY <1>1, <1>2, <1>6, <1>7, LargerGridPositive DEF Ends

\* A settlement that closes an intent books what its orders made.
LEMMA SettleEnds ==
    ASSUME TypeOK, ReservationConsistent, AgreeInv, SettleInv, NEW i \in Intents, Settle(i),
           intents[i].status \notin Over, intents'[i].status \in Over
    PROVE  Ends(i)
<1> DEFINE c == <<i, "comp">>
<1>0. /\ Legs(i) = {<<i, "spot">>, <<i, "perp">>, c}
      /\ Primary(i) = {<<i, "spot">>, <<i, "perp">>} /\ Legs(i) \subseteq LegIds
      /\ intents[i] \in IntentRows
      /\ Spot(i) \in LegRows /\ Perp(i) \in LegRows /\ Comp(i) \in LegRows
  BY GroupLegs
<1>1. \A l \in LegIds : Exact(l)
  <2>1. pc = "settle" /\ w.queue # {}
    BY DEF Settle, First
  <2> QED
    BY <2>1 DEF SettleInv
<1>2. /\ IntentInv(i) /\ UNCHANGED orders /\ Settling(i) /\ PrimariesTerminal(i)
      /\ NoFills(i) \/ Balanced(i) \/ CompensationRequired(i) \/ Compensated(i)
  BY DEF Settle, SettlementWaits, db, remote, SettleInv
<1>3. intents[i].status \in {"executing", "compensating"} /\ intents[i].status \in Unsettled
  BY <1>2 DEF Settling, Unsettled
<1>4. Sided(i)
  BY <1>2, <1>3 DEF IntentInv
<1>5. Comp(i).status \in Terminal \cup Untouched => \A l \in Legs(i) : Final(l)
  BY <1>0, <1>1, <1>2, UntouchedFinal DEF Comp, Exact, Final, PrimariesTerminal
<1>6. ASSUME NEW s, SetIntent(i, s)
      PROVE  /\ intents'[i].status = s
             /\ intents'[i] = [intents[i] EXCEPT !.status = intents'[i].status]
             /\ \A j \in Intents \ {i} : intents'[j] = intents[j]
  <2>1. intents' = [intents EXCEPT ![i].status = s]
    BY <1>6 DEF SetIntent
  <2> QED
    BY <1>0, <2>1 DEF TypeOK, IntentRows
<1>7. ~ManualReview(i) /\ ~CompensationRequired(i)
  <2>1. ~SetIntent(i, "manual_review") /\ ~SetIntent(i, "compensating")
    BY <1>6 DEF Over
  <2> QED
    BY <2>1 DEF ManualReview, CompensationRequired
<1>8. UNCHANGED legs
  BY <1>2, <1>7 DEF NoFills, Balanced, Compensated
<1>9. /\ intents'[i] = [intents[i] EXCEPT !.status = intents'[i].status]
      /\ \A j \in Intents \ {i} : intents'[j] = intents[j]
  BY <1>2, <1>6, <1>7 DEF NoFills, Balanced, Compensated
<1>10. ASSUME NoFills(i) \/ Balanced(i)
       PROVE  /\ Net(i, "spot") = (IF intents[i].action = "open" THEN Spot(i).filled
                                   ELSE -Spot(i).filled)
              /\ Net(i, "perp") = Net(i, "spot")
  <2>1. Imbalance(i) = 0
    BY <1>10 DEF NoFills, Balanced, Imbalance
  <2>2. Spot(i).filled = Perp(i).filled
    BY <1>0, <2>1 DEF Imbalance, LegRows
  <2>3. Comp(i).status = "absent"
    BY <1>2, <1>3, <2>1 DEF IntentInv
  <2>4. Comp(i).filled = 0
    BY <1>0, <2>3 DEF AgreeInv, Agrees, Untouched, Never, Comp, TypeOK, OrderRows, LegRows
  <2>5. \A l \in Legs(i) : Final(l)
    BY <1>5, <2>3 DEF Untouched
  <2> QED
    BY <1>4, <2>2, <2>4, <2>5, NetWithout
<1>11. CASE NoFills(i)
  <2>1. Spot(i).filled = 0 /\ SetIntent(i, "failed") /\ positions' = Released(i)
    BY <1>11 DEF NoFills
  <2>2. Net(i, "spot") = 0 /\ Net(i, "perp") = 0 /\ intents'[i].status = "failed"
    BY <1>6, <1>10, <1>11, <2>1
  <2>3. Gives(i)
    BY <1>3, <2>1, <2>2, ReleaseGives
  <2> QED
    BY <1>2, <1>8, <1>9, <2>2, <2>3, LargerGridPositive DEF Ends
<1>12. CASE Balanced(i)
  <2> DEFINE q == Spot(i).filled
  <2>1. /\ q > 0 /\ Book(i, q) /\ SetIntent(i, Done(i))
        /\ intents[i].action = "close" => q <= positions[intents[i].pos].qty
    BY <1>7, <1>12 DEF Balanced
  <2>2. q \in Nat /\ Net(i, "spot") = (IF intents[i].action = "open" THEN q ELSE -q)
        /\ Net(i, "perp") = Net(i, "spot")
    BY <1>0, <1>10, <1>12 DEF LegRows
  <2> HIDE DEF q
  <2>3. intents'[i].status = Done(i) /\ Done(i) # "failed"
        /\ (intents[i].action = "open" => Done(i) = "hedged")
    BY <1>6, <2>1 DEF Done
  <2>4. Gives(i)
    BY <1>2, <2>1, <2>2, <2>3, BookGives
  <2>5. Net(i, "spot") - Net(i, "perp") = 0
    BY <2>2
  <2> QED
    BY <1>2, <1>8, <1>9, <2>3, <2>4, <2>5, LargerGridPositive DEF Ends
<1>13. CASE Compensated(i)
  <2> DEFINE open == intents[i].action = "open"
             spot == Adjusted(i, "spot")
             common == Adjusted(i, "perp")
             dust == IF open THEN spot - common ELSE common - spot
  <2>1. /\ intents[i].status = "compensating" /\ Comp(i).status \in Terminal
        /\ SafelyCompensated(i)
        /\ intents[i].action = "close" => common <= positions[intents[i].pos].qty
        /\ IF open /\ common = 0 THEN UNCHANGED positions ELSE Book(i, common)
        /\ SetIntent(i, IF common = 0 THEN "failed" ELSE Done(i))
    BY <1>7, <1>13 DEF Compensated
  <2>2. Reversed(i) /\ \A l \in Legs(i) : Final(l)
    BY <1>2, <1>5, <2>1 DEF IntentInv
  <2>3. /\ common >= 0 /\ dust >= 0 /\ dust < Comp(i).tol
        /\ spot \in Int /\ common \in Int
    BY <2>1, AdjustedType DEF SafelyCompensated
  <2>4. /\ Net(i, "spot") = IF open THEN spot ELSE -spot
        /\ Net(i, "perp") = IF open THEN common ELSE -common
    BY <1>4, <2>2, NetAdjusted
  <2>5. Comp(i).tol = Grid(c)
    BY <2>1, <2>2 DEF Reversed, Terminal
  <2>6. /\ intents'[i].status = IF common = 0 THEN "failed" ELSE Done(i)
        /\ Done(i) # "failed" /\ (open => Done(i) = "hedged")
    BY <1>6, <2>1 DEF Done
  <2>7. /\ intents[i].action = "close" => common <= positions[intents[i].pos].qty
        /\ IF open /\ common = 0 THEN UNCHANGED positions ELSE Book(i, common)
    BY <2>1
  <2> HIDE DEF common, spot
  <2>8. Net(i, "spot") - Net(i, "perp") = dust
    BY <2>3, <2>4
  <2>9. dust \in 0..(LargerGrid - 1)
    BY <2>3, <2>5, LargerGridPositive
  <2>10. common \in Nat
    BY <2>3
  <2>11. Gives(i)
    BY <1>2, <2>4, <2>6, <2>7, <2>10, BookGives
  <2>12. intents'[i].status = "failed" => Net(i, "perp") = 0
    BY <2>3, <2>4, <2>6
  <2> QED
    BY <1>2, <1>8, <1>9, <2>8, <2>9, <2>11, <2>12 DEF Ends
<1> QED
  BY <1>2, <1>7, <1>11, <1>12, <1>13

---------------------------------------------------------------------------
(* The books, step by step *)

LEMMA BookedNumbers ==
    ASSUME TypeOK
    PROVE  /\ \A i \in Intents : Booked[i] \in Int
           /\ \A S \in SUBSET Intents : Numbers(Booked, S)
<1>1. \A i \in Intents : Booked[i] \in Int
  <2> SUFFICES ASSUME NEW i \in Intents PROVE Booked[i] \in Int
    OBVIOUS
  <2>1. "perp" \in Markets
    BY DEF Markets
  <2>2. Net(i, "perp") \in Int
    BY <2>1, NetOfLegs
  <2> QED
    BY <2>2 DEF Booked
<1>2. IsFiniteSet(Intents)
  BY FS_Interval, BoundAssumption DEF Intents
<1> QED
  BY <1>1, <1>2, FS_Subset DEF Numbers

\* What planning writes of an intent and its position.
LEMMA PlansPosition ==
    ASSUME TypeOK, QuantityInv, Plans
    PROVE  \E i \in Intents :
             /\ PlannedGroup(i)
             /\ \/ /\ intents'[i].action = "open" /\ intents'[i].pos = 0
                   /\ positions' = positions
                \/ /\ intents'[i].action = "close"
                   /\ \E p \in Intents :
                        /\ intents'[i].pos = p /\ positions[p].status = "open"
                        /\ \A r \in Intents :
                             /\ positions'[r].qty = positions[r].qty
                             /\ positions'[r].status = "none" <=> positions[r].status = "none"
<1>1. PICK i \in Intents : PlannedGroup(i)
  BY PlansGroup
<1>2. intents' # intents /\ \A j \in Intents : intents'[j] # intents[j] => j = i
  BY <1>1 DEF PlannedGroup
<1>3. CASE PlanOpen
  <2>1. PICK j \in Unplanned : intents' = [intents EXCEPT ![j] = IntentRow("open", 0, FALSE)]
    BY <1>3 DEF PlanOpen
  <2>2. /\ intents'[j].action = "open" /\ intents'[j].pos = 0 /\ intents'[j].status = "planned"
        /\ j \in Intents /\ intents[j].status = "none"
    BY <2>1 DEF Unplanned, TypeOK, IntentRow
  <2>3. j = i
    BY <1>2, <2>2
  <2> QED
    BY <1>1, <1>3, <2>2, <2>3 DEF PlanOpen
<1>4. ASSUME NEW p \in Intents, PlanClose(p)
      PROVE  /\ intents'[i].action = "close" /\ intents'[i].pos = p
             /\ positions[p].status = "open"
             /\ \A r \in Intents :
                  /\ positions'[r].qty = positions[r].qty
                  /\ positions'[r].status = "none" <=> positions[r].status = "none"
  <2>1. PICK j \in Unplanned :
          /\ intents' = [intents EXCEPT ![j] = IntentRow("close", p, api = "emergency")]
          /\ positions' = [positions EXCEPT ![p].status = "closing", ![p].closer = j]
    BY <1>4 DEF PlanClose
  <2>2. /\ intents'[j].action = "close" /\ intents'[j].pos = p /\ intents'[j].status = "planned"
        /\ j \in Intents /\ intents[j].status = "none"
    BY <2>1 DEF Unplanned, TypeOK, IntentRow
  <2>3. j = i
    BY <1>2, <2>2
  <2>4. positions[p].status = "open"
    BY <1>4 DEF PlanClose, Closable
  <2>5. \A r \in Intents :
                  /\ positions'[r].qty = positions[r].qty
                  /\ positions'[r].status = "none" <=> positions[r].status = "none"
    BY <2>1, <2>4 DEF TypeOK, PositionRows
  <2> QED
    BY <2>2, <2>3, <2>4, <2>5
<1> QED
  BY <1>1, <1>3, <1>4 DEF Plans

\* Steps that plan nothing and end nothing.
LEMMA NothingEnds ==
    ASSUME TypeOK, JournalInv, PairInv, AgreeInv, QuantityInv, HoldInv, SettleInv,
           [Next]_vars, ~Plans,
           \A i \in Intents : /\ ~Drops(i)
                              /\ ~(/\ Settle(i) /\ intents[i].status \notin Over
                                   /\ intents'[i].status \in Over)
    PROVE  /\ UNCHANGED positions
           /\ \A j \in Intents : /\ intents'[j].pos = intents[j].pos
                                 /\ intents'[j].action = intents[j].action
                                 /\ intents'[j].status \in Over => intents[j].status \in Over
                                 /\ intents'[j].status = "none" => intents[j].status = "none"
<1>0. \A j \in Intents : intents[j] \in IntentRows
  BY DEF TypeOK
<1>1. ASSUME NEW i \in Intents, PrepareLiveSubmission(i)
      PROVE  /\ UNCHANGED positions
             /\ intents' = [intents EXCEPT ![i].status = "executing"]
  BY <1>1 DEF PrepareLiveSubmission
<1>2. ASSUME NEW i \in Intents, Settle(i)
      PROVE  /\ UNCHANGED positions
             /\ \/ UNCHANGED intents
                \/ \E s \in {"manual_review", "compensating"} :
                     intents' = [intents EXCEPT ![i].status = s]
  <2>1. CASE UNCHANGED db
    BY <2>1 DEF db
  <2>2. CASE intents[i].status \in Over
    BY <1>2, <2>2 DEF Settle, Settling, SettlementWaits, db, Over
  <2>3. ASSUME NEW s \in Over, SetIntent(i, s), intents[i].status \notin Over PROVE FALSE
    <3>1. intents'[i].status = s
      BY <1>0, <2>3 DEF SetIntent, TypeOK, IntentRows
    <3> QED
      BY <1>2, <2>3, <3>1
  <2>4. CASE ManualReview(i) \/ CompensationRequired(i)
    BY <2>4 DEF ManualReview, CompensationRequired, SetIntent
  <2>5. CASE ~UNCHANGED db /\ intents[i].status \notin Over
             /\ ~ManualReview(i) /\ ~CompensationRequired(i)
    <3>1. NoFills(i) \/ Balanced(i) \/ Compensated(i)
      BY <1>2, <2>5 DEF Settle, SettlementWaits
    <3>2. \E s \in Over : SetIntent(i, s)
      BY <2>5, <3>1 DEF NoFills, Balanced, Compensated, Done, Over
    <3> QED
      BY <2>3, <2>5, <3>2
  <2> QED
    BY <2>1, <2>2, <2>4, <2>5
<1>3. CASE UNCHANGED <<intents, positions>>
  BY <1>3
<1>4. ASSUME NEW i \in Intents, NEW s \in {"manual_review", "compensating", "executing"},
             UNCHANGED positions, intents' = [intents EXCEPT ![i].status = s]
      PROVE  /\ UNCHANGED positions
             /\ \A j \in Intents : /\ intents'[j].pos = intents[j].pos
                                   /\ intents'[j].action = intents[j].action
                                   /\ intents'[j].status \in Over => intents[j].status \in Over
                                   /\ intents'[j].status = "none" => intents[j].status = "none"
  BY <1>0, <1>4 DEF TypeOK, IntentRows, Over
<1> QED
  BY <1>1, <1>2, <1>3, <1>4, IntentWriters

\* Planned and dropped and settled intents apart, nothing enters the books.
LEMMA SameBooks ==
    ASSUME TypeOK, TypeOK', JournalInv, PairInv, AgreeInv, QuantityInv, HoldInv, SettleInv,
           [Next]_vars, NEW j \in Intents,
           intents'[j].status \in Over => intents[j].status \in Over
    PROVE  Booked'[j] = Booked[j]
<1>1. CASE intents[j].status \in Over
  BY <1>1, OverKept DEF Booked, Markets
<1>2. CASE intents[j].status \notin Over
  BY <1>2 DEF Booked
<1> QED
  BY <1>1, <1>2

\* Everything proved so far of a state.
Sound == TypeOK /\ JournalInv /\ PairInv /\ ReservationConsistent /\ SettledInv

\* A position's members, and what its books sum over.
LEMMA MemberNumbers ==
    ASSUME TypeOK, NEW p \in Intents
    PROVE  /\ Members(p) \subseteq Intents
           /\ Numbers(Booked, Members(p)) /\ IsFiniteSet(Members(p))
<1>1. Members(p) \in SUBSET Intents
  BY DEF Members
<1> QED
  BY <1>1, BookedNumbers DEF Numbers

\* A position's books stay when its members and what they gave do.
LEMMA BooksStay ==
    ASSUME TypeOK, HedgeInv, NEW p \in Intents,
           positions'[p].status # "none" => positions[p].status # "none",
           positions'[p].qty = positions[p].qty,
           positions[p].status # "none" =>
             /\ intents'[p].action = intents[p].action /\ intents'[p].status = intents[p].status
             /\ Members(p)' = Members(p)
             /\ \A j \in Members(p) : Booked'[j] = Booked[j]
    PROVE  BookInv(p)'
<1> SUFFICES ASSUME positions'[p].status # "none" PROVE BookInv(p)'
  BY DEF BookInv
<1>1. /\ intents[p].action = "open" /\ intents[p].status = "hedged"
      /\ positions[p].qty = SumFunctionOnSet(Booked, Members(p))
  BY DEF HedgeInv, BookInv
<1>2. SumFunctionOnSet(Booked, Members(p)) = SumFunctionOnSet(Booked', Members(p))
  <2>1. Numbers(Booked, Members(p)) /\ \A j \in Members(p) : Booked[j] = Booked'[j]
    BY MemberNumbers
  <2> HIDE DEF Booked, Members
  <2> QED
    BY <2>1, SumAgrees
<1> QED
  BY <1>1, <1>2 DEF BookInv

\* Planning adds a member that has given nothing yet.
LEMMA PlansBooks ==
    ASSUME Sound, TypeOK', HedgeInv, [Next]_vars, Plans, NEW r \in Intents
    PROVE  PointsInv(r)' /\ BookInv(r)'
<1>0. /\ TypeOK /\ JournalInv /\ PairInv /\ AgreeInv /\ QuantityInv /\ HoldInv /\ SettleInv
      /\ \A j \in Intents : PointsInv(j) /\ BookInv(j)
  BY DEF Sound, SettledInv, HedgeInv
<1>1. PICK i \in Intents :
             /\ PlannedGroup(i)
             /\ \/ /\ intents'[i].action = "open" /\ intents'[i].pos = 0
                   /\ positions' = positions
                \/ /\ intents'[i].action = "close"
                   /\ \E p \in Intents :
                        /\ intents'[i].pos = p /\ positions[p].status = "open"
                        /\ \A s \in Intents :
                             /\ positions'[s].qty = positions[s].qty
                             /\ positions'[s].status = "none" <=> positions[s].status = "none"
  BY <1>0, PlansPosition
<1>2. /\ intents[i].status = "none" /\ intents'[i].status = "planned"
      /\ \A j \in Intents \ {i} : intents'[j] = intents[j]
      /\ intents[i].pos = 0
  BY <1>0, <1>1 DEF PlannedGroup, PointsInv
<1>3. \A j \in Intents : Booked'[j] = Booked[j]
  BY <1>0, <1>2, SameBooks DEF Over
<1>4. /\ positions'[r].qty = positions[r].qty
      /\ \A s \in Intents : positions'[s].status = "none" <=> positions[s].status = "none"
  BY <1>1
<1>5. PointsInv(r)'
  <2>1. intents[r].pos \in Intents \cup {0} /\ PointsInv(r) /\ 0 \notin Intents
    <3>1. intents[r] \in IntentRows
      BY <1>0 DEF TypeOK
    <3>2. 0 \notin Intents
      BY DEF Intents
    <3> QED
      BY <1>0, <3>1, <3>2 DEF IntentRows
  <2>2. CASE r = i
    <3>1. CASE intents'[i].action = "open" /\ intents'[i].pos = 0
      BY <2>2, <3>1 DEF PointsInv
    <3>2. CASE /\ intents'[i].action = "close"
               /\ \E p \in Intents : intents'[i].pos = p /\ positions[p].status = "open"
      BY <1>2, <1>4, <2>2, <3>2 DEF PointsInv
    <3> QED
      BY <1>1, <3>1, <3>2
  <2>3. CASE r # i
    BY <1>2, <1>4, <2>1, <2>3 DEF PointsInv
  <2> QED
    BY <2>2, <2>3
<1>6. positions[r].status # "none" => r # i
  BY <1>0, <1>2 DEF BookInv
<1>7. CASE intents'[i].pos # r
  <2>1. Members(r)' = Members(r)
    <3>1. intents[i].pos # r
      BY <1>2 DEF Intents
    <3> QED
      BY <1>2, <1>7, <3>1 DEF Members
  <2>2. Members(r) \subseteq Intents
    BY DEF Members
  <2> QED
    BY <1>0, <1>2, <1>3, <1>4, <1>5, <1>6, <2>1, <2>2, BooksStay
<1>8. CASE intents'[i].pos = r
  <2>1. /\ positions[r].status # "none" /\ r # i
    BY <1>1, <1>6, <1>8 DEF Intents
  <2>2. /\ i \notin Members(r) /\ Members(r)' = Members(r) \cup {i}
        /\ Members(r) \subseteq Intents
    BY <1>2, <1>8, <2>1 DEF Members, Intents
  <2>3. Booked'[i] = 0
    BY <1>2 DEF Booked, Over
  <2>4. Numbers(Booked', Members(r)') /\ Numbers(Booked, Members(r))
    BY <1>0, MemberNumbers, BookedNumbers, <1>3, <2>2, FS_AddElement DEF Numbers
  <2>5. SumFunctionOnSet(Booked', Members(r) \cup {i})
          = SumFunctionOnSet(Booked', Members(r)) + Booked'[i]
    <3> HIDE DEF Booked, Members
    <3> QED
      BY <2>2, <2>4, SumWith
  <2>6. SumFunctionOnSet(Booked, Members(r)) = SumFunctionOnSet(Booked', Members(r))
    <3> HIDE DEF Booked, Members
    <3> QED
      BY <1>3, <2>2, <2>4, SumAgrees
  <2>7. SumFunctionOnSet(Booked, Members(r)) \in Int
    BY <2>4, SumIsInt
  <2>8. SumFunctionOnSet(Booked', Members(r)') = SumFunctionOnSet(Booked, Members(r))
    BY <2>2, <2>3, <2>5, <2>6, <2>7
  <2>9. /\ intents[r].action = "open" /\ intents[r].status = "hedged"
        /\ positions[r].qty = SumFunctionOnSet(Booked, Members(r))
        /\ intents'[r] = intents[r]
    BY <1>0, <1>2, <2>1 DEF BookInv
  <2> QED
    BY <1>4, <1>5, <2>8, <2>9 DEF BookInv
<1> QED
  BY <1>7, <1>8

\* A step that plans nothing and ends nothing leaves the books alone.
LEMMA IdleBooks ==
    ASSUME Sound, TypeOK', HedgeInv, [Next]_vars, NEW r \in Intents,
           UNCHANGED positions,
           \A j \in Intents : /\ intents'[j].pos = intents[j].pos
                              /\ intents'[j].action = intents[j].action
                              /\ intents'[j].status \in Over => intents[j].status \in Over
                              /\ intents'[j].status = "none" => intents[j].status = "none"
    PROVE  PointsInv(r)' /\ BookInv(r)'
<1>0. /\ TypeOK /\ JournalInv /\ PairInv /\ AgreeInv /\ QuantityInv /\ HoldInv /\ SettleInv
      /\ PointsInv(r) /\ BookInv(r)
  BY DEF Sound, SettledInv, HedgeInv
<1>1. PointsInv(r)'
  BY <1>0 DEF PointsInv
<1>2. \A j \in Intents : Booked'[j] = Booked[j]
  BY <1>0, SameBooks
<1>3. Members(r)' = Members(r) /\ Members(r) \subseteq Intents
  BY DEF Members
<1>4. positions[r].status # "none" => intents'[r] = intents[r]
  <2>1. positions[r].status # "none" => intents[r].status \in Over
    BY <1>0 DEF BookInv, Over
  <2> QED
    BY <1>0, <2>1, OverKept
<1> QED
  BY <1>0, <1>1, <1>2, <1>3, <1>4, BooksStay

\* An intent that ends gives its position what its orders made.
LEMMA EndsBooks ==
    ASSUME Sound, TypeOK', HedgeInv, [Next]_vars, NEW i \in Intents, Ends(i),
           intents[i].status \in Unsettled, intents'[i].status \in Over, NEW r \in Intents
    PROVE  PointsInv(r)' /\ BookInv(r)'
<1> DEFINE p == intents[i].pos
           net == Net(i, "perp")
<1>0. /\ TypeOK /\ JournalInv /\ PairInv /\ ReservationConsistent
      /\ AgreeInv /\ QuantityInv /\ HoldInv /\ SettleInv
      /\ \A j \in Intents : PointsInv(j) /\ BookInv(j)
  BY DEF Sound, SettledInv, HedgeInv
<1>1. /\ \A j \in Intents \ {i} : intents'[j] = intents[j]
      /\ UNCHANGED <<legs, orders>> /\ Gives(i)
      /\ intents'[i] = [intents[i] EXCEPT !.status = intents'[i].status]
  BY DEF Ends
<1>2. /\ \A j \in Intents : intents[j] \in IntentRows
      /\ 0 \notin Intents /\ "perp" \in Markets
  BY <1>0 DEF TypeOK, Intents, Markets
<1>3. \A j \in Intents : intents'[j].action = intents[j].action /\ intents'[j].pos = intents[j].pos
  <2>1. intents'[i].action = intents[i].action /\ intents'[i].pos = intents[i].pos
    BY <1>1, <1>2 DEF IntentRows
  <2> QED
    BY <1>1, <2>1
<1>4. Members(r)' = Members(r) /\ Members(r) \subseteq Intents
  BY <1>3 DEF Members
<1>5. intents[i].status \notin Over /\ intents[i].status # "none" /\ intents'[i].status # "none"
  BY DEF Over, Unsettled
<1>6. \A j \in Intents \ {i} : Booked'[j] = Booked[j]
  <2> SUFFICES ASSUME NEW j \in Intents \ {i} PROVE Booked'[j] = Booked[j]
    OBVIOUS
  <2>1. intents'[j].status \in Over => intents[j].status \in Over
    BY <1>1
  <2> QED
    BY <1>0, <2>1, SameBooks
<1>7. Booked[i] = 0 /\ Booked'[i] = net /\ net \in Int
  <2>1. Net(i, "perp")' = net
    BY <1>0, <1>1, <1>2, NetKept
  <2>2. net \in Int
    BY <1>0, <1>2, NetOfLegs
  <2> QED
    BY <1>5, <2>1, <2>2 DEF Booked
<1> HIDE DEF net
<1>8. ASSUME i \notin Members(r), positions'[r].status # "none" => positions[r].status # "none",
             positions'[r].qty = positions[r].qty
      PROVE  BookInv(r)'
  <2>1. \A j \in Members(r) : Booked'[j] = Booked[j]
    BY <1>4, <1>6, <1>8
  <2>2. r # i
    BY <1>8 DEF Members
  <2>3. intents'[r] = intents[r]
    BY <1>1, <2>2
  <2> QED
    BY <1>0, <1>4, <1>8, <2>1, <2>3, BooksStay
<1>9. CASE intents[i].action = "open"
  <2>1. p = 0 /\ positions[i].status = "none"
    <3>1. positions[i].status # "none" => intents[i].status = "hedged"
      BY <1>0 DEF BookInv
    <3> QED
      BY <1>0, <1>5, <1>9, <3>1 DEF PointsInv, Over
  <2>2. r # i => i \notin Members(r)
    BY <1>2, <2>1 DEF Members
  <2>3. \/ intents'[i].status = "failed" /\ positions' = positions
        \/ /\ intents'[i].status = "hedged"
           /\ positions' = [positions EXCEPT
                              ![i] = [status |-> "open", qty |-> net, closer |-> 0]]
    BY <1>1, <1>9 DEF Gives, net
  <2>4. CASE positions' = positions
    <3>1. BookInv(r)'
      <4>1. CASE r = i
        BY <2>1, <2>4, <4>1 DEF BookInv
      <4> QED
        BY <1>8, <2>2, <2>4, <4>1
    <3> QED
      BY <1>0, <1>1, <1>3, <1>5, <2>4, <3>1 DEF PointsInv
  <2>5. CASE /\ intents'[i].status = "hedged"
             /\ positions' = [positions EXCEPT
                                ![i] = [status |-> "open", qty |-> net, closer |-> 0]]
    <3>1. /\ positions'[i].status = "open" /\ positions'[i].qty = net
          /\ \A s \in Intents \ {i} : positions'[s] = positions[s]
      BY <1>0, <2>5 DEF TypeOK
    <3>2. PointsInv(r)'
      <4>1. intents[r].pos \in Intents \cup {0} /\ PointsInv(r)
        BY <1>0, <1>2 DEF IntentRows
      <4>2. intents'[r].status = "none" => intents[r].status = "none"
        BY <1>1, <1>5
      <4>3. intents[r].pos # 0 => positions'[intents[r].pos].status # "none"
        BY <3>1, <4>1 DEF PointsInv
      <4> QED
        BY <1>3, <4>1, <4>2, <4>3 DEF PointsInv
    <3>3. CASE r = i
      <4>1. Members(i) = {i}
        BY <1>0, <1>2, <2>1 DEF Members, PointsInv
      <4>2. Members(r)' = {} \cup {i} /\ i \notin {}
        BY <1>4, <3>3, <4>1
      <4>3. Numbers(Booked', {} \cup {i})
        BY <1>7, FS_EmptySet, FS_AddElement DEF Numbers
      <4>4. SumFunctionOnSet(Booked', {} \cup {i}) = SumFunctionOnSet(Booked', {}) + Booked'[i]
        <5> HIDE DEF Booked
        <5> QED
          BY <4>2, <4>3, SumWith
      <4>5. SumFunctionOnSet(Booked', {}) = 0
        BY SumOfNothing
      <4>6. SumFunctionOnSet(Booked', Members(r)') = net
        BY <1>7, <4>2, <4>4, <4>5
      <4> QED
        BY <1>3, <1>9, <2>5, <3>1, <3>2, <3>3, <4>6 DEF BookInv
    <3>4. CASE r # i
      BY <1>8, <2>2, <3>1, <3>2, <3>4
    <3> QED
      BY <3>3, <3>4
  <2> QED
    BY <2>3, <2>4, <2>5
<1>10. CASE intents[i].action = "close"
  <2>1. p \in Intents /\ positions[p].status = "closing"
    BY <1>0, <1>10 DEF ReservationConsistent
  <2>2. \A s \in Intents :
            /\ positions'[s].status = "none" <=> positions[s].status = "none"
            /\ positions'[s].qty = IF s = p THEN positions[s].qty + net ELSE positions[s].qty
    BY <1>1, <1>10 DEF Gives, net
  <2>3. PointsInv(r)'
    <3>1. intents[r].pos \in Intents \cup {0} /\ PointsInv(r)
      BY <1>0, <1>2 DEF IntentRows
    <3>2. intents'[r].status = "none" => intents[r].status = "none"
      BY <1>1, <1>5
    <3>3. intents[r].pos # 0 => positions'[intents[r].pos].status # "none"
      BY <2>2, <3>1 DEF PointsInv
    <3> QED
      BY <1>3, <3>1, <3>2, <3>3 DEF PointsInv
  <2>4. positions[i].status = "none" /\ p # i
    BY <1>0, <1>10, <2>1 DEF BookInv
  <2>5. CASE r = p
    <3>1. i \in Members(r) /\ Numbers(Booked, Members(r))
      BY <1>0, <2>5, MemberNumbers DEF Members
    <3>2. \A j \in Members(r) : j # i => Booked'[j] = Booked[j]
      BY <1>4, <1>6
    <3>3. SumFunctionOnSet(Booked', Members(r))
            = (SumFunctionOnSet(Booked, Members(r)) - Booked[i]) + Booked'[i]
      <4>1. Booked'[i] \in Int
        BY <1>7
      <4> HIDE DEF Booked, Members
      <4> QED
        BY <3>1, <3>2, <4>1, SumChanges
    <3>4. SumFunctionOnSet(Booked, Members(r)) \in Int
      BY <3>1, SumIsInt
    <3>5. SumFunctionOnSet(Booked', Members(r)') = SumFunctionOnSet(Booked, Members(r)) + net
      BY <1>4, <1>7, <3>3, <3>4
    <3>6. /\ intents[r].action = "open" /\ intents[r].status = "hedged"
          /\ positions[r].qty = SumFunctionOnSet(Booked, Members(r))
          /\ intents'[r] = intents[r]
      BY <1>0, <1>1, <2>1, <2>4, <2>5 DEF BookInv
    <3>7. positions'[r].qty = SumFunctionOnSet(Booked', Members(r)')
      BY <2>2, <2>5, <3>5, <3>6
    <3> QED
      BY <2>3, <3>6, <3>7 DEF BookInv
  <2>6. CASE r = i
    BY <2>2, <2>3, <2>4, <2>6 DEF BookInv
  <2>7. CASE r # p /\ r # i
    <3>1. i \notin Members(r)
      BY <2>7 DEF Members
    <3> QED
      BY <1>8, <2>2, <2>3, <2>7, <3>1
  <2> QED
    BY <2>5, <2>6, <2>7
<1> QED
  BY <1>2, <1>9, <1>10 DEF IntentRows

LEMMA HedgeStep ==
    ASSUME Sound, TypeOK', HedgeInv, [Next]_vars PROVE HedgeInv'
<1>0. /\ TypeOK /\ JournalInv /\ PairInv /\ ReservationConsistent
      /\ AgreeInv /\ QuantityInv /\ HoldInv /\ SettleInv
      /\ \A j \in Intents : ExposureInv(j)
  BY DEF Sound, SettledInv, HedgeInv
<1>2. ASSUME NEW j \in Intents, intents[j].status \in Over
      PROVE  ExposureInv(j)'
  BY <1>0, <1>2, OverKept DEF ExposureInv, Markets
<1>3. ASSUME NEW i \in Intents, Ends(i), intents[i].status \in Unsettled,
             intents'[i].status \in Over
      PROVE  HedgeInv'
  <2>1. \A market \in Markets : Net(i, market)' = Net(i, market)
    BY <1>0, <1>3, NetKept DEF Ends
  <2>2. ExposureInv(i)'
    BY <1>3, <2>1 DEF Ends, ExposureInv, Markets
  <2>3. ASSUME NEW j \in Intents \ {i} PROVE ExposureInv(j)'
    <3>1. intents'[j] = intents[j]
      BY <1>3 DEF Ends
    <3>2. CASE intents[j].status \in Over
      BY <1>2, <3>2
    <3>3. CASE intents[j].status \notin Over
      BY <3>1, <3>3 DEF ExposureInv
    <3> QED
      BY <3>2, <3>3
  <2>4. \A j \in Intents : PointsInv(j)' /\ BookInv(j)'
    BY <1>3, EndsBooks
  <2> QED
    BY <2>2, <2>3, <2>4 DEF HedgeInv, Intents
<1>4. ASSUME \A j \in Intents : intents'[j].status \in Over => intents[j].status \in Over,
             \A j \in Intents : PointsInv(j)' /\ BookInv(j)'
      PROVE  HedgeInv'
  <2>1. ASSUME NEW j \in Intents PROVE ExposureInv(j)'
    <3>1. CASE intents[j].status \in Over
      BY <1>2, <3>1
    <3>2. CASE intents[j].status \notin Over
      BY <1>4, <3>2 DEF ExposureInv
    <3> QED
      BY <3>1, <3>2
  <2> QED
    BY <1>4, <2>1 DEF HedgeInv, Intents
<1>5. CASE Plans
  <2>1. PICK i \in Intents : PlannedGroup(i)
    BY <1>0, <1>5, PlansGroup
  <2>2. \A j \in Intents : intents'[j].status \in Over => intents[j].status \in Over
    BY <2>1 DEF PlannedGroup, Over
  <2>3. \A j \in Intents : PointsInv(j)' /\ BookInv(j)'
    BY <1>5, PlansBooks
  <2> QED
    BY <1>4, <2>2, <2>3
<1>6. ASSUME NEW i \in Intents, Drops(i)
      PROVE  HedgeInv'
  <2>1. Ends(i)
    BY <1>0, <1>6, DropEnds
  <2>2. intents[i].status = "planned" /\ intents'[i].status = "failed"
    <3>1. intents[i].status = "planned" /\ intents' = [intents EXCEPT ![i].status = "failed"]
      BY <1>6 DEF Drops, ExpirePlanned, GuardUnexecutable, DropPlanned
    <3> QED
      BY <1>0, <3>1 DEF TypeOK, IntentRows
  <2> QED
    BY <1>3, <2>1, <2>2 DEF Unsettled, Over
<1>7. ASSUME NEW i \in Intents, Settle(i), intents[i].status \notin Over,
             intents'[i].status \in Over
      PROVE  HedgeInv'
  <2>1. Ends(i)
    BY <1>0, <1>7, SettleEnds
  <2>2. intents[i].status \in Unsettled
    <3>1. ~SettlementWaits(i)
      BY <1>7 DEF SettlementWaits, db
    <3> QED
      BY <1>7, <3>1 DEF Settle, Settling, Unsettled
  <2> QED
    BY <1>3, <1>7, <2>1, <2>2
<1>8. CASE /\ ~Plans
           /\ \A i \in Intents : /\ ~Drops(i)
                                 /\ ~(/\ Settle(i) /\ intents[i].status \notin Over
                                      /\ intents'[i].status \in Over)
  <2>1. /\ UNCHANGED positions
        /\ \A j \in Intents : /\ intents'[j].pos = intents[j].pos
                              /\ intents'[j].action = intents[j].action
                              /\ intents'[j].status \in Over => intents[j].status \in Over
                              /\ intents'[j].status = "none" => intents[j].status = "none"
    BY <1>0, <1>8, NothingEnds
  <2>2. \A j \in Intents : PointsInv(j)' /\ BookInv(j)'
    BY <2>1, IdleBooks
  <2> QED
    BY <1>4, <2>1, <2>2
<1> QED
  BY <1>5, <1>6, <1>7, <1>8

LEMMA HedgeInvariant ==
    ASSUME NoneLate PROVE Spec => []HedgeInv
<1>1. Init => HedgeInv
  <2> SUFFICES ASSUME Init, NEW i \in Intents
               PROVE  ExposureInv(i) /\ PointsInv(i) /\ BookInv(i)
    BY DEF HedgeInv
  <2>1. intents[i].status = "none" /\ intents[i].pos = 0 /\ positions[i].status = "none"
    BY DEF Init, NoIntent, NoPosition
  <2> QED
    BY <2>1 DEF ExposureInv, PointsInv, BookInv, Over
<1>2. Sound /\ TypeOK' /\ HedgeInv /\ [Next]_vars => HedgeInv'
  BY HedgeStep
<1>3. Spec => []Sound
  BY TypeCorrect, JournalInvariant, PairInvariant, ReservationsConsistent, SettledInvariant, PTL
  DEF Sound
<1> QED
  BY <1>1, <1>2, <1>3, TypeCorrect, PTL DEF Spec

\* When no call fails with its request still on the way, an intent that failed
\* is flat at the exchange: what was filled of it was compensated, or nothing
\* was, and spot dust of less than one increment is all it can leave.
THEOREM FailuresAreFlat == ASSUME NoneLate PROVE Spec => []FailedLeavesNoExposure
<1>1. TypeOK /\ HedgeInv => FailedLeavesNoExposure
  <2> SUFFICES ASSUME TypeOK, HedgeInv, NEW i \in Intents, intents[i].status = "failed"
               PROVE  /\ PerpNet(Legs(i)) = 0
                      /\ SpotNet(Legs(i)) >= 0 /\ SpotNet(Legs(i)) < LargerGrid
    BY DEF FailedLeavesNoExposure
  <2>1. Net(i, "spot") - Net(i, "perp") \in 0..(LargerGrid - 1) /\ Net(i, "perp") = 0
    BY DEF HedgeInv, ExposureInv, Over
  <2>2. Net(i, "spot") \in Int
    BY NetOfLegs DEF Markets
  <2>3. SpotNet(Legs(i)) = Net(i, "spot") /\ PerpNet(Legs(i)) = Net(i, "perp")
    BY DEF SpotNet, PerpNet, Net
  <2> QED
    BY <2>1, <2>2, <2>3, LargerGridPositive
<1> QED
  BY <1>1, TypeCorrect, HedgeInvariant, PTL

---------------------------------------------------------------------------
(* A position and the orders of all its members *)

\* What each intent's orders made, and all the legs of a set of intents.
Nets(market) == [i \in Intents |-> Net(i, market)]
LegsOf(T)    == {l \in LegIds : l[1] \in T}

LEMMA AllNumbers ==
    ASSUME TypeOK, NEW market \in Markets
    PROVE  /\ \A S \in SUBSET LegIds : Numbers(Traded(market), S)
           /\ \A T \in SUBSET Intents : Numbers(Nets(market), T)
           /\ IsFiniteSet(Intents)
<1>1. IsFiniteSet(Intents)
  BY FS_Interval, BoundAssumption DEF Intents
<1>2. IsFiniteSet(Kinds)
  <2>1. Kinds = (({} \cup {"spot"}) \cup {"perp"}) \cup {"comp"}
    BY DEF Kinds
  <2> QED
    BY <2>1, FS_EmptySet, FS_AddElement
<1>3. IsFiniteSet(LegIds)
  BY <1>1, <1>2, FS_Product DEF LegIds
<1>4. \A l \in LegIds : Traded(market)[l] \in Int
  BY TradedInt
<1>5. \A i \in Intents : Nets(market)[i] \in Int
  BY NetOfLegs DEF Nets
<1> QED
  BY <1>1, <1>3, <1>4, <1>5, FS_Subset DEF Numbers

\* The orders of a set of intents made what each intent's made.
LEMMA SumOfGroups ==
    ASSUME TypeOK, NEW market \in Markets, NEW T \in SUBSET Intents
    PROVE  SumFunctionOnSet(Traded(market), LegsOf(T)) = SumFunctionOnSet(Nets(market), T)
<1> DEFINE f == Traded(market)
           g == Nets(market)
           Left(S) == SumFunctionOnSet(f, LegsOf(S))
           Right(S) == SumFunctionOnSet(g, S)
           B == {S \in SUBSET T : Left(S) # Right(S)}
<1> SUFFICES ASSUME B # {} PROVE FALSE
  OBVIOUS
<1>1. B \in SUBSET (SUBSET T) /\ IsFiniteSet(T)
  BY AllNumbers, FS_Subset
<1>2. PICK m \in B : \A s \in B : s \subseteq m => s = m
  <2> HIDE DEF B
  <2> QED
    BY <1>1, LeastSubset
<1>3. m # {}
  <2>1. LegsOf({}) = {}
    BY DEF LegsOf
  <2>2. Left({}) = 0 /\ Right({}) = 0
    BY <2>1, SumOfNothing
  <2> QED
    BY <2>2
<1>4. PICK x \in m : TRUE
  BY <1>3
<1> DEFINE o == m \ {x}
<1>5. Left(o) = Right(o)
  BY <1>2, <1>4
<1>6. /\ LegsOf(m) = LegsOf(o) \cup Legs(x) /\ LegsOf(o) \cap Legs(x) = {}
      /\ LegsOf(m) \subseteq LegIds
  <2>1. x \in Intents
    BY <1>4
  <2>2. Legs(x) = {l \in LegIds : l[1] = x}
    <3>1. Legs(x) = {<<x, "spot">>, <<x, "perp">>, <<x, "comp">>}
      BY <2>1, GroupLegs
    <3> QED
      BY <2>1, <3>1 DEF LegIds, Kinds
  <2> QED
    BY <1>4, <2>2 DEF LegsOf
<1>7. Left(m) = Left(o) + g[x]
  <2>1. Numbers(f, LegsOf(m))
    BY <1>6, AllNumbers
  <2>2. SumFunctionOnSet(f, LegsOf(o) \cup Legs(x))
          = SumFunctionOnSet(f, LegsOf(o)) + SumFunctionOnSet(f, Legs(x))
    <3> HIDE DEF f, o
    <3> QED
      BY <1>6, <2>1, SumOfUnion
  <2>3. g[x] = SumFunctionOnSet(f, Legs(x))
    BY <1>4 DEF Nets, Net
  <2> QED
    BY <1>6, <2>2, <2>3
<1>8. Right(m) = g[x] + Right(o)
  <2>1. Numbers(g, m)
    BY AllNumbers
  <2> HIDE DEF g
  <2> QED
    BY <1>4, <2>1, SumWithout
<1>9. Right(o) \in Int /\ g[x] \in Int
  <2>1. Numbers(g, o)
    BY AllNumbers
  <2>2. g[x] \in Int
    BY <1>4, NetOfLegs DEF Nets
  <2> QED
    BY <2>1, <2>2, SumIsInt
<1>10. Left(m) = Right(m)
  <2> HIDE DEF Left, Right, g, o
  <2> QED
    BY <1>5, <1>7, <1>8, <1>9
<1> QED
  BY <1>10

\* A position that no close is working on: all its members are over.
LEMMA MembersOver ==
    ASSUME TypeOK, ReservationConsistent, HedgeInv, NEW p \in Intents,
           positions[p].status \in {"open", "closed"}
    PROVE  \A i \in Members(p) : intents[i].status \in Over
<1> SUFFICES ASSUME NEW i \in Members(p) PROVE intents[i].status \in Over
  OBVIOUS
<1>1. i \in Intents /\ intents[i] \in IntentRows /\ PointsInv(i) /\ BookInv(p)
  BY DEF Members, TypeOK, HedgeInv
<1>2. CASE i = p
  BY <1>1, <1>2 DEF BookInv, Over
<1>3. CASE i # p
  <2>1. intents[i].pos = p
    BY <1>3 DEF Members
  <2>2. intents[i].status # "none" /\ intents[i].action = "close"
    <3>1. intents[i].pos # 0
      BY <2>1 DEF Intents
    <3> QED
      BY <1>1, <3>1 DEF PointsInv, IntentRows
  <2>3. intents[i].status \notin Unsettled
    BY <1>1, <2>1, <2>2 DEF ReservationConsistent
  <2> QED
    BY <1>1, <2>2, <2>3 DEF IntentRows, IntentStatuses, Unsettled, Over
<1> QED
  BY <1>2, <1>3

\* The legs of a position are those of its members.
LEMMA FamilyOfMembers ==
    ASSUME TypeOK, NEW p \in Intents
    PROVE  Family(p) = LegsOf(Members(p)) /\ Settlements(p) = Cardinality(Members(p))
<1>1. \A l \in LegIds : l[1] \in Intents
  BY DEF LegIds
<1>2. Family(p) = LegsOf(Members(p))
  BY <1>1 DEF Family, LegsOf, Members
<1>3. {l[1] : l \in Family(p)} = Members(p)
  <2>1. \A i \in Members(p) : <<i, "spot">> \in LegsOf(Members(p)) /\ <<i, "spot">>[1] = i
    BY DEF LegsOf, Members, LegIds, Kinds
  <2>2. \A l \in LegsOf(Members(p)) : l[1] \in Members(p)
    BY DEF LegsOf
  <2> QED
    BY <1>2, <2>1, <2>2
<1> QED
  BY <1>2, <1>3 DEF Settlements

\* When no call fails with its request still on the way, the quantity of every
\* position that no close is working on is what the exchange holds short for
\* it, and the spot held long for it is at least that, with less than one
\* increment of dust for each settlement: the ledger is the account.
THEOREM BooksAreTheAccount == ASSUME NoneLate PROVE Spec => []HedgeMatchesExchange
<1>1. TypeOK /\ ReservationConsistent /\ HedgeInv => HedgeMatchesExchange
  <2> SUFFICES ASSUME TypeOK, ReservationConsistent, HedgeInv, NEW p \in Intents,
                      positions[p].status \in {"open", "closed"}
               PROVE  LET dust == SpotNet(Family(p)) - PerpNet(Family(p)) IN
                      /\ PerpNet(Family(p)) = positions[p].qty
                      /\ dust >= 0 /\ dust <= Settlements(p) * (LargerGrid - 1)
    BY DEF HedgeMatchesExchange
  <2> DEFINE M == Members(p)
             spot == Nets("spot")
             perp == Nets("perp")
  <2>1. M \in SUBSET Intents /\ "spot" \in Markets /\ "perp" \in Markets
    BY DEF Members, Markets
  <2>2. Family(p) = LegsOf(M) /\ Settlements(p) = Cardinality(M)
    BY FamilyOfMembers
  <2>3. /\ SpotNet(Family(p)) = SumFunctionOnSet(spot, M)
        /\ PerpNet(Family(p)) = SumFunctionOnSet(perp, M)
    BY <2>1, <2>2, SumOfGroups DEF SpotNet, PerpNet
  <2>4. Numbers(spot, M) /\ Numbers(perp, M)
    BY <2>1, AllNumbers
  <2>5. \A i \in M : /\ perp[i] = Booked[i]
                     /\ spot[i] - perp[i] \in 0..(LargerGrid - 1)
    <3> SUFFICES ASSUME NEW i \in M
                 PROVE  perp[i] = Booked[i] /\ spot[i] - perp[i] \in 0..(LargerGrid - 1)
      OBVIOUS
    <3>1. i \in Intents /\ intents[i].status \in Over /\ ExposureInv(i)
      BY <2>1, MembersOver DEF HedgeInv
    <3> QED
      BY <3>1 DEF Nets, Booked, ExposureInv
  <2>6. positions[p].qty = SumFunctionOnSet(Booked, M)
    BY DEF HedgeInv, BookInv
  <2>7. LargerGrid - 1 \in Nat
    BY LargerGridPositive
  <2> HIDE DEF M, spot, perp, Booked
  <2>8. SumFunctionOnSet(perp, M) = SumFunctionOnSet(Booked, M)
    BY <2>4, <2>5, SumAgrees
  <2>9. SumFunctionOnSet(spot, M) - SumFunctionOnSet(perp, M)
          \in 0..(Cardinality(M) * (LargerGrid - 1))
    BY <2>4, <2>5, <2>7, SumsApart
  <2> QED
    BY <2>2, <2>3, <2>6, <2>8, <2>9
<1> QED
  BY <1>1, TypeCorrect, ReservationsConsistent, HedgeInvariant, PTL
=============================================================================
