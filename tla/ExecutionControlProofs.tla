----------------------- MODULE ExecutionControlProofs -----------------------
(***************************************************************************)
(* The control row, for every set of accounts and any number of credential *)
(* edits, faults and software updates: the state is of its type, a         *)
(* deployment and a lost connection never lift somebody else's pause, and  *)
(* the program that is ready has been reconciled in the version that runs. *)
(***************************************************************************)
EXTENDS ExecutionControl, TLAPS

\* One step's part of OnlyItsOwnPause, which is an action property as it stands
\* and needs no invariant.
OwnPauseKept ==
    (control.state = "paused" /\ control # UpdatePause)
       => \/ control' = control
          \/ control'.reason \notin {"update", "updated", "credentials", "stream"}

\* request_software_update, update-reconcile, invalidate_reconciliation and the
\* stream manager write the control row conditionally: a pause that is not the
\* update's own is never replaced by one of theirs.
THEOREM OnlyOwnPauseLifted == Spec => OnlyItsOwnPause
<1>1. ASSUME [Next]_vars
      PROVE  OwnPauseKept
  <2> SUFFICES ASSUME control.state = "paused", control # UpdatePause,
                      control' # control
               PROVE  control'.reason \notin {"update", "updated", "credentials",
                                              "stream"}
    BY DEF OwnPauseKept
  <2>1. CASE Administrator
    BY <2>1 DEF Administrator, PauseExecution, ResumeExecution, ExecutorPauses,
       SetControl, SaveCredential, DeleteCredential, SetDefaults, SetPositionMode,
       SetCredential, Reconciling, Row
  <2>2. CASE WorkerStarts \/ WorkerCrash \/ SecondWorker
    BY <2>2 DEF WorkerStarts, WorkerCrash, SecondWorker
  <2>3. ASSUME NEW a \in Accounts, StreamStep(a) \/ RowWasReset(a)
        PROVE  FALSE
    BY <2>3 DEF StreamStep, Connect, Heartbeat, HeartbeatAges, ConnectionLost,
       LossUnrecorded, RowWasReset, RecordLoss, Disconnected
  <2>4. CASE ManagerStep
    BY <2>4 DEF ManagerStep, ManagerReads, ManagerRequests, ManagerStopped,
       ManagerSleeps, ManagerStops, ManagerBuilds, BuildFails, RecordLoss,
       Disconnected, Reconciling
  <2>5. CASE ReconciliationStep
    <3>1. CASE RoundMarks
      BY <3>1 DEF RoundMarks, Row
    <3>2. CASE NoAccounts
      BY <3>2 DEF NoAccounts, Row
    <3>3. CASE RoundWrites
      BY <3>3 DEF RoundWrites, Row
    <3>4. CASE UNCHANGED control
      BY <3>4
    <3> QED
      BY <2>5, <3>1, <3>2, <3>3, <3>4 DEF ReconciliationStep, RoundReads,
         RoundChecks, RoundReadsAgain, RoundReadsStreams
  <2>6. CASE Requests
    BY <2>6 DEF Requests, ApplyUpdate, AutomaticUpdate, CheckForUpdate, Only, Enqueue,
       RequestUpdate, UpdateAllowed, UpdatePause, Row
  <2>7. CASE AgentStep
    BY <2>7 DEF AgentStep, AgentTakes, AgentFails, StopServices, Deployment,
       AgentSucceeds, AgentChecked, UpdateReconcile, OwnPause, UpdatePause, Row,
       DeploymentFails, StartServices
  <2>8. CASE UNCHANGED vars
    BY <2>8 DEF vars
  <2> QED
    BY <1>1, <2>1, <2>2, <2>3, <2>4, <2>5, <2>6, <2>7, <2>8 DEF Next
<1> QED
  BY <1>1, PTL DEF Spec, OnlyItsOwnPause, OwnPauseKept

---------------------------------------------------------------------------
\* A fresh deployment: no credential, no worker, execution paused.
LEMMA InitTyped == Init => TypeOK
  BY ControlAssumption DEF Init, TypeOK, Row, Control, Revisions, NoStream, Sleeping,
     NoRound, Lost

USE DEF Revisions

\* Pausing, resuming and editing credentials, defaults and position modes.
LEMMA AdministratorTyped ==
  ASSUME TypeOK, Administrator PROVE TypeOK'
<1>1. CASE PauseExecution \/ ResumeExecution \/ ExecutorPauses
  BY <1>1 DEF PauseExecution, ResumeExecution, ExecutorPauses, SetControl, Row, Control,
     TypeOK, process
<1>2. ASSUME NEW a \in Accounts, NEW revision, SetCredential(a, revision),
             revision \in Revisions \/ revision = count.edits + 1
      PROVE  TypeOK'
  <2>1. count' = [count EXCEPT !.edits = count.edits + 1] /\ count.edits < MaxEdits
    BY <1>2 DEF SetCredential, Counted
  <2>2. /\ count' \in [edits : 0..MaxEdits, faults : 0..MaxFaults, updates : 0..MaxUpdates]
        /\ count.edits + 1 \in 0..MaxEdits
    BY <2>1, ControlAssumption DEF TypeOK
  <2>3. credentials' \in [Accounts -> 0..MaxEdits]
    BY <1>2, <2>2 DEF SetCredential, TypeOK
  <2>4. control' \in Control
    BY <1>2 DEF SetCredential, Reconciling, Row, Control, TypeOK
  <2> QED
    BY <1>2, <2>2, <2>3, <2>4 DEF SetCredential, TypeOK, process
<1>3. PICK zero \in Nat : zero = 0
  OBVIOUS
<1>4. zero \in Revisions
  BY <1>3, ControlAssumption
<1> QED
  BY <1>1, <1>2, <1>3, <1>4 DEF Administrator, SaveCredential, DeleteCredential,
     SetDefaults, SetPositionMode

\* A crash or a lost connection is counted within its bound.
LEMMA FaultCounted ==
  ASSUME TypeOK, Counted("faults", MaxFaults)
  PROVE  count' \in [edits : 0..MaxEdits, faults : 0..MaxFaults, updates : 0..MaxUpdates]
<1>1. count' = [count EXCEPT !.faults = count.faults + 1] /\ count.faults < MaxFaults
  BY DEF Counted
<1> QED
  BY <1>1, ControlAssumption DEF TypeOK

\* The stream row a start of the worker and a lost connection leave.
LEMMA RowsReset == Lost \in [connected : BOOLEAN, fresh : BOOLEAN] /\ ~Lost.fresh
  BY DEF Lost

\* A start of the worker resets every row, stream, manager and round.
LEMMA StartedTyped ==
  ASSUME TypeOK, NEW version \in Nat, Started(version)
  PROVE  /\ worker' \in [up : BOOLEAN, version : Nat]
         /\ streams' \in [Accounts -> [revision : Revisions,
                                       task : {"none", "connecting", "running"}]]
         /\ \A a \in Accounts : streams'[a].task = "none" <=> streams'[a].revision = 0
         /\ manager' \in [pc : {"read", "request", "stop", "build"},
                          seen : [Accounts -> Revisions]]
         /\ round' \in [pc : {"idle", "mark", "check", "final", "streams", "write"},
                        accounts : SUBSET Accounts, paused : BOOLEAN, passed : BOOLEAN]
         /\ rows' \in [Accounts -> [connected : BOOLEAN, fresh : BOOLEAN]]
         /\ \A a \in Accounts : rows'[a].fresh => rows'[a].connected
<1>1. /\ NoStream \in [revision : Revisions, task : {"none", "connecting", "running"}]
      /\ NoStream.task = "none" /\ NoStream.revision = 0
      /\ Sleeping \in [pc : {"read", "request", "stop", "build"},
                       seen : [Accounts -> Revisions]]
  BY ControlAssumption DEF NoStream, Sleeping
<1>2. NoRound \in [pc : {"idle", "mark", "check", "final", "streams", "write"},
                   accounts : SUBSET Accounts, paused : BOOLEAN, passed : BOOLEAN]
  BY DEF NoRound
<1> QED
  BY <1>1, <1>2, RowsReset DEF Started, Reset

\* The worker starting, crashing, and a second one that resets the rows before
\* it finds the advisory lock taken.
LEMMA WorkerTyped ==
  ASSUME TypeOK, WorkerStarts \/ WorkerCrash \/ SecondWorker PROVE TypeOK'
<1>1. CASE WorkerStarts
  <2>1. worker.version \in Nat /\ Started(worker.version)
    BY <1>1 DEF WorkerStarts, TypeOK
  <2> QED
    BY <1>1, <2>1, StartedTyped DEF WorkerStarts, TypeOK
<1>2. CASE WorkerCrash
  <2>1. worker' \in [up : BOOLEAN, version : Nat]
    BY <1>2 DEF WorkerCrash, TypeOK
  <2> QED
    BY <1>2, <2>1, FaultCounted DEF WorkerCrash, TypeOK
<1>3. CASE SecondWorker
  BY <1>3, FaultCounted, RowsReset DEF SecondWorker, Reset, TypeOK, process
<1> QED
  BY <1>1, <1>2, <1>3

\* Recording a lost connection: the row, and the pause unless one is there.
LEMMA LossTyped ==
  ASSUME TypeOK, NEW a \in Accounts, RecordLoss(a)
  PROVE  /\ rows' \in [Accounts -> [connected : BOOLEAN, fresh : BOOLEAN]]
         /\ \A b \in Accounts : rows'[b].fresh => rows'[b].connected
         /\ control' \in Control
  BY RowsReset DEF RecordLoss, Disconnected, Row, Control, TypeOK

\* A connection task changes its own stream only.
LEMMA TaskTyped ==
  ASSUME TypeOK, NEW a \in Accounts, NEW task \in {"connecting", "running"},
         streams[a].task # "none", SetTask(a, task)
  PROVE  /\ streams' \in [Accounts -> [revision : Revisions,
                                       task : {"none", "connecting", "running"}]]
         /\ \A b \in Accounts : streams'[b].task = "none" <=> streams'[b].revision = 0
  BY DEF SetTask, TypeOK

\* The connection tasks of the private streams.
LEMMA StreamTyped ==
  ASSUME TypeOK, NEW a \in Accounts, StreamStep(a) \/ RowWasReset(a) PROVE TypeOK'
<1>1. CASE Connect(a)
  <2>1. /\ rows' \in [Accounts -> [connected : BOOLEAN, fresh : BOOLEAN]]
        /\ \A b \in Accounts : rows'[b].fresh => rows'[b].connected
    BY <1>1 DEF Connect, Alive, TypeOK
  <2> QED
    BY <1>1, <2>1, TaskTyped DEF Connect, TypeOK
<1>2. CASE Heartbeat(a)
  <2>1. /\ rows' \in [Accounts -> [connected : BOOLEAN, fresh : BOOLEAN]]
        /\ \A b \in Accounts : rows'[b].fresh => rows'[b].connected
    BY <1>2 DEF Heartbeat, Alive, TypeOK
  <2> QED
    BY <1>2, <2>1 DEF Heartbeat, TypeOK, process
<1>3. CASE HeartbeatAges(a)
  <2>1. rows' = [rows EXCEPT ![a].fresh = FALSE]
    BY <1>3 DEF HeartbeatAges
  <2>2. rows' \in [Accounts -> [connected : BOOLEAN, fresh : BOOLEAN]]
    <3>1. rows \in [Accounts -> [connected : BOOLEAN, fresh : BOOLEAN]]
      BY DEF TypeOK
    <3>2. [rows[a] EXCEPT !.fresh = FALSE] \in [connected : BOOLEAN, fresh : BOOLEAN]
      BY <3>1
    <3> QED
      BY <2>1, <3>1, <3>2
  <2>3. ASSUME NEW b \in Accounts, rows'[b].fresh
        PROVE  rows'[b].connected
    <3>1. rows'[b] = rows[b]
      BY <2>1, <2>3 DEF TypeOK
    <3> QED
      BY <2>3, <3>1 DEF TypeOK
  <2> QED
    BY <1>3, <2>2, <2>3 DEF HeartbeatAges, TypeOK, process
<1>4. CASE ConnectionLost(a)
  BY <1>4, LossTyped, TaskTyped, FaultCounted DEF ConnectionLost, TypeOK
<1>5. CASE LossUnrecorded(a)
  BY <1>5, TaskTyped, FaultCounted DEF LossUnrecorded, TypeOK
<1>6. CASE RowWasReset(a)
  BY <1>6, LossTyped, TaskTyped DEF RowWasReset, TypeOK
<1> QED
  BY <1>1, <1>2, <1>3, <1>4, <1>5, <1>6 DEF StreamStep

\* The stream manager: reading the credentials, asking for a reconciliation,
\* stopping the streams of replaced credentials and building the missing ones.
LEMMA ManagerTyped ==
  ASSUME TypeOK, ManagerStep PROVE TypeOK'
<1> DEFINE ManagerRows == [pc : {"read", "request", "stop", "build"},
                           seen : [Accounts -> Revisions]]
<1>1. CASE ManagerReads
  <2>1. manager' \in ManagerRows
    BY <1>1 DEF ManagerReads, TypeOK
  <2> QED
    BY <1>1, <2>1 DEF ManagerReads, TypeOK
<1>2. CASE ManagerRequests
  <2>1. manager' \in ManagerRows
    BY <1>2 DEF ManagerRequests, TypeOK
  <2>2. control' \in Control
    BY <1>2 DEF ManagerRequests, Reconciling, Row, Control, TypeOK
  <2> QED
    BY <1>2, <2>1, <2>2 DEF ManagerRequests, TypeOK
<1>3. CASE ManagerStopped
  <2>1. manager' \in ManagerRows
    BY <1>3 DEF ManagerStopped, TypeOK
  <2> QED
    BY <1>3, <2>1 DEF ManagerStopped, TypeOK
<1>4. CASE ManagerSleeps
  <2>1. manager' \in ManagerRows
    BY <1>4, ControlAssumption DEF ManagerSleeps, Sleeping
  <2> QED
    BY <1>4, <2>1 DEF ManagerSleeps, TypeOK
<1>5. ASSUME NEW a \in Accounts, ManagerStops(a)
      PROVE  TypeOK'
  <2>1. /\ NoStream \in [revision : Revisions, task : {"none", "connecting", "running"}]
        /\ NoStream.task = "none" /\ NoStream.revision = 0
    BY ControlAssumption DEF NoStream
  <2>2. /\ streams' \in [Accounts -> [revision : Revisions,
                                      task : {"none", "connecting", "running"}]]
        /\ \A b \in Accounts : streams'[b].task = "none" <=> streams'[b].revision = 0
    BY <1>5, <2>1 DEF ManagerStops, Stop, TypeOK
  <2> QED
    BY <1>5, <2>2, LossTyped DEF ManagerStops, TypeOK
<1>6. ASSUME NEW a \in Accounts, ManagerBuilds(a)
      PROVE  TypeOK'
  <2> DEFINE built == [revision |-> manager.seen[a], task |-> "connecting"]
  <2>1. /\ built \in [revision : Revisions, task : {"none", "connecting", "running"}]
        /\ built.task # "none" /\ built.revision # 0
    BY <1>6 DEF ManagerBuilds, ToBuild, TypeOK
  <2>2. streams' = [streams EXCEPT ![a] = built]
    BY <1>6 DEF ManagerBuilds
  <2>3. /\ streams' \in [Accounts -> [revision : Revisions,
                                      task : {"none", "connecting", "running"}]]
        /\ \A b \in Accounts : streams'[b].task = "none" <=> streams'[b].revision = 0
    <3> HIDE DEF built
    <3> QED
      BY <2>1, <2>2 DEF TypeOK
  <2> QED
    BY <1>6, <2>3 DEF ManagerBuilds, TypeOK
<1>7. ASSUME NEW a \in Accounts, BuildFails(a)
      PROVE  TypeOK'
  <2>1. PICK zero \in Revisions : zero = 0
    BY ControlAssumption
  <2>2. manager' = [manager EXCEPT !.seen = [manager.seen EXCEPT ![a] = zero]]
    BY <1>7, <2>1 DEF BuildFails
  <2>3. manager' \in ManagerRows
    BY <2>2 DEF TypeOK
  <2> QED
    BY <1>7, <2>3, LossTyped DEF BuildFails, TypeOK
<1> QED
  BY <1>1, <1>2, <1>3, <1>4, <1>5, <1>6, <1>7 DEF ManagerStep

\* A reconciliation round, from the row it reads to the row it writes.
LEMMA RoundTyped ==
  ASSUME TypeOK, ReconciliationStep PROVE TypeOK'
<1> DEFINE RoundRows ==
      [pc : {"idle", "mark", "check", "final", "streams", "write"},
       accounts : SUBSET Accounts, paused : BOOLEAN, passed : BOOLEAN]
<1>1. NoRound \in RoundRows
  BY DEF NoRound
<1>2. round' \in RoundRows
  <2>1. CASE RoundReads
    BY <2>1, <1>1 DEF RoundReads
  <2>2. CASE RoundMarks
    BY <2>2 DEF RoundMarks, TypeOK
  <2>6. CASE RoundReadsAgain
    <3>1. PICK paused \in BOOLEAN : paused = (round.paused \/ control.state = "paused")
      OBVIOUS
    <3>2. round' = [round EXCEPT !.pc = "streams", !.paused = paused]
      BY <2>6, <3>1, Zenon DEF RoundReadsAgain
    <3> QED
      BY <3>2 DEF TypeOK
  <2>3. CASE NoAccounts \/ RoundWrites
    BY <2>3, <1>1 DEF NoAccounts, RoundWrites
  <2>4. ASSUME NEW passed \in BOOLEAN, RoundChecks(passed)
        PROVE  round' \in RoundRows
    BY <2>4 DEF RoundChecks, Configured, TypeOK
  <2>5. CASE RoundReadsStreams
    <3>1. PICK passed \in BOOLEAN :
             passed = (round.passed /\ \A a \in round.accounts : StreamReady(a))
      OBVIOUS
    <3>2. round' = [round EXCEPT !.pc = "write", !.passed = passed]
      BY <2>5, <3>1, Zenon DEF RoundReadsStreams
    <3> QED
      BY <3>2 DEF TypeOK
  <2> QED
    BY <2>1, <2>2, <2>3, <2>4, <2>5, <2>6 DEF ReconciliationStep
<1>3. control' \in Control /\ verified' \in Nat
  <2>1. CASE UNCHANGED <<control, verified>>
    BY <2>1 DEF TypeOK
  <2>2. CASE RoundMarks
    BY <2>2 DEF RoundMarks, Row, Control, TypeOK
  <2>3. CASE NoAccounts
    BY <2>3 DEF NoAccounts, Row, Control, TypeOK
  <2>4. CASE RoundWrites
    BY <2>4 DEF RoundWrites, Row, Control, TypeOK
  <2> QED
    BY <2>1, <2>2, <2>3, <2>4 DEF ReconciliationStep, RoundReads, RoundChecks,
       RoundReadsAgain, RoundReadsStreams
<1>4. UNCHANGED <<credentials, rows, streams, manager, worker, update, count>>
  BY DEF ReconciliationStep, RoundReads, RoundMarks, NoAccounts, RoundChecks,
     RoundReadsAgain, RoundReadsStreams, RoundWrites, RoundStep
<1> QED
  BY <1>2, <1>3, <1>4 DEF TypeOK

\* The rows of an update that TypeOK allows.
UpdateRows ==
    [status : {"idle", "checking", "available", "updating", "succeeded", "failed"},
     request : {"none", "check", "update"}, api : {"idle", "enqueue"},
     auto : {"idle", "enqueue"},
     agent : {"idle", "verify", "stopped", "reconciled", "started"}]

\* The pause that goes with a request for an update.
LEMMA RequestTyped ==
  ASSUME TypeOK, NEW retry, RequestUpdate(retry, "api") \/ RequestUpdate(retry, "auto")
  PROVE  TypeOK'
<1>1. update' \in UpdateRows
  BY DEF RequestUpdate, TypeOK, UpdateRows
<1>2. count' = [count EXCEPT !.updates = count.updates + 1] /\ count.updates < MaxUpdates
  BY DEF RequestUpdate, Counted
<1>3. count' \in [edits : 0..MaxEdits, faults : 0..MaxFaults, updates : 0..MaxUpdates]
  BY <1>2, ControlAssumption DEF TypeOK
<1>4. control' \in Control
  BY DEF RequestUpdate, UpdatePause, Row, Control
<1> QED
  BY <1>1, <1>3, <1>4 DEF RequestUpdate, TypeOK, UpdateRows, process

\* The requests: by the administrator, by the automatic update, and the file that
\* is linked afterwards.
LEMMA RequestsTyped ==
  ASSUME TypeOK, Requests PROVE TypeOK'
<1>1. CASE ApplyUpdate \/ AutomaticUpdate
  BY <1>1, RequestTyped DEF ApplyUpdate, AutomaticUpdate
<1>2. ASSUME NEW who \in {"api", "auto"}, Enqueue(who)
      PROVE  TypeOK'
  <2>1. PICK request \in {"none", "check", "update"} :
           request = IF update.request = "none" THEN "update" ELSE update.request
    BY DEF TypeOK
  <2>2. CASE who = "api"
    <3>1. update' = [update EXCEPT !.api = "idle", !.request = request]
      BY <1>2, <2>1, <2>2 DEF Enqueue
    <3>2. update' \in UpdateRows
      BY <3>1 DEF TypeOK, UpdateRows
    <3>3. UNCHANGED <<control, credentials, rows, process, count>>
      BY <1>2 DEF Enqueue
    <3> QED
      BY <3>2, <3>3 DEF TypeOK, UpdateRows, process
  <2>3. CASE who = "auto"
    <3>1. update' = [update EXCEPT !.auto = "idle", !.request = request]
      BY <1>2, <2>1, <2>3 DEF Enqueue
    <3>2. update' \in UpdateRows
      BY <3>1 DEF TypeOK, UpdateRows
    <3>3. UNCHANGED <<control, credentials, rows, process, count>>
      BY <1>2 DEF Enqueue
    <3> QED
      BY <3>2, <3>3 DEF TypeOK, UpdateRows, process
  <2> QED
    BY <2>2, <2>3
<1>3. CASE CheckForUpdate
  <2>1. update' \in UpdateRows
    BY <1>3 DEF CheckForUpdate, Only, TypeOK, UpdateRows
  <2> QED
    BY <1>3, <2>1 DEF CheckForUpdate, Only, TypeOK, UpdateRows, process
<1> QED
  BY <1>1, <1>2, <1>3 DEF Requests

\* However an update ends, the agent is idle and the request is gone.
LEMMA EndsTyped ==
  ASSUME TypeOK, NEW status \in {"idle", "available", "failed", "succeeded"},
         AgentEnds(status)
  PROVE  update' \in UpdateRows
<1>1. update \in UpdateRows
  BY DEF TypeOK, UpdateRows
<1> QED
  BY <1>1 DEF AgentEnds, UpdateRows

\* The update agent, and the deployment it runs.
LEMMA AgentTyped ==
  ASSUME TypeOK, AgentStep PROVE TypeOK'
<1>1. update' \in UpdateRows
  <2>1. CASE AgentTakes
    <3>1. PICK status \in {"checking", "updating"} :
             status = IF update.request = "check" THEN "checking" ELSE "updating"
      OBVIOUS
    <3>2. update' = [update EXCEPT !.agent = "verify", !.status = status]
      BY <2>1, <3>1 DEF AgentTakes
    <3>3. status \in {"checking", "updating"}
      BY <3>1
    <3> HIDE <3>1
    <3> QED
      BY <3>2, <3>3 DEF TypeOK, UpdateRows
  <2>2. CASE AgentFails \/ DeploymentFails \/ AgentSucceeds
    <3>1. AgentEnds("failed") \/ AgentEnds("succeeded")
      BY <2>2 DEF AgentFails, DeploymentFails, AgentSucceeds
    <3> QED
      BY <3>1, EndsTyped
  <2>3. ASSUME NEW status \in {"idle", "available"}, AgentChecked(status)
        PROVE  update' \in UpdateRows
    BY <2>3, EndsTyped DEF AgentChecked
  <2>4. CASE StopServices
    BY <2>4 DEF StopServices, TypeOK, UpdateRows
  <2>5. CASE UpdateReconcile
    BY <2>5 DEF UpdateReconcile, TypeOK, UpdateRows
  <2>6. CASE StartServices
    BY <2>6 DEF StartServices, TypeOK, UpdateRows
  <2> QED
    BY <2>1, <2>2, <2>3, <2>4, <2>5, <2>6 DEF AgentStep, Deployment
<1>2. CASE StopServices
  <2>1. worker' \in [up : BOOLEAN, version : Nat]
    BY <1>2 DEF StopServices, TypeOK
  <2> QED
    BY <1>1, <1>2, <2>1 DEF StopServices, TypeOK, UpdateRows
<1>3. CASE UpdateReconcile
  <2>1. control' \in Control
    BY <1>3 DEF UpdateReconcile, Row, Control
  <2> QED
    BY <1>1, <1>3, <2>1 DEF UpdateReconcile, TypeOK, UpdateRows, process
<1>4. CASE DeploymentFails \/ StartServices
  <2>1. worker.version \in Nat /\ worker.version + 1 \in Nat
    BY DEF TypeOK
  <2> QED
    BY <1>1, <1>4, <2>1, StartedTyped DEF DeploymentFails, StartServices, TypeOK,
       UpdateRows
<1>5. CASE UNCHANGED <<control, credentials, rows, process, count>>
  BY <1>1, <1>5 DEF TypeOK, UpdateRows, process
<1> QED
  BY <1>2, <1>3, <1>4, <1>5 DEF AgentStep, Deployment, AgentTakes, AgentFails,
     AgentSucceeds, AgentChecked

\* The control row, the stream rows, the manager, the round, the worker and the
\* update keep to their types whatever they do and in whatever order.
THEOREM TypeCorrect == Spec => []TypeOK
<1>1. TypeOK /\ [Next]_vars => TypeOK'
  <2> SUFFICES ASSUME TypeOK, [Next]_vars
               PROVE  TypeOK'
    OBVIOUS
  <2>1. CASE UNCHANGED vars
    BY <2>1 DEF vars, process, TypeOK
  <2> QED
    BY <2>1, AdministratorTyped, WorkerTyped, StreamTyped, ManagerTyped, RoundTyped,
       RequestsTyped, AgentTyped DEF Next
<1> QED
  BY <1>1, InitTyped, PTL DEF Spec

---------------------------------------------------------------------------
\* What ReadyIsReconciled rests on: no worker runs while the services are down,
\* so that nothing but the agent writes the row between update-reconcile and the
\* start of the new version.
UpdateInv ==
    /\ ~ServicesRun => ~worker.up
    /\ update.agent = "reconciled" => control = Row("reconciling", "updated")
    /\ ReadyIsReconciled

\* At first nothing is ready and no update runs.
LEMMA UpdateInvInit == Init => UpdateInv
  BY DEF Init, UpdateInv, ReadyIsReconciled, ServicesRun, Row

\* Only a round of the running worker writes ready, and it notes the version it
\* verified; a new version starts under the row update-reconcile left.
LEMMA UpdateInvStep ==
  ASSUME TypeOK, UpdateInv, [Next]_vars PROVE UpdateInv'
<1> USE DEF UpdateInv, ServicesRun, ReadyIsReconciled
<1>1. CASE Administrator
  <2>1. /\ UNCHANGED <<update, worker, verified>>
        /\ control' = Row("paused", "administrator") \/ control'.state # "ready"
           \/ control' = control
        /\ ServicesRun \/ worker.up
    BY <1>1 DEF Administrator, PauseExecution, ResumeExecution, ExecutorPauses,
       SetControl, SaveCredential, DeleteCredential, SetDefaults, SetPositionMode,
       SetCredential, Reconciling, Row, process
  <2> QED
    BY <2>1 DEF Row
<1>2. CASE WorkerStarts
  BY <1>2 DEF WorkerStarts, Started, TypeOK
<1>3. CASE WorkerCrash
  BY <1>3 DEF WorkerCrash, TypeOK
<1>4. CASE SecondWorker
  BY <1>4 DEF SecondWorker, process
<1>5. ASSUME NEW a \in Accounts, StreamStep(a) \/ RowWasReset(a)
      PROVE  UpdateInv'
  <2>1. UNCHANGED <<update, worker, verified>>
    BY <1>5 DEF StreamStep, RowWasReset, Connect, Heartbeat, HeartbeatAges,
       ConnectionLost, LossUnrecorded, process
  <2>2. control' = control \/ (worker.up /\ control'.state = "paused")
    BY <1>5 DEF StreamStep, RowWasReset, Connect, Heartbeat, HeartbeatAges,
       ConnectionLost, LossUnrecorded, RecordLoss, Disconnected, Row
  <2> QED
    BY <2>1, <2>2
<1>6. CASE ManagerStep
  <2>1. UNCHANGED <<update, worker, verified>> /\ worker.up
    BY <1>6 DEF ManagerStep, ManagerReads, ManagerRequests, ManagerStopped,
       ManagerSleeps, ManagerStops, ManagerBuilds, BuildFails
  <2>2. control' = control \/ control'.state \in {"paused", "reconciling"}
    BY <1>6 DEF ManagerStep, ManagerReads, ManagerRequests, ManagerStopped,
       ManagerSleeps, ManagerStops, ManagerBuilds, BuildFails, RecordLoss, Disconnected,
       Reconciling, Row
  <2> QED
    BY <2>1, <2>2
<1>7. CASE ReconciliationStep
  <2>1. UNCHANGED <<update, worker>> /\ worker.up
    BY <1>7 DEF ReconciliationStep, RoundReads, RoundMarks, NoAccounts, RoundChecks,
       RoundReadsAgain, RoundReadsStreams, RoundWrites, RoundStep
  <2>2. CASE RoundWrites
    BY <2>1, <2>2 DEF RoundWrites, Row
  <2>3. CASE RoundMarks
    BY <2>1, <2>3 DEF RoundMarks, Row
  <2>4. CASE NoAccounts
    BY <2>1, <2>4 DEF NoAccounts, Row
  <2>5. CASE UNCHANGED <<control, verified>>
    BY <2>1, <2>5
  <2> QED
    BY <1>7, <2>2, <2>3, <2>4, <2>5 DEF ReconciliationStep, RoundReads, RoundChecks,
       RoundReadsAgain, RoundReadsStreams
<1>8. CASE Requests
  <2>1. UNCHANGED <<worker, verified>> /\ update'.agent = update.agent
    BY <1>8 DEF Requests, ApplyUpdate, AutomaticUpdate, CheckForUpdate, Only, Enqueue,
       RequestUpdate, process, TypeOK
  <2>2. control' = control \/ (ServicesRun /\ control'.state = "paused")
    <3>1. CASE ApplyUpdate \/ AutomaticUpdate
      <4>1. control' = UpdatePause /\ ServicesRun
        BY <3>1 DEF ApplyUpdate, AutomaticUpdate, RequestUpdate
      <4> QED
        BY <4>1 DEF UpdatePause, Row
    <3>2. CASE CheckForUpdate \/ \E who \in {"api", "auto"} : Enqueue(who)
      BY <3>2 DEF CheckForUpdate, Only, Enqueue
    <3> QED
      BY <1>8, <3>1, <3>2 DEF Requests
  <2> QED
    BY <2>1, <2>2
<1>9. CASE AgentStep
  <2>1. CASE StopServices
    BY <2>1 DEF StopServices, TypeOK
  <2>2. CASE UpdateReconcile
    BY <2>2 DEF UpdateReconcile, Row, process, TypeOK
  <2>3. CASE DeploymentFails
    BY <2>3 DEF DeploymentFails, AgentEnds, Started, TypeOK
  <2>4. CASE StartServices
    BY <2>4 DEF StartServices, Started, Row, TypeOK
  <2>5. CASE AgentTakes \/ AgentFails \/ AgentSucceeds
             \/ \E status \in {"idle", "available"} : AgentChecked(status)
    <3>1. /\ UNCHANGED <<control, worker, verified>>
          /\ update'.agent \in {"idle", "verify"}
      BY <2>5 DEF AgentTakes, AgentFails, AgentSucceeds, AgentChecked, AgentEnds,
         process, TypeOK
    <3> QED
      BY <3>1
  <2> QED
    BY <1>9, <2>1, <2>2, <2>3, <2>4, <2>5 DEF AgentStep, Deployment
<1>10. CASE UNCHANGED vars
  BY <1>10 DEF vars, process
<1> QED
  BY <1>1, <1>2, <1>3, <1>4, <1>5, <1>6, <1>7, <1>8, <1>9, <1>10 DEF Next

\* Execution is never ready on the reconciliation of an earlier version: the agent
\* stops the services, sets the row to reconciling, and starts the new version.
THEOREM NewVersionReconciles == Spec => []ReadyIsReconciled
<1>1. TypeOK /\ UpdateInv /\ [Next]_vars => UpdateInv'
  BY UpdateInvStep
<1>2. UpdateInv => ReadyIsReconciled
  BY DEF UpdateInv
<1> QED
  BY <1>1, <1>2, UpdateInvInit, TypeCorrect, PTL DEF Spec
=============================================================================
