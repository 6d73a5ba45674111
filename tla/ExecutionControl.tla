-------------------------- MODULE ExecutionControl --------------------------
(***************************************************************************)
(* Who may trade, and when: the execution_control row and its writers.     *)
(*                                                                         *)
(* The worker's round turns the row to reconciling and, if every account   *)
(* and its private stream passed, to ready.  The stream manager follows    *)
(* the credentials, the streams' tasks keep the private_stream_states rows *)
(* and pause a ready row when they lose their connection.  Administrators  *)
(* pause, resume, edit credentials and ask for software updates; the host  *)
(* agents deploy them.  Every session on the database is one step.         *)
(*                                                                         *)
(* The executors within a round are LiveTrading's, MultiLegTasks' and      *)
(* InternalTransfers' subject; of them only the pauses they write remain.  *)
(***************************************************************************)
EXTENDS Integers

CONSTANTS
    Accounts,      \* exchange and environment of the configured credentials
    MaxEdits,      \* bound: credentials saved or deleted
    MaxFaults,     \* bound: lost connections, crashes and second workers
    MaxUpdates     \* bound: software updates that were asked for

ASSUME ControlAssumption == {MaxEdits, MaxFaults, MaxUpdates} \subseteq Nat

VARIABLES
    control,       \* the execution_control row
    credentials,   \* updated_at of each account's credential, 0 for none
    rows,          \* the private_stream_states rows
    streams,       \* the manager's dictionary: revision and task
    manager,       \* the manager's step and the summaries it read
    round,         \* the reconciliation round's step and memory
    worker,        \* the worker process and the version it runs
    verified,      \* the version whose round last wrote ready
    update,        \* status and request file, and who works on them
    count          \* edits, faults and updates so far

process == <<streams, manager, round, worker, verified>>
vars == <<control, credentials, rows, process, update, count>>

---------------------------------------------------------------------------
(* Rows *)

Row(state, reason) == [state |-> state, reason |-> reason]
Control ==
    [state : {"blocked", "reconciling", "ready", "paused"},
     reason : {"startup", "administrator", "resume", "executor", "credentials",
               "stream", "round", "update", "updated"}]
UpdatePause == Row("paused", "update")
Revisions == 0..MaxEdits

NoStream == [revision |-> 0, task |-> "none"]
Sleeping == [pc |-> "read", seen |-> [a \in Accounts |-> 0]]
NoRound == [pc |-> "idle", accounts |-> {}, paused |-> FALSE, passed |-> FALSE]
Lost == [connected |-> FALSE, fresh |-> FALSE]
Alive == [connected |-> TRUE, fresh |-> TRUE]

Init ==
    /\ control = Row("blocked", "startup")
    /\ credentials = [a \in Accounts |-> 0]
    /\ rows = [a \in Accounts |-> Lost]
    /\ streams = [a \in Accounts |-> NoStream]
    /\ manager = Sleeping /\ round = NoRound
    /\ worker = [up |-> FALSE, version |-> 0] /\ verified = 0
    /\ update = [status |-> "idle", request |-> "none", api |-> "idle",
                 auto |-> "idle", agent |-> "idle"]
    /\ count = [edits |-> 0, faults |-> 0, updates |-> 0]

\* _request_execution_reconciliation_in_session
Reconciling(row, reason) ==
    IF row.state = "paused" THEN row ELSE Row("reconciling", reason)

\* set_private_stream_state of a stream that is not connected.
Disconnected(row) == IF row.state = "ready" THEN Row("paused", "stream") ELSE row

\* A deployment stops the API and the worker.
ServicesRun == update.agent \notin {"stopped", "reconciled"}

Counted(what, bound) ==
    /\ count[what] < bound
    /\ count' = [count EXCEPT ![what] = @ + 1]

---------------------------------------------------------------------------
(* The administrator, and what the executors find *)

SetControl(row) ==
    /\ control' = row
    /\ UNCHANGED <<credentials, rows, process, update, count>>

PauseExecution  == ServicesRun /\ SetControl(Row("paused", "administrator"))
ResumeExecution == ServicesRun /\ SetControl(Row("reconciling", "resume"))
ExecutorPauses  == worker.up /\ SetControl(Row("paused", "executor"))

\* Saving, replacing or deleting: the row and the request in one session.
SetCredential(a, revision) ==
    /\ ServicesRun /\ Counted("edits", MaxEdits)
    /\ credentials' = [credentials EXCEPT ![a] = revision]
    /\ control' = Reconciling(control, "credentials")
    /\ UNCHANGED <<rows, process, update>>

SaveCredential(a)   == SetCredential(a, count.edits + 1)
SetDefaults(a)      == credentials[a] # 0 /\ SetCredential(a, count.edits + 1)
SetPositionMode(a)  == credentials[a] # 0 /\ SetCredential(a, count.edits + 1)
DeleteCredential(a) == credentials[a] # 0 /\ SetCredential(a, 0)

---------------------------------------------------------------------------
(* The worker process *)

Reset == rows' = [a \in Accounts |-> Lost]

Started(version) ==
    /\ worker' = [up |-> TRUE, version |-> version]
    /\ streams' = [a \in Accounts |-> NoStream]
    /\ manager' = Sleeping /\ round' = NoRound
    /\ Reset

\* The container restarts; the old connections' rows are reset first.
WorkerStarts ==
    /\ ~worker.up /\ ServicesRun
    /\ Started(worker.version)
    /\ UNCHANGED <<control, credentials, verified, update, count>>

WorkerCrash ==
    /\ worker.up /\ Counted("faults", MaxFaults)
    /\ worker' = [worker EXCEPT !.up = FALSE]
    /\ UNCHANGED <<control, credentials, rows, streams, manager, round, verified, update>>

\* A second worker resets the rows before it finds the lock taken.
SecondWorker ==
    /\ worker.up /\ Counted("faults", MaxFaults)
    /\ Reset
    /\ UNCHANGED <<control, credentials, process, update>>

---------------------------------------------------------------------------
(* The stream of an account *)

SetTask(a, task) == streams' = [streams EXCEPT ![a].task = task]

Connect(a) ==
    /\ worker.up /\ streams[a].task = "connecting"
    /\ SetTask(a, "running")
    /\ rows' = [rows EXCEPT ![a] = Alive]
    /\ UNCHANGED <<control, credentials, manager, round, worker, verified, update, count>>

Heartbeat(a) ==
    /\ worker.up /\ streams[a].task = "running" /\ rows[a].connected
    /\ rows' = [rows EXCEPT ![a] = Alive]
    /\ UNCHANGED <<control, credentials, process, update, count>>

\* Thirty seconds without a heartbeat: the probe hangs, or the task is gone.
HeartbeatAges(a) ==
    /\ rows[a].fresh
    /\ rows' = [rows EXCEPT ![a].fresh = FALSE]
    /\ UNCHANGED <<control, credentials, process, update, count>>

RecordLoss(a) ==
    /\ rows' = [rows EXCEPT ![a] = Lost]
    /\ control' = Disconnected(control)

\* The connection raised and is closed.
ConnectionLost(a) ==
    /\ worker.up /\ streams[a].task = "running" /\ Counted("faults", MaxFaults)
    /\ SetTask(a, "connecting")
    /\ RecordLoss(a)
    /\ UNCHANGED <<credentials, manager, round, worker, verified, update>>

\* Writing the loss failed as well: the row still says connected.
LossUnrecorded(a) ==
    /\ worker.up /\ streams[a].task = "running" /\ Counted("faults", MaxFaults)
    /\ SetTask(a, "connecting")
    /\ UNCHANGED <<control, credentials, rows, manager, round, worker, verified, update>>

\* A heartbeat that finds the row disconnected raises.
RowWasReset(a) ==
    /\ worker.up /\ streams[a].task = "running" /\ ~rows[a].connected
    /\ SetTask(a, "connecting")
    /\ RecordLoss(a)
    /\ UNCHANGED <<credentials, manager, round, worker, verified, update, count>>

---------------------------------------------------------------------------
(* The stream manager: one pass over the credentials a second *)

\* Variant: the accounts are compared, their revisions are not.
ManagedAtAll == [a \in Accounts |-> IF streams[a].revision = 0 THEN 0 ELSE credentials[a]]
Managed == [a \in Accounts |-> streams[a].revision]
ToStop == {a \in Accounts : streams[a].revision \notin {0, manager.seen[a]}}
ToBuild == {a \in Accounts : manager.seen[a] # 0 /\ streams[a].revision = 0}

ManagerReads ==
    /\ worker.up /\ manager.pc = "read" /\ credentials # Managed
    /\ manager' = [pc |-> "request", seen |-> credentials]
    /\ UNCHANGED <<control, credentials, rows, streams, round, worker, verified, update,
                   count>>

ManagerRequests ==
    /\ worker.up /\ manager.pc = "request"
    /\ manager' = [manager EXCEPT !.pc = "stop"]
    /\ control' = Reconciling(control, "credentials")
    /\ UNCHANGED <<credentials, rows, streams, round, worker, verified, update, count>>

\* Variant: the canceled connection stays in the dictionary.
Cancel(a) == SetTask(a, "none")

\* _stop, after managed.pop
Stop(a) == streams' = [streams EXCEPT ![a] = NoStream]

ManagerStops(a) ==
    /\ worker.up /\ manager.pc = "stop" /\ a \in ToStop
    /\ Stop(a)
    /\ RecordLoss(a)
    /\ UNCHANGED <<credentials, manager, round, worker, verified, update, count>>

ManagerStopped ==
    /\ worker.up /\ manager.pc = "stop" /\ ToStop = {}
    /\ manager' = [manager EXCEPT !.pc = "build"]
    /\ UNCHANGED <<control, credentials, rows, streams, round, worker, verified, update,
                   count>>

ManagerBuilds(a) ==
    /\ worker.up /\ manager.pc = "build" /\ a \in ToBuild
    /\ streams' = [streams EXCEPT ![a] =
          [revision |-> manager.seen[a], task |-> "connecting"]]
    /\ UNCHANGED <<control, credentials, rows, manager, round, worker, verified, update,
                   count>>

\* No connection can be built for the account: it is tried again next pass.
BuildFails(a) ==
    /\ worker.up /\ manager.pc = "build" /\ a \in ToBuild
    /\ manager' = [manager EXCEPT !.seen[a] = 0]
    /\ RecordLoss(a)
    /\ UNCHANGED <<credentials, streams, round, worker, verified, update, count>>

ManagerSleeps ==
    /\ worker.up /\ manager.pc = "build" /\ ToBuild = {}
    /\ manager' = Sleeping
    /\ UNCHANGED <<control, credentials, rows, streams, round, worker, verified, update,
                   count>>

---------------------------------------------------------------------------
(* The reconciliation round *)

RoundStep(pc) ==
    /\ worker.up /\ round.pc = pc
    /\ UNCHANGED <<credentials, rows, streams, manager, worker, update, count>>

RoundReads ==
    /\ RoundStep("idle")
    /\ round' = [NoRound EXCEPT !.pc = "mark", !.paused = control.state = "paused"]
    /\ UNCHANGED <<control, verified>>

RoundMarks ==
    /\ RoundStep("mark")
    /\ control' = IF round.paused THEN control ELSE Row("reconciling", "round")
    /\ round' = [round EXCEPT !.pc = "check"]
    /\ UNCHANGED verified

Configured == {a \in Accounts : credentials[a] # 0}

\* Without an account nothing is checked.
NoAccounts ==
    /\ RoundStep("check") /\ Configured = {}
    /\ control' = IF round.paused THEN control ELSE Row("blocked", "round")
    /\ round' = NoRound
    /\ UNCHANGED verified

\* Balances, orders, fills and positions of the accounts it lists, over REST.
RoundChecks(passed) ==
    /\ RoundStep("check") /\ Configured # {}
    /\ round' = [round EXCEPT !.pc = "final", !.accounts = Configured,
                              !.passed = passed]
    /\ UNCHANGED <<control, verified>>

RoundReadsAgain ==
    /\ RoundStep("final")
    /\ round' = [round EXCEPT !.pc = "streams",
                              !.paused = @ \/ control.state = "paused"]
    /\ UNCHANGED <<control, verified>>

\* private_stream_ready
StreamReady(a) == rows[a].connected /\ rows[a].fresh

RoundReadsStreams ==
    /\ RoundStep("streams")
    /\ round' = [round EXCEPT !.pc = "write",
          !.passed = @ /\ \A a \in round.accounts : StreamReady(a)]
    /\ UNCHANGED <<control, verified>>

RoundWrites ==
    /\ RoundStep("write")
    /\ round' = NoRound
    /\ control' = IF round.paused THEN control
                  ELSE Row(IF round.passed THEN "ready" ELSE "blocked", "round")
    /\ verified' = IF ~round.paused /\ round.passed THEN worker.version ELSE verified

---------------------------------------------------------------------------
(* Software updates: the requests *)

Only(field, value) ==
    /\ update' = [update EXCEPT ![field] = value]
    /\ UNCHANGED <<control, credentials, rows, process, count>>

\* request_software_update
UpdateAllowed(retry) ==
    control.state = "ready" \/ (retry /\ control = UpdatePause)

RequestUpdate(retry, who) ==
    /\ ServicesRun /\ Counted("updates", MaxUpdates)
    /\ UpdateAllowed(retry)
    /\ control' = UpdatePause
    /\ update' = [update EXCEPT ![who] = "enqueue"]
    /\ UNCHANGED <<credentials, rows, process>>

\* update_status: a request nobody has taken yet is shown as queued.
UpdateStatus ==
    IF update.request # "none" /\ update.status \notin {"checking", "updating"}
    THEN "queued" ELSE update.status

ApplyUpdate ==
    /\ update.api = "idle" /\ UpdateStatus \in {"available", "failed"}
    /\ RequestUpdate(UpdateStatus = "failed", "api")

\* update-prepare, under the agents' lock
AutomaticUpdate ==
    /\ update.auto = "idle" /\ update.agent = "idle" /\ update.request = "none"
    /\ RequestUpdate(FALSE, "auto")

\* The file is linked, unless another request is there.
Enqueue(who) ==
    /\ update[who] = "enqueue" /\ (who = "api" => ServicesRun)
    /\ update' = [update EXCEPT ![who] = "idle",
          !.request = IF @ = "none" THEN "update" ELSE @]
    /\ UNCHANGED <<control, credentials, rows, process, count>>

CheckForUpdate ==
    ServicesRun /\ update.request = "none" /\ Only("request", "check")

---------------------------------------------------------------------------
(* Software updates: the agent *)

AgentTakes ==
    /\ update.agent = "idle" /\ update.request # "none"
    /\ update' = [update EXCEPT !.agent = "verify",
          !.status = IF update.request = "check" THEN "checking" ELSE "updating"]
    /\ UNCHANGED <<control, credentials, rows, process, count>>

AgentEnds(status) ==
    update' = [update EXCEPT !.agent = "idle", !.request = "none", !.status = status]

AgentChecked(status) ==
    /\ update.agent = "verify" /\ update.request = "check"
    /\ AgentEnds(status)
    /\ UNCHANGED <<control, credentials, rows, process, count>>

\* Before the services stop, or when the new ones are not healthy in time.
AgentFails ==
    /\ update.agent \in {"verify", "started"}
    /\ AgentEnds("failed")
    /\ UNCHANGED <<control, credentials, rows, process, count>>

StopServices ==
    /\ update.agent = "verify" /\ update.request = "update"
    /\ update' = [update EXCEPT !.agent = "stopped", !.api = "idle"]
    /\ worker' = [worker EXCEPT !.up = FALSE]
    /\ UNCHANGED <<control, credentials, rows, streams, manager, round, verified, count>>

\* Variant: whatever paused execution is taken for the update.
AnyPause == control.state = "paused"

\* request_post_update_reconciliation
OwnPause == control \in {UpdatePause, Row("reconciling", "updated")}

\* Variant: without --required the deployment goes on, whatever the row says.
UpdateReconcileOptional ==
    /\ update.agent = "stopped"
    /\ control' = IF OwnPause THEN Row("reconciling", "updated") ELSE control
    /\ update' = [update EXCEPT !.agent = "reconciled"]
    /\ UNCHANGED <<credentials, rows, process, count>>

\* update-reconcile --required, after the migrations
UpdateReconcile ==
    /\ update.agent = "stopped" /\ OwnPause
    /\ control' = Row("reconciling", "updated")
    /\ update' = [update EXCEPT !.agent = "reconciled"]
    /\ UNCHANGED <<credentials, rows, process, count>>

\* Any step failed: the exit hook starts the previous containers again.
DeploymentFails ==
    /\ update.agent \in {"stopped", "reconciled"}
    /\ AgentEnds("failed")
    /\ Started(worker.version)
    /\ UNCHANGED <<control, credentials, verified, count>>

StartServices ==
    /\ update.agent = "reconciled"
    /\ update' = [update EXCEPT !.agent = "started"]
    /\ Started(worker.version + 1)
    /\ UNCHANGED <<control, credentials, verified, count>>

AgentSucceeds ==
    /\ update.agent = "started"
    /\ AgentEnds("succeeded")
    /\ UNCHANGED <<control, credentials, rows, process, count>>

---------------------------------------------------------------------------
(* Specification *)

Administrator ==
    \/ PauseExecution \/ ResumeExecution \/ ExecutorPauses
    \/ \E a \in Accounts :
          \/ SaveCredential(a) \/ DeleteCredential(a)
          \/ SetDefaults(a) \/ SetPositionMode(a)

StreamStep(a) ==
    \/ Connect(a) \/ Heartbeat(a) \/ HeartbeatAges(a)
    \/ ConnectionLost(a) \/ LossUnrecorded(a)

ManagerStep ==
    \/ ManagerReads \/ ManagerRequests \/ ManagerStopped \/ ManagerSleeps
    \/ \E a \in Accounts : ManagerStops(a) \/ ManagerBuilds(a) \/ BuildFails(a)

ReconciliationStep ==
    \/ RoundReads \/ RoundMarks \/ NoAccounts
    \/ \E passed \in BOOLEAN : RoundChecks(passed)
    \/ RoundReadsAgain \/ RoundReadsStreams \/ RoundWrites

Requests ==
    \/ ApplyUpdate \/ AutomaticUpdate \/ CheckForUpdate
    \/ \E who \in {"api", "auto"} : Enqueue(who)

Deployment ==
    \/ UpdateReconcile \/ DeploymentFails \/ StartServices

AgentStep ==
    \/ AgentTakes \/ AgentFails \/ StopServices \/ Deployment \/ AgentSucceeds
    \/ \E status \in {"idle", "available"} : AgentChecked(status)

Next ==
    \/ Administrator \/ WorkerStarts \/ WorkerCrash \/ SecondWorker
    \/ \E a \in Accounts : StreamStep(a) \/ RowWasReset(a)
    \/ ManagerStep \/ ReconciliationStep \/ Requests \/ AgentStep

Spec == Init /\ [][Next]_vars

Unserved(a) == streams[a].task # "running"

\* The worker's tasks run, a dead worker is restarted, a deployment that
\* stopped the services ends, a running stream sends its next heartbeat, and
\* without one the last heartbeat ages.
FairSpec ==
    /\ Spec
    /\ WF_vars(WorkerStarts) /\ WF_vars(ManagerStep)
    /\ WF_vars(ReconciliationStep) /\ WF_vars(Deployment)
    /\ \A a \in Accounts :
          WF_vars(RowWasReset(a)) /\ WF_vars(Unserved(a) /\ HeartbeatAges(a))

---------------------------------------------------------------------------
(* Properties *)

\* Every row and every task is typed; a row is fresh only while connected,
\* and a task runs only for a revision.
TypeOK ==
    /\ control \in Control
    /\ credentials \in [Accounts -> Revisions]
    /\ rows \in [Accounts -> [connected : BOOLEAN, fresh : BOOLEAN]]
    /\ \A a \in Accounts : rows[a].fresh => rows[a].connected
    /\ streams \in [Accounts -> [revision : Revisions,
                                 task : {"none", "connecting", "running"}]]
    /\ \A a \in Accounts : streams[a].task = "none" <=> streams[a].revision = 0
    /\ manager \in [pc : {"read", "request", "stop", "build"},
                    seen : [Accounts -> Revisions]]
    /\ round \in [pc : {"idle", "mark", "check", "final", "streams", "write"},
                  accounts : SUBSET Accounts, paused : BOOLEAN, passed : BOOLEAN]
    /\ worker \in [up : BOOLEAN, version : Nat]
    /\ verified \in Nat
    /\ update \in [status : {"idle", "checking", "available", "updating", "succeeded",
                             "failed"},
                   request : {"none", "check", "update"},
                   api : {"idle", "enqueue"}, auto : {"idle", "enqueue"},
                   agent : {"idle", "verify", "stopped", "reconciled", "started"}]
    /\ count \in [edits : 0..MaxEdits, faults : 0..MaxFaults, updates : 0..MaxUpdates]

\* A version trades only after a reconciliation of its own: a deployment
\* never starts the new worker on the ready of the old one, although a round
\* may have overwritten the update's pause.
ReadyIsReconciled == control.state = "ready" => verified = worker.version

\* A pause that is not the update's own is not lifted, nor taken over, by an
\* update, a credential or a stream: only by a resume, another pause, or a
\* round that read the row before.
OnlyItsOwnPause ==
    [][(control.state = "paused" /\ control # UpdatePause)
          => control'.reason \notin {"update", "updated", "credentials", "stream"}
             \/ control' = control]_vars

\* Once credentials, deployments and faults have come to rest, execution is
\* ready only while every account has a running connection of its current
\* credential and a row that says so: not on the stream of a replaced
\* credential, not after a second worker's reset, nor on a loss that was never
\* recorded.
Watched(a) ==
    /\ streams[a].revision = credentials[a] /\ streams[a].task = "running"
    /\ rows[a].connected

ReadyOnlyWatched ==
    <>[](control.state = "ready" => \A a \in Configured : Watched(a))
=============================================================================
