------------------------ MODULE OrchestrationDb_proofs ------------------------
(* Theorems of OrchestrationDb for every value of its constants. *)
EXTENDS OrchestrationDb, TLAPS

(***************************************************************************)
(* Type correctness                                                        *)
(***************************************************************************)
LEMMA TypeTaskCreate ==
  ASSUME TypeOK, NEW t \in Task, TaskCreate(t) PROVE TypeOK'
BY DEF TypeOK, TaskCreate, SetStatus, calls, TaskStatus, LiveWorker, DeadWorker

LEMMA TypeRow == ASSUME TypeOK, NEW d \in Dispatch PROVE dispatches[d] \in Row
BY DEF TypeOK

\* A row keeps its type when only its status changes.
LEMMA TypeStatus ==
  ASSUME TypeOK, NEW d \in Dispatch, NEW s \in DispatchStatus \cup {"none"}
  PROVE [dispatches EXCEPT ![d] = [dispatches[d] EXCEPT !.status = s]] \in [Dispatch -> Row]
<1>1. [dispatches[d] EXCEPT !.status = s] \in Row
  BY TypeRow DEF Row
<1> QED
  BY <1>1 DEF TypeOK

LEMMA TypeFailedRow ==
  ASSUME TypeOK, NEW d \in Dispatch, NEW why \in {"stalled", "error"}
  PROVE FailedRow(d, why) \in Row
<1>1. dispatches[d] \in Row
  BY TypeRow
<1>2. PICK s \in {"circuit_broken", "failed"} :
        FailedRow(d, why) = [dispatches[d] EXCEPT
          !.status = s, !.failures = @ + 1, !.revoked = TRUE, !.lastFailure = why]
  BY DEF FailedRow
<1>3. s \in DispatchStatus \cup {"none"}
  BY DEF DispatchStatus
<1>4. dispatches[d].failures + 1 \in Nat
  BY <1>1 DEF Row
<1>5. ASSUME NEW n \in Nat
      PROVE [dispatches[d] EXCEPT !.status = s, !.failures = n,
               !.revoked = TRUE, !.lastFailure = why] \in Row
  BY <1>1, <1>3 DEF Row
<1> QED
  BY <1>2, <1>4, <1>5

LEMMA TypeNewRow ==
  ASSUME NEW t \in Task, NEW n \in Nat, NEW p \in Terminal, NEW m \in BOOLEAN
  PROVE [EmptyRow EXCEPT !.task = t, !.status = "dispatched", !.failures = n,
           !.terminal = p, !.minted = m] \in Row
BY DEF EmptyRow, Row, DispatchStatus, ActiveStatus

LEMMA TypeSettleRows ==
  ASSUME TypeOK, NEW D \in SUBSET Dispatch, NEW s \in {"completed", "failed"}
  PROVE SettleRows(D, s) \in [Dispatch -> Row]
<1>1. SUFFICES ASSUME NEW d \in Dispatch
                PROVE [dispatches[d] EXCEPT !.status = s, !.revoked = TRUE,
                         !.lastFailure = IF s = "failed" THEN "reported" ELSE @] \in Row
  BY DEF TypeOK, SettleRows
<1>2. dispatches[d] \in Row
  BY DEF TypeOK
<1>3. s \in DispatchStatus
  BY DEF DispatchStatus
<1> QED
  BY <1>2, <1>3 DEF Row

LEMMA TypeTaskUpdate ==
  ASSUME TypeOK, ConstantsAssumption, NEW t \in Task, NEW s \in UpdateStatuses, TaskUpdate(t, s)
  PROVE TypeOK'
<1>1. s \in TaskStatus
  BY DEF ConstantsAssumption
<1>2. tasks' \in [Task -> TaskStatus \cup {"absent"}]
  BY <1>1 DEF TypeOK, TaskUpdate, SetStatus, EndTask, Promote, TaskStatus
<1>3. dispatches' \in [Dispatch -> Row]
  BY TypeSettleRows DEF TypeOK, TaskUpdate, ActiveOn
<1> QED
  BY <1>2, <1>3 DEF TypeOK, TaskUpdate, calls

LEMMA TypeDispatchTask ==
  ASSUME TypeOK, ConstantsAssumption, NEW t \in Task, NEW p \in Terminal, NEW how \in Injections,
         DispatchTask(t, p, how)
  PROVE TypeOK'
<1>1. PICK d \in Dispatch, n \in 0 .. MaxDispatches :
        /\ dispatches' = [dispatches EXCEPT ![d] =
             [EmptyRow EXCEPT !.task = t, !.status = "dispatched", !.failures = n,
                !.terminal = p, !.minted = (how = "inject")]]
        /\ sendCalls' = IF how = "track" THEN sendCalls ELSE sendCalls \cup {d}
  BY DEF DispatchTask
<1>2. dispatches' \in [Dispatch -> Row]
  <2>1. (how = "inject") \in BOOLEAN /\ n \in Nat
    BY DEF ConstantsAssumption
  <2> QED
    BY <1>1, <2>1, TypeNewRow DEF TypeOK
<1>3. tasks' \in [Task -> TaskStatus \cup {"absent"}]
  BY DEF TypeOK, DispatchTask, SetStatus, TaskStatus
<1> QED
  BY <1>1, <1>2, <1>3 DEF TypeOK, DispatchTask

LEMMA TypeFailDispatch ==
  ASSUME TypeOK, NEW d \in Dispatch, NEW why \in {"stalled", "error"}, NEW exited,
         FailDispatch(d, why, exited)
  PROVE /\ tasks' \in [Task -> TaskStatus \cup {"absent"}]
        /\ dispatches' \in [Dispatch -> Row]
        /\ workers' \in [Dispatch -> LiveWorker \cup DeadWorker \cup {"none"}]
<1>1. tasks' \in [Task -> TaskStatus \cup {"absent"}]
  BY DEF TypeOK, FailDispatch, SetStatus, RetryStatus, TaskStatus
<1>2. dispatches' \in [Dispatch -> Row]
  BY TypeFailedRow DEF TypeOK, FailDispatch
<1>3. workers' \in [Dispatch -> LiveWorker \cup DeadWorker \cup {"none"}]
  BY DEF TypeOK, FailDispatch, LiveWorker, DeadWorker
<1> QED
  BY <1>1, <1>2, <1>3

LEMMA TypeEscalate ==
  ASSUME TypeOK, NEW d \in Dispatch, Escalate(d) PROVE TypeOK'
<1>1. tasks' \in [Task -> TaskStatus \cup {"absent"}]
  BY DEF TypeOK, Escalate, SetStatus, RetryStatus, TaskStatus
<1>2. dispatches' \in [Dispatch -> Row]
  BY TypeFailedRow DEF TypeOK, Escalate
<1> QED
  BY <1>1, <1>2 DEF TypeOK, Escalate, calls

LEMMA TypePrompt ==
  ASSUME TypeOK, NEW d \in Dispatch, NEW why \in {"stalled", "error"},
         PromptSent(d) \/ PromptFailed(d, why)
  PROVE TypeOK'
<1>1. CASE PromptSent(d)
  BY <1>1 DEF TypeOK, PromptSent
<1>2. CASE PromptFailed(d, why) /\ FailDispatch(d, why, FALSE)
  BY <1>2, TypeFailDispatch DEF TypeOK, PromptFailed
<1>3. CASE PromptFailed(d, why) /\ ~Active(d) /\ UNCHANGED <<tasks, dispatches, workers>>
  BY <1>3 DEF TypeOK, PromptFailed
<1> QED
  BY <1>1, <1>2, <1>3 DEF PromptFailed

LEMMA TypeRevoked ==
  ASSUME TypeOK, NEW d \in Dispatch
  PROVE [dispatches[d] EXCEPT !.revoked = TRUE] \in Row
BY TypeRow DEF Row

LEMMA TypeReleaseContextOnly ==
  ASSUME TypeOK, NEW d \in Dispatch, ReleaseContextOnly(d) PROVE TypeOK'
<1>1. tasks' \in [Task -> TaskStatus \cup {"absent"}]
  BY DEF TypeOK, ReleaseContextOnly, SetStatus, TaskStatus
<1>2. dispatches' \in [Dispatch -> Row]
  <2>1. [dispatches[d] EXCEPT !.status = "failed", !.revoked = TRUE,
                              !.lastFailure = "released"] \in Row
    BY TypeRow DEF Row, DispatchStatus
  <2>2. dispatches' = [dispatches EXCEPT ![d] =
          [dispatches[d] EXCEPT !.status = "failed", !.revoked = TRUE, !.lastFailure = "released"]]
    BY DEF ReleaseContextOnly
  <2> QED
    BY <2>1, <2>2 DEF TypeOK
<1> QED
  BY <1>1, <1>2 DEF TypeOK, ReleaseContextOnly, calls

LEMMA TypeStartWorker ==
  ASSUME TypeOK, NEW t \in Task \cup {NoTask}, NEW host \in {"local", "remote"},
         NEW d \in Dispatch, StartWorker(t, host, d)
  PROVE TypeOK'
<1>1. tasks' \in [Task -> TaskStatus \cup {"absent"}]
  BY DEF TypeOK, StartWorker, SetStatus, TaskStatus
<1>2. dispatches' \in [Dispatch -> Row]
  BY DEF TypeOK, StartWorker, EmptyRow, Row, DispatchStatus, ActiveStatus
<1>3. /\ workers' \in [Dispatch -> LiveWorker \cup DeadWorker \cup {"none"}]
      /\ startCall' \in [Dispatch -> {"none", "topology", "prompt", "attach"}]
  BY DEF TypeOK, StartWorker, LiveWorker
<1> QED
  BY <1>1, <1>2, <1>3 DEF TypeOK, StartWorker

LEMMA TypeStartHandler ==
  ASSUME TypeOK, NEW d \in Dispatch,
         \/ \E p \in Terminal : AttachAuthority(d, p)
         \/ WorkerReady(d)
         \/ \E why \in {"stalled", "error"} : FailStart(d, why)
         \/ StartUnknown(d)
         \/ StartFenced(d)
  PROVE TypeOK'
<1>1. CASE \E p \in Terminal : AttachAuthority(d, p)
  <2>1. PICK p \in Terminal : AttachAuthority(d, p)
    BY <1>1
  <2>2. dispatches' \in [Dispatch -> Row]
    <3>1. [dispatches[d] EXCEPT !.terminal = p, !.minted = TRUE, !.revoked = FALSE] \in Row
      BY TypeRow DEF Row
    <3>2. dispatches' = [dispatches EXCEPT ![d] =
            [dispatches[d] EXCEPT !.terminal = p, !.minted = TRUE, !.revoked = FALSE]]
      BY <2>1 DEF AttachAuthority
    <3> QED
      BY <3>1, <3>2 DEF TypeOK
  <2> QED
    BY <2>1, <2>2 DEF TypeOK, AttachAuthority
<1>2. CASE WorkerReady(d)
  <2>1. dispatches' \in [Dispatch -> Row]
    <3>1. dispatches' = [dispatches EXCEPT ![d] = [dispatches[d] EXCEPT !.status = "dispatched"]]
      BY <1>2 DEF WorkerReady
    <3>2. "dispatched" \in DispatchStatus
      BY DEF DispatchStatus, ActiveStatus
    <3> QED
      BY <3>1, <3>2, TypeStatus
  <2> QED
    BY <1>2, <2>1 DEF TypeOK, WorkerReady, LiveWorker
<1>3. CASE \E why \in {"stalled", "error"} : FailStart(d, why)
  <2>1. PICK why \in {"stalled", "error"} : FailStart(d, why)
    BY <1>3
  <2>3. dispatches' \in [Dispatch -> Row]
    <3>1. PICK b \in BOOLEAN : b = (dispatches[d].revoked \/ why # "stalled")
      OBVIOUS
    <3>2. [dispatches[d] EXCEPT !.status = "failed", !.lastFailure = why, !.revoked = b] \in Row
      BY TypeRow DEF Row, DispatchStatus
    <3>3. dispatches' = [dispatches EXCEPT ![d] =
            [dispatches[d] EXCEPT !.status = "failed", !.lastFailure = why, !.revoked = b]]
      BY <2>1, <3>1 DEF FailStart
    <3> QED
      BY <3>2, <3>3 DEF TypeOK
  <2>4. tasks' \in [Task -> TaskStatus \cup {"absent"}]
    BY <2>1 DEF TypeOK, FailStart, SetStatus, TaskStatus
  <2> QED
    BY <2>1, <2>3, <2>4 DEF TypeOK, FailStart, DeadWorker
<1>4. CASE StartUnknown(d)
  <2>1. dispatches' \in [Dispatch -> Row]
    <3>1. dispatches' = [dispatches EXCEPT ![d] = [dispatches[d] EXCEPT !.revoked = TRUE]]
      BY <1>4 DEF StartUnknown
    <3> QED
      BY <3>1, TypeRevoked DEF TypeOK
  <2>2. tasks' \in [Task -> TaskStatus \cup {"absent"}]
    BY <1>4 DEF TypeOK, StartUnknown, SetStatus, TaskStatus
  <2> QED
    BY <1>4, <2>1, <2>2 DEF TypeOK, StartUnknown, LiveWorker
<1>5. CASE StartFenced(d)
  BY <1>5 DEF TypeOK, StartFenced
<1> QED
  BY <1>1, <1>2, <1>3, <1>4, <1>5

LEMMA TypeRemoteStartReport ==
  ASSUME TypeOK, NEW d \in Dispatch, NEW remote \in {"ready", "failed", "stopped"},
         RemoteStartReport(d, remote)
  PROVE TypeOK'
<1>1. tasks' \in [Task -> TaskStatus \cup {"absent"}]
  BY DEF TypeOK, RemoteStartReport, SetStatus, TaskStatus
<1>2. dispatches' \in [Dispatch -> Row]
  <2>1. CASE remote = "ready"
    <3>1. PICK s \in DispatchStatus \cup {"none"} :
            s = IF dispatches[d].status = "pending" THEN "dispatched" ELSE dispatches[d].status
      BY TypeRow DEF Row, DispatchStatus, ActiveStatus
    <3>2. dispatches' = [dispatches EXCEPT ![d] = [dispatches[d] EXCEPT !.status = s]]
      BY <2>1, <3>1 DEF RemoteStartReport
    <3> QED
      BY <3>2, TypeStatus
  <2>2. CASE remote # "ready" /\ ~Active(d)
    BY <2>2 DEF TypeOK, RemoteStartReport
  <2>3. CASE remote # "ready" /\ Active(d)
    <3>1. [dispatches[d] EXCEPT !.status = "failed", !.lastFailure = "error", !.revoked = TRUE] \in Row
      BY TypeRow DEF Row, DispatchStatus
    <3>2. dispatches' = [dispatches EXCEPT ![d] =
            [dispatches[d] EXCEPT !.status = "failed", !.lastFailure = "error", !.revoked = TRUE]]
      BY <2>3 DEF RemoteStartReport
    <3> QED
      BY <3>1, <3>2 DEF TypeOK
  <2> QED
    BY <2>1, <2>2, <2>3
<1>3. workers' \in [Dispatch -> LiveWorker \cup DeadWorker \cup {"none"}]
  BY DEF TypeOK, RemoteStartReport, LiveWorker, DeadWorker
<1> QED
  BY <1>1, <1>2, <1>3 DEF TypeOK, RemoteStartReport, calls

LEMMA TypeInterrupted ==
  ASSUME TypeOK, NEW d \in Dispatch
  PROVE Interrupted(d) \in [Task -> TaskStatus \cup {"absent"}]
BY DEF TypeOK, Interrupted, SetStatus, TaskStatus

LEMMA TypeStopStep ==
  ASSUME TypeOK, StopStep PROVE TypeOK'
<1> PICK d \in Dispatch :
      \/ WorkerStop(d) \/ StopSettled(d) \/ RemoteStopReport(d) \/ StopUnknown(d)
      \/ StopResumed(d) \/ StopFenced(d) \/ Abandon(d)
  BY DEF StopStep
<1>1. CASE WorkerStop(d)
  <2>1. dispatches' \in [Dispatch -> Row]
    <3>1. dispatches' = [dispatches EXCEPT ![d] = [dispatches[d] EXCEPT !.revoked = TRUE]]
      BY <1>1 DEF WorkerStop
    <3> QED
      BY <3>1, TypeRevoked DEF TypeOK
  <2>2. workers' \in [Dispatch -> LiveWorker \cup DeadWorker \cup {"none"}]
    BY <1>1 DEF TypeOK, WorkerStop, LiveWorker
  <2> QED
    BY <1>1, <2>1, <2>2, TypeInterrupted DEF TypeOK, WorkerStop
<1>2. ASSUME SettleStop(d), stopCalls' \subseteq stopCalls PROVE TypeOK'
  <2>1. dispatches' \in [Dispatch -> Row]
    <3>1. [dispatches[d] EXCEPT !.status = "failed", !.lastFailure = "released"] \in Row
      BY TypeRow DEF Row, DispatchStatus
    <3>2. dispatches' \in {dispatches, [dispatches EXCEPT ![d] =
            [dispatches[d] EXCEPT !.status = "failed", !.lastFailure = "released"]]}
      BY <1>2 DEF SettleStop
    <3> QED
      BY <3>1, <3>2 DEF TypeOK
  <2> QED
    BY <1>2, <2>1, TypeInterrupted DEF TypeOK, SettleStop, DeadWorker
<1>3. CASE StopSettled(d)
  BY <1>2, <1>3 DEF StopSettled
<1>4. CASE RemoteStopReport(d)
  BY <1>2, <1>4 DEF RemoteStopReport
<1>5. CASE StopUnknown(d)
  BY <1>5 DEF TypeOK, StopUnknown, LiveWorker
<1>6. CASE StopResumed(d)
  BY <1>6 DEF TypeOK, StopResumed, SetStatus, LiveWorker, TaskStatus
<1>7. CASE StopFenced(d)
  BY <1>7 DEF TypeOK, StopFenced
<1>8. CASE Abandon(d)
  <2>1. dispatches' \in [Dispatch -> Row]
    <3>1. [dispatches[d] EXCEPT !.revoked = TRUE,
                                !.status = IF Active(d) THEN "failed" ELSE @] \in Row
      BY TypeRow DEF Row, DispatchStatus
    <3>2. dispatches' = [dispatches EXCEPT ![d] =
            [dispatches[d] EXCEPT !.revoked = TRUE, !.status = IF Active(d) THEN "failed" ELSE @]]
      BY <1>8 DEF Abandon
    <3> QED
      BY <3>1, <3>2 DEF TypeOK
  <2> QED
    BY <1>8, <2>1, TypeInterrupted DEF TypeOK, Abandon, DeadWorker, calls
<1> QED
  BY <1>1, <1>3, <1>4, <1>5, <1>6, <1>7, <1>8

LEMMA TypeRecoveryStep ==
  ASSUME TypeOK, RecoveryStep PROVE TypeOK'
<1>1. CASE \E p \in Terminal : TerminalExit(p)
  <2>1. PICK d \in Dispatch : FailDispatch(d, "error", TRUE)
    BY <1>1 DEF TerminalExit
  <2>2. UNCHANGED <<gates, questions, calls>>
    BY <1>1 DEF TerminalExit
  <2> QED
    BY <2>1, <2>2, TypeFailDispatch DEF TypeOK, calls
<1>2. CASE Restart
  BY <1>2 DEF TypeOK, Restart
<1>3. ASSUME NEW d \in Dispatch, RecoverMissing(d) PROVE TypeOK'
  <2>1. dispatches' \in [Dispatch -> Row]
    BY <1>3, TypeFailedRow DEF TypeOK, RecoverMissing
  <2>2. tasks' \in [Task -> TaskStatus \cup {"absent"}]
    BY <1>3 DEF TypeOK, RecoverMissing, SetStatus, RetryStatus, TaskStatus
  <2>3. workers' \in [Dispatch -> LiveWorker \cup DeadWorker \cup {"none"}]
    BY <1>3 DEF TypeOK, RecoverMissing, DeadWorker
  <2> QED
    BY <1>3, <2>1, <2>2, <2>3 DEF TypeOK, RecoverMissing
<1>4. ASSUME NEW d \in Dispatch, RecoverDone(d) PROVE TypeOK'
  BY <1>4 DEF TypeOK, RecoverDone
<1> QED
  BY <1>1, <1>2, <1>3, <1>4 DEF RecoveryStep

LEMMA TypeReportStep ==
  ASSUME TypeOK, ReportStep PROVE TypeOK'
<1>1. ASSUME NEW d \in Dispatch, NEW outcome \in {"succeeded", "failed"}, WorkerReport(d, outcome)
      PROVE TypeOK'
  <2> DEFINE s == IF outcome = "succeeded" THEN "completed" ELSE "failed"
             t == dispatches[d].task
  <2>1. dispatches' \in [Dispatch -> Row]
    BY <1>1, TypeSettleRows, ActiveOn(t) \cup {d} \subseteq Dispatch, s \in {"completed", "failed"}
    DEF WorkerReport, ActiveOn
  <2>2. tasks' \in [Task -> TaskStatus \cup {"absent"}]
    BY <1>1 DEF TypeOK, WorkerReport, EndTask, Promote, SetStatus, TaskStatus
  <2>3. workers' \in [Dispatch -> LiveWorker \cup DeadWorker \cup {"none"}]
    BY <1>1 DEF TypeOK, WorkerReport, DeadWorker
  <2> QED
    BY <1>1, <2>1, <2>2, <2>3 DEF TypeOK, WorkerReport, calls
<1>2. ASSUME NEW d \in Dispatch, Ask(d) \/ AnswerQuestion(d) PROVE TypeOK'
  BY <1>2 DEF TypeOK, Ask, AnswerQuestion, calls
<1> QED
  BY <1>1, <1>2 DEF ReportStep

LEMMA TypeGateStep ==
  ASSUME TypeOK, GateStep PROVE TypeOK'
<1>1. ASSUME NEW t \in Task, NEW g \in Gate, GateCreate(t, g) PROVE TypeOK'
  <2>1. dispatches' \in [Dispatch -> Row]
    BY <1>1, TypeSettleRows, ActiveOn(t) \subseteq Dispatch DEF GateCreate, ActiveOn
  <2> QED
    BY <1>1, <2>1 DEF TypeOK, GateCreate, SetStatus, TaskStatus, calls
<1>2. ASSUME NEW g \in Gate, GateResolve(g) PROVE TypeOK'
  BY <1>2 DEF TypeOK, GateResolve, SetStatus, TaskStatus, calls
<1> QED
  BY <1>1, <1>2 DEF GateStep

LEMMA TypeStartStep ==
  ASSUME TypeOK, ConstantsAssumption, StartStep PROVE TypeOK'
<1>1. ASSUME NEW t \in Task, NEW host \in Hosts, WorkerStart(t, host) PROVE TypeOK'
  BY <1>1, TypeStartWorker DEF WorkerStart, ConstantsAssumption
<1>2. ASSUME NEW r \in Dispatch, NEW host \in Hosts, WorkerRetry(r, host) PROVE TypeOK'
  <2>1. dispatches[r].task \in Task \cup {NoTask}
    BY TypeRow DEF Row
  <2> QED
    BY <1>2, <2>1, TypeStartWorker DEF WorkerRetry, ConstantsAssumption
<1> QED
  BY <1>1, <1>2, TypeStartHandler, TypeRemoteStartReport DEF StartStep

LEMMA TypeInit == ASSUME ConstantsAssumption, Init PROVE TypeOK
<1>1. EmptyRow \in Row
  BY DEF EmptyRow, Row
<1> QED
  BY <1>1 DEF Init, TypeOK

LEMMA TypeNext == ASSUME TypeOK, ConstantsAssumption, [Next]_vars PROVE TypeOK'
<1>1. CASE TaskStep
  BY <1>1, TypeTaskCreate, TypeTaskUpdate DEF TaskStep
<1>2. CASE ContextStep
  BY <1>2, TypeDispatchTask, TypePrompt, TypeEscalate, TypeReleaseContextOnly DEF ContextStep
<1>3. CASE StartStep
  BY <1>3, TypeStartStep
<1>4. CASE StopStep
  BY <1>4, TypeStopStep
<1>5. CASE RecoveryStep
  BY <1>5, TypeRecoveryStep
<1>6. CASE ReportStep
  BY <1>6, TypeReportStep
<1>7. CASE GateStep
  BY <1>7, TypeGateStep
<1>8. CASE UNCHANGED vars
  BY <1>8 DEF TypeOK, vars, calls
<1> QED
  BY <1>1, <1>2, <1>3, <1>4, <1>5, <1>6, <1>7, <1>8 DEF Next

\* Every step of every handler and callback writes rows of the schema.
THEOREM TypeCorrect == Spec => []TypeOK
<1>1. Init => TypeOK
  BY TypeInit, ConstantsAssumption
<1>2. TypeOK /\ [Next]_vars => TypeOK'
  BY TypeNext, ConstantsAssumption
<1> QED
  BY <1>1, <1>2, PTL DEF Spec

(***************************************************************************)
(* Ownership: one active dispatch per task                                 *)
(***************************************************************************)
\* What every step that creates no dispatch does to the rows.
KeepsRows ==
  \A e \in Dispatch :
    /\ dispatches'[e].task = dispatches[e].task
    /\ dispatches'[e].status = "none" <=> dispatches[e].status = "none"
    /\ dispatches'[e].status \in ActiveStatus => dispatches[e].status \in ActiveStatus
    /\ workers'[e] # "none" => workers[e] # "none"

\* Steps that create no dispatch and revive none keep the order of the rows.
LEMMA KeepsRowsOrdered ==
  ASSUME OwnershipInv, KeepsRows PROVE RowsContiguous' /\ ActiveIsLatest'
BY DEF OwnershipInv, KeepsRows, RowsContiguous, ActiveIsLatest, Active

\* An active dispatch is the only active one of its task.
LEMMA OwnsAlone ==
  ASSUME OwnershipInv, NEW d \in Dispatch, Active(d)
  PROVE ActiveOn(dispatches[d].task) = {d}
<1>1. ASSUME NEW e \in Dispatch, Active(e), dispatches[e].task = dispatches[d].task PROVE e = d
  <2>1. e <= d /\ d <= e
    BY <1>1 DEF OwnershipInv, ActiveIsLatest, Active, ActiveStatus
  <2> QED
    BY <2>1 DEF Dispatch
<1> QED
  BY <1>1 DEF ActiveOn

\* settleActiveDispatchesForTask touches the status and the authority of its rows.
LEMMA SettleRowsEffect ==
  ASSUME TypeOK, NEW D, NEW s \in {"completed", "failed"}, NEW e \in Dispatch
  PROVE /\ SettleRows(D, s)[e].task = dispatches[e].task
        /\ SettleRows(D, s)[e].terminal = dispatches[e].terminal
        /\ e \in D => SettleRows(D, s)[e].status = s
        /\ e \notin D => SettleRows(D, s)[e] = dispatches[e]
<1>1. dispatches[e] \in Row
  BY TypeRow
<1>2. CASE e \in D
  BY <1>1, <1>2 DEF SettleRows, Row
<1>3. CASE e \notin D
  BY <1>3 DEF SettleRows
<1> QED
  BY <1>2, <1>3

\* Settling the active rows of a task keeps the shape of the table and leaves
\* the task without an active dispatch.
LEMMA SettleRowsKeeps ==
  ASSUME TypeOK, NEW t, NEW D, ActiveOn(t) \subseteq D,
         \A e \in D : dispatches[e].status # "none",
         NEW s \in {"completed", "failed"}, dispatches' = SettleRows(D, s)
  PROVE /\ \A e \in Dispatch :
             /\ dispatches'[e].task = dispatches[e].task
             /\ dispatches'[e].status = "none" <=> dispatches[e].status = "none"
             /\ dispatches'[e].status \in ActiveStatus => dispatches[e].status \in ActiveStatus
             /\ dispatches'[e].status \in ActiveStatus => dispatches[e].task # t
<1> SUFFICES ASSUME NEW e \in Dispatch
             PROVE /\ dispatches'[e].task = dispatches[e].task
                   /\ dispatches'[e].status = "none" <=> dispatches[e].status = "none"
                   /\ dispatches'[e].status \in ActiveStatus
                        => dispatches[e].status \in ActiveStatus /\ dispatches[e].task # t
  OBVIOUS
<1>0. /\ dispatches'[e].task = dispatches[e].task
      /\ e \in D => dispatches'[e].status = s
      /\ e \notin D => dispatches'[e] = dispatches[e]
  BY SettleRowsEffect
<1>1. CASE e \in D
  BY <1>0, <1>1 DEF ActiveStatus
<1>2. CASE e \notin D
  BY <1>0, <1>2 DEF ActiveOn, Active
<1> QED
  BY <1>1, <1>2

\* What the step of an action must show besides its type.
OwnershipStep == KeepsRows /\ ActiveOnlyWhileWorked' /\ DeadWorkerReleased'

\* A task that is not created yet has no active dispatch.
LEMMA OwnTaskCreate ==
  ASSUME OwnershipInv, NEW t \in Task, TaskCreate(t) PROVE OwnershipStep
<1>1. ActiveOn(t) = {}
  BY DEF OwnershipInv, ActiveOnlyWhileWorked, TaskCreate
<1>2. KeepsRows /\ DeadWorkerReleased'
  BY DEF TaskCreate, KeepsRows, OwnershipInv, DeadWorkerReleased, Active
<1>3. ActiveOnlyWhileWorked'
  BY <1>1 DEF OwnershipInv, TypeOK, TaskCreate, SetStatus, ActiveOnlyWhileWorked, ActiveOn, Active
<1> QED
  BY <1>2, <1>3 DEF OwnershipStep

\* EndTask leaves every other task that has an active dispatch alone.
LEMMA EndTaskOthers ==
  ASSUME TypeOK, NEW t, NEW s \in TaskStatus, NEW u \in Task, u # t,
         tasks[u] \in {"dispatched", "blocked"}
  PROVE EndTask(t, s)[u] = tasks[u]
BY DEF TypeOK, EndTask, Promote, SetStatus

\* Promotion does not touch the task that ended: it is not pending.
LEMMA EndTaskSets ==
  ASSUME TypeOK, NEW t \in Task, NEW s \in TaskStatus
  PROVE EndTask(t, s)[t] = s
BY DEF TypeOK, EndTask, Promote, SetStatus

\* The guard of updateTaskStatus is what keeps the two tables in agreement.
LEMMA OwnTaskUpdate ==
  ASSUME OwnershipInv, ConstantsAssumption, NEW t \in Task, NEW s \in UpdateStatuses,
         TaskUpdate(t, s)
  PROVE OwnershipStep
<1> s \in TaskStatus
  BY DEF ConstantsAssumption
<1>0. s \in {"completed", "failed"} => dispatches' = SettleRows(ActiveOn(t), s)
  BY DEF TaskUpdate
<1>1. KeepsRows
  <2>1. CASE s \in {"completed", "failed"}
    <3>1. \A e \in ActiveOn(t) : dispatches[e].status # "none"
      BY DEF ActiveOn, Active, ActiveStatus
    <3>2. UNCHANGED workers
      BY DEF TaskUpdate
    <3> QED
      BY <1>0, <2>1, <3>1, <3>2, SettleRowsKeeps DEF KeepsRows, OwnershipInv
  <2>2. CASE s \notin {"completed", "failed"}
    BY <2>2 DEF KeepsRows, TaskUpdate
  <2> QED
    BY <2>1, <2>2
<1>2. DeadWorkerReleased'
  BY <1>1 DEF KeepsRows, TaskUpdate, OwnershipInv, DeadWorkerReleased, Active
<1>3. ASSUME NEW u \in Task, (ActiveOn(u) # {})' PROVE tasks'[u] \in {"dispatched", "blocked"}
  <2>1. PICK e \in Dispatch : Active(e)' /\ dispatches'[e].task = u
    BY <1>3 DEF ActiveOn
  <2>2. Active(e) /\ dispatches[e].task = u
    BY <1>1, <2>1 DEF KeepsRows, Active
  <2>3. tasks[u] \in {"dispatched", "blocked"}
    BY <2>2 DEF OwnershipInv, ActiveOnlyWhileWorked, ActiveOn
  <2>4. CASE u # t
    BY <2>3, <2>4, EndTaskOthers DEF TaskUpdate, OwnershipInv
  <2>5. CASE u = t
    <3>1. s \notin {"completed", "failed"}
      BY <1>0, <2>1, <2>2, <2>5, SettleRowsKeeps
      DEF OwnershipInv, ActiveOn, Active, ActiveStatus
    <3>2. s = "dispatched"
      BY <2>2, <2>5, <3>1 DEF TaskUpdate, UpdatePermitted, ActiveOn
    <3> QED
      BY <3>2, <2>5, EndTaskSets DEF TaskUpdate, OwnershipInv
  <2> QED
    BY <2>4, <2>5
<1> QED
  BY <1>1, <1>2, <1>3 DEF OwnershipStep, ActiveOnlyWhileWorked

\* The row of d is replaced by one of the same task; the others stay.
LEMMA KeepsOneRow ==
  ASSUME OwnershipInv, NEW d \in Dispatch, dispatches[d].status # "none",
         \A e \in Dispatch \ {d} : dispatches'[e] = dispatches[e] /\ workers'[e] = workers[e],
         dispatches'[d].task = dispatches[d].task,
         dispatches'[d].status # "none",
         Active(d)' => Active(d),
         workers'[d] # "none" => workers[d] # "none"
  PROVE KeepsRows
BY DEF KeepsRows, Active

\* Only the task of d moves, to a status that fits what is left active on it.
LEMMA OwnOneRow ==
  ASSUME OwnershipInv, KeepsRows, NEW d \in Dispatch,
         \A u \in Task \ {dispatches[d].task} : tasks'[u] = tasks[u],
         \/ dispatches[d].task \notin Task
         \/ tasks'[dispatches[d].task] \in {"dispatched", "blocked"}
         \/ tasks'[dispatches[d].task] = tasks[dispatches[d].task]
         \/ ActiveOn(dispatches[d].task) \ {d} = {} /\ ~Active(d)'
  PROVE ActiveOnlyWhileWorked'
<1> SUFFICES ASSUME NEW u \in Task, NEW e \in Dispatch, Active(e)', dispatches'[e].task = u
             PROVE tasks'[u] \in {"dispatched", "blocked"}
  BY DEF ActiveOnlyWhileWorked, ActiveOn
<1>1. e \in ActiveOn(u)
  BY DEF KeepsRows, Active, ActiveOn
<1>2. tasks[u] \in {"dispatched", "blocked"}
  BY <1>1 DEF OwnershipInv, ActiveOnlyWhileWorked
<1>3. CASE u # dispatches[d].task
  BY <1>2, <1>3
<1>4. CASE u = dispatches[d].task
  BY <1>1, <1>2, <1>4
<1> QED
  BY <1>3, <1>4

\* A counted failure ends the row and keeps its task and terminal.
LEMMA FailedRowKeeps ==
  ASSUME TypeOK, NEW d \in Dispatch, NEW why
  PROVE /\ FailedRow(d, why).task = dispatches[d].task
        /\ FailedRow(d, why).terminal = dispatches[d].terminal
        /\ FailedRow(d, why).status \in {"failed", "circuit_broken"}
<1>1. dispatches[d] \in Row
  BY TypeRow
<1> QED
  BY <1>1 DEF FailedRow, Row

\* failDispatch touches the task only when nobody else works on it.
LEMMA OwnFailDispatch ==
  ASSUME OwnershipInv, NEW d \in Dispatch, NEW why, NEW exited, FailDispatch(d, why, exited)
  PROVE OwnershipStep
<1>1. /\ dispatches'[d].task = dispatches[d].task
      /\ dispatches'[d].status \in {"failed", "circuit_broken"}
      /\ \A e \in Dispatch \ {d} : dispatches'[e] = dispatches[e] /\ workers'[e] = workers[e]
      /\ dispatches[d].status \in ActiveStatus
      /\ workers'[d] # "none" => workers[d] # "none"
  BY FailedRowKeeps DEF OwnershipInv, TypeOK, FailDispatch, Active, LiveWorker
<1>2. KeepsRows
  BY <1>1, KeepsOneRow DEF Active, ActiveStatus
<1>3. DeadWorkerReleased'
  BY <1>1 DEF OwnershipInv, DeadWorkerReleased, Active, ActiveStatus
<1>4. ActiveOnlyWhileWorked'
  BY <1>1, <1>2, OwnOneRow
  DEF OwnershipInv, TypeOK, FailDispatch, SetStatus, Active, ActiveStatus
<1> QED
  BY <1>2, <1>3, <1>4 DEF OwnershipStep

\* An escalation fails the task outright when the circuit breaks.
LEMMA OwnEscalate ==
  ASSUME OwnershipInv, NEW d \in Dispatch, Escalate(d) PROVE OwnershipStep
<1>1. /\ dispatches'[d].task = dispatches[d].task
      /\ dispatches'[d].status \in {"failed", "circuit_broken"}
      /\ \A e \in Dispatch \ {d} : dispatches'[e] = dispatches[e]
      /\ dispatches[d].status \in ActiveStatus
      /\ UNCHANGED workers
  BY FailedRowKeeps DEF OwnershipInv, TypeOK, Escalate, Active
<1>2. KeepsRows
  BY <1>1, KeepsOneRow DEF Active, ActiveStatus
<1>3. DeadWorkerReleased'
  BY <1>1 DEF OwnershipInv, DeadWorkerReleased, Active, ActiveStatus
<1>4. ActiveOn(dispatches[d].task) = {d}
  BY <1>1, OwnsAlone DEF Active
<1>5. ActiveOnlyWhileWorked'
  BY <1>1, <1>2, <1>4, OwnOneRow
  DEF OwnershipInv, TypeOK, Escalate, SetStatus, Active, ActiveStatus
<1> QED
  BY <1>2, <1>3, <1>5 DEF OwnershipStep

\* The release of a context-only dispatch.
LEMMA OwnReleaseContextOnly ==
  ASSUME OwnershipInv, NEW d \in Dispatch, ReleaseContextOnly(d) PROVE OwnershipStep
<1>1. /\ dispatches'[d].task = dispatches[d].task
      /\ dispatches'[d].status = "failed"
      /\ \A e \in Dispatch \ {d} : dispatches'[e] = dispatches[e]
      /\ dispatches[d].status \in ActiveStatus
      /\ UNCHANGED workers
  <2>1. dispatches[d] \in Row
    BY TypeRow DEF OwnershipInv
  <2> QED
    BY <2>1 DEF OwnershipInv, TypeOK, ReleaseContextOnly, Active, Row
<1>2. KeepsRows
  BY <1>1, KeepsOneRow DEF Active, ActiveStatus
<1>3. DeadWorkerReleased'
  BY <1>1 DEF OwnershipInv, DeadWorkerReleased, Active, ActiveStatus
<1>4. ActiveOnlyWhileWorked'
  BY <1>1, <1>2, OwnOneRow DEF OwnershipInv, TypeOK, ReleaseContextOnly, SetStatus
<1> QED
  BY <1>2, <1>3, <1>4 DEF OwnershipStep

\* A row with a worker is allocated.
LEMMA WorkerHasRow ==
  ASSUME OwnershipInv, NEW d \in Dispatch, workers[d] # "none"
  PROVE dispatches[d].status # "none"
BY DEF OwnershipInv, RowsContiguous

\* The writes of the worker-start handler on its own row.
LEMMA OwnStartHandler ==
  ASSUME OwnershipInv, NEW d \in Dispatch,
         \/ \E p \in Terminal : AttachAuthority(d, p)
         \/ WorkerReady(d)
         \/ \E why \in {"stalled", "error"} : FailStart(d, why)
         \/ StartUnknown(d)
  PROVE OwnershipStep
<1>0. dispatches[d] \in Row
  BY TypeRow DEF OwnershipInv
<1>1. CASE (\E p \in Terminal : AttachAuthority(d, p)) \/ WorkerReady(d)
  <2>1. /\ dispatches'[d].task = dispatches[d].task
        /\ dispatches'[d].status \in ActiveStatus
        /\ \A e \in Dispatch \ {d} : dispatches'[e] = dispatches[e] /\ workers'[e] = workers[e]
        /\ dispatches[d].status = "pending"
        /\ workers[d] = "starting" /\ workers'[d] \in {"starting", "ready"}
        /\ UNCHANGED tasks
    <3>1. CASE \E p \in Terminal : AttachAuthority(d, p)
      <4>1. PICK p \in Terminal : AttachAuthority(d, p)
        BY <3>1
      <4> DEFINE row == [dispatches[d] EXCEPT !.terminal = p, !.minted = TRUE, !.revoked = FALSE]
      <4>2. dispatches' = [dispatches EXCEPT ![d] = row]
        BY <4>1 DEF AttachAuthority
      <4>3. row.task = dispatches[d].task /\ row.status = dispatches[d].status
        BY <1>0 DEF Row
      <4> HIDE DEF row
      <4>4. dispatches'[d] = row /\ \A e \in Dispatch \ {d} : dispatches'[e] = dispatches[e]
        BY <4>2 DEF OwnershipInv, TypeOK
      <4>5. dispatches[d].status = "pending" /\ workers[d] = "starting" /\ UNCHANGED <<tasks, workers>>
        BY <4>1 DEF AttachAuthority, Starting
      <4> QED
        BY <4>3, <4>4, <4>5 DEF ActiveStatus
    <3>2. CASE WorkerReady(d)
      BY <1>0, <3>2 DEF OwnershipInv, TypeOK, WorkerReady, Starting, ActiveStatus, Row
    <3> QED
      BY <1>1, <3>1, <3>2
  <2>2. KeepsRows
    BY <2>1, KeepsOneRow DEF Active, ActiveStatus
  <2>3. DeadWorkerReleased'
    BY <2>1 DEF OwnershipInv, DeadWorkerReleased, Active, ActiveStatus, DeadWorker
  <2>4. ActiveOnlyWhileWorked'
    BY <2>1, <2>2, OwnOneRow
  <2> QED
    BY <2>2, <2>3, <2>4 DEF OwnershipStep
<1>2. CASE \E why \in {"stalled", "error"} : FailStart(d, why)
  <2>1. /\ dispatches'[d].task = dispatches[d].task
        /\ dispatches'[d].status = "failed"
        /\ \A e \in Dispatch \ {d} : dispatches'[e] = dispatches[e] /\ workers'[e] = workers[e]
        /\ workers[d] = "starting"
    BY <1>0, <1>2 DEF OwnershipInv, TypeOK, FailStart, Row
  <2>2. KeepsRows
    BY <2>1, WorkerHasRow, KeepsOneRow DEF Active, ActiveStatus
  <2>3. DeadWorkerReleased'
    BY <2>1 DEF OwnershipInv, DeadWorkerReleased, Active, ActiveStatus
  <2>4. ActiveOnlyWhileWorked'
    BY <1>2, <2>1, <2>2, OwnOneRow
    DEF OwnershipInv, TypeOK, FailStart, SetStatus, Active, ActiveStatus
  <2> QED
    BY <2>2, <2>3, <2>4 DEF OwnershipStep
<1>3. CASE StartUnknown(d)
  <2>1. /\ dispatches'[d].task = dispatches[d].task
        /\ dispatches'[d].status = dispatches[d].status
        /\ \A e \in Dispatch \ {d} : dispatches'[e] = dispatches[e] /\ workers'[e] = workers[e]
        /\ workers[d] = "starting" /\ workers'[d] = "start_unknown"
    BY <1>0, <1>3 DEF OwnershipInv, TypeOK, StartUnknown, Row
  <2>2. KeepsRows
    BY <2>1, WorkerHasRow, KeepsOneRow DEF Active
  <2>3. DeadWorkerReleased'
    BY <2>1 DEF OwnershipInv, DeadWorkerReleased, Active, DeadWorker
  <2>4. ActiveOnlyWhileWorked'
    BY <1>3, <2>1, <2>2, OwnOneRow DEF OwnershipInv, TypeOK, StartUnknown, SetStatus
  <2> QED
    BY <2>2, <2>3, <2>4 DEF OwnershipStep
<1> QED
  BY <1>1, <1>2, <1>3

\* A remote start answered after the home moved on.
LEMMA OwnRemoteStartReport ==
  ASSUME OwnershipInv, NEW d \in Dispatch, NEW remote \in {"ready", "failed", "stopped"},
         RemoteStartReport(d, remote)
  PROVE OwnershipStep
<1>0. dispatches[d] \in Row
  BY TypeRow DEF OwnershipInv
<1>1. /\ dispatches'[d].task = dispatches[d].task
      /\ dispatches'[d].status = "none" <=> dispatches[d].status = "none"
      /\ \A e \in Dispatch \ {d} : dispatches'[e] = dispatches[e] /\ workers'[e] = workers[e]
      /\ workers[d] \in {"starting", "start_unknown"} /\ workers'[d] = remote
      /\ remote = "ready" => (dispatches'[d].status \in ActiveStatus => dispatches[d].status \in ActiveStatus)
      /\ remote # "ready" => dispatches'[d].status \notin ActiveStatus
  BY <1>0 DEF OwnershipInv, TypeOK, RemoteStartReport, Row, Active, ActiveStatus
<1>2. KeepsRows
  BY <1>1, WorkerHasRow, KeepsOneRow DEF Active
<1>3. DeadWorkerReleased'
  BY <1>1 DEF OwnershipInv, DeadWorkerReleased, Active, DeadWorker
<1>4. ActiveOnlyWhileWorked'
  BY <1>1, <1>2, OwnOneRow DEF OwnershipInv, TypeOK, RemoteStartReport, SetStatus, Active
<1> QED
  BY <1>2, <1>3, <1>4 DEF OwnershipStep

\* An interrupted task stays blocked or dispatched; no other task moves.
LEMMA InterruptedFits ==
  ASSUME TypeOK, NEW d \in Dispatch
  PROVE /\ \A u \in Task \ {dispatches[d].task} : Interrupted(d)[u] = tasks[u]
        /\ \/ dispatches[d].task \notin Task
           \/ Interrupted(d)[dispatches[d].task] \in {"dispatched", "blocked"}
           \/ Interrupted(d)[dispatches[d].task] = tasks[dispatches[d].task]
BY DEF TypeOK, Interrupted, SetStatus

\* Every handler of a stop, and abandon.
LEMMA OwnStopStep ==
  ASSUME OwnershipInv, StopStep PROVE OwnershipStep
<1> PICK d \in Dispatch :
      \/ WorkerStop(d) \/ StopSettled(d) \/ RemoteStopReport(d) \/ StopUnknown(d)
      \/ StopResumed(d) \/ StopFenced(d) \/ Abandon(d)
  BY DEF StopStep
<1>0. dispatches[d] \in Row
  BY TypeRow DEF OwnershipInv
<1>1. CASE WorkerStop(d)
  <2>1. /\ dispatches'[d].task = dispatches[d].task
        /\ dispatches'[d].status = dispatches[d].status
        /\ \A e \in Dispatch \ {d} : dispatches'[e] = dispatches[e] /\ workers'[e] = workers[e]
        /\ workers[d] \in {"ready", "start_unknown"}
        /\ workers'[d] \in {"stopping", "stop_unknown"}
        /\ tasks' = Interrupted(d)
    BY <1>0, <1>1 DEF OwnershipInv, TypeOK, WorkerStop, Row
  <2>2. KeepsRows
    BY <2>1, WorkerHasRow, KeepsOneRow DEF Active
  <2>3. DeadWorkerReleased'
    BY <2>1 DEF OwnershipInv, DeadWorkerReleased, Active, DeadWorker
  <2>4. ActiveOnlyWhileWorked'
    BY <2>1, <2>2, OwnOneRow, InterruptedFits DEF OwnershipInv
  <2> QED
    BY <2>2, <2>3, <2>4 DEF OwnershipStep
<1>2. ASSUME \/ SettleStop(d) /\ workers[d] # "none"
             \/ Abandon(d)
      PROVE OwnershipStep
  <2>1. /\ dispatches'[d].task = dispatches[d].task
        /\ dispatches'[d].status \notin ActiveStatus
        /\ dispatches'[d].status = "none" => dispatches[d].status = "none"
        /\ \A e \in Dispatch \ {d} : dispatches'[e] = dispatches[e] /\ workers'[e] = workers[e]
        /\ workers[d] # "none"
        /\ tasks' = Interrupted(d)
    BY <1>0, <1>2 DEF OwnershipInv, TypeOK, SettleStop, Abandon, Row, Active, ActiveStatus
  <2>2. KeepsRows
    BY <2>1, WorkerHasRow, KeepsOneRow DEF Active
  <2>3. DeadWorkerReleased'
    BY <2>1 DEF OwnershipInv, DeadWorkerReleased, Active
  <2>4. ActiveOnlyWhileWorked'
    BY <2>1, <2>2, OwnOneRow, InterruptedFits DEF OwnershipInv
  <2> QED
    BY <2>2, <2>3, <2>4 DEF OwnershipStep
<1>3. CASE StopSettled(d) \/ RemoteStopReport(d)
  BY <1>2, <1>3 DEF StopSettled, RemoteStopReport
<1>4. CASE StopUnknown(d) \/ StopResumed(d) \/ StopFenced(d)
  <2>1. /\ UNCHANGED dispatches
        /\ \A e \in Dispatch \ {d} : workers'[e] = workers[e]
        /\ workers'[d] # workers[d] => workers[d] = "stopping" /\ workers'[d] \notin DeadWorker
    BY <1>4 DEF OwnershipInv, TypeOK, StopUnknown, StopResumed, StopFenced, DeadWorker
  <2>2. KeepsRows
    BY <2>1 DEF KeepsRows
  <2>3. DeadWorkerReleased'
    BY <2>1 DEF OwnershipInv, DeadWorkerReleased, Active
  <2>4. ActiveOnlyWhileWorked'
    BY <1>4, <2>2, OwnOneRow DEF OwnershipInv, TypeOK, StopUnknown, StopResumed, StopFenced, SetStatus
  <2> QED
    BY <2>2, <2>3, <2>4 DEF OwnershipStep
<1> QED
  BY <1>1, <1>2, <1>3, <1>4

\* Recovery from a snapshot that may be stale.
LEMMA OwnRecoverMissing ==
  ASSUME OwnershipInv, NEW d \in Dispatch, RecoverMissing(d) PROVE OwnershipStep
<1>1. /\ dispatches'[d].task = dispatches[d].task
      /\ dispatches'[d].status \notin ActiveStatus
      /\ dispatches'[d].status = "none" => dispatches[d].status = "none"
      /\ \A e \in Dispatch \ {d} : dispatches'[e] = dispatches[e] /\ workers'[e] = workers[e]
      /\ workers[d] # "none"
  BY FailedRowKeeps
  DEF OwnershipInv, TypeOK, RecoverMissing, Active, ActiveStatus, LiveWorker
<1>2. KeepsRows
  BY <1>1, WorkerHasRow, KeepsOneRow DEF Active
<1>3. DeadWorkerReleased'
  BY <1>1 DEF OwnershipInv, DeadWorkerReleased, Active
<1>4. ActiveOnlyWhileWorked'
  BY <1>1, <1>2, OwnOneRow DEF OwnershipInv, TypeOK, RecoverMissing, SetStatus, Active
<1> QED
  BY <1>2, <1>3, <1>4 DEF OwnershipStep

\* Exits, restarts and recoveries.
LEMMA OwnRecoveryStep ==
  ASSUME OwnershipInv, RecoveryStep PROVE OwnershipStep
<1>1. CASE \E p \in Terminal : TerminalExit(p)
  BY <1>1, OwnFailDispatch DEF TerminalExit
<1>2. CASE Restart \/ \E d \in Dispatch : RecoverDone(d)
  <2>1. UNCHANGED <<tasks, dispatches, workers>>
    BY <1>2 DEF Restart, RecoverDone
  <2> QED
    BY <2>1 DEF OwnershipStep, KeepsRows, OwnershipInv, ActiveOnlyWhileWorked, ActiveOn,
                Active, DeadWorkerReleased
<1>3. CASE \E d \in Dispatch : RecoverMissing(d)
  BY <1>3, OwnRecoverMissing
<1> QED
  BY <1>1, <1>2, <1>3 DEF RecoveryStep

\* A report settles every active dispatch of the task it ends.
LEMMA OwnWorkerReport ==
  ASSUME OwnershipInv, NEW d \in Dispatch, NEW outcome \in {"succeeded", "failed"},
         WorkerReport(d, outcome)
  PROVE OwnershipStep
<1> DEFINE t == dispatches[d].task
           s == IF outcome = "succeeded" THEN "completed" ELSE "failed"
           D == ActiveOn(t) \cup {d}
<1>1. /\ s \in {"completed", "failed"} /\ s \in TaskStatus
      /\ dispatches' = SettleRows(D, s)
      /\ tasks' = EndTask(t, s)
      /\ \A e \in D : dispatches[e].status # "none"
  BY DEF WorkerReport, ActiveOn, Active, ActiveStatus, TaskStatus
<1>2. \A e \in Dispatch :
        /\ dispatches'[e].task = dispatches[e].task
        /\ dispatches'[e].status = "none" <=> dispatches[e].status = "none"
        /\ dispatches'[e].status \in ActiveStatus => dispatches[e].status \in ActiveStatus
        /\ dispatches'[e].status \in ActiveStatus => dispatches[e].task # t
  BY <1>1, SettleRowsKeeps DEF OwnershipInv
<1>3. /\ \A e \in Dispatch \ {d} : workers'[e] = workers[e]
      /\ workers'[d] # workers[d] => workers[d] # "none"
  BY DEF WorkerReport, OwnershipInv, TypeOK
<1>4. KeepsRows
  BY <1>2, <1>3 DEF KeepsRows
<1>5. DeadWorkerReleased'
  BY <1>2, <1>3 DEF OwnershipInv, DeadWorkerReleased, Active
<1>6. ActiveOnlyWhileWorked'
  <2> SUFFICES ASSUME NEW u \in Task, NEW e \in Dispatch, Active(e)', dispatches'[e].task = u
               PROVE tasks'[u] \in {"dispatched", "blocked"}
    BY DEF ActiveOnlyWhileWorked, ActiveOn
  <2>1. u # t /\ e \in ActiveOn(u)
    BY <1>2 DEF Active, ActiveOn
  <2>2. tasks[u] \in {"dispatched", "blocked"}
    BY <2>1 DEF OwnershipInv, ActiveOnlyWhileWorked
  <2> QED
    BY <1>1, <2>1, <2>2, EndTaskOthers DEF OwnershipInv
<1> QED
  BY <1>4, <1>5, <1>6 DEF OwnershipStep

\* A gate settles the active dispatches of the task it blocks.
LEMMA OwnGateStep ==
  ASSUME OwnershipInv, GateStep PROVE OwnershipStep
<1>1. ASSUME NEW t \in Task, NEW g \in Gate, GateCreate(t, g) PROVE OwnershipStep
  <2>1. /\ dispatches' = SettleRows(ActiveOn(t), "completed")
        /\ UNCHANGED workers
        /\ \A e \in ActiveOn(t) : dispatches[e].status # "none"
    BY <1>1 DEF GateCreate, ActiveOn, Active, ActiveStatus
  <2>2. KeepsRows
    BY <2>1, SettleRowsKeeps DEF OwnershipInv, KeepsRows
  <2>3. DeadWorkerReleased'
    BY <2>1, <2>2 DEF KeepsRows, OwnershipInv, DeadWorkerReleased, Active
  <2>4. ActiveOnlyWhileWorked'
    BY <1>1, <2>2 DEF KeepsRows, OwnershipInv, TypeOK, GateCreate, SetStatus,
                      ActiveOnlyWhileWorked, ActiveOn, Active
  <2> QED
    BY <2>2, <2>3, <2>4 DEF OwnershipStep
<1>2. ASSUME NEW g \in Gate, GateResolve(g) PROVE OwnershipStep
  <2>1. UNCHANGED <<dispatches, workers>> /\ ActiveOn(gates[g].task) = {}
    BY <1>2 DEF GateResolve, UpdatePermitted
  <2>2. KeepsRows /\ DeadWorkerReleased'
    BY <2>1 DEF KeepsRows, OwnershipInv, DeadWorkerReleased, Active
  <2>3. ActiveOnlyWhileWorked'
    BY <1>2, <2>1 DEF OwnershipInv, TypeOK, GateResolve, SetStatus, ActiveOnlyWhileWorked,
                      ActiveOn, Active
  <2> QED
    BY <2>2, <2>3 DEF OwnershipStep
<1> QED
  BY <1>1, <1>2 DEF GateStep

\* Inserting the next row, active and for a task nobody works on.
LEMMA OwnNewRow ==
  ASSUME OwnershipInv, NEW d \in Dispatch, IsNextRow(d), NEW t, NEW row,
         dispatches' = [dispatches EXCEPT ![d] = row],
         row.task = t, row.status \in ActiveStatus,
         ActiveOn(t) = {},
         \A e \in Dispatch \ {d} : workers'[e] = workers[e],
         workers'[d] \notin DeadWorker,
         tasks' = SetStatus(t, "dispatched")
  PROVE RowsContiguous' /\ ActiveIsLatest' /\ ActiveOnlyWhileWorked' /\ DeadWorkerReleased'
<1>1. /\ dispatches'[d] = row
      /\ \A e \in Dispatch \ {d} : dispatches'[e] = dispatches[e]
  BY DEF OwnershipInv, TypeOK
<1>2. \A e \in Dispatch : d < e => dispatches[e].status = "none"
  BY DEF OwnershipInv, RowsContiguous, IsNextRow, Dispatch
<1>3. RowsContiguous'
  BY <1>1, <1>2 DEF OwnershipInv, RowsContiguous, IsNextRow, ActiveStatus, Dispatch
<1>4. ActiveIsLatest'
  <2> SUFFICES ASSUME NEW e \in Dispatch, NEW f \in Dispatch, Active(e)',
                      dispatches'[f].status # "none", dispatches'[f].task = dispatches'[e].task
               PROVE f <= e
    BY DEF ActiveIsLatest
  <2>1. CASE e = d
    BY <1>1, <1>2, <2>1 DEF Dispatch
  <2>2. CASE e # d /\ f # d
    BY <1>1, <2>2 DEF OwnershipInv, ActiveIsLatest, Active
  <2>3. CASE e # d /\ f = d
    BY <1>1, <2>3 DEF ActiveOn, Active
  <2> QED
    BY <2>1, <2>2, <2>3
<1>5. ActiveOnlyWhileWorked'
  BY <1>1 DEF OwnershipInv, TypeOK, ActiveOnlyWhileWorked, ActiveOn, Active, SetStatus
<1>6. DeadWorkerReleased'
  BY <1>1 DEF OwnershipInv, DeadWorkerReleased, Active
<1> QED
  BY <1>3, <1>4, <1>5, <1>6

\* A ready task has no active dispatch, so a new one is alone.
LEMMA OwnDispatchTask ==
  ASSUME OwnershipInv, NEW t \in Task, NEW p \in Terminal, NEW how, DispatchTask(t, p, how)
  PROVE RowsContiguous' /\ ActiveIsLatest' /\ ActiveOnlyWhileWorked' /\ DeadWorkerReleased'
<1>1. PICK d \in Dispatch, n \in 0 .. MaxDispatches :
        /\ IsNextRow(d)
        /\ dispatches' = [dispatches EXCEPT ![d] =
             [EmptyRow EXCEPT !.task = t, !.status = "dispatched", !.failures = n,
                !.terminal = p, !.minted = (how = "inject")]]
  BY DEF DispatchTask
<1> DEFINE row == [EmptyRow EXCEPT !.task = t, !.status = "dispatched", !.failures = n,
                     !.terminal = p, !.minted = (how = "inject")]
<1>2. row.task = t /\ row.status \in ActiveStatus
  BY DEF EmptyRow, ActiveStatus
<1>3. ActiveOn(t) = {}
  BY DEF DispatchTask, OwnershipInv, ActiveOnlyWhileWorked
<1>4. workers[d] = "none"
  BY <1>1 DEF OwnershipInv, RowsContiguous, IsNextRow
<1>5. UNCHANGED workers /\ tasks' = SetStatus(t, "dispatched")
  BY DEF DispatchTask
<1> HIDE DEF row
<1> QED
  BY <1>1, <1>2, <1>3, <1>4, <1>5, OwnNewRow DEF DeadWorker, row

\* A supervised dispatch of a task nobody works on is alone.
LEMMA OwnStartWorker ==
  ASSUME OwnershipInv, NEW t, NEW host, NEW d \in Dispatch, StartWorker(t, host, d),
         ActiveOn(t) = {}
  PROVE RowsContiguous' /\ ActiveIsLatest' /\ ActiveOnlyWhileWorked' /\ DeadWorkerReleased'
<1> DEFINE row == [EmptyRow EXCEPT !.task = t, !.status = "pending", !.host = host]
<1>1. row.task = t /\ row.status \in ActiveStatus
  BY DEF EmptyRow, ActiveStatus
<1>2. /\ IsNextRow(d)
      /\ dispatches' = [dispatches EXCEPT ![d] = row]
      /\ \A e \in Dispatch \ {d} : workers'[e] = workers[e]
      /\ workers'[d] = "starting"
      /\ tasks' = SetStatus(t, "dispatched")
  BY DEF StartWorker, OwnershipInv, TypeOK
<1> HIDE DEF row
<1> QED
  BY <1>1, <1>2, OwnNewRow DEF DeadWorker

\* A retry finds the task free: the latest row of the task is not active.
LEMMA RetryFindsTaskFree ==
  ASSUME OwnershipInv, NEW r \in Dispatch, dispatches[r].status # "none", IsLatest(r),
         workers[r] \in DeadWorker
  PROVE ActiveOn(dispatches[r].task) = {}
<1>1. ASSUME NEW e \in Dispatch, Active(e), dispatches[e].task = dispatches[r].task PROVE FALSE
  <2>1. r <= e
    BY <1>1 DEF OwnershipInv, ActiveIsLatest
  <2>2. e <= r
    BY <1>1 DEF IsLatest, RowsOf
  <2>3. e = r
    BY <2>1, <2>2 DEF Dispatch
  <2> QED
    BY <1>1, <2>3 DEF OwnershipInv, DeadWorkerReleased
<1> QED
  BY <1>1 DEF ActiveOn

\* The steps that create no dispatch keep the invariant.
LEMMA OwnKeeping ==
  ASSUME OwnershipInv, TypeOK', OwnershipStep PROVE OwnershipInv'
BY KeepsRowsOrdered DEF OwnershipStep, OwnershipInv

\* One case per group of actions.
LEMMA OwnershipNext ==
  ASSUME OwnershipInv, ConstantsAssumption, [Next]_vars PROVE OwnershipInv'
<1>0. TypeOK'
  BY TypeNext DEF OwnershipInv
<1>1. CASE TaskStep
  BY <1>0, <1>1, OwnTaskCreate, OwnTaskUpdate, OwnKeeping DEF TaskStep
<1>2. CASE ContextStep
  <2>1. ASSUME NEW t \in Task, NEW p \in Terminal, NEW how, DispatchTask(t, p, how)
        PROVE OwnershipInv'
    BY <1>0, <2>1, OwnDispatchTask DEF OwnershipInv
  <2>2. ASSUME NEW d \in Dispatch, NEW why, PromptSent(d) \/ PromptFailed(d, why)
        PROVE OwnershipInv'
    <3>1. CASE FailDispatch(d, why, FALSE)
      BY <1>0, <3>1, OwnFailDispatch, OwnKeeping
    <3>2. CASE UNCHANGED <<tasks, dispatches, workers>>
      BY <1>0, <3>2 DEF OwnershipInv, RowsContiguous, ActiveIsLatest, ActiveOnlyWhileWorked,
                        ActiveOn, Active, DeadWorkerReleased
    <3> QED
      BY <2>2, <3>1, <3>2 DEF PromptSent, PromptFailed
  <2>3. ASSUME NEW d \in Dispatch, Escalate(d) \/ ReleaseContextOnly(d) PROVE OwnershipInv'
    BY <1>0, <2>3, OwnEscalate, OwnReleaseContextOnly, OwnKeeping
  <2> QED
    BY <1>2, <2>1, <2>2, <2>3 DEF ContextStep
<1>3. CASE StartStep
  <2>1. ASSUME NEW t \in Task, NEW host, WorkerStart(t, host) PROVE OwnershipInv'
    <3>1. ActiveOn(t) = {}
      BY <2>1 DEF WorkerStart, OwnershipInv, ActiveOnlyWhileWorked
    <3> QED
      BY <1>0, <2>1, <3>1, OwnStartWorker DEF WorkerStart, OwnershipInv
  <2>2. ASSUME NEW r \in Dispatch, NEW host, WorkerRetry(r, host) PROVE OwnershipInv'
    <3>1. ActiveOn(dispatches[r].task) = {}
      BY <2>2, RetryFindsTaskFree DEF WorkerRetry, Retryable, DeadWorker
    <3> QED
      BY <1>0, <2>2, <3>1, OwnStartWorker DEF WorkerRetry, OwnershipInv
  <2>3. ASSUME NEW d \in Dispatch, StartFenced(d) PROVE OwnershipInv'
    BY <1>0, <2>3 DEF StartFenced, OwnershipInv, RowsContiguous, ActiveIsLatest,
                      ActiveOnlyWhileWorked, ActiveOn, Active, DeadWorkerReleased
  <2> QED
    BY <1>0, <1>3, <2>1, <2>2, <2>3, OwnStartHandler, OwnRemoteStartReport, OwnKeeping
    DEF StartStep
<1>4. CASE StopStep
  BY <1>0, <1>4, OwnStopStep, OwnKeeping
<1>5. CASE RecoveryStep
  BY <1>0, <1>5, OwnRecoveryStep, OwnKeeping
<1>6. CASE ReportStep
  <2>1. ASSUME NEW d \in Dispatch, Ask(d) \/ AnswerQuestion(d) PROVE OwnershipInv'
    BY <1>0, <2>1 DEF Ask, AnswerQuestion, OwnershipInv, RowsContiguous, ActiveIsLatest,
                      ActiveOnlyWhileWorked, ActiveOn, Active, DeadWorkerReleased
  <2> QED
    BY <1>0, <1>6, <2>1, OwnWorkerReport, OwnKeeping DEF ReportStep
<1>7. CASE GateStep
  BY <1>0, <1>7, OwnGateStep, OwnKeeping
<1>8. CASE UNCHANGED vars
  BY <1>0, <1>8 DEF vars, calls, OwnershipInv, RowsContiguous, ActiveIsLatest,
                    ActiveOnlyWhileWorked, ActiveOn, Active, DeadWorkerReleased
<1> QED
  BY <1>1, <1>2, <1>3, <1>4, <1>5, <1>6, <1>7, <1>8 DEF Next

\* Ownership holds in every reachable state: by induction over the steps.
THEOREM OwnershipInvariant == Spec => []OwnershipInv
<1>1. Init => OwnershipInv
  BY TypeInit, ConstantsAssumption
  DEF Init, OwnershipInv, EmptyRow, RowsContiguous, ActiveIsLatest, ActiveOnlyWhileWorked,
      ActiveOn, Active, ActiveStatus, DeadWorkerReleased
<1>2. OwnershipInv /\ [Next]_vars => OwnershipInv'
  BY OwnershipNext, ConstantsAssumption
<1> QED
  BY <1>1, <1>2, PTL DEF Spec

\* No interleaving of start, stop, retry, recovery and reports puts two
\* dispatches at work on one task.
THEOREM TaskHasOneOwner == Spec => []OneActivePerTask
<1>1. OwnershipInv => OneActivePerTask
  BY OwnsAlone DEF OneActivePerTask, ActiveOn
<1> QED
  BY <1>1, OwnershipInvariant, PTL

\* A task that may be dispatched, or is settled, has no dispatch at work on it.
THEOREM IdleTaskIsFree == Spec => []ActiveOnlyWhileWorked
<1>1. OwnershipInv => ActiveOnlyWhileWorked
  BY DEF OwnershipInv
<1> QED
  BY <1>1, OwnershipInvariant, PTL

\* A worker that ended, however it ended, holds no active dispatch.
THEOREM DeadWorkerHoldsNothing == Spec => []DeadWorkerReleased
<1>1. OwnershipInv => DeadWorkerReleased
  BY DEF OwnershipInv
<1> QED
  BY <1>1, OwnershipInvariant, PTL

(***************************************************************************)
(* The terminal lock: one active dispatch per terminal                     *)
(***************************************************************************)
\* Row d takes no terminal that another active row has.
TakesFreeTerminal(d) ==
  dispatches'[d].status \in ActiveStatus =>
    \/ dispatches'[d].terminal = NoTerminal
    \/ Active(d) /\ dispatches'[d].terminal = dispatches[d].terminal
    \/ \A e \in Dispatch \ {d} :
         ~(Active(e) /\ dispatches[e].terminal = dispatches'[d].terminal)

\* One row changes, and takes a terminal only if it is free.
LEMMA LockOneRow ==
  ASSUME OneActivePerTerminal, NEW d \in Dispatch,
         \A e \in Dispatch \ {d} : dispatches'[e] = dispatches[e],
         TakesFreeTerminal(d)
  PROVE OneActivePerTerminal'
<1> SUFFICES ASSUME NEW e \in Dispatch, NEW f \in Dispatch, e # f,
                    Active(e)', Active(f)',
                    dispatches'[e].terminal = dispatches'[f].terminal,
                    dispatches'[e].terminal # NoTerminal
             PROVE FALSE
  BY DEF OneActivePerTerminal
<1>1. CASE e # d /\ f # d
  BY <1>1 DEF OneActivePerTerminal, Active
<1>2. CASE e = d
  BY <1>2 DEF OneActivePerTerminal, Active, TakesFreeTerminal
<1>3. CASE f = d
  BY <1>3 DEF OneActivePerTerminal, Active, TakesFreeTerminal
<1> QED
  BY <1>1, <1>2, <1>3

\* Settling rows assigns no terminal.
LEMMA LockSettleRows ==
  ASSUME TypeOK, OneActivePerTerminal, NEW D, NEW s \in {"completed", "failed"},
         dispatches' = SettleRows(D, s)
  PROVE OneActivePerTerminal'
<1>1. \A e \in Dispatch : /\ dispatches'[e].terminal = dispatches[e].terminal
                          /\ dispatches'[e].status \in ActiveStatus => Active(e)
  BY SettleRowsEffect DEF Active, ActiveStatus
<1> QED
  BY <1>1 DEF OneActivePerTerminal, Active

\* The dispatch table does not change.
LEMMA LockSame ==
  ASSUME OneActivePerTerminal, UNCHANGED dispatches PROVE OneActivePerTerminal'
BY DEF OneActivePerTerminal, Active

\* The lock of createDispatchContext.
LEMMA LockDispatchTask ==
  ASSUME TypeOK, OneActivePerTerminal, NEW t, NEW p \in Terminal, NEW how, DispatchTask(t, p, how)
  PROVE OneActivePerTerminal'
<1>1. PICK d \in Dispatch, n \in 0 .. MaxDispatches :
        dispatches' = [dispatches EXCEPT ![d] =
          [EmptyRow EXCEPT !.task = t, !.status = "dispatched", !.failures = n,
             !.terminal = p, !.minted = (how = "inject")]]
  BY DEF DispatchTask
<1> DEFINE row == [EmptyRow EXCEPT !.task = t, !.status = "dispatched", !.failures = n,
                     !.terminal = p, !.minted = (how = "inject")]
<1>2. row.terminal = p
  BY DEF EmptyRow
<1>3. ~TerminalBusy(p)
  BY DEF DispatchTask
<1> HIDE DEF row
<1>4. dispatches'[d] = row /\ \A e \in Dispatch \ {d} : dispatches'[e] = dispatches[e]
  BY <1>1 DEF TypeOK, row
<1>5. TakesFreeTerminal(d)
  BY <1>2, <1>3, <1>4 DEF TakesFreeTerminal, TerminalBusy
<1> QED
  BY <1>4, <1>5, LockOneRow

\* A worker starts without a terminal.
LEMMA LockStartWorker ==
  ASSUME TypeOK, OneActivePerTerminal, NEW t, NEW host, NEW d \in Dispatch, StartWorker(t, host, d)
  PROVE OneActivePerTerminal'
<1> DEFINE row == [EmptyRow EXCEPT !.task = t, !.status = "pending", !.host = host]
<1>1. row.terminal = NoTerminal
  BY DEF EmptyRow
<1>2. dispatches' = [dispatches EXCEPT ![d] = row]
  BY DEF StartWorker
<1> HIDE DEF row
<1>3. dispatches'[d] = row /\ \A e \in Dispatch \ {d} : dispatches'[e] = dispatches[e]
  BY <1>2 DEF TypeOK
<1>4. TakesFreeTerminal(d)
  BY <1>1, <1>3 DEF TakesFreeTerminal
<1> QED
  BY <1>3, <1>4, LockOneRow

\* The lock of prepareStartingWorkerAuthority, taken after an await.
LEMMA LockAttachAuthority ==
  ASSUME TypeOK, OneActivePerTerminal, NEW d \in Dispatch, NEW p, AttachAuthority(d, p)
  PROVE OneActivePerTerminal'
<1> DEFINE row == [dispatches[d] EXCEPT !.terminal = p, !.minted = TRUE, !.revoked = FALSE]
<1>1. row.terminal = p
  BY TypeRow DEF Row
<1>2. dispatches' = [dispatches EXCEPT ![d] = row]
  BY DEF AttachAuthority
<1> HIDE DEF row
<1>3. dispatches'[d] = row /\ \A e \in Dispatch \ {d} : dispatches'[e] = dispatches[e]
  BY <1>2 DEF TypeOK
<1>4. TakesFreeTerminal(d)
  BY <1>1, <1>3 DEF TakesFreeTerminal, AttachAuthority
<1> QED
  BY <1>3, <1>4, LockOneRow

\* A counted failure ends the row.
LEMMA LockFailedRow ==
  ASSUME TypeOK, OneActivePerTerminal, NEW d \in Dispatch, NEW why,
         dispatches' = [dispatches EXCEPT ![d] = FailedRow(d, why)]
  PROVE OneActivePerTerminal'
<1>1. /\ dispatches'[d].status \notin ActiveStatus
      /\ \A e \in Dispatch \ {d} : dispatches'[e] = dispatches[e]
  BY FailedRowKeeps DEF TypeOK, ActiveStatus
<1> QED
  BY <1>1, LockOneRow DEF TakesFreeTerminal

\* The steps that change the row of one dispatch and not its terminal.
LEMMA LockOneDispatch ==
  ASSUME TypeOK, OneActivePerTerminal, NEW d \in Dispatch,
         \/ ReleaseContextOnly(d)
         \/ WorkerReady(d)
         \/ \E why \in {"stalled", "error"} : FailStart(d, why)
         \/ StartUnknown(d)
         \/ \E remote \in {"ready", "failed", "stopped"} : RemoteStartReport(d, remote)
         \/ WorkerStop(d)
         \/ SettleStop(d)
         \/ Abandon(d)
  PROVE OneActivePerTerminal'
<1> DEFINE Kept == /\ dispatches'[d].terminal = dispatches[d].terminal
                   /\ dispatches'[d].status \in ActiveStatus
                        => dispatches[d].status \in ActiveStatus
                   /\ \A e \in Dispatch \ {d} : dispatches'[e] = dispatches[e]
<1>0. dispatches[d] \in Row
  BY TypeRow
<1>1. CASE ReleaseContextOnly(d)
  <2>1. Kept
    BY <1>0, <1>1 DEF TypeOK, ReleaseContextOnly, Row, ActiveStatus
  <2> QED
    BY <2>1, LockOneRow DEF TakesFreeTerminal, Active
<1>2. CASE WorkerReady(d)
  <2>1. Kept
    BY <1>0, <1>2 DEF TypeOK, WorkerReady, Starting, Row, ActiveStatus
  <2> QED
    BY <2>1, LockOneRow DEF TakesFreeTerminal, Active
<1>3. CASE \E why \in {"stalled", "error"} : FailStart(d, why)
  <2>1. Kept
    BY <1>0, <1>3 DEF TypeOK, FailStart, Row, ActiveStatus
  <2> QED
    BY <2>1, LockOneRow DEF TakesFreeTerminal, Active
<1>4. CASE StartUnknown(d) \/ WorkerStop(d)
  <2>0. dispatches' = [dispatches EXCEPT ![d].revoked = TRUE]
    BY <1>4 DEF StartUnknown, WorkerStop
  <2>1. Kept
    BY <1>0, <2>0 DEF TypeOK, Row
  <2> QED
    BY <2>1, LockOneRow DEF TakesFreeTerminal, Active
<1>5. CASE \E remote \in {"ready", "failed", "stopped"} : RemoteStartReport(d, remote)
  <2>1. Kept
    BY <1>0, <1>5 DEF TypeOK, RemoteStartReport, Row, Active, ActiveStatus
  <2> QED
    BY <2>1, LockOneRow DEF TakesFreeTerminal, Active
<1>6. CASE SettleStop(d) \/ Abandon(d)
  <2>1. Kept
    BY <1>0, <1>6 DEF TypeOK, SettleStop, Abandon, Row, Active, ActiveStatus
  <2> QED
    BY <2>1, LockOneRow DEF TakesFreeTerminal, Active
<1> QED
  BY <1>1, <1>2, <1>3, <1>4, <1>5, <1>6

\* One case per group of actions.
LEMMA LockNext ==
  ASSUME TypeOK, OneActivePerTerminal, [Next]_vars PROVE OneActivePerTerminal'
<1>1. CASE TaskStep
  <2>1. ASSUME NEW t \in Task, TaskCreate(t) PROVE OneActivePerTerminal'
    BY <2>1, LockSame DEF TaskCreate
  <2>2. ASSUME NEW t \in Task, NEW s, TaskUpdate(t, s) PROVE OneActivePerTerminal'
    BY <2>2, LockSame, LockSettleRows DEF TaskUpdate
  <2> QED
    BY <1>1, <2>1, <2>2 DEF TaskStep
<1>2. CASE ContextStep
  <2>1. ASSUME NEW d \in Dispatch, NEW why, PromptSent(d) \/ PromptFailed(d, why)
        PROVE OneActivePerTerminal'
    BY <2>1, LockSame, LockFailedRow DEF PromptSent, PromptFailed, FailDispatch
  <2>2. ASSUME NEW d \in Dispatch, Escalate(d) PROVE OneActivePerTerminal'
    BY <2>2, LockFailedRow DEF Escalate
  <2> QED
    BY <1>2, <2>1, <2>2, LockDispatchTask, LockOneDispatch DEF ContextStep
<1>3. CASE StartStep
  <2>1. ASSUME NEW d \in Dispatch, StartFenced(d) PROVE OneActivePerTerminal'
    BY <2>1, LockSame DEF StartFenced
  <2>2. ASSUME NEW t, NEW host, WorkerStart(t, host) PROVE OneActivePerTerminal'
    BY <2>2, LockStartWorker DEF WorkerStart
  <2>3. ASSUME NEW r \in Dispatch, NEW host, WorkerRetry(r, host) PROVE OneActivePerTerminal'
    BY <2>3, LockStartWorker DEF WorkerRetry
  <2> QED
    BY <1>3, <2>1, <2>2, <2>3, LockAttachAuthority, LockOneDispatch DEF StartStep
<1>4. CASE StopStep
  <2> PICK d \in Dispatch :
        \/ WorkerStop(d) \/ StopSettled(d) \/ RemoteStopReport(d) \/ StopUnknown(d)
        \/ StopResumed(d) \/ StopFenced(d) \/ Abandon(d)
    BY <1>4 DEF StopStep
  <2>1. CASE StopUnknown(d) \/ StopResumed(d) \/ StopFenced(d)
    BY <2>1, LockSame DEF StopUnknown, StopResumed, StopFenced
  <2>2. CASE StopSettled(d) \/ RemoteStopReport(d)
    BY <2>2, LockOneDispatch DEF StopSettled, RemoteStopReport
  <2> QED
    BY <2>1, <2>2, LockOneDispatch
<1>5. CASE RecoveryStep
  <2>1. ASSUME NEW p \in Terminal, TerminalExit(p) PROVE OneActivePerTerminal'
    BY <2>1, LockFailedRow DEF TerminalExit, FailDispatch
  <2>2. ASSUME NEW d \in Dispatch, RecoverMissing(d) PROVE OneActivePerTerminal'
    BY <2>2, LockSame, LockFailedRow DEF RecoverMissing
  <2>3. CASE Restart \/ \E d \in Dispatch : RecoverDone(d)
    BY <2>3, LockSame DEF Restart, RecoverDone
  <2> QED
    BY <1>5, <2>1, <2>2, <2>3 DEF RecoveryStep
<1>6. CASE ReportStep
  <2>1. ASSUME NEW d \in Dispatch, Ask(d) \/ AnswerQuestion(d) PROVE OneActivePerTerminal'
    BY <2>1, LockSame DEF Ask, AnswerQuestion
  <2>2. ASSUME NEW d \in Dispatch, NEW outcome, WorkerReport(d, outcome)
        PROVE OneActivePerTerminal'
    BY <2>2, LockSettleRows DEF WorkerReport
  <2> QED
    BY <1>6, <2>1, <2>2 DEF ReportStep
<1>7. CASE GateStep
  <2>1. ASSUME NEW t, NEW g, GateCreate(t, g) PROVE OneActivePerTerminal'
    BY <2>1, LockSettleRows DEF GateCreate
  <2>2. ASSUME NEW g, GateResolve(g) PROVE OneActivePerTerminal'
    BY <2>2, LockSame DEF GateResolve
  <2> QED
    BY <1>7, <2>1, <2>2 DEF GateStep
<1>8. CASE UNCHANGED vars
  BY <1>8, LockSame DEF vars
<1> QED
  BY <1>1, <1>2, <1>3, <1>4, <1>5, <1>6, <1>7, <1>8 DEF Next

\* A terminal serves at most one active dispatch: the claim of an idle terminal
\* and the late attachment of a starting worker exclude each other, although
\* each checks the lock in a transaction of its own.
THEOREM TerminalLockHolds == Spec => []OneActivePerTerminal
<1>1. Init => OneActivePerTerminal
  BY DEF Init, OneActivePerTerminal, Active, ActiveStatus, EmptyRow
<1>2. TypeOK /\ OneActivePerTerminal /\ [Next]_vars => OneActivePerTerminal'
  BY LockNext
<1> QED
  BY <1>1, <1>2, TypeCorrect, PTL DEF Spec
==============================================================================
