----------------------- MODULE OrchestrationDb_settling -----------------------
(* What settled dispatches and completed tasks go through: the action         *)
(* properties of OrchestrationDb, for every value of its constants.           *)
EXTENDS OrchestrationDb_proofs

\* The dispatch of a starting worker waits for it: the error paths of worker-start
\* test the worker only, and then write the dispatch and its task.
StartingIsPending ==
  \A d \in Dispatch : workers[d] = "starting" => dispatches[d].status = "pending"

(***************************************************************************)
(* The invariant                                                           *)
(***************************************************************************)
\* A step that leaves a starting worker starting leaves its row pending.
LEMMA StartKeeps ==
  ASSUME StartingIsPending,
         \A e \in Dispatch :
           workers'[e] = "starting" =>
             \/ workers[e] = "starting" /\ dispatches'[e] = dispatches[e]
             \/ dispatches'[e].status = "pending"
  PROVE StartingIsPending'
BY DEF StartingIsPending

\* Settling keeps it when no starting worker's row is settled.
LEMMA StartSettleRows ==
  ASSUME StartingIsPending, NEW D, NEW s, dispatches' = SettleRows(D, s),
         \A e \in D : workers[e] # "starting",
         \A e \in Dispatch : workers'[e] = "starting" => workers[e] = "starting"
  PROVE StartingIsPending'
<1>1. \A e \in Dispatch : e \notin D => dispatches'[e] = dispatches[e]
  BY DEF SettleRows
<1> QED
  BY <1>1, StartKeeps

\* failDispatch never meets a starting worker, unless its process exited.
LEMMA StartFailDispatch ==
  ASSUME TypeOK, StartingIsPending, NEW d \in Dispatch, NEW why, NEW exited,
         FailDispatch(d, why, exited)
  PROVE StartingIsPending'
<1>1. /\ \A e \in Dispatch \ {d} : dispatches'[e] = dispatches[e] /\ workers'[e] = workers[e]
      /\ workers'[d] # "starting"
  BY DEF FailDispatch, TypeOK, LiveWorker
<1> QED
  BY <1>1, StartKeeps

\* Actions on one row, seen from every start handler.
LEMMA StartRows ==
  ASSUME TypeOK, StartingIsPending, NEW d \in Dispatch,
         \/ Escalate(d) \/ ReleaseContextOnly(d)
         \/ WorkerReady(d) \/ StartUnknown(d)
         \/ \E why \in {"stalled", "error"} : FailStart(d, why)
         \/ \E remote \in {"ready", "failed", "stopped"} : RemoteStartReport(d, remote)
         \/ WorkerStop(d) \/ Abandon(d)
         \/ SettleStop(d)
         \/ RecoverMissing(d)
  PROVE StartingIsPending'
<1>1. CASE Escalate(d) \/ ReleaseContextOnly(d)
  <2>1. /\ \A e \in Dispatch \ {d} : dispatches'[e] = dispatches[e]
        /\ UNCHANGED workers /\ workers[d] # "starting"
    BY <1>1 DEF Escalate, ReleaseContextOnly, TypeOK, LiveWorker
  <2> QED
    BY <2>1, StartKeeps
<1>2. CASE WorkerReady(d) \/ StartUnknown(d) \/ WorkerStop(d) \/ Abandon(d)
           \/ SettleStop(d) \/ RecoverMissing(d)
  <2>1. /\ \A e \in Dispatch \ {d} : dispatches'[e] = dispatches[e] /\ workers'[e] = workers[e]
        /\ workers'[d] # "starting"
    BY <1>2 DEF WorkerReady, StartUnknown, WorkerStop, Abandon, SettleStop, RecoverMissing, TypeOK
  <2> QED
    BY <2>1, StartKeeps
<1>3. CASE \/ \E why \in {"stalled", "error"} : FailStart(d, why)
           \/ \E remote \in {"ready", "failed", "stopped"} : RemoteStartReport(d, remote)
  <2>1. /\ \A e \in Dispatch \ {d} : dispatches'[e] = dispatches[e] /\ workers'[e] = workers[e]
        /\ workers'[d] # "starting"
    BY <1>3 DEF FailStart, RemoteStartReport, TypeOK
  <2> QED
    BY <2>1, StartKeeps
<1> QED
  BY <1>1, <1>2, <1>3

\* createDispatchContext has no worker row; createStartingWorkerDispatch begins
\* with a pending dispatch.
LEMMA StartNewRow ==
  ASSUME OwnershipInv, StartingIsPending,
         \/ \E t \in Task, p \in Terminal, how \in Injections : DispatchTask(t, p, how)
         \/ \E t, host : \E d \in Dispatch : StartWorker(t, host, d)
  PROVE StartingIsPending'
<1>1. CASE \E t \in Task, p \in Terminal, how \in Injections : DispatchTask(t, p, how)
  <2>1. PICK d \in Dispatch : /\ IsNextRow(d)
                              /\ \E row : dispatches' = [dispatches EXCEPT ![d] = row]
    BY <1>1 DEF DispatchTask
  <2>2. workers[d] = "none" /\ UNCHANGED workers
    BY <1>1, <2>1 DEF OwnershipInv, RowsContiguous, IsNextRow, DispatchTask
  <2>3. \A e \in Dispatch \ {d} : dispatches'[e] = dispatches[e]
    BY <2>1 DEF OwnershipInv, TypeOK
  <2> QED
    BY <2>2, <2>3, StartKeeps
<1>2. CASE \E t, host : \E d \in Dispatch : StartWorker(t, host, d)
  <2>1. PICK t, host : \E d \in Dispatch : StartWorker(t, host, d)
    BY <1>2
  <2>2. PICK d \in Dispatch : StartWorker(t, host, d)
    BY <2>1
  <2> DEFINE row == [EmptyRow EXCEPT !.task = t, !.status = "pending", !.host = host]
  <2>3. row.status = "pending"
    BY DEF EmptyRow
  <2>4. dispatches' = [dispatches EXCEPT ![d] = row]
    BY <2>2 DEF StartWorker
  <2> HIDE DEF row
  <2>5. /\ dispatches'[d] = row
        /\ \A e \in Dispatch \ {d} : dispatches'[e] = dispatches[e] /\ workers'[e] = workers[e]
    BY <2>2, <2>4 DEF StartWorker, OwnershipInv, TypeOK
  <2> QED
    BY <2>3, <2>5, StartKeeps
<1> QED
  BY <1>1, <1>2

\* A report settles its own dispatch, which is not pending, and rows without a
\* live worker.
LEMMA StartWorkerReport ==
  ASSUME TypeOK, StartingIsPending, NEW d \in Dispatch,
         NEW outcome \in {"succeeded", "failed"}, WorkerReport(d, outcome)
  PROVE StartingIsPending'
<1> DEFINE D == ActiveOn(dispatches[d].task) \cup {d}
<1>1. PICK s : dispatches' = SettleRows(D, s)
  BY DEF WorkerReport
<1>2. workers[d] # "starting"
  BY DEF StartingIsPending, WorkerReport, ReportFits, UnobservedPrompt
<1>3. \A e \in D : workers[e] # "starting"
  BY <1>2 DEF WorkerReport, LiveActiveOn, LiveWorker
<1>4. \A e \in Dispatch \ {d} : workers'[e] = workers[e]
  BY DEF WorkerReport, TypeOK
<1>5. workers'[d] # "starting"
  <2>1. workers' = workers \/ workers' = [workers EXCEPT ![d] = outcome]
    BY DEF WorkerReport
  <2> QED
    BY <1>2, <2>1 DEF WorkerReport, TypeOK
<1> QED
  BY <1>1, <1>3, <1>4, <1>5, StartSettleRows

\* One case per group of actions.
LEMMA StartNext ==
  ASSUME OwnershipInv, StartingIsPending, [Next]_vars PROVE StartingIsPending'
<1> TypeOK
  BY DEF OwnershipInv
<1>1. CASE TaskStep
  <2>1. ASSUME NEW t \in Task, NEW s \in UpdateStatuses, TaskUpdate(t, s)
        PROVE StartingIsPending'
    <3>1. CASE s \in {"completed", "failed"}
      <4>1. \A e \in ActiveOn(t) : workers[e] # "starting"
        BY <2>1, <3>1 DEF TaskUpdate, UpdatePermitted, LiveActiveOn, LiveWorker
      <4> QED
        BY <2>1, <3>1, <4>1, StartSettleRows DEF TaskUpdate
    <3>2. CASE s \notin {"completed", "failed"}
      BY <2>1, <3>2, StartKeeps DEF TaskUpdate
    <3> QED
      BY <3>1, <3>2
  <2>2. ASSUME NEW t \in Task, TaskCreate(t) PROVE StartingIsPending'
    BY <2>2, StartKeeps DEF TaskCreate
  <2> QED
    BY <1>1, <2>1, <2>2 DEF TaskStep
<1>2. CASE ContextStep
  <2>1. ASSUME NEW d \in Dispatch, NEW why, PromptSent(d) \/ PromptFailed(d, why)
        PROVE StartingIsPending'
    BY <2>1, StartKeeps, StartFailDispatch DEF PromptSent, PromptFailed
  <2> QED
    BY <1>2, <2>1, StartNewRow, StartRows DEF ContextStep
<1>3. CASE StartStep
  <2>1. ASSUME NEW d \in Dispatch,
               StartFenced(d) \/ \E p \in Terminal : AttachAuthority(d, p)
        PROVE StartingIsPending'
    <3>1. CASE StartFenced(d)
      BY <3>1, StartKeeps DEF StartFenced
    <3>2. CASE \E p \in Terminal : AttachAuthority(d, p)
      <4>1. /\ \A e \in Dispatch \ {d} : dispatches'[e] = dispatches[e]
            /\ dispatches'[d].status = dispatches[d].status
            /\ UNCHANGED workers
        BY <3>2, TypeRow DEF AttachAuthority, TypeOK, Row
      <4> QED
        BY <4>1 DEF StartingIsPending
    <3> QED
      BY <2>1, <3>1, <3>2
  <2>2. ASSUME NEW t, NEW host, WorkerStart(t, host) PROVE StartingIsPending'
    BY <2>2, StartNewRow DEF WorkerStart
  <2>3. ASSUME NEW r \in Dispatch, NEW host, WorkerRetry(r, host) PROVE StartingIsPending'
    BY <2>3, StartNewRow DEF WorkerRetry
  <2> QED
    BY <1>3, <2>1, <2>2, <2>3, StartRows DEF StartStep
<1>4. CASE StopStep
  <2> PICK d \in Dispatch :
        \/ WorkerStop(d) \/ StopSettled(d) \/ RemoteStopReport(d) \/ StopUnknown(d)
        \/ StopResumed(d) \/ StopFenced(d) \/ Abandon(d)
    BY <1>4 DEF StopStep
  <2>1. CASE StopUnknown(d) \/ StopResumed(d) \/ StopFenced(d)
    <3>1. /\ UNCHANGED dispatches
          /\ \A e \in Dispatch : workers'[e] = "starting" => workers[e] = "starting"
      BY <2>1 DEF StopUnknown, StopResumed, StopFenced, TypeOK
    <3> QED
      BY <3>1, StartKeeps
  <2>2. CASE StopSettled(d) \/ RemoteStopReport(d)
    BY <2>2, StartRows DEF StopSettled, RemoteStopReport
  <2> QED
    BY <2>1, <2>2, StartRows
<1>5. CASE RecoveryStep
  <2>1. ASSUME NEW p \in Terminal, TerminalExit(p) PROVE StartingIsPending'
    BY <2>1, StartFailDispatch DEF TerminalExit
  <2>2. CASE Restart \/ \E d \in Dispatch : RecoverDone(d)
    BY <2>2, StartKeeps DEF Restart, RecoverDone
  <2> QED
    BY <1>5, <2>1, <2>2, StartRows DEF RecoveryStep
<1>6. CASE ReportStep
  <2>1. ASSUME NEW d \in Dispatch, Ask(d) \/ AnswerQuestion(d) PROVE StartingIsPending'
    BY <2>1, StartKeeps DEF Ask, AnswerQuestion
  <2> QED
    BY <1>6, <2>1, StartWorkerReport DEF ReportStep
<1>7. CASE GateStep
  <2>1. ASSUME NEW t, NEW g, GateCreate(t, g) PROVE StartingIsPending'
    <3>1. \A e \in ActiveOn(t) : workers[e] # "starting"
      BY <2>1 DEF GateCreate, LiveActiveOn, LiveWorker
    <3> QED
      BY <2>1, <3>1, StartSettleRows DEF GateCreate
  <2>2. ASSUME NEW g, GateResolve(g) PROVE StartingIsPending'
    BY <2>2, StartKeeps DEF GateResolve
  <2> QED
    BY <1>7, <2>1, <2>2 DEF GateStep
<1>8. CASE UNCHANGED vars
  BY <1>8, StartKeeps DEF vars
<1> QED
  BY <1>1, <1>2, <1>3, <1>4, <1>5, <1>6, <1>7, <1>8 DEF Next

\* A start handler that still finds its worker starting finds its dispatch
\* pending: nothing settles a dispatch before its worker is ready.
THEOREM StartHoldsItsDispatch == Spec => []StartingIsPending
<1>1. Init => StartingIsPending
  BY DEF Init, StartingIsPending
<1>2. OwnershipInv /\ StartingIsPending /\ [Next]_vars => StartingIsPending'
  BY StartNext
<1> QED
  BY <1>1, <1>2, OwnershipInvariant, PTL DEF Spec

(***************************************************************************)
(* Settled dispatches                                                      *)
(***************************************************************************)
\* A step keeps every settled dispatch when it changes the status of active
\* rows only.
LEMMA SettledActive ==
  ASSUME \A e \in Dispatch :
           dispatches'[e].status = dispatches[e].status \/ Active(e)
             \/ dispatches[e].status = "none"
  PROVE \A e \in Dispatch : SettledKept(e)
BY DEF SettledKept

\* A settlement of active rows disturbs no settled row.
LEMMA SettledSettleRows ==
  ASSUME TypeOK, NEW D, NEW s \in {"completed", "failed"}, dispatches' = SettleRows(D, s),
         \A e \in D : \/ Active(e)
                      \/ dispatches[e].status = "none"
                      \/ UnobservedPrompt(e)
  PROVE \A e \in Dispatch : SettledKept(e)
<1> TAKE e \in Dispatch
<1>1. CASE e \in D
  BY <1>1, SettleRowsEffect DEF SettledKept, UnobservedPrompt
<1>2. CASE e \notin D
  BY <1>2, SettleRowsEffect DEF SettledKept
<1> QED
  BY <1>1, <1>2

\* The steps that replace one row.
LEMMA SettledOneRow ==
  ASSUME TypeOK, StartingIsPending, NEW d \in Dispatch,
         \/ \E why, exited : FailDispatch(d, why, exited)
         \/ Escalate(d) \/ ReleaseContextOnly(d)
         \/ \E p \in Terminal : AttachAuthority(d, p)
         \/ WorkerReady(d) \/ StartUnknown(d)
         \/ \E why \in {"stalled", "error"} : FailStart(d, why)
         \/ \E remote \in {"ready", "failed", "stopped"} : RemoteStartReport(d, remote)
         \/ WorkerStop(d) \/ Abandon(d)
         \/ SettleStop(d)
         \/ RecoverMissing(d)
  PROVE \A e \in Dispatch : SettledKept(e)
<1>0. dispatches[d] \in Row
  BY TypeRow
<1>1. CASE \/ \E why, exited : FailDispatch(d, why, exited)
           \/ Escalate(d) \/ ReleaseContextOnly(d) \/ WorkerReady(d)
           \/ \E why \in {"stalled", "error"} : FailStart(d, why)
           \/ \E remote \in {"ready", "failed", "stopped"} :
                RemoteStartReport(d, remote) /\ (remote = "ready" => dispatches[d].status = "pending")
           \/ RecoverMissing(d)
  <2>1. \A e \in Dispatch \ {d} : dispatches'[e] = dispatches[e]
    BY <1>1 DEF FailDispatch, Escalate, ReleaseContextOnly, WorkerReady, FailStart,
                RemoteStartReport, RecoverMissing, TypeOK
  <2>2. Active(d) \/ dispatches'[d] = dispatches[d]
    BY <1>1 DEF FailDispatch, Escalate, ReleaseContextOnly, WorkerReady, Starting, FailStart,
                RemoteStartReport, RecoverMissing, StartingIsPending, Active, ActiveStatus
  <2> QED
    BY <2>1, <2>2, SettledActive
<1>2. CASE \/ \E p \in Terminal : AttachAuthority(d, p)
           \/ StartUnknown(d) \/ WorkerStop(d)
           \/ RemoteStartReport(d, "ready") /\ dispatches[d].status # "pending"
  <2>1. /\ \A e \in Dispatch \ {d} : dispatches'[e] = dispatches[e]
        /\ dispatches'[d].status = dispatches[d].status
    <3>1. CASE \E p \in Terminal : AttachAuthority(d, p)
      <4> PICK p \in Terminal : AttachAuthority(d, p)
        BY <3>1
      <4> DEFINE row == [dispatches[d] EXCEPT !.terminal = p, !.minted = TRUE, !.revoked = FALSE]
      <4>1. row.status = dispatches[d].status
        BY <1>0 DEF Row
      <4>2. dispatches' = [dispatches EXCEPT ![d] = row]
        BY DEF AttachAuthority
      <4> HIDE DEF row
      <4>3. dispatches'[d] = row /\ \A e \in Dispatch \ {d} : dispatches'[e] = dispatches[e]
        BY <4>2 DEF TypeOK
      <4> QED
        BY <4>1, <4>3
    <3>2. CASE StartUnknown(d) \/ WorkerStop(d)
      <4>1. dispatches' = [dispatches EXCEPT ![d].revoked = TRUE]
        BY <3>2 DEF StartUnknown, WorkerStop
      <4> QED
        BY <1>0, <4>1 DEF TypeOK, Row
    <3>3. CASE RemoteStartReport(d, "ready") /\ dispatches[d].status # "pending"
      <4>1. /\ dispatches'[d] = [dispatches[d] EXCEPT !.status = IF @ = "pending" THEN "dispatched" ELSE @]
            /\ \A e \in Dispatch \ {d} : dispatches'[e] = dispatches[e]
        BY <3>3 DEF RemoteStartReport, TypeOK
      <4> QED
        BY <1>0, <3>3, <4>1 DEF Row
    <3> QED
      BY <1>2, <3>1, <3>2, <3>3
  <2> QED
    BY <2>1, SettledActive
<1>3. CASE Abandon(d) \/ SettleStop(d)
  <2>1. /\ \A e \in Dispatch \ {d} : dispatches'[e] = dispatches[e]
        /\ Active(d) \/ dispatches'[d].status = dispatches[d].status
    BY <1>0, <1>3 DEF Abandon, SettleStop, TypeOK, Row
  <2> QED
    BY <2>1, SettledActive
<1> QED
  BY <1>1, <1>2, <1>3

\* A new row takes the place of none.
LEMMA SettledNewRow ==
  ASSUME TypeOK,
         \/ \E t, p, how : DispatchTask(t, p, how)
         \/ \E t, host : \E d \in Dispatch : StartWorker(t, host, d)
  PROVE \A e \in Dispatch : SettledKept(e)
<1>1. PICK d \in Dispatch : IsNextRow(d) /\ \E row : dispatches' = [dispatches EXCEPT ![d] = row]
  BY DEF DispatchTask, StartWorker
<1>2. /\ \A e \in Dispatch \ {d} : dispatches'[e] = dispatches[e]
      /\ dispatches[d].status = "none"
  BY <1>1 DEF TypeOK, IsNextRow
<1> QED
  BY <1>2, SettledActive

\* A report settles the active rows, and may correct an unobserved prompt.
LEMMA SettledWorkerReport ==
  ASSUME TypeOK, NEW d \in Dispatch, NEW outcome, WorkerReport(d, outcome)
  PROVE \A e \in Dispatch : SettledKept(e)
<1>1. PICK s \in {"completed", "failed"} :
        dispatches' = SettleRows(ActiveOn(dispatches[d].task) \cup {d}, s)
  BY DEF WorkerReport
<1>2. Active(d) \/ UnobservedPrompt(d)
  BY DEF WorkerReport, ReportFits, Active, ActiveStatus
<1>3. \A e \in ActiveOn(dispatches[d].task) \cup {d} : Active(e) \/ UnobservedPrompt(e)
  BY <1>2 DEF ActiveOn
<1> QED
  BY <1>1, <1>3, SettledSettleRows

\* One case per group of actions.
LEMMA SettledNext ==
  ASSUME TypeOK, StartingIsPending, [Next]_vars PROVE \A e \in Dispatch : SettledKept(e)
<1>1. CASE UNCHANGED dispatches
  BY <1>1, SettledActive
<1>2. CASE TaskStep \/ GateStep
  <2>1. ASSUME NEW t, NEW s, TaskUpdate(t, s) \/ \E g : GateCreate(t, g)
        PROVE \A e \in Dispatch : SettledKept(e)
    <3>1. PICK u \in {"completed", "failed"} :
            dispatches' = dispatches \/ dispatches' = SettleRows(ActiveOn(t), u)
      BY <2>1 DEF TaskUpdate, GateCreate
    <3>2. \A e \in ActiveOn(t) : Active(e)
      BY DEF ActiveOn
    <3> QED
      BY <1>1, <3>1, <3>2, SettledSettleRows
  <2>2. ASSUME NEW t, NEW g, TaskCreate(t) \/ GateResolve(g) PROVE UNCHANGED dispatches
    BY <2>2 DEF TaskCreate, GateResolve
  <2> QED
    BY <1>1, <1>2, <2>1, <2>2 DEF TaskStep, GateStep
<1>3. CASE ContextStep
  <2>1. ASSUME NEW d \in Dispatch, NEW why, PromptSent(d) \/ PromptFailed(d, why)
        PROVE \A e \in Dispatch : SettledKept(e)
    BY <1>1, <2>1, SettledOneRow DEF PromptSent, PromptFailed
  <2> QED
    BY <1>3, <2>1, SettledNewRow, SettledOneRow DEF ContextStep
<1>4. CASE StartStep
  <2>1. ASSUME NEW t, NEW host, WorkerStart(t, host) PROVE \A e \in Dispatch : SettledKept(e)
    BY <2>1, SettledNewRow DEF WorkerStart
  <2>2. ASSUME NEW r \in Dispatch, NEW host, WorkerRetry(r, host)
        PROVE \A e \in Dispatch : SettledKept(e)
    BY <2>2, SettledNewRow DEF WorkerRetry
  <2>3. ASSUME NEW d \in Dispatch, StartFenced(d) PROVE UNCHANGED dispatches
    BY <2>3 DEF StartFenced
  <2> QED
    BY <1>1, <1>4, <2>1, <2>2, <2>3, SettledOneRow DEF StartStep
<1>5. CASE StopStep
  <2> PICK d \in Dispatch :
        \/ WorkerStop(d) \/ StopSettled(d) \/ RemoteStopReport(d) \/ StopUnknown(d)
        \/ StopResumed(d) \/ StopFenced(d) \/ Abandon(d)
    BY <1>5 DEF StopStep
  <2>1. CASE StopUnknown(d) \/ StopResumed(d) \/ StopFenced(d)
    BY <1>1, <2>1 DEF StopUnknown, StopResumed, StopFenced
  <2>2. CASE StopSettled(d) \/ RemoteStopReport(d)
    BY <2>2, SettledOneRow DEF StopSettled, RemoteStopReport
  <2> QED
    BY <2>1, <2>2, SettledOneRow
<1>6. CASE RecoveryStep
  <2>1. ASSUME NEW p, TerminalExit(p) PROVE \A e \in Dispatch : SettledKept(e)
    BY <2>1, SettledOneRow DEF TerminalExit
  <2>2. CASE Restart \/ \E d \in Dispatch : RecoverDone(d)
    BY <1>1, <2>2 DEF Restart, RecoverDone
  <2> QED
    BY <1>6, <2>1, <2>2, SettledOneRow DEF RecoveryStep
<1>7. CASE ReportStep
  <2>1. ASSUME NEW d \in Dispatch, Ask(d) \/ AnswerQuestion(d) PROVE UNCHANGED dispatches
    BY <2>1 DEF Ask, AnswerQuestion
  <2> QED
    BY <1>1, <1>7, <2>1, SettledWorkerReport DEF ReportStep
<1>8. CASE UNCHANGED vars
  BY <1>1, <1>8 DEF vars
<1> QED
  BY <1>2, <1>3, <1>4, <1>5, <1>6, <1>7, <1>8 DEF Next

\* Late handlers, stops, recoveries and duplicate reports leave a settled dispatch
\* as it was; only an unobserved prompt's failure is corrected by the report.
THEOREM SettledForGood == Spec => SettledStaysSettled
<1>1. TypeOK /\ StartingIsPending /\ [Next]_vars => [\A d \in Dispatch : SettledKept(d)]_vars
  BY SettledNext
<1> QED
  BY <1>1, TypeCorrect, StartHoldsItsDispatch, PTL DEF Spec, SettledStaysSettled

(***************************************************************************)
(* Completed tasks                                                         *)
(***************************************************************************)
\* The step neither completes a task nor reopens a completed one.
Undisturbed == \A u \in Task : tasks[u] = "completed" <=> tasks'[u] = "completed"

\* One task moves, from a status that is not "completed" to another such.
LEMMA MovesOneTask ==
  ASSUME TypeOK, NEW t, NEW s,
         \/ UNCHANGED tasks
         \/ /\ tasks' = SetStatus(t, s) /\ s # "completed"
            /\ t \in Task => tasks[t] # "completed"
  PROVE Undisturbed
BY DEF TypeOK, SetStatus, Undisturbed

\* The task of a dispatch at work is not completed.
LEMMA WorkedIsOpen ==
  ASSUME OwnershipInv, NEW d \in Dispatch, Active(d), dispatches[d].task \in Task
  PROVE tasks[dispatches[d].task] \in {"dispatched", "blocked"}
BY DEF OwnershipInv, ActiveOnlyWhileWorked, ActiveOn

\* The steps of one dispatch that are no report.
LEMMA UndisturbedRows ==
  ASSUME OwnershipInv, StartingIsPending, NEW d \in Dispatch,
         \/ \E why, exited : FailDispatch(d, why, exited)
         \/ Escalate(d) \/ ReleaseContextOnly(d)
         \/ \E why \in {"stalled", "error"} : FailStart(d, why)
         \/ StartUnknown(d)
         \/ \E remote \in {"ready", "failed", "stopped"} : RemoteStartReport(d, remote)
         \/ WorkerStop(d) \/ Abandon(d) \/ SettleStop(d) \/ StopResumed(d)
         \/ RecoverMissing(d)
  PROVE Undisturbed
<1> DEFINE t == dispatches[d].task
<1>0. TypeOK /\ RetryStatus(d) # "completed"
  BY DEF OwnershipInv, RetryStatus
<1>1. CASE \/ \E why, exited : FailDispatch(d, why, exited)
           \/ ReleaseContextOnly(d)
           \/ \E remote \in {"ready", "failed", "stopped"} : RemoteStartReport(d, remote)
           \/ StopResumed(d) \/ RecoverMissing(d)
  <2>1. \/ UNCHANGED tasks
        \/ /\ \E s : s # "completed" /\ tasks' = SetStatus(t, s)
           /\ tasks[t] # "completed"
    BY <1>0, <1>1 DEF FailDispatch, ReleaseContextOnly, RemoteStartReport, StopResumed,
                      RecoverMissing
  <2> QED
    BY <1>0, <2>1, MovesOneTask
<1>2. CASE Escalate(d)
  <2>1. \/ UNCHANGED tasks
        \/ tasks' = SetStatus(t, RetryStatus(d)) /\ tasks[t] # "completed"
    BY <1>2 DEF Escalate
  <2> QED
    BY <1>0, <2>1, MovesOneTask
<1>3. CASE (\E why \in {"stalled", "error"} : FailStart(d, why)) \/ StartUnknown(d)
  <2>1. Active(d)
    BY <1>3 DEF FailStart, StartUnknown, StartingIsPending, Active, ActiveStatus
  <2>2. \/ UNCHANGED tasks
        \/ \E s : s # "completed" /\ tasks' = SetStatus(t, s)
    BY <1>3 DEF FailStart, StartUnknown
  <2> QED
    BY <1>0, <2>1, <2>2, WorkedIsOpen, MovesOneTask
<1>4. CASE WorkerStop(d) \/ Abandon(d) \/ SettleStop(d)
  <2>1. tasks' = Interrupted(d)
    BY <1>4 DEF WorkerStop, Abandon, SettleStop
  <2>2. \/ UNCHANGED tasks
        \/ /\ \E s : s # "completed" /\ tasks' = SetStatus(t, s)
           /\ tasks[t] # "completed"
    BY <2>1 DEF Interrupted
  <2> QED
    BY <1>0, <2>2, MovesOneTask
<1> QED
  BY <1>1, <1>2, <1>3, <1>4

\* A dispatch takes a ready task, or a retry a failed or blocked one.
LEMMA UndisturbedNewRow ==
  ASSUME TypeOK,
         \/ \E t \in Task : \E p, how : DispatchTask(t, p, how)
         \/ \E t \in Task : \E host : WorkerStart(t, host)
         \/ \E r \in Dispatch : \E host : WorkerRetry(r, host)
  PROVE Undisturbed
<1>1. \E t : /\ tasks' = SetStatus(t, "dispatched")
             /\ tasks[t] \in {"ready", "failed", "blocked"}
  BY DEF DispatchTask, WorkerStart, WorkerRetry, StartWorker
<1> QED
  BY <1>1, MovesOneTask

\* Every step but a report and the coordinator's.
LEMMA UndisturbedNext ==
  ASSUME OwnershipInv, StartingIsPending, [Next]_vars, ~CoordinatorStep
  PROVE \/ Undisturbed
        \/ \E d \in Dispatch, outcome \in {"succeeded", "failed"} : WorkerReport(d, outcome)
<1>0. TypeOK
  BY DEF OwnershipInv
<1>1. CASE UNCHANGED tasks
  BY <1>0, <1>1, MovesOneTask
<1>2. CASE TaskStep \/ GateStep
  <2>1. PICK t \in Task : TaskCreate(t)
    BY <1>2 DEF TaskStep, CoordinatorStep
  <2>2. tasks[t] # "completed" /\ \E s : s # "completed" /\ tasks' = SetStatus(t, s)
    BY <2>1 DEF TaskCreate
  <2> QED
    BY <1>0, <2>2, MovesOneTask
<1>3. CASE ContextStep
  <2>1. ASSUME NEW d \in Dispatch, NEW why, PromptSent(d) \/ PromptFailed(d, why)
        PROVE Undisturbed
    BY <1>0, <2>1, MovesOneTask, UndisturbedRows DEF PromptSent, PromptFailed
  <2> QED
    BY <1>0, <1>3, <2>1, UndisturbedNewRow, UndisturbedRows DEF ContextStep
<1>4. CASE StartStep
  <2>1. ASSUME NEW d \in Dispatch,
               StartFenced(d) \/ WorkerReady(d) \/ \E p \in Terminal : AttachAuthority(d, p)
        PROVE UNCHANGED tasks
    BY <2>1 DEF StartFenced, WorkerReady, AttachAuthority
  <2> QED
    BY <1>0, <1>1, <1>4, <2>1, UndisturbedNewRow, UndisturbedRows DEF StartStep
<1>5. CASE StopStep
  <2> PICK d \in Dispatch :
        \/ WorkerStop(d) \/ StopSettled(d) \/ RemoteStopReport(d) \/ StopUnknown(d)
        \/ StopResumed(d) \/ StopFenced(d) \/ Abandon(d)
    BY <1>5 DEF StopStep
  <2>1. CASE StopUnknown(d) \/ StopFenced(d)
    BY <1>1, <2>1 DEF StopUnknown, StopFenced
  <2>2. CASE StopSettled(d) \/ RemoteStopReport(d)
    BY <2>2, UndisturbedRows DEF StopSettled, RemoteStopReport
  <2> QED
    BY <2>1, <2>2, UndisturbedRows
<1>6. CASE RecoveryStep
  <2>1. ASSUME NEW p, TerminalExit(p) PROVE Undisturbed
    BY <2>1, UndisturbedRows DEF TerminalExit
  <2>2. CASE Restart \/ \E d \in Dispatch : RecoverDone(d)
    BY <1>1, <2>2 DEF Restart, RecoverDone
  <2> QED
    BY <1>6, <2>1, <2>2, UndisturbedRows DEF RecoveryStep
<1>7. CASE ReportStep
  <2>1. ASSUME NEW d \in Dispatch, Ask(d) \/ AnswerQuestion(d) PROVE UNCHANGED tasks
    BY <2>1 DEF Ask, AnswerQuestion
  <2> QED
    BY <1>1, <1>7, <2>1 DEF ReportStep
<1>8. CASE UNCHANGED vars
  BY <1>1, <1>8 DEF vars
<1> QED
  BY <1>2, <1>3, <1>4, <1>5, <1>6, <1>7, <1>8 DEF Next

\* A report completes the task of its dispatch and no other, and reopens none.
LEMMA ReportCompletesItsTask ==
  ASSUME TypeOK, NEW d \in Dispatch, NEW outcome \in {"succeeded", "failed"},
         WorkerReport(d, outcome), NEW u \in Task
  PROVE /\ tasks[u] = "completed" => tasks'[u] = "completed"
        /\ tasks[u] # "completed" /\ tasks'[u] = "completed"
             => /\ dispatches[d].task = u
                /\ Active(d) \/ UnobservedPrompt(d)
                /\ dispatches'[d].status = "completed"
<1> DEFINE t == dispatches[d].task
           s == IF outcome = "succeeded" THEN "completed" ELSE "failed"
<1>1. /\ tasks' = EndTask(t, s) /\ dispatches' = SettleRows(ActiveOn(t) \cup {d}, s)
      /\ ReportFits(d)
  BY DEF WorkerReport
<1>2. /\ Active(d) \/ UnobservedPrompt(d)
      /\ tasks[t] \in {"dispatched", "failed"}
  BY <1>1 DEF ReportFits, UnobservedPrompt, Active, ActiveStatus
<1>3. CASE u # t
  <2>1. \/ tasks'[u] = tasks[u]
        \/ tasks[u] = "pending" /\ tasks'[u] = "ready"
    BY <1>1, <1>3 DEF TypeOK, EndTask, Promote, SetStatus
  <2> QED
    BY <1>3, <2>1
<1>4. CASE u = t
  <2>1. tasks'[u] = s
    BY <1>1, <1>4, EndTaskSets DEF TaskStatus
  <2>2. dispatches'[d].status = s
    BY <1>1, SettleRowsEffect
  <2> QED
    BY <1>2, <1>4, <2>1, <2>2
<1> QED
  BY <1>3, <1>4

\* Nothing but the coordinator reopens a completed task.
THEOREM CompletedForGood == Spec => CompletedStaysCompleted
<1>1. ASSUME OwnershipInv, StartingIsPending, [Next]_vars, NEW t \in Task
      PROVE CompletedKept(t)
  BY <1>1, UndisturbedNext, ReportCompletesItsTask
  DEF CompletedKept, Undisturbed, OwnershipInv
<1>2. OwnershipInv /\ StartingIsPending /\ [Next]_vars => [\A t \in Task : CompletedKept(t)]_vars
  BY <1>1
<1> QED
  BY <1>2, OwnershipInvariant, StartHoldsItsDispatch, PTL DEF Spec, CompletedStaysCompleted

\* Without the coordinator, completing a task and completing a dispatch that was
\* at work on it are one step.
THEOREM CompletionNeedsReport == Spec => CompletionIsReported
<1>1. ASSUME OwnershipInv, StartingIsPending, [Next]_vars, NEW t \in Task
      PROVE CompletionReported(t)
  <2> SUFFICES ASSUME tasks[t] # "completed", tasks'[t] = "completed", ~CoordinatorStep
               PROVE \E d \in RowsOf(t) : /\ Active(d) \/ UnobservedPrompt(d)
                                          /\ dispatches'[d].status = "completed"
    BY DEF CompletionReported
  <2>1. PICK d \in Dispatch, outcome \in {"succeeded", "failed"} : WorkerReport(d, outcome)
    BY <1>1, UndisturbedNext DEF Undisturbed
  <2> QED
    BY <1>1, <2>1, ReportCompletesItsTask DEF RowsOf, OwnershipInv
<1>2. OwnershipInv /\ StartingIsPending /\ [Next]_vars
        => [\A t \in Task : CompletionReported(t)]_vars
  BY <1>1
<1> QED
  BY <1>2, OwnershipInvariant, StartHoldsItsDispatch, PTL DEF Spec, CompletionIsReported
==============================================================================
