------------------------ MODULE OrchestrationDb_tasks -------------------------
(* What a task goes through: its dependencies, the circuit of its failures and   *)
(* its owners, for every value of the constants of OrchestrationDb.             *)
EXTENDS OrchestrationDb_workers, FiniteSetTheorems

(***************************************************************************)
(* Pending tasks                                                           *)
(***************************************************************************)
\* A step after which no task is newly pending or newly completed.
NonePends ==
  \A u \in Task : tasks'[u] \in {"pending", "completed"} => tasks'[u] = tasks[u]

\* Nothing strands while no task becomes pending or completes.
LEMMA PendingKeeps ==
  ASSUME ConstantsAssumption, NoStrandedPending, NonePends
  PROVE NoStrandedPending'
<1> SUFFICES ASSUME NEW u \in Task, tasks'[u] = "pending"
             PROVE \E p \in Deps[u] : tasks'[p] # "completed"
  BY DEF NoStrandedPending
<1>1. PICK p \in Deps[u] : tasks[p] # "completed"
  BY DEF NonePends, NoStrandedPending
<1>2. p \in Task
  BY <1>1 DEF ConstantsAssumption
<1> QED
  BY <1>1, <1>2 DEF NonePends

\* Completing a task promotes every dependent that waited for it only.
LEMMA PendingEndTask ==
  ASSUME ConstantsAssumption, TypeOK, NoStrandedPending, NEW t,
         NEW s \in TaskStatus \ {"pending"}, tasks' = EndTask(t, s)
  PROVE NoStrandedPending'
<1>1. CASE s # "completed"
  <2>1. NonePends
    BY <1>1 DEF NonePends, EndTask, SetStatus, TypeOK
  <2> QED
    BY <2>1, PendingKeeps
<1>2. CASE s = "completed"
  <2> DEFINE ts == SetStatus(t, s)
  <2>1. /\ tasks' = Promote(ts, t)
        /\ \A u \in Task : ts[u] = IF u = t THEN s ELSE tasks[u]
    BY <1>2 DEF EndTask, SetStatus, TypeOK
  <2> HIDE DEF ts
  <2> SUFFICES ASSUME NEW u \in Task, tasks'[u] = "pending"
               PROVE \E p \in Deps[u] : tasks'[p] # "completed"
    BY DEF NoStrandedPending
  <2>2. /\ ts[u] = "pending"
        /\ t \in Deps[u] => \E p \in Deps[u] : ts[p] # "completed"
    BY <2>1 DEF Promote
  <2>3. tasks[u] = "pending"
    BY <1>2, <2>1, <2>2
  <2>4. PICK p \in Deps[u] : ts[p] # "completed"
    <3>1. CASE t \in Deps[u]
      BY <2>2, <3>1
    <3>2. CASE t \notin Deps[u]
      <4>1. PICK p \in Deps[u] : tasks[p] # "completed"
        BY <2>3 DEF NoStrandedPending
      <4>2. p \in Task /\ p # t
        BY <3>2, <4>1 DEF ConstantsAssumption
      <4> QED
        BY <2>1, <4>1, <4>2
    <3> QED
      BY <3>1, <3>2
  <2>5. p \in Task
    BY <2>4 DEF ConstantsAssumption
  <2> QED
    BY <2>1, <2>4, <2>5 DEF Promote
<1> QED
  BY <1>1, <1>2

\* A handler that sets one task to a status of work in progress or of failure.
LEMMA SetsOneStatus ==
  ASSUME TypeOK, NEW t, NEW s \in {"ready", "dispatched", "blocked", "failed"},
         tasks' = SetStatus(t, s)
  PROVE NonePends
BY DEF TypeOK, SetStatus, NonePends

\* The steps of contexts, workers, recoveries and gates set no other status.
LEMMA NonePendsNext ==
  ASSUME TypeOK,
         ContextStep \/ StartStep \/ StopStep \/ RecoveryStep \/ GateStep
  PROVE NonePends
<1>0. ASSUME UNCHANGED tasks
      PROVE NonePends
  BY <1>0 DEF NonePends
<1>1. ASSUME NEW d, NEW why, NEW exited, FailDispatch(d, why, exited)
      PROVE NonePends
  BY <1>0, <1>1, SetsOneStatus DEF FailDispatch, RetryStatus
<1>2. ASSUME NEW d, tasks' = Interrupted(d)
      PROVE NonePends
  BY <1>0, <1>2, SetsOneStatus DEF Interrupted
<1>3. CASE ContextStep
  <2>1. ASSUME NEW t, NEW p, NEW how, DispatchTask(t, p, how)
        PROVE NonePends
    BY <2>1, SetsOneStatus DEF DispatchTask
  <2>2. ASSUME NEW d, PromptSent(d) \/ \E why : PromptFailed(d, why)
        PROVE NonePends
    BY <1>0, <1>1, <2>2 DEF PromptSent, PromptFailed
  <2>3. ASSUME NEW d, Escalate(d) \/ ReleaseContextOnly(d)
        PROVE NonePends
    BY <1>0, <2>3, SetsOneStatus DEF Escalate, RetryStatus, ReleaseContextOnly
  <2> QED
    BY <1>3, <2>1, <2>2, <2>3 DEF ContextStep
<1>4. CASE StartStep
  <2>1. ASSUME NEW t, NEW host, WorkerStart(t, host) \/ WorkerRetry(t, host)
        PROVE NonePends
    BY <2>1, SetsOneStatus DEF WorkerStart, WorkerRetry, StartWorker
  <2>2. ASSUME NEW d, \/ \E p : AttachAuthority(d, p)
                      \/ WorkerReady(d) \/ StartFenced(d)
        PROVE NonePends
    BY <1>0, <2>2 DEF AttachAuthority, WorkerReady, StartFenced
  <2>3. ASSUME NEW d, StartUnknown(d) \/ \E why : FailStart(d, why)
        PROVE NonePends
    BY <1>0, <2>3, SetsOneStatus DEF StartUnknown, FailStart
  <2>4. ASSUME NEW d, NEW remote, RemoteStartReport(d, remote)
        PROVE NonePends
    BY <1>0, <2>4, SetsOneStatus DEF RemoteStartReport
  <2> QED
    BY <1>4, <2>1, <2>2, <2>3, <2>4 DEF StartStep
<1>5. CASE StopStep
  <2>1. ASSUME NEW d, \/ WorkerStop(d) \/ StopSettled(d) \/ RemoteStopReport(d)
                      \/ Abandon(d)
        PROVE NonePends
    BY <1>2, <2>1 DEF WorkerStop, StopSettled, RemoteStopReport, SettleStop, Abandon
  <2>2. ASSUME NEW d, StopUnknown(d) \/ StopFenced(d)
        PROVE NonePends
    BY <1>0, <2>2 DEF StopUnknown, StopFenced
  <2>3. ASSUME NEW d, StopResumed(d)
        PROVE NonePends
    BY <1>0, <2>3, SetsOneStatus DEF StopResumed
  <2> QED
    BY <1>5, <2>1, <2>2, <2>3 DEF StopStep
<1>6. CASE RecoveryStep
  <2>1. ASSUME NEW p, TerminalExit(p)
        PROVE NonePends
    BY <1>1, <2>1 DEF TerminalExit
  <2>2. ASSUME NEW d, Restart \/ RecoverDone(d)
        PROVE NonePends
    BY <1>0, <2>2 DEF Restart, RecoverDone
  <2>3. ASSUME NEW d, RecoverMissing(d)
        PROVE NonePends
    BY <1>0, <2>3, SetsOneStatus DEF RecoverMissing, RetryStatus
  <2> QED
    BY <1>6, <2>1, <2>2, <2>3 DEF RecoveryStep
<1>7. CASE GateStep
  BY <1>7, SetsOneStatus DEF GateStep, GateCreate, GateResolve
<1> QED
  BY <1>3, <1>4, <1>5, <1>6, <1>7

\* No task waits for dependencies that are all complete, as long as the coordinator
\* does not set one back to "pending" by hand.
THEOREM PendingNotStranded ==
  ASSUME "pending" \notin UpdateStatuses
  PROVE Spec => []NoStrandedPending
<1>1. Init => NoStrandedPending
  BY DEF Init, NoStrandedPending
<1>2. ASSUME TypeOK, NoStrandedPending, [Next]_vars
      PROVE NoStrandedPending'
  <2>1. CASE TaskStep
    <3>1. ASSUME NEW t \in Task, TaskCreate(t)
          PROVE NoStrandedPending'
      <4>1. /\ \A u \in Task : tasks'[u] = "completed" => tasks[u] = "completed"
            /\ \A u \in Task \ {t} : tasks'[u] = tasks[u]
            /\ tasks'[t] = "pending" => \E p \in Deps[t] : tasks[p] # "completed"
        BY <1>2, <3>1 DEF TypeOK, TaskCreate, SetStatus
      <4> SUFFICES ASSUME NEW u \in Task, tasks'[u] = "pending"
                   PROVE \E p \in Deps[u] : tasks'[p] # "completed"
        BY DEF NoStrandedPending
      <4>2. PICK p \in Deps[u] : tasks[p] # "completed"
        BY <1>2, <4>1 DEF NoStrandedPending
      <4> QED
        BY <4>1, <4>2, ConstantsAssumption DEF ConstantsAssumption
    <3>2. ASSUME NEW t \in Task, NEW s \in UpdateStatuses, TaskUpdate(t, s)
          PROVE NoStrandedPending'
      <4>1. s \in TaskStatus \ {"pending"} /\ tasks' = EndTask(t, s)
        BY <3>2, ConstantsAssumption DEF TaskUpdate, ConstantsAssumption
      <4> QED
        BY <1>2, <4>1, ConstantsAssumption, PendingEndTask
    <3> QED
      BY <2>1, <3>1, <3>2 DEF TaskStep
  <2>2. CASE ContextStep \/ StartStep \/ StopStep \/ RecoveryStep \/ GateStep
    BY <1>2, <2>2, ConstantsAssumption, NonePendsNext, PendingKeeps
  <2>3. CASE ReportStep
    <3>1. ASSUME NEW d, NEW outcome, WorkerReport(d, outcome)
          PROVE NoStrandedPending'
      BY <1>2, <3>1, ConstantsAssumption, PendingEndTask DEF WorkerReport, TaskStatus
    <3>2. ASSUME NEW d, Ask(d) \/ AnswerQuestion(d)
          PROVE NoStrandedPending'
      BY <1>2, <3>2 DEF Ask, AnswerQuestion, NoStrandedPending
    <3> QED
      BY <2>3, <3>1, <3>2 DEF ReportStep
  <2>4. CASE UNCHANGED vars
    BY <1>2, <2>4 DEF vars, NoStrandedPending
  <2> QED
    BY <1>2, <2>1, <2>2, <2>3, <2>4 DEF Next
<1> QED
  BY <1>1, <1>2, TypeCorrect, PTL DEF Spec

(***************************************************************************)
(* The circuit of a task                                                   *)
(***************************************************************************)
\* A row that ended in a failure its circuit counts.
Counted(d) ==
  /\ dispatches[d].status = "failed" /\ dispatches[d].failures > 0
  /\ dispatches[d].lastFailure \in {"stalled", "error"}

NoSupervised == \A d \in Dispatch : workers[d] = "none" /\ startCall[d] = "none"

\* A later row of a task starts from the largest failure count of the task, and a
\* row that counts a failure ends above every earlier one.
FailuresRise ==
  \A e, d \in Dispatch :
    e < d /\ dispatches[d].status # "none" /\ dispatches[e].task = dispatches[d].task
      => /\ dispatches[e].failures <= dispatches[d].failures
         /\ Counted(d) => dispatches[e].failures < dispatches[d].failures

CountedBelow == \A d \in Dispatch : Counted(d) => dispatches[d].failures < BreakAt

\* The inductive form of CircuitBreaks where every dispatch is context-only.
BreakerInv == NoSupervised /\ FailuresRise /\ CountedBelow

\* A step that settles rows without counting a failure.
LEMMA BreakerQuiet ==
  ASSUME FailuresRise, CountedBelow,
         \A e \in Dispatch :
           /\ dispatches'[e].task = dispatches[e].task
           /\ dispatches'[e].failures = dispatches[e].failures
           /\ dispatches'[e].status # "none" => dispatches[e].status # "none"
           /\ Counted(e)' => Counted(e)
  PROVE FailuresRise' /\ CountedBelow'
BY DEF FailuresRise, CountedBelow

\* Settling rows counts no failure.
LEMMA BreakerSettleRows ==
  ASSUME TypeOK, FailuresRise, CountedBelow,
         NEW D, NEW s \in {"completed", "failed"}, dispatches' = SettleRows(D, s),
         \A e \in D : e \in Dispatch => dispatches[e].status # "none"
  PROVE FailuresRise' /\ CountedBelow'
<1>1. ASSUME NEW e \in Dispatch, e \in D
      PROVE /\ dispatches'[e].task = dispatches[e].task
            /\ dispatches'[e].failures = dispatches[e].failures
            /\ dispatches'[e].status = s
            /\ s = "failed" => dispatches'[e].lastFailure = "reported"
  <2>1. dispatches[e] \in Row
    BY TypeRow
  <2>2. dispatches'[e] = [dispatches[e] EXCEPT !.status = s, !.revoked = TRUE,
                            !.lastFailure = IF s = "failed" THEN "reported" ELSE @]
    BY <1>1 DEF SettleRows
  <2> QED
    BY <2>1, <2>2 DEF Row
<1>2. ASSUME NEW e \in Dispatch, e \notin D
      PROVE dispatches'[e] = dispatches[e]
  BY <1>2 DEF SettleRows
<1>3. ASSUME NEW e \in Dispatch
      PROVE Counted(e)' => e \notin D
  BY <1>1, <1>3 DEF Counted
<1>4. ASSUME NEW e \in Dispatch
      PROVE Counted(e)' => Counted(e)
  BY <1>2, <1>3, <1>4 DEF Counted
<1>5. ASSUME NEW e \in Dispatch
      PROVE /\ dispatches'[e].task = dispatches[e].task
            /\ dispatches'[e].failures = dispatches[e].failures
            /\ dispatches'[e].status # "none" => dispatches[e].status # "none"
  BY <1>1, <1>2, <1>5
<1> QED
  BY <1>4, <1>5, BreakerQuiet

\* Counting a failure lifts the latest row of the task above the others, or breaks
\* its circuit.
LEMMA BreakerFailedRow ==
  ASSUME OwnershipInv, FailuresRise, CountedBelow, ConstantsAssumption,
         NEW d \in Dispatch, NEW why, Active(d),
         dispatches' = [dispatches EXCEPT ![d] = FailedRow(d, why)]
  PROVE FailuresRise' /\ CountedBelow'
<1> DEFINE row == FailedRow(d, why)
           n == dispatches[d].failures
<1>1. \A e \in Dispatch : dispatches[e] \in Row
  BY TypeRow DEF OwnershipInv
<1>2. /\ row.task = dispatches[d].task /\ row.failures = n + 1
      /\ row.status = IF n + 1 >= BreakAt THEN "circuit_broken" ELSE "failed"
  BY <1>1 DEF FailedRow, Row
<1>3. /\ dispatches'[d] = row
      /\ \A e \in Dispatch \ {d} : dispatches'[e] = dispatches[e]
  BY DEF OwnershipInv, TypeOK
<1> HIDE DEF row
<1>4. \A e \in Dispatch : dispatches[e].failures \in Nat
  BY <1>1 DEF Row
<1>5. BreakAt \in Nat
  BY DEF ConstantsAssumption
<1>6. CountedBelow'
  <2> SUFFICES ASSUME NEW e \in Dispatch, Counted(e)'
               PROVE dispatches'[e].failures < BreakAt
    BY DEF CountedBelow
  <2>1. CASE e = d
    BY <1>2, <1>3, <1>4, <1>5, <2>1 DEF Counted
  <2>2. CASE e # d
    BY <1>3, <2>2 DEF Counted, CountedBelow
  <2> QED
    BY <2>1, <2>2
<1>7. FailuresRise'
  <2> SUFFICES ASSUME NEW e \in Dispatch, NEW x \in Dispatch, e < x,
                      dispatches'[x].status # "none", dispatches'[e].task = dispatches'[x].task
               PROVE /\ dispatches'[e].failures <= dispatches'[x].failures
                     /\ Counted(x)' => dispatches'[e].failures < dispatches'[x].failures
    BY DEF FailuresRise
  <2>1. CASE x = d
    <3>1. e # d /\ dispatches[e].task = dispatches[d].task
      BY <1>2, <1>3, <2>1 DEF Dispatch
    <3>2. dispatches[e].failures <= n
      BY <2>1, <3>1 DEF FailuresRise, Active, ActiveStatus
    <3> QED
      BY <1>2, <1>3, <1>4, <2>1, <3>1, <3>2
  <2>2. CASE x # d
    <3>1. /\ dispatches[x].status # "none"
          /\ dispatches[e].task = dispatches[x].task
      BY <1>2, <1>3, <2>2
    <3>2. CASE e = d
      <4>1. x <= d
        BY <3>1, <3>2 DEF OwnershipInv, ActiveIsLatest
      <4> QED
        BY <3>2, <4>1 DEF Dispatch
    <3>3. CASE e # d
      BY <1>3, <2>2, <3>1, <3>3 DEF FailuresRise, Counted
    <3> QED
      BY <3>2, <3>3
  <2> QED
    BY <2>1, <2>2
<1> QED
  BY <1>6, <1>7

\* A released dispatch counts no failure.
LEMMA BreakerRelease ==
  ASSUME TypeOK, FailuresRise, CountedBelow, NEW d \in Dispatch, ReleaseContextOnly(d)
  PROVE FailuresRise' /\ CountedBelow'
<1> DEFINE row == [dispatches[d] EXCEPT !.status = "failed", !.revoked = TRUE,
                     !.lastFailure = "released"]
<1>1. /\ row.task = dispatches[d].task /\ row.failures = dispatches[d].failures
      /\ row.lastFailure = "released"
  BY TypeRow DEF Row
<1>2. dispatches' = [dispatches EXCEPT ![d] = row]
  BY DEF ReleaseContextOnly
<1> HIDE DEF row
<1>3. /\ dispatches'[d] = row
      /\ \A e \in Dispatch \ {d} : dispatches'[e] = dispatches[e]
  BY <1>2 DEF TypeOK
<1>4. dispatches[d].status # "none"
  BY DEF ReleaseContextOnly, Active, ActiveStatus
<1>5. ASSUME NEW e \in Dispatch
      PROVE Counted(e)' => Counted(e)
  BY <1>1, <1>3 DEF Counted
<1>6. \A e \in Dispatch :
        /\ dispatches'[e].task = dispatches[e].task
        /\ dispatches'[e].failures = dispatches[e].failures
        /\ dispatches'[e].status # "none" => dispatches[e].status # "none"
  BY <1>1, <1>3, <1>4
<1> QED
  BY <1>5, <1>6, BreakerQuiet

\* A new dispatch inherits the largest count of its task.
LEMMA BreakerNewRow ==
  ASSUME OwnershipInv, FailuresRise, CountedBelow,
         NEW t \in Task, NEW p, NEW how, DispatchTask(t, p, how)
  PROVE FailuresRise' /\ CountedBelow'
<1>1. PICK d \in Dispatch, n \in 0 .. MaxDispatches :
        /\ IsNextRow(d) /\ IsMaxFailures(t, n)
        /\ dispatches' = [dispatches EXCEPT ![d] =
             [EmptyRow EXCEPT !.task = t, !.status = "dispatched", !.failures = n,
                !.terminal = p, !.minted = (how = "inject")]]
  BY DEF DispatchTask
<1> DEFINE row == [EmptyRow EXCEPT !.task = t, !.status = "dispatched", !.failures = n,
                     !.terminal = p, !.minted = (how = "inject")]
<1>2. row.task = t /\ row.status = "dispatched" /\ row.failures = n
  BY DEF EmptyRow
<1> HIDE DEF row
<1>3. /\ dispatches'[d] = row
      /\ \A e \in Dispatch \ {d} : dispatches'[e] = dispatches[e]
  BY <1>1 DEF OwnershipInv, TypeOK, row
<1>4. CountedBelow'
  BY <1>2, <1>3 DEF CountedBelow, Counted
<1>5. FailuresRise'
  <2> SUFFICES ASSUME NEW e \in Dispatch, NEW x \in Dispatch, e < x,
                      dispatches'[x].status # "none", dispatches'[e].task = dispatches'[x].task
               PROVE /\ dispatches'[e].failures <= dispatches'[x].failures
                     /\ Counted(x)' => dispatches'[e].failures < dispatches'[x].failures
    BY DEF FailuresRise
  <2>1. CASE x = d
    <3>1. e # d /\ dispatches[e].task = t
      BY <1>2, <1>3, <2>1 DEF Dispatch
    <3>2. dispatches[e].failures <= n
      BY <1>1, <3>1 DEF IsMaxFailures, RowsOf
    <3> QED
      BY <1>2, <1>3, <2>1, <3>1, <3>2 DEF Counted
  <2>2. CASE x # d
    <3>1. dispatches[x].status # "none"
      BY <1>3, <2>2
    <3>2. x < d
      <4>1. ~(d < x)
        BY <1>1, <3>1 DEF IsNextRow, OwnershipInv, RowsContiguous
      <4> QED
        BY <2>2, <4>1 DEF Dispatch
    <3>3. e # d
      BY <3>2 DEF Dispatch
    <3> QED
      BY <1>3, <2>2, <3>1, <3>3 DEF FailuresRise, Counted
  <2> QED
    BY <2>1, <2>2
<1> QED
  BY <1>4, <1>5

\* Without worker-start no dispatch ever has a worker row.
LEMMA NoSupervisedNext ==
  ASSUME NoSupervised, TypeOK, Hosts = {}, [Next]_vars
  PROVE NoSupervised'
<1>0. \A d \in Dispatch : workers[d] = "none" /\ startCall[d] = "none"
  BY DEF NoSupervised
<1>1. CASE UNCHANGED <<workers, startCall>>
  BY <1>1 DEF NoSupervised
<1>2. ASSUME NEW d \in Dispatch, NEW why, NEW exited, FailDispatch(d, why, exited)
      PROVE UNCHANGED workers
  BY <1>0, <1>2 DEF FailDispatch, LiveWorker
<1>3. CASE TaskStep \/ GateStep
  BY <1>1, <1>3 DEF TaskStep, TaskCreate, TaskUpdate, GateStep, GateCreate, GateResolve, calls
<1>4. CASE ContextStep
  <2>1. ASSUME NEW d \in Dispatch, NEW why, PromptFailed(d, why)
        PROVE UNCHANGED <<workers, startCall>>
    BY <1>2, <2>1 DEF PromptFailed
  <2> QED
    BY <1>1, <1>4, <2>1
    DEF ContextStep, DispatchTask, PromptSent, Escalate, ReleaseContextOnly, calls
<1>5. ASSUME StartStep
      PROVE FALSE
  <2>1. ASSUME NEW d \in Dispatch, startCall[d] # "none" \/ workers[d] # "none"
        PROVE FALSE
    BY <1>0, <2>1
  <2>2. PICK d \in Dispatch :
          \/ \E p \in Terminal : AttachAuthority(d, p)
          \/ WorkerReady(d)
          \/ \E why \in {"stalled", "error"} : FailStart(d, why)
          \/ StartUnknown(d) \/ StartFenced(d)
          \/ \E remote \in {"ready", "failed", "stopped"} : RemoteStartReport(d, remote)
    BY <1>5 DEF StartStep
  <2> QED
    BY <2>1, <2>2 DEF AttachAuthority, Starting, WorkerReady, FailStart, StartUnknown, StartFenced,
                      RemoteStartReport
<1>6. CASE StopStep
  <2>1. PICK d \in Dispatch : WorkerStop(d) \/ StopSettled(d) \/ RemoteStopReport(d) \/ StopUnknown(d)
                              \/ StopResumed(d) \/ StopFenced(d) \/ Abandon(d)
    BY <1>6 DEF StopStep
  <2>2. CASE StopFenced(d)
    BY <1>1, <2>2 DEF StopFenced
  <2>3. CASE WorkerStop(d) \/ StopSettled(d) \/ RemoteStopReport(d) \/ StopUnknown(d)
             \/ StopResumed(d) \/ Abandon(d)
    <3>1. workers[d] # "none"
      BY <2>3 DEF WorkerStop, StopSettled, RemoteStopReport, StopUnknown, StopResumed, Abandon
    <3> QED
      BY <1>0, <3>1
  <2> QED
    BY <2>1, <2>2, <2>3
<1>7. CASE RecoveryStep
  <2>1. ASSUME NEW p, TerminalExit(p)
        PROVE NoSupervised'
    BY <1>1, <1>2, <2>1 DEF TerminalExit, calls
  <2>2. CASE Restart
    BY <1>0, <2>2 DEF Restart, NoSupervised
  <2>3. ASSUME NEW d \in Dispatch, RecoverMissing(d)
        PROVE FALSE
    BY <1>0, <2>3 DEF RecoverMissing, LiveWorker
  <2>4. ASSUME NEW d \in Dispatch, RecoverDone(d)
        PROVE UNCHANGED <<workers, startCall>>
    BY <2>4 DEF RecoverDone
  <2> QED
    BY <1>1, <1>7, <2>1, <2>2, <2>3, <2>4 DEF RecoveryStep
<1>8. CASE ReportStep
  <2>1. ASSUME NEW d \in Dispatch, NEW outcome, WorkerReport(d, outcome)
        PROVE UNCHANGED <<workers, startCall>>
    <3>1. workers[d] # (IF UnobservedPrompt(d) THEN "failed" ELSE "ready")
      BY <1>0
    <3> QED
      BY <2>1, <3>1 DEF WorkerReport, calls
  <2> QED
    BY <1>1, <1>8, <2>1 DEF ReportStep, Ask, AnswerQuestion, calls
<1>9. CASE UNCHANGED vars
  BY <1>1, <1>9 DEF vars, calls
<1> QED
  BY <1>3, <1>4, <1>5, <1>6, <1>7, <1>8, <1>9 DEF Next

\* One case per group of actions; without worker rows the others are disabled.
LEMMA BreakerNext ==
  ASSUME OwnershipInv, BreakerInv, ConstantsAssumption, NoSupervised', [Next]_vars, Hosts = {}
  PROVE FailuresRise' /\ CountedBelow'
<1>0. TypeOK /\ FailuresRise /\ CountedBelow
  BY DEF OwnershipInv, BreakerInv
<1>1. CASE UNCHANGED dispatches
  BY <1>0, <1>1 DEF FailuresRise, CountedBelow, Counted
<1>2. ASSUME NEW t, NEW s \in {"completed", "failed"}, dispatches' = SettleRows(ActiveOn(t), s)
      PROVE FailuresRise' /\ CountedBelow'
  <2>1. \A e \in ActiveOn(t) : dispatches[e].status # "none"
    BY DEF ActiveOn, Active, ActiveStatus
  <2> QED
    BY <1>0, <1>2, <2>1, BreakerSettleRows
<1>3. ASSUME NEW d \in Dispatch, NEW why, NEW exited, FailDispatch(d, why, exited) \/ Escalate(d)
      PROVE FailuresRise' /\ CountedBelow'
  BY <1>0, <1>3, BreakerFailedRow DEF FailDispatch, Escalate
<1>4. CASE TaskStep \/ GateStep
  BY <1>1, <1>2, <1>4 DEF TaskStep, TaskCreate, TaskUpdate, GateStep, GateCreate, GateResolve
<1>5. CASE ContextStep
  <2>1. ASSUME NEW d \in Dispatch, NEW why, PromptFailed(d, why)
        PROVE FailuresRise' /\ CountedBelow'
    BY <1>1, <1>3, <2>1 DEF PromptFailed
  <2>2. ASSUME NEW d \in Dispatch, PromptSent(d)
        PROVE UNCHANGED dispatches
    BY <2>2 DEF PromptSent
  <2> QED
    BY <1>0, <1>1, <1>3, <1>5, <2>1, <2>2, BreakerNewRow, BreakerRelease DEF ContextStep
<1>6. CASE StartStep \/ StopStep
  <2>0. \A d \in Dispatch : workers[d] = "none" /\ startCall[d] = "none"
    BY DEF BreakerInv, NoSupervised
  <2>1. ASSUME StartStep
        PROVE UNCHANGED dispatches
    <3>1. PICK d \in Dispatch :
            \/ \E p \in Terminal : AttachAuthority(d, p)
            \/ WorkerReady(d)
            \/ \E why \in {"stalled", "error"} : FailStart(d, why)
            \/ StartUnknown(d) \/ StartFenced(d)
            \/ \E remote \in {"ready", "failed", "stopped"} : RemoteStartReport(d, remote)
      BY <2>1 DEF StartStep
    <3>2. startCall[d] # "none" \/ workers[d] # "none"
      BY <3>1 DEF AttachAuthority, WorkerReady, FailStart, StartUnknown, StartFenced,
                  RemoteStartReport
    <3> QED
      BY <2>0, <3>2
  <2>2. ASSUME StopStep
        PROVE UNCHANGED dispatches
    <3>1. PICK d \in Dispatch : WorkerStop(d) \/ StopSettled(d) \/ RemoteStopReport(d)
                                \/ StopUnknown(d) \/ StopResumed(d) \/ StopFenced(d) \/ Abandon(d)
      BY <2>2 DEF StopStep
    <3>2. workers[d] # "none" \/ StopFenced(d)
      BY <3>1 DEF WorkerStop, StopSettled, RemoteStopReport, StopUnknown, StopResumed, Abandon
    <3>3. StopFenced(d)
      BY <2>0, <3>2
    <3> QED
      BY <3>3 DEF StopFenced
  <2> QED
    BY <1>1, <1>6, <2>1, <2>2
<1>7. CASE RecoveryStep
  <2>1. ASSUME NEW d \in Dispatch, RecoverMissing(d)
        PROVE FALSE
    BY <2>1 DEF RecoverMissing, LiveWorker, BreakerInv, NoSupervised
  <2>2. CASE Restart \/ \E d \in Dispatch : RecoverDone(d)
    BY <1>1, <2>2 DEF Restart, RecoverDone
  <2> QED
    BY <1>3, <1>7, <2>1, <2>2 DEF RecoveryStep, TerminalExit
<1>8. CASE ReportStep
  <2>1. ASSUME NEW d \in Dispatch, NEW outcome, WorkerReport(d, outcome)
        PROVE FailuresRise' /\ CountedBelow'
    <3>1. PICK s \in {"completed", "failed"} :
            dispatches' = SettleRows(ActiveOn(dispatches[d].task) \cup {d}, s)
      BY <2>1 DEF WorkerReport
    <3>2. \A e \in ActiveOn(dispatches[d].task) \cup {d} : dispatches[e].status # "none"
      BY <2>1 DEF WorkerReport, ActiveOn, Active, ActiveStatus
    <3> QED
      BY <1>0, <3>1, <3>2, BreakerSettleRows
  <2>2. ASSUME NEW d \in Dispatch, Ask(d) \/ AnswerQuestion(d)
        PROVE UNCHANGED dispatches
    BY <2>2 DEF Ask, AnswerQuestion
  <2> QED
    BY <1>1, <1>8, <2>1, <2>2 DEF ReportStep
<1>9. CASE UNCHANGED vars
  BY <1>1, <1>9 DEF vars
<1> QED
  BY <1>4, <1>5, <1>6, <1>7, <1>8, <1>9 DEF Next

\* Counted failures of one task stand at different counts below BreakAt.
LEMMA FewCountedFailures ==
  ASSUME TypeOK, FailuresRise, CountedBelow, ConstantsAssumption
  PROVE CircuitBreaks
<1> SUFFICES ASSUME NEW t \in Task
             PROVE Cardinality({d \in RowsOf(t) : Counted(d)}) < BreakAt
  BY DEF CircuitBreaks, Counted
<1> DEFINE S == {d \in RowsOf(t) : Counted(d)}
           T == 1 .. (BreakAt - 1)
           f == [d \in S |-> dispatches[d].failures]
<1>1. /\ BreakAt \in Nat \ {0} /\ MaxDispatches \in Nat
  BY DEF ConstantsAssumption
<1>2. IsFiniteSet(T) /\ Cardinality(T) = BreakAt - 1
  BY <1>1, FS_Interval
<1>3. IsFiniteSet(S) /\ Cardinality(S) \in Nat
  <2>1. S \in SUBSET (1 .. MaxDispatches)
    BY DEF RowsOf, Dispatch
  <2>2. IsFiniteSet(1 .. MaxDispatches)
    BY <1>1, FS_Interval
  <2> QED
    BY <2>1, <2>2, FS_Subset, FS_CardinalityType
<1>4. f \in [S -> T]
  <2>1. ASSUME NEW d \in S
        PROVE dispatches[d].failures \in T
    <3>1. d \in Dispatch /\ Counted(d)
      BY <2>1 DEF RowsOf
    <3>2. dispatches[d].failures \in Nat
      BY <3>1, TypeRow DEF Row
    <3>3. dispatches[d].failures > 0 /\ dispatches[d].failures < BreakAt
      BY <3>1 DEF Counted, CountedBelow
    <3> QED
      BY <1>1, <3>2, <3>3
  <2> QED
    BY <2>1
<1>5. ASSUME NEW x \in S, NEW y \in S, x < y
      PROVE f[x] # f[y]
  <2>1. /\ x \in Dispatch /\ y \in Dispatch /\ Counted(y)
        /\ dispatches[x].task = dispatches[y].task
    BY <1>5 DEF RowsOf
  <2>2. dispatches[x].failures < dispatches[y].failures
    BY <1>5, <2>1 DEF FailuresRise, Counted
  <2>3. dispatches[x].failures \in Nat /\ dispatches[y].failures \in Nat
    BY <2>1, TypeRow DEF Row
  <2> QED
    BY <2>2, <2>3
<1>6. \A x, y \in S : x # y => f[x] # f[y]
  <2>1. \A x, y \in S : x # y => x < y \/ y < x
    BY DEF RowsOf, Dispatch
  <2> HIDE DEF S, f
  <2> QED
    BY <1>5, <2>1
<1> HIDE DEF S, T, f
<1>7. ~(Cardinality(T) < Cardinality(S))
  BY <1>2, <1>3, <1>4, <1>6, FS_PigeonHole
<1> QED
  BY <1>1, <1>2, <1>3, <1>7 DEF S

\* Dispatched by prompt only, a task fails at most BreakAt - 1 counted times before
\* its circuit is open: a retry inherits the largest count, however the calls interleave.
\* With worker-start it does not hold: see the run that refutes it.
THEOREM CircuitOpensInTime ==
  ASSUME Hosts = {}
  PROVE Spec => []CircuitBreaks
<1>1. Init => BreakerInv
  BY DEF Init, BreakerInv, NoSupervised, FailuresRise, CountedBelow, Counted, EmptyRow
<1>2. OwnershipInv /\ BreakerInv /\ [Next]_vars => BreakerInv'
  BY ConstantsAssumption, NoSupervisedNext, BreakerNext DEF BreakerInv, OwnershipInv
<1>3. OwnershipInv /\ BreakerInv => CircuitBreaks
  BY ConstantsAssumption, FewCountedFailures DEF BreakerInv, OwnershipInv
<1> QED
  BY <1>1, <1>2, <1>3, OwnershipInvariant, PTL DEF Spec

(***************************************************************************)
(* The owners of a task                                                    *)
(***************************************************************************)
Completed == {t \in Task : tasks[t] = "completed"}

\* What the phase of a row tells.
LEMMA PhaseTells ==
  ASSUME NEW row
  PROVE /\ Phase(row) = "working" <=> row.status \in ActiveStatus
        /\ Phase(row) = "unused" <=> row.status = "none"
        /\ row.status = "completed" => Phase(row) = "completed"
        /\ row.status \in {"failed", "circuit_broken"} => Phase(row) \in {"ended", "unseen"}
        /\ row.status = "failed" =>
             Phase(row) = (IF row.lastFailure = "stalled" THEN "unseen" ELSE "ended")
BY DEF Phase, ActiveStatus

\* The owners of a task are its active dispatches.
LEMMA OwnersActive ==
  ASSUME NEW t
  PROVE Ownership!Owners(t) = ActiveOn(t)
BY PhaseTells DEF Ownership!Owners, ActiveOn, Active

\* A step on rows whose phases stay, and that completes or reopens no task.
LEMMA OwnershipKept ==
  ASSUME Completed' = Completed,
         \A e \in Dispatch : /\ Phase(dispatches'[e]) = Phase(dispatches[e])
                             /\ dispatches'[e].task = dispatches[e].task
  PROVE UNCHANGED Ownership!vars
BY DEF Ownership!vars, Completed

\* A new row is granted its task.
LEMMA GrantsTask ==
  ASSUME OwnershipInv, NEW d \in Dispatch, NEW t \in Task, IsNextRow(d),
         ActiveOn(t) = {}, tasks[t] # "completed", Completed' = Completed,
         \A e \in Dispatch \ {d} : dispatches'[e] = dispatches[e],
         dispatches'[d].task = t, dispatches'[d].status \in ActiveStatus
  PROVE Ownership!Grant(t, d)
<1>1. Ownership!Owners(t) = {}
  BY OwnersActive
<1>2. \A e \in Dispatch : [x \in Dispatch |-> Phase(dispatches[x])][e] = "unused" <=> e >= d
  <2>1. \A e \in Dispatch : dispatches[e].status = "none" <=> e >= d
    BY DEF IsNextRow, OwnershipInv, RowsContiguous, Dispatch
  <2> QED
    BY <2>1, PhaseTells
<1>3. Phase(dispatches'[d]) = "working"
  BY PhaseTells
<1>4. [x \in Dispatch |-> Phase(dispatches'[x])]
        = [[x \in Dispatch |-> Phase(dispatches[x])] EXCEPT ![d] = "working"]
  BY <1>3
<1>5. [x \in Dispatch |-> dispatches'[x].task]
        = [[x \in Dispatch |-> dispatches[x].task] EXCEPT ![d] = t]
  OBVIOUS
<1> QED
  BY <1>1, <1>2, <1>4, <1>5 DEF Ownership!Grant, Completed

\* A row ends, and nothing else happens to the tasks' owners.
LEMMA EndsWork ==
  ASSUME NEW d \in Dispatch, Active(d), Completed' = Completed,
         \A e \in Dispatch \ {d} : dispatches'[e] = dispatches[e],
         dispatches'[d].task = dispatches[d].task,
         dispatches'[d].status \in {"failed", "circuit_broken"}
  PROVE \E s \in {"ended", "unseen"} : Ownership!End(d, s)
<1>1. PICK s \in {"ended", "unseen"} : Phase(dispatches'[d]) = s
  BY PhaseTells
<1>2. [x \in Dispatch |-> Phase(dispatches'[x])]
        = [[x \in Dispatch |-> Phase(dispatches[x])] EXCEPT ![d] = s]
  BY <1>1
<1>3. [x \in Dispatch |-> Phase(dispatches[x])][d] = "working"
  BY PhaseTells DEF Active
<1>4. [x \in Dispatch |-> dispatches'[x].task] = [x \in Dispatch |-> dispatches[x].task]
  OBVIOUS
<1>5. Ownership!End(d, s)
  BY <1>2, <1>3, <1>4 DEF Ownership!End, Completed
<1> QED
  BY <1>5

\* A step that settles the active rows of a task is a decision about it.
LEMMA DecidesTask ==
  ASSUME TypeOK, NEW t, NEW s \in {"completed", "failed"},
         dispatches' = SettleRows(ActiveOn(t), s),
         \/ Completed' = Completed \ {t}
         \/ s = "completed" /\ Completed' = Completed \cup {t}
  PROVE Ownership!Decide(t, IF s = "completed" THEN "completed" ELSE "ended")
<1> DEFINE p == IF s = "completed" THEN "completed" ELSE "ended"
<1>1. ASSUME NEW e \in Dispatch
      PROVE /\ dispatches'[e].task = dispatches[e].task
            /\ Phase(dispatches'[e]) = IF e \in ActiveOn(t) THEN p ELSE Phase(dispatches[e])
  <2>1. CASE e \in ActiveOn(t)
    <3>1. dispatches[e] \in Row
      BY TypeRow
    <3>2. /\ dispatches'[e].task = dispatches[e].task /\ dispatches'[e].status = s
          /\ s = "failed" => dispatches'[e].lastFailure = "reported"
      BY <2>1, <3>1 DEF SettleRows, Row
    <3> QED
      BY <2>1, <3>2, PhaseTells
  <2>2. CASE e \notin ActiveOn(t)
    BY <2>2 DEF SettleRows
  <2> QED
    BY <2>1, <2>2
<1> HIDE DEF p
<1>2. [d \in Dispatch |-> Phase(dispatches'[d])]
        = [d \in Dispatch |-> IF d \in ActiveOn(t) THEN p
                              ELSE [x \in Dispatch |-> Phase(dispatches[x])][d]]
  BY <1>1
<1>3. [d \in Dispatch |-> dispatches'[d].task] = [d \in Dispatch |-> dispatches[d].task]
  BY <1>1
<1>4. s = "completed" <=> p = "completed"
  BY DEF p
<1>5. Ownership!Decide(t, p)
  BY <1>2, <1>3, <1>4, OwnersActive DEF Ownership!Decide, Completed
<1> QED
  BY <1>5 DEF p

\* updateTaskStatus and a report complete the task they name and no other.
LEMMA EndTaskCompletes ==
  ASSUME TypeOK, NEW t \in Task, NEW s \in TaskStatus, tasks' = EndTask(t, s)
  PROVE Completed' = IF s = "completed" THEN Completed \cup {t} ELSE Completed \ {t}
<1>1. ASSUME NEW u \in Task
      PROVE tasks'[u] = "completed" <=> IF u = t THEN s = "completed" ELSE tasks[u] = "completed"
  BY <1>1 DEF TypeOK, EndTask, Promote, SetStatus
<1> QED
  BY <1>1 DEF Completed

\* An accepted report settles its own dispatch alone.
LEMMA ReportSettlesOne ==
  ASSUME OwnershipInv, RowsHaveTask, NEW d \in Dispatch, NEW outcome, WorkerReport(d, outcome)
  PROVE /\ dispatches[d].task \in Task /\ tasks[dispatches[d].task] # "completed"
        /\ ActiveOn(dispatches[d].task) \subseteq {d}
        /\ Phase(dispatches[d]) \in {"working", "unseen"}
<1> DEFINE t == dispatches[d].task
<1>1. t \in Task
  BY DEF WorkerReport, RowsHaveTask
<1>2. CASE UnobservedPrompt(d)
  <2>1. ActiveOn(t) = {}
    BY <1>1, <1>2 DEF UnobservedPrompt, OwnershipInv, ActiveOnlyWhileWorked
  <2> QED
    BY <1>1, <1>2, <2>1, PhaseTells DEF UnobservedPrompt
<1>3. CASE dispatches[d].status = "dispatched" /\ tasks[t] = "dispatched"
  <2>1. Active(d)
    BY <1>3 DEF Active, ActiveStatus
  <2>2. \A e \in ActiveOn(t) : e = d
    BY <2>1, OwnsAlone DEF ActiveOn, OneActivePerTask
  <2> QED
    BY <1>1, <1>3, <2>1, <2>2, PhaseTells DEF Active
<1> QED
  BY <1>2, <1>3 DEF WorkerReport, ReportFits

\* A report is the abstract report.
LEMMA ReportsOutcome ==
  ASSUME OwnershipInv, RowsHaveTask, NEW d \in Dispatch, NEW outcome, WorkerReport(d, outcome)
  PROVE \E s \in {"completed", "ended"} : Ownership!Report(d, s)
<1> DEFINE t == dispatches[d].task
           r == IF outcome = "succeeded" THEN "completed" ELSE "failed"
           s == IF r = "completed" THEN "completed" ELSE "ended"
<1>0. TypeOK
  BY DEF OwnershipInv
<1>1. /\ t \in Task /\ tasks[t] # "completed"
      /\ ActiveOn(t) \subseteq {d}
      /\ Phase(dispatches[d]) \in {"working", "unseen"}
  BY ReportSettlesOne
<1>2. /\ dispatches' = SettleRows(ActiveOn(t) \cup {d}, r)
      /\ tasks' = EndTask(t, r)
  BY DEF WorkerReport
<1>3. r \in {"completed", "failed"} /\ r \in TaskStatus
  BY DEF TaskStatus
<1> HIDE DEF r
<1>4. Completed' = IF s = "completed" THEN Completed \cup {t} ELSE Completed
  <2>1. Completed' = IF r = "completed" THEN Completed \cup {t} ELSE Completed \ {t}
    BY <1>0, <1>1, <1>2, <1>3, EndTaskCompletes
  <2>2. t \notin Completed
    BY <1>1 DEF Completed
  <2> QED
    BY <2>1, <2>2
<1>5. /\ Phase(dispatches'[d]) = s /\ dispatches'[d].task = t
      /\ \A e \in Dispatch \ {d} : dispatches'[e] = dispatches[e]
  <2>1. dispatches[d] \in Row
    BY <1>0, TypeRow
  <2>2. /\ dispatches'[d].task = t /\ dispatches'[d].status = r
        /\ r = "failed" => dispatches'[d].lastFailure = "reported"
    BY <1>2, <2>1 DEF SettleRows, Row
  <2>3. \A e \in Dispatch \ {d} : dispatches'[e] = dispatches[e]
    BY <1>1, <1>2 DEF SettleRows
  <2> QED
    BY <1>3, <2>2, <2>3, PhaseTells
<1>6. s \in {"completed", "ended"}
  OBVIOUS
<1> HIDE DEF s
<1>7. [x \in Dispatch |-> Phase(dispatches'[x])]
        = [[x \in Dispatch |-> Phase(dispatches[x])] EXCEPT ![d] = s]
  BY <1>5
<1>8. [x \in Dispatch |-> dispatches'[x].task] = [x \in Dispatch |-> dispatches[x].task]
  BY <1>5
<1>9. [x \in Dispatch |-> dispatches[x].task][d] = t
  OBVIOUS
<1>10. Ownership!Owners(t) \subseteq {d} /\ t \notin Completed
  BY <1>1, OwnersActive DEF Completed
<1>11. Ownership!Report(d, s)
  BY <1>1, <1>4, <1>7, <1>8, <1>9, <1>10 DEF Ownership!Report, Completed
<1> QED
  BY <1>6, <1>11

\* The coordinator's steps.
LEMMA CoordinatorDecides ==
  ASSUME OwnershipInv, ConstantsAssumption, CoordinatorStep
  PROVE [Ownership!Next]_(Ownership!vars)
<1>0. TypeOK
  BY DEF OwnershipInv
<1>1. ASSUME NEW t \in Task, UNCHANGED dispatches, ActiveOn(t) = {}, Completed' = Completed \ {t}
      PROVE [Ownership!Next]_(Ownership!vars)
  <2>1. dispatches' = SettleRows(ActiveOn(t), "failed")
    BY <1>0, <1>1 DEF SettleRows, TypeOK
  <2>2. Ownership!Decide(t, "ended")
    BY <1>0, <1>1, <2>1, DecidesTask
  <2> QED
    BY <2>2 DEF Ownership!Next
<1>2. ASSUME NEW t \in Task, NEW s \in {"completed", "failed"},
             dispatches' = SettleRows(ActiveOn(t), s),
             \/ Completed' = Completed \ {t}
             \/ s = "completed" /\ Completed' = Completed \cup {t}
      PROVE [Ownership!Next]_(Ownership!vars)
  BY <1>0, <1>2, DecidesTask DEF Ownership!Next
<1>3. ASSUME NEW t \in Task, NEW s \in UpdateStatuses, TaskUpdate(t, s)
      PROVE [Ownership!Next]_(Ownership!vars)
  <2>1. s \in TaskStatus /\ tasks' = EndTask(t, s) /\ UpdatePermitted(t, s)
    BY <1>3 DEF TaskUpdate, ConstantsAssumption
  <2>2. Completed' = IF s = "completed" THEN Completed \cup {t} ELSE Completed \ {t}
    BY <1>0, <2>1, EndTaskCompletes
  <2>3. CASE s \in {"completed", "failed"}
    <3>1. dispatches' = SettleRows(ActiveOn(t), s)
      BY <1>3, <2>3 DEF TaskUpdate
    <3> QED
      BY <1>2, <2>2, <2>3, <3>1
  <2>4. CASE s = "dispatched"
    <3>1. t \notin Completed
      BY <2>1, <2>4 DEF UpdatePermitted, OwnershipInv, ActiveOnlyWhileWorked, Completed
    <3>2. UNCHANGED dispatches /\ Completed' = Completed
      BY <1>3, <2>2, <2>4, <3>1 DEF TaskUpdate
    <3> QED
      BY <3>2, OwnershipKept
  <2>5. CASE s \notin {"completed", "failed", "dispatched"}
    <3>1. ActiveOn(t) = {}
      BY <2>1, <2>5 DEF UpdatePermitted
    <3>2. UNCHANGED dispatches /\ Completed' = Completed \ {t}
      BY <1>3, <2>2, <2>5 DEF TaskUpdate
    <3> QED
      BY <1>1, <3>1, <3>2
  <2> QED
    BY <2>3, <2>4, <2>5
<1>4. ASSUME NEW t \in Task, NEW s, s # "completed", tasks' = SetStatus(t, s)
      PROVE Completed' = Completed \ {t}
  BY <1>0, <1>4 DEF TypeOK, SetStatus, Completed
<1>5. ASSUME NEW t \in Task, NEW g \in Gate, GateCreate(t, g)
      PROVE [Ownership!Next]_(Ownership!vars)
  BY <1>2, <1>4, <1>5 DEF GateCreate
<1>6. ASSUME NEW g \in Gate, GateResolve(g)
      PROVE [Ownership!Next]_(Ownership!vars)
  <2> DEFINE t == gates[g].task
  <2>1. /\ UNCHANGED dispatches /\ tasks' = SetStatus(t, "ready")
        /\ ActiveOn(t) = {}
    BY <1>6 DEF GateResolve, UpdatePermitted
  <2>2. CASE t \in Task
    BY <1>1, <1>4, <2>1, <2>2
  <2>3. CASE t \notin Task
    <3>1. \A u \in Task : tasks'[u] = tasks[u]
      BY <1>0, <2>1, <2>3 DEF TypeOK, SetStatus
    <3>2. Completed' = Completed
      BY <3>1 DEF Completed
    <3> QED
      BY <2>1, <3>2, OwnershipKept
  <2> QED
    BY <2>2, <2>3
<1> QED
  BY <1>3, <1>5, <1>6 DEF CoordinatorStep, GateStep

\* A step on one row ends its dispatch or leaves its phase.
LEMMA EndsOrStays ==
  ASSUME NEW d \in Dispatch, Completed' = Completed,
         \A e \in Dispatch \ {d} : dispatches'[e] = dispatches[e],
         dispatches'[d].task = dispatches[d].task,
         \/ Active(d) /\ dispatches'[d].status \in {"failed", "circuit_broken"}
         \/ Active(d) /\ dispatches'[d].status \in ActiveStatus
         \/ /\ dispatches'[d].status = dispatches[d].status
            /\ dispatches'[d].lastFailure = dispatches[d].lastFailure
  PROVE [Ownership!Next]_(Ownership!vars)
<1>1. CASE Active(d) /\ dispatches'[d].status \in {"failed", "circuit_broken"}
  BY <1>1, EndsWork DEF Ownership!Next
<1>2. CASE Active(d) /\ dispatches'[d].status \in ActiveStatus
  <2>1. Phase(dispatches'[d]) = Phase(dispatches[d])
    BY <1>2, PhaseTells DEF Active
  <2> QED
    BY <2>1, OwnershipKept
<1>3. CASE /\ dispatches'[d].status = dispatches[d].status
           /\ dispatches'[d].lastFailure = dispatches[d].lastFailure
  <2>1. Phase(dispatches'[d]) = Phase(dispatches[d])
    BY <1>3 DEF Phase
  <2> QED
    BY <2>1, OwnershipKept
<1> QED
  BY <1>1, <1>2, <1>3

\* The steps that write one row.
LEMMA OneRowEndsOrStays ==
  ASSUME OwnershipInv, StartingIsPending, NEW d \in Dispatch, Completed' = Completed,
         \/ \E why, exited : FailDispatch(d, why, exited)
         \/ Escalate(d) \/ ReleaseContextOnly(d)
         \/ \E p \in Terminal : AttachAuthority(d, p)
         \/ WorkerReady(d) \/ StartUnknown(d)
         \/ \E why \in {"stalled", "error"} : FailStart(d, why)
         \/ \E remote \in {"ready", "failed", "stopped"} : RemoteStartReport(d, remote)
         \/ WorkerStop(d) \/ Abandon(d) \/ SettleStop(d) \/ RecoverMissing(d)
  PROVE [Ownership!Next]_(Ownership!vars)
<1>0. TypeOK /\ dispatches[d] \in Row
  BY TypeRow DEF OwnershipInv
<1>1. ASSUME NEW row, dispatches' = [dispatches EXCEPT ![d] = row],
             row.task = dispatches[d].task,
             \/ Active(d) /\ row.status \in {"failed", "circuit_broken"}
             \/ Active(d) /\ row.status \in ActiveStatus
             \/ row.status = dispatches[d].status /\ row.lastFailure = dispatches[d].lastFailure
      PROVE [Ownership!Next]_(Ownership!vars)
  <2>1. dispatches'[d] = row /\ \A e \in Dispatch \ {d} : dispatches'[e] = dispatches[e]
    BY <1>0, <1>1 DEF TypeOK
  <2> QED
    BY <1>1, <2>1, EndsOrStays
<1>2. CASE UNCHANGED dispatches
  BY <1>2, OwnershipKept
<1>3. CASE \/ \E why, exited : FailDispatch(d, why, exited)
           \/ Escalate(d) \/ RecoverMissing(d)
  <2>1. \/ UNCHANGED dispatches
        \/ Active(d) /\ \E why : dispatches' = [dispatches EXCEPT ![d] = FailedRow(d, why)]
    BY <1>3 DEF FailDispatch, Escalate, RecoverMissing
  <2> QED
    BY <1>0, <1>1, <1>2, <2>1, FailedRowKeeps
<1>4. CASE ReleaseContextOnly(d) \/ \E why \in {"stalled", "error"} : FailStart(d, why)
  <2>1. Active(d)
    BY <1>4 DEF ReleaseContextOnly, FailStart, StartingIsPending, Active, ActiveStatus
  <2>2. PICK lost, gone : dispatches' = [dispatches EXCEPT ![d] =
          [dispatches[d] EXCEPT !.status = "failed", !.lastFailure = lost, !.revoked = gone]]
    <3>1. CASE ReleaseContextOnly(d)
      <4>1. dispatches' = [dispatches EXCEPT ![d] =
              [dispatches[d] EXCEPT !.status = "failed", !.lastFailure = "released", !.revoked = TRUE]]
        BY <3>1 DEF ReleaseContextOnly
      <4> QED
        BY <4>1
    <3>2. CASE \E why \in {"stalled", "error"} : FailStart(d, why)
      <4>1. PICK why \in {"stalled", "error"} : FailStart(d, why)
        BY <3>2
      <4>2. dispatches' = [dispatches EXCEPT ![d] =
              [dispatches[d] EXCEPT !.status = "failed", !.lastFailure = why,
                                    !.revoked = @ \/ why # "stalled"]]
        BY <4>1 DEF FailStart
      <4> QED
        BY <4>2
    <3> QED
      BY <1>4, <3>1, <3>2
  <2> DEFINE row == [dispatches[d] EXCEPT !.status = "failed", !.lastFailure = lost,
                                          !.revoked = gone]
  <2>3. row.task = dispatches[d].task /\ row.status = "failed"
    BY <1>0 DEF Row
  <2> HIDE DEF row
  <2> QED
    BY <1>1, <2>1, <2>2, <2>3 DEF row
<1>5. CASE \E p \in Terminal : AttachAuthority(d, p)
  <2>1. PICK p \in Terminal : AttachAuthority(d, p)
    BY <1>5
  <2> DEFINE row == [dispatches[d] EXCEPT !.terminal = p, !.minted = TRUE, !.revoked = FALSE]
  <2>2. dispatches' = [dispatches EXCEPT ![d] = row]
    BY <2>1 DEF AttachAuthority
  <2>3. /\ row.task = dispatches[d].task /\ row.status = dispatches[d].status
        /\ row.lastFailure = dispatches[d].lastFailure
    BY <1>0 DEF Row
  <2> HIDE DEF row
  <2> QED
    BY <1>1, <2>2, <2>3
<1>6. CASE WorkerReady(d)
  <2>1. /\ Active(d)
        /\ dispatches' = [dispatches EXCEPT ![d] = [dispatches[d] EXCEPT !.status = "dispatched"]]
    BY <1>6 DEF WorkerReady, Starting, Active, ActiveStatus
  <2>2. LET row == [dispatches[d] EXCEPT !.status = "dispatched"]
        IN  row.task = dispatches[d].task /\ row.status \in ActiveStatus
    BY <1>0 DEF Row, ActiveStatus
  <2> QED
    BY <1>1, <2>1, <2>2
<1>7. CASE StartUnknown(d) \/ WorkerStop(d)
  <2> DEFINE row == [dispatches[d] EXCEPT !.revoked = TRUE]
  <2>1. dispatches' = [dispatches EXCEPT ![d] = row]
    BY <1>7 DEF StartUnknown, WorkerStop
  <2>2. /\ row.task = dispatches[d].task /\ row.status = dispatches[d].status
        /\ row.lastFailure = dispatches[d].lastFailure
    BY <1>0 DEF Row
  <2> HIDE DEF row
  <2> QED
    BY <1>1, <2>1, <2>2
<1>8. CASE \E remote \in {"ready", "failed", "stopped"} : RemoteStartReport(d, remote)
  <2>1. CASE RemoteStartReport(d, "ready")
    <3> DEFINE row == [dispatches[d] EXCEPT !.status = IF @ = "pending" THEN "dispatched" ELSE @]
    <3>1. dispatches' = [dispatches EXCEPT ![d] = row]
      BY <2>1 DEF RemoteStartReport
    <3>2. /\ row.task = dispatches[d].task /\ row.lastFailure = dispatches[d].lastFailure
          /\ \/ row.status = dispatches[d].status
             \/ dispatches[d].status = "pending" /\ row.status = "dispatched"
      BY <1>0 DEF Row
    <3> HIDE DEF row
    <3> QED
      BY <1>1, <3>1, <3>2 DEF Active, ActiveStatus
  <2>2. CASE \E remote \in {"failed", "stopped"} : RemoteStartReport(d, remote)
    <3> DEFINE row == [dispatches[d] EXCEPT !.status = "failed", !.lastFailure = "error",
                                            !.revoked = TRUE]
    <3>1. \/ UNCHANGED dispatches
          \/ Active(d) /\ dispatches' = [dispatches EXCEPT ![d] = row]
      BY <2>2 DEF RemoteStartReport
    <3>2. row.task = dispatches[d].task /\ row.status = "failed"
      BY <1>0 DEF Row
    <3> HIDE DEF row
    <3> QED
      BY <1>1, <1>2, <3>1, <3>2
  <2> QED
    BY <1>8, <2>1, <2>2
<1>9. CASE SettleStop(d)
  <2> DEFINE row == [dispatches[d] EXCEPT !.status = "failed", !.lastFailure = "released"]
  <2>1. \/ UNCHANGED dispatches
        \/ Active(d) /\ dispatches' = [dispatches EXCEPT ![d] = row]
    BY <1>9 DEF SettleStop
  <2>2. row.task = dispatches[d].task /\ row.status = "failed"
    BY <1>0 DEF Row
  <2> HIDE DEF row
  <2> QED
    BY <1>1, <1>2, <2>1, <2>2
<1>10. CASE Abandon(d)
  <2> DEFINE row == [dispatches[d] EXCEPT !.revoked = TRUE,
                                          !.status = IF Active(d) THEN "failed" ELSE @]
  <2>1. dispatches' = [dispatches EXCEPT ![d] = row]
    BY <1>10 DEF Abandon
  <2>2. /\ row.task = dispatches[d].task /\ row.lastFailure = dispatches[d].lastFailure
        /\ row.status = IF Active(d) THEN "failed" ELSE dispatches[d].status
    BY <1>0 DEF Row
  <2> HIDE DEF row
  <2> QED
    BY <1>1, <2>1, <2>2
<1> QED
  BY <1>3, <1>4, <1>5, <1>6, <1>7, <1>8, <1>9, <1>10

\* A new row is granted a task that nobody works on.
LEMMA NewRowGrants ==
  ASSUME OwnershipInv, RowsHaveTask, Completed' = Completed, InsertsRow
  PROVE [Ownership!Next]_(Ownership!vars)
<1>0. TypeOK
  BY DEF OwnershipInv
<1>1. ASSUME NEW t \in Task, NEW p, NEW how, DispatchTask(t, p, how)
      PROVE [Ownership!Next]_(Ownership!vars)
  <2>1. ActiveOn(t) = {} /\ tasks[t] # "completed"
    BY <1>1 DEF DispatchTask, OwnershipInv, ActiveOnlyWhileWorked
  <2>2. PICK d \in Dispatch :
          /\ IsNextRow(d)
          /\ \A e \in Dispatch \ {d} : dispatches'[e] = dispatches[e]
          /\ dispatches'[d].task = t /\ dispatches'[d].status \in ActiveStatus
    BY <1>0, <1>1, NewContextRow DEF ActiveStatus
  <2>3. Ownership!Grant(t, d)
    BY <2>1, <2>2, GrantsTask
  <2> QED
    BY <2>3 DEF Ownership!Next
<1>2. ASSUME NEW t \in Task, NEW host, NEW d \in Dispatch, StartWorker(t, host, d),
             ActiveOn(t) = {}, tasks[t] # "completed"
      PROVE [Ownership!Next]_(Ownership!vars)
  <2>1. /\ IsNextRow(d)
        /\ \A e \in Dispatch \ {d} : dispatches'[e] = dispatches[e]
        /\ dispatches'[d].task = t /\ dispatches'[d].status \in ActiveStatus
    BY <1>0, <1>2, NewWorkerRow DEF ActiveStatus
  <2>2. Ownership!Grant(t, d)
    BY <1>2, <2>1, GrantsTask
  <2> QED
    BY <2>2 DEF Ownership!Next
<1>3. ASSUME NEW t \in Task, NEW host, WorkerStart(t, host)
      PROVE [Ownership!Next]_(Ownership!vars)
  BY <1>2, <1>3 DEF WorkerStart, OwnershipInv, ActiveOnlyWhileWorked
<1>4. ASSUME NEW r \in Dispatch, NEW host, WorkerRetry(r, host)
      PROVE [Ownership!Next]_(Ownership!vars)
  <2> DEFINE t == dispatches[r].task
  <2>1. t \in Task /\ tasks[t] # "completed"
    BY <1>4 DEF WorkerRetry, RowsHaveTask
  <2>2. ActiveOn(t) = {}
    BY <1>4, RetryFindsTaskFree DEF WorkerRetry, Retryable, DeadWorker
  <2> QED
    BY <1>2, <1>4, <2>1, <2>2 DEF WorkerRetry
<1> QED
  BY <1>1, <1>3, <1>4 DEF InsertsRow

\* Every other step but a report writes one row or none.
LEMMA OtherSteps ==
  ASSUME OwnershipInv, StartingIsPending, Completed' = Completed, [Next]_vars,
         ~InsertsRow, ~CoordinatorStep,
         ~\E d \in Dispatch, outcome \in {"succeeded", "failed"} : WorkerReport(d, outcome)
  PROVE [Ownership!Next]_(Ownership!vars)
<1>1. CASE UNCHANGED dispatches
  BY <1>1, OwnershipKept
<1>2. CASE TaskStep \/ ReportStep \/ GateStep \/ UNCHANGED vars
  BY <1>1, <1>2 DEF TaskStep, TaskCreate, CoordinatorStep, ReportStep, Ask, AnswerQuestion, vars
<1>3. CASE ContextStep
  <2>1. ASSUME NEW d \in Dispatch, NEW why, PromptSent(d) \/ PromptFailed(d, why)
        PROVE UNCHANGED dispatches \/ FailDispatch(d, why, FALSE)
    BY <2>1 DEF PromptSent, PromptFailed
  <2> QED
    BY <1>1, <1>3, <2>1, OneRowEndsOrStays DEF ContextStep, InsertsRow
<1>4. CASE StartStep
  <2>1. ASSUME NEW d \in Dispatch, StartFenced(d)
        PROVE UNCHANGED dispatches
    BY <2>1 DEF StartFenced
  <2> QED
    BY <1>1, <1>4, <2>1, OneRowEndsOrStays DEF StartStep, InsertsRow
<1>5. CASE StopStep
  <2>1. PICK d \in Dispatch : WorkerStop(d) \/ StopSettled(d) \/ RemoteStopReport(d) \/ StopUnknown(d)
                              \/ StopResumed(d) \/ StopFenced(d) \/ Abandon(d)
    BY <1>5 DEF StopStep
  <2>2. CASE StopUnknown(d) \/ StopResumed(d) \/ StopFenced(d)
    BY <1>1, <2>2 DEF StopUnknown, StopResumed, StopFenced
  <2>3. CASE StopSettled(d) \/ RemoteStopReport(d)
    BY <2>3, OneRowEndsOrStays DEF StopSettled, RemoteStopReport
  <2> QED
    BY <2>1, <2>2, <2>3, OneRowEndsOrStays
<1>6. CASE RecoveryStep
  <2>1. ASSUME NEW p, TerminalExit(p)
        PROVE \E d \in Dispatch : FailDispatch(d, "error", TRUE)
    BY <2>1 DEF TerminalExit
  <2>2. CASE Restart \/ \E d \in Dispatch : RecoverDone(d)
    BY <1>1, <2>2 DEF Restart, RecoverDone
  <2> QED
    BY <1>6, <2>1, <2>2, OneRowEndsOrStays DEF RecoveryStep
<1> QED
  BY <1>2, <1>3, <1>4, <1>5, <1>6 DEF Next

LEMMA InitOwnsNothing == ConstantsAssumption /\ Init => Ownership!Init
<1> SUFFICES ASSUME ConstantsAssumption, Init
             PROVE Ownership!Init
  OBVIOUS
<1>1. \A d \in Dispatch : Phase(dispatches[d]) = "unused" /\ dispatches[d].task = NoTask
  BY PhaseTells DEF Init, EmptyRow
<1> QED
  BY <1>1 DEF Init, Ownership!Init

LEMMA StepKeepsOwnership ==
  OwnershipInv /\ StartingIsPending /\ RowsHaveTask /\ [Next]_vars
    => [Ownership!Next]_(Ownership!vars)
<1> SUFFICES ASSUME OwnershipInv, StartingIsPending, RowsHaveTask, [Next]_vars
             PROVE [Ownership!Next]_(Ownership!vars)
  OBVIOUS
<1>1. CASE CoordinatorStep
  BY <1>1, ConstantsAssumption, CoordinatorDecides
<1>2. CASE \E d \in Dispatch, outcome \in {"succeeded", "failed"} : WorkerReport(d, outcome)
  BY <1>2, ReportsOutcome DEF Ownership!Next
<1>3. CASE /\ ~CoordinatorStep
           /\ ~\E d \in Dispatch, outcome \in {"succeeded", "failed"} : WorkerReport(d, outcome)
  <2>1. Completed' = Completed
    BY <1>3, UndisturbedNext DEF Undisturbed, Completed
  <2> QED
    BY <1>3, <2>1, NewRowGrants, OtherSteps
<1> QED
  BY <1>1, <1>2, <1>3

\* The store is TaskOwnership: a task passes from one dispatch to the next only through
\* nobody, each dispatch is granted and ended once, and no late start, stop, exit,
\* recovery or report of a dispatch that is over decides about a task that moved on.
THEOREM StoreIsOwnership == Spec => ImplementsOwnership
<1>1. Init => Ownership!Init
  BY ConstantsAssumption, InitOwnsNothing
<1> QED
  BY <1>1, OwnershipInvariant, StartHoldsItsDispatch, DispatchesHaveTasks, StepKeepsOwnership,
     PTL DEF Spec, ImplementsOwnership, Ownership!Spec
=============================================================================
