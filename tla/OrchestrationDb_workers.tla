------------------------ MODULE OrchestrationDb_workers ------------------------
(* The authority of a dispatch ends with it; until then its worker may rely on *)
(* its dispatch, its task and its capability, for every value of the constants *)
(* of OrchestrationDb.                                                         *)
EXTENDS OrchestrationDb_settling

(***************************************************************************)
(* The end of lifecycle authority                                          *)
(***************************************************************************)
\* AuthorityInv for one row.
RowFenced(d) ==
  /\ workers[d] \in {"stopping", "stop_unknown"} => dispatches[d].revoked
  /\ dispatches[d].status # "none" /\ ~Active(d) /\ dispatches[d].minted
       => \/ dispatches[d].revoked
          \/ dispatches[d].lastFailure = "stalled" /\ workers[d] = "failed"

\* The two conjuncts of the invariant, row by row.
LEMMA AuthByRow == AuthorityInv <=> \A d \in Dispatch : RowFenced(d)
BY DEF AuthorityInv, AuthorityEndsWithDispatch, StoppingIsRevoked, RowFenced

\* It is enough to look at the only row a step changes.
LEMMA AuthOneRow ==
  ASSUME AuthorityInv, NEW d \in Dispatch,
         \A e \in Dispatch \ {d} : dispatches'[e] = dispatches[e] /\ workers'[e] = workers[e],
         RowFenced(d)'
  PROVE AuthorityInv'
<1>1. ASSUME NEW e \in Dispatch PROVE RowFenced(e)'
  <2>1. RowFenced(e)
    BY AuthByRow
  <2>2. CASE e # d
    BY <2>1, <2>2 DEF RowFenced, Active
  <2> QED
    BY <2>2
<1> QED
  BY <1>1 DEF RowFenced, AuthorityInv, AuthorityEndsWithDispatch, StoppingIsRevoked

\* Only the worker table moves: no failed worker, and none into a stop.
LEMMA AuthWorkers ==
  ASSUME AuthorityInv, UNCHANGED dispatches,
         \A e \in Dispatch :
           \/ workers'[e] = workers[e]
           \/ dispatches[e].revoked
           \/ workers[e] # "failed" /\ workers'[e] \notin {"stopping", "stop_unknown"}
  PROVE AuthorityInv'
BY DEF AuthorityInv, AuthorityEndsWithDispatch, StoppingIsRevoked, Active

\* Settling revokes every row it touches.
LEMMA AuthSettleRows ==
  ASSUME TypeOK, AuthorityInv, NEW D, NEW s, dispatches' = SettleRows(D, s),
         \A e \in Dispatch : e \notin D => workers'[e] = workers[e]
  PROVE AuthorityInv'
<1>1. ASSUME NEW e \in Dispatch PROVE RowFenced(e)'
  <2>1. CASE e \in D
    <3>1. dispatches[e] \in Row
      BY TypeRow
    <3>2. dispatches'[e].revoked
      BY <2>1, <3>1 DEF SettleRows, Row
    <3> QED
      BY <3>2 DEF RowFenced
  <2>2. CASE e \notin D
    <3>1. dispatches'[e] = dispatches[e] /\ workers'[e] = workers[e]
      BY <2>2 DEF SettleRows
    <3>2. RowFenced(e)
      BY AuthByRow
    <3> QED
      BY <3>1, <3>2 DEF RowFenced, Active
  <2> QED
    BY <2>1, <2>2
<1> QED
  BY <1>1 DEF RowFenced, AuthorityInv, AuthorityEndsWithDispatch, StoppingIsRevoked

\* The row of d is revoked by the step.
LEMMA AuthRevokes ==
  ASSUME AuthorityInv, NEW d \in Dispatch, dispatches'[d].revoked,
         \A e \in Dispatch \ {d} : dispatches'[e] = dispatches[e] /\ workers'[e] = workers[e]
  PROVE AuthorityInv'
BY AuthOneRow DEF RowFenced

\* The row of a counted failure is revoked.
LEMMA AuthFailedRow ==
  ASSUME TypeOK, AuthorityInv, NEW d \in Dispatch, NEW why,
         dispatches' = [dispatches EXCEPT ![d] = FailedRow(d, why)],
         \A e \in Dispatch \ {d} : workers'[e] = workers[e]
  PROVE AuthorityInv'
<1>1. FailedRow(d, why).revoked
  BY TypeRow DEF FailedRow, Row
<1>2. /\ dispatches'[d].revoked
      /\ \A e \in Dispatch \ {d} : dispatches'[e] = dispatches[e]
  BY <1>1 DEF TypeOK
<1> QED
  BY <1>2, AuthRevokes

\* failDispatch, whoever calls it.
LEMMA AuthFailDispatch ==
  ASSUME TypeOK, AuthorityInv, NEW d \in Dispatch, NEW why, NEW exited,
         FailDispatch(d, why, exited)
  PROVE AuthorityInv'
<1>1. \A e \in Dispatch \ {d} : workers'[e] = workers[e]
  BY DEF TypeOK, FailDispatch
<1> QED
  BY <1>1, AuthFailedRow DEF FailDispatch

\* A new row is active, and its worker is not being stopped.
LEMMA AuthNewRow ==
  ASSUME TypeOK, AuthorityInv, NEW d \in Dispatch, NEW row,
         dispatches' = [dispatches EXCEPT ![d] = row], row.status \in ActiveStatus,
         \A e \in Dispatch \ {d} : workers'[e] = workers[e],
         workers'[d] \notin {"stopping", "stop_unknown"}
  PROVE AuthorityInv'
<1>1. dispatches'[d] = row /\ \A e \in Dispatch \ {d} : dispatches'[e] = dispatches[e]
  BY DEF TypeOK
<1>2. RowFenced(d)'
  BY <1>1 DEF RowFenced, Active
<1> QED
  BY <1>1, <1>2, AuthOneRow

\* A new context-only dispatch is active and has no worker.
LEMMA AuthDispatchTask ==
  ASSUME OwnershipInv, AuthorityInv, NEW t, NEW p, NEW how, DispatchTask(t, p, how)
  PROVE AuthorityInv'
<1>1. PICK d \in Dispatch, n \in 0 .. MaxDispatches :
        /\ IsNextRow(d)
        /\ dispatches' = [dispatches EXCEPT ![d] =
             [EmptyRow EXCEPT !.task = t, !.status = "dispatched", !.failures = n,
                !.terminal = p, !.minted = (how = "inject")]]
  BY DEF DispatchTask
<1> DEFINE row == [EmptyRow EXCEPT !.task = t, !.status = "dispatched", !.failures = n,
                     !.terminal = p, !.minted = (how = "inject")]
<1>2. row.status \in ActiveStatus
  BY DEF EmptyRow, ActiveStatus
<1>3. workers[d] = "none" /\ UNCHANGED workers
  BY <1>1 DEF OwnershipInv, RowsContiguous, IsNextRow, DispatchTask
<1>4. dispatches' = [dispatches EXCEPT ![d] = row]
  BY <1>1
<1> HIDE DEF row
<1> QED
  BY <1>2, <1>3, <1>4, AuthNewRow DEF OwnershipInv

\* A new supervised dispatch is active and its worker is starting.
LEMMA AuthStartWorker ==
  ASSUME TypeOK, AuthorityInv, NEW t, NEW host, NEW d \in Dispatch, StartWorker(t, host, d)
  PROVE AuthorityInv'
<1> DEFINE row == [EmptyRow EXCEPT !.task = t, !.status = "pending", !.host = host]
<1>1. row.status \in ActiveStatus
  BY DEF EmptyRow, ActiveStatus
<1>2. /\ dispatches' = [dispatches EXCEPT ![d] = row]
      /\ \A e \in Dispatch \ {d} : workers'[e] = workers[e]
      /\ workers'[d] = "starting"
  BY DEF StartWorker, TypeOK
<1> HIDE DEF row
<1> QED
  BY <1>1, <1>2, AuthNewRow

\* The two writes of worker-start that keep the dispatch active; the first is the
\* only one of all that takes a revocation back, and its worker is starting.
LEMMA AuthStartHandler ==
  ASSUME TypeOK, AuthorityInv, NEW d \in Dispatch,
         (\E p \in Terminal : AttachAuthority(d, p)) \/ WorkerReady(d)
  PROVE AuthorityInv'
<1>0. dispatches[d] \in Row
  BY TypeRow
<1>1. CASE \E p \in Terminal : AttachAuthority(d, p)
  <2>1. PICK p \in Terminal : AttachAuthority(d, p)
    BY <1>1
  <2> DEFINE row == [dispatches[d] EXCEPT !.terminal = p, !.minted = TRUE, !.revoked = FALSE]
  <2>2. row.status \in ActiveStatus
    BY <1>0, <2>1 DEF AttachAuthority, Starting, Row, ActiveStatus
  <2>3. dispatches' = [dispatches EXCEPT ![d] = row]
    BY <2>1 DEF AttachAuthority
  <2>4. workers' = workers /\ workers[d] = "starting"
    BY <2>1 DEF AttachAuthority, Starting
  <2> HIDE DEF row
  <2> QED
    BY <2>2, <2>3, <2>4, AuthNewRow
<1>2. CASE WorkerReady(d)
  <2> DEFINE row == [dispatches[d] EXCEPT !.status = "dispatched"]
  <2>1. row.status \in ActiveStatus
    BY <1>0 DEF Row, ActiveStatus
  <2>2. dispatches' = [dispatches EXCEPT ![d] = row]
    BY <1>2 DEF WorkerReady
  <2>3. \A e \in Dispatch \ {d} : workers'[e] = workers[e]
    BY <1>2 DEF WorkerReady, TypeOK
  <2>4. workers'[d] = "ready"
    BY <1>2 DEF WorkerReady, TypeOK
  <2> HIDE DEF row
  <2> QED
    BY <2>1, <2>2, <2>3, <2>4, AuthNewRow
<1> QED
  BY <1>1, <1>2

\* A stalled prompt is the one failure that leaves the capability.
LEMMA AuthFailStart ==
  ASSUME TypeOK, AuthorityInv, NEW d \in Dispatch, NEW why \in {"stalled", "error"},
         FailStart(d, why)
  PROVE AuthorityInv'
<1>0. dispatches[d] \in Row
  BY TypeRow
<1>1. /\ workers'[d] = "failed"
      /\ \A e \in Dispatch \ {d} : dispatches'[e] = dispatches[e] /\ workers'[e] = workers[e]
  BY DEF FailStart, TypeOK
<1>2. dispatches'[d] = [dispatches[d] EXCEPT !.status = "failed", !.lastFailure = why,
                                            !.revoked = @ \/ why # "stalled"]
  BY DEF FailStart, TypeOK
<1>3. dispatches'[d].lastFailure = why /\ (why # "stalled" => dispatches'[d].revoked)
  BY <1>0, <1>2 DEF Row
<1>4. RowFenced(d)'
  BY <1>1, <1>3 DEF RowFenced
<1> QED
  BY <1>1, <1>4, AuthOneRow

\* A remote start that failed revokes; one that succeeded may be active or stopping.
LEMMA AuthRemoteStartReport ==
  ASSUME TypeOK, AuthorityInv, NEW d \in Dispatch, NEW remote \in {"ready", "failed", "stopped"},
         RemoteStartReport(d, remote)
  PROVE AuthorityInv'
<1>0. dispatches[d] \in Row /\ RowFenced(d)
  BY TypeRow, AuthByRow
<1>1. /\ \A e \in Dispatch \ {d} : dispatches'[e] = dispatches[e] /\ workers'[e] = workers[e]
      /\ workers[d] \in {"starting", "start_unknown"} /\ workers'[d] = remote
  BY DEF RemoteStartReport, TypeOK
<1>2. CASE remote = "ready"
  <2>1. dispatches'[d] = [dispatches[d] EXCEPT !.status = IF @ = "pending" THEN "dispatched" ELSE @]
    BY <1>2 DEF RemoteStartReport, TypeOK
  <2>2. /\ dispatches'[d].minted = dispatches[d].minted
        /\ dispatches'[d].revoked = dispatches[d].revoked
        /\ dispatches[d].status \in ActiveStatus => dispatches'[d].status \in ActiveStatus
        /\ dispatches[d].status = "none" => dispatches'[d].status = "none"
    BY <1>0, <2>1 DEF Row, ActiveStatus
  <2>3. RowFenced(d)'
    BY <1>0, <1>1, <1>2, <2>2 DEF RowFenced, Active
  <2> QED
    BY <1>1, <2>3, AuthOneRow
<1>3. CASE remote # "ready" /\ Active(d)
  <2>1. dispatches'[d] = [dispatches[d] EXCEPT !.status = "failed", !.lastFailure = "error",
                                              !.revoked = TRUE]
    BY <1>3 DEF RemoteStartReport, TypeOK
  <2>2. dispatches'[d].revoked
    BY <1>0, <2>1 DEF Row
  <2> QED
    BY <1>1, <2>2, AuthRevokes
<1>4. CASE remote # "ready" /\ ~Active(d)
  <2>1. UNCHANGED dispatches
    BY <1>4 DEF RemoteStartReport
  <2>2. RowFenced(d)'
    BY <1>0, <1>1, <1>4, <2>1 DEF RowFenced, Active
  <2> QED
    BY <1>1, <2>2, AuthOneRow
<1> QED
  BY <1>2, <1>3, <1>4

\* The steps that revoke the row of d.
LEMMA AuthRevokingStep ==
  ASSUME TypeOK, AuthorityInv, NEW d \in Dispatch,
         ReleaseContextOnly(d) \/ StartUnknown(d) \/ WorkerStop(d) \/ Abandon(d)
  PROVE AuthorityInv'
<1>0. dispatches[d] \in Row
  BY TypeRow
<1>1. \A e \in Dispatch \ {d} : workers'[e] = workers[e]
  BY DEF ReleaseContextOnly, StartUnknown, WorkerStop, Abandon, TypeOK
<1>2. CASE ReleaseContextOnly(d)
  <2>1. dispatches' = [dispatches EXCEPT ![d].status = "failed", ![d].revoked = TRUE,
                                         ![d].lastFailure = "released"]
    BY <1>2 DEF ReleaseContextOnly
  <2> QED
    BY <1>0, <1>1, <2>1, AuthRevokes DEF TypeOK, Row
<1>3. CASE StartUnknown(d) \/ WorkerStop(d)
  <2>1. dispatches' = [dispatches EXCEPT ![d].revoked = TRUE]
    BY <1>3 DEF StartUnknown, WorkerStop
  <2> QED
    BY <1>0, <1>1, <2>1, AuthRevokes DEF TypeOK, Row
<1>4. CASE Abandon(d)
  <2>1. PICK s : dispatches' = [dispatches EXCEPT ![d].revoked = TRUE, ![d].status = s]
    BY <1>0, <1>4 DEF Abandon, TypeOK, Row
  <2> QED
    BY <1>0, <1>1, <2>1, AuthRevokes DEF TypeOK, Row
<1> QED
  BY <1>2, <1>3, <1>4

\* A stop that settles ends a row that was revoked when the stop began.
LEMMA AuthSettleStop ==
  ASSUME TypeOK, AuthorityInv, NEW d \in Dispatch, SettleStop(d),
         workers[d] \in {"stopping", "stop_unknown"}
  PROVE AuthorityInv'
<1>0. dispatches[d] \in Row
  BY TypeRow
<1>1. dispatches[d].revoked
  BY DEF AuthorityInv, StoppingIsRevoked
<1>2. \A e \in Dispatch \ {d} : dispatches'[e] = dispatches[e] /\ workers'[e] = workers[e]
  BY DEF SettleStop, TypeOK
<1>3. dispatches'[d].revoked
  BY <1>0, <1>1 DEF SettleStop, TypeOK, Row
<1> QED
  BY <1>2, <1>3, AuthRevokes

\* Every handler of a stop.
LEMMA AuthStopStep ==
  ASSUME TypeOK, AuthorityInv, StopStep PROVE AuthorityInv'
<1> PICK d \in Dispatch :
      \/ WorkerStop(d) \/ StopSettled(d) \/ RemoteStopReport(d) \/ StopUnknown(d)
      \/ StopResumed(d) \/ StopFenced(d) \/ Abandon(d)
  BY DEF StopStep
<1>1. CASE StopSettled(d) \/ RemoteStopReport(d)
  BY <1>1, AuthSettleStop DEF StopSettled, RemoteStopReport
<1>2. CASE StopUnknown(d) \/ StopResumed(d)
  <2>1. /\ UNCHANGED dispatches
        /\ \A e \in Dispatch \ {d} : workers'[e] = workers[e]
        /\ workers[d] = "stopping"
    BY <1>2 DEF StopUnknown, StopResumed, TypeOK
  <2>2. dispatches[d].revoked
    BY <2>1 DEF AuthorityInv, StoppingIsRevoked
  <2> QED
    BY <2>1, <2>2, AuthWorkers
<1>3. CASE StopFenced(d)
  BY <1>3, AuthWorkers DEF StopFenced
<1> QED
  BY <1>1, <1>2, <1>3, AuthRevokingStep

\* Recovery ends a worker: an active dispatch is revoked, a settled one was already.
LEMMA AuthRecoverMissing ==
  ASSUME OwnershipInv, AuthorityInv, NEW d \in Dispatch, RecoverMissing(d)
  PROVE AuthorityInv'
<1>1. /\ \A e \in Dispatch \ {d} : workers'[e] = workers[e]
      /\ workers[d] \in LiveWorker /\ workers'[d] \in {"stopped", "abandoned"}
  BY DEF RecoverMissing, OwnershipInv, TypeOK
<1>2. CASE Active(d)
  BY <1>1, <1>2, AuthFailedRow DEF RecoverMissing, OwnershipInv
<1>3. CASE ~Active(d)
  BY <1>1, <1>3, AuthWorkers DEF RecoverMissing, LiveWorker
<1> QED
  BY <1>2, <1>3

\* One case per group of actions.
LEMMA AuthNext ==
  ASSUME OwnershipInv, AuthorityInv, [Next]_vars PROVE AuthorityInv'
<1> TypeOK
  BY DEF OwnershipInv
<1>1. CASE TaskStep
  <2>1. ASSUME NEW t \in Task, TaskCreate(t) PROVE AuthorityInv'
    BY <2>1, AuthWorkers DEF TaskCreate
  <2>2. ASSUME NEW t \in Task, NEW s, TaskUpdate(t, s) PROVE AuthorityInv'
    BY <2>2, AuthWorkers, AuthSettleRows DEF TaskUpdate
  <2> QED
    BY <1>1, <2>1, <2>2 DEF TaskStep
<1>2. CASE ContextStep
  <2>1. ASSUME NEW d \in Dispatch, NEW why, PromptSent(d) \/ PromptFailed(d, why)
        PROVE AuthorityInv'
    BY <2>1, AuthWorkers, AuthFailDispatch DEF PromptSent, PromptFailed
  <2>2. ASSUME NEW d \in Dispatch, Escalate(d) PROVE AuthorityInv'
    BY <2>2, AuthFailedRow DEF Escalate
  <2> QED
    BY <1>2, <2>1, <2>2, AuthDispatchTask, AuthRevokingStep DEF ContextStep
<1>3. CASE StartStep
  <2>1. ASSUME NEW d \in Dispatch, StartFenced(d) PROVE AuthorityInv'
    BY <2>1, AuthWorkers DEF StartFenced
  <2>2. ASSUME NEW t, NEW host, WorkerStart(t, host) PROVE AuthorityInv'
    BY <2>2, AuthStartWorker DEF WorkerStart
  <2>3. ASSUME NEW r \in Dispatch, NEW host, WorkerRetry(r, host) PROVE AuthorityInv'
    BY <2>3, AuthStartWorker DEF WorkerRetry
  <2> QED
    BY <1>3, <2>1, <2>2, <2>3, AuthStartHandler, AuthFailStart, AuthRevokingStep,
       AuthRemoteStartReport DEF StartStep
<1>4. CASE StopStep
  BY <1>4, AuthStopStep
<1>5. CASE RecoveryStep
  <2>1. ASSUME NEW p \in Terminal, TerminalExit(p) PROVE AuthorityInv'
    BY <2>1, AuthFailDispatch DEF TerminalExit
  <2>2. CASE Restart \/ \E d \in Dispatch : RecoverDone(d)
    BY <2>2, AuthWorkers DEF Restart, RecoverDone
  <2> QED
    BY <1>5, <2>1, <2>2, AuthRecoverMissing DEF RecoveryStep
<1>6. CASE ReportStep
  <2>1. ASSUME NEW d \in Dispatch, Ask(d) \/ AnswerQuestion(d) PROVE AuthorityInv'
    BY <2>1, AuthWorkers DEF Ask, AnswerQuestion
  <2>2. ASSUME NEW d \in Dispatch, NEW outcome, WorkerReport(d, outcome) PROVE AuthorityInv'
    <3>1. PICK s : dispatches' = SettleRows(ActiveOn(dispatches[d].task) \cup {d}, s)
      BY <2>2 DEF WorkerReport
    <3>2. \A e \in Dispatch \ {d} : workers'[e] = workers[e]
      BY <2>2 DEF WorkerReport, TypeOK
    <3> QED
      BY <3>1, <3>2, AuthSettleRows
  <2> QED
    BY <1>6, <2>1, <2>2 DEF ReportStep
<1>7. CASE GateStep
  <2>1. ASSUME NEW t, NEW g, GateCreate(t, g) PROVE AuthorityInv'
    BY <2>1, AuthSettleRows DEF GateCreate
  <2>2. ASSUME NEW g, GateResolve(g) PROVE AuthorityInv'
    BY <2>2, AuthWorkers DEF GateResolve
  <2> QED
    BY <1>7, <2>1, <2>2 DEF GateStep
<1>8. CASE UNCHANGED vars
  BY <1>8, AuthWorkers DEF vars
<1> QED
  BY <1>1, <1>2, <1>3, <1>4, <1>5, <1>6, <1>7, <1>8 DEF Next

\* Ended dispatches and stopping workers have no authority, in every reachable
\* state, whatever order the handlers, exits, recoveries and reports come in.
THEOREM AuthorityInvariant == Spec => []AuthorityInv
<1>1. Init => AuthorityInv
  BY DEF Init, AuthorityInv, AuthorityEndsWithDispatch, StoppingIsRevoked, EmptyRow
<1>2. OwnershipInv /\ AuthorityInv /\ [Next]_vars => AuthorityInv'
  BY AuthNext
<1> QED
  BY <1>1, <1>2, OwnershipInvariant, PTL DEF Spec

\* No capability outlives its dispatch, but for a stalled prompt's.
THEOREM AuthorityEnds == Spec => []AuthorityEndsWithDispatch
<1>1. AuthorityInv => AuthorityEndsWithDispatch
  BY DEF AuthorityInv
<1> QED
  BY <1>1, AuthorityInvariant, PTL

(***************************************************************************)
(* Rows belong to tasks                                                    *)
(***************************************************************************)
\* The foreign key of dispatch_contexts: a retry copies it from row to row.
RowsHaveTask ==
  \A d \in Dispatch : dispatches[d].status # "none" => dispatches[d].task \in Task

\* The actions that insert a row.
InsertsRow ==
  \/ \E t \in Task, p \in Terminal, how \in Injections : DispatchTask(t, p, how)
  \/ \E t \in Task, host \in Hosts : WorkerStart(t, host)
  \/ \E r \in Dispatch, host \in Hosts : WorkerRetry(r, host)

\* Every other step keeps the rows it finds.
LEMMA RowsNext ==
  ASSUME OwnershipInv, ConstantsAssumption, [Next]_vars PROVE KeepsRows \/ InsertsRow
<1>1. ASSUME UNCHANGED <<dispatches, workers>> PROVE KeepsRows
  BY <1>1 DEF KeepsRows
<1>2. CASE TaskStep
  BY <1>2, OwnTaskCreate, OwnTaskUpdate DEF TaskStep, OwnershipStep
<1>3. CASE ContextStep
  <2>1. ASSUME NEW d \in Dispatch, NEW why, PromptSent(d) \/ PromptFailed(d, why)
        PROVE KeepsRows
    BY <1>1, <2>1, OwnFailDispatch DEF PromptSent, PromptFailed, OwnershipStep
  <2> QED
    BY <1>3, <2>1, OwnEscalate, OwnReleaseContextOnly DEF ContextStep, InsertsRow, OwnershipStep
<1>4. CASE StartStep
  <2>1. ASSUME NEW d \in Dispatch, StartFenced(d) PROVE KeepsRows
    BY <1>1, <2>1 DEF StartFenced
  <2> QED
    BY <1>4, <2>1, OwnStartHandler, OwnRemoteStartReport DEF StartStep, InsertsRow, OwnershipStep
<1>5. CASE StopStep
  BY <1>5, OwnStopStep DEF OwnershipStep
<1>6. CASE RecoveryStep
  BY <1>6, OwnRecoveryStep DEF OwnershipStep
<1>7. CASE ReportStep
  <2>1. ASSUME NEW d \in Dispatch, Ask(d) \/ AnswerQuestion(d) PROVE KeepsRows
    BY <1>1, <2>1 DEF Ask, AnswerQuestion
  <2> QED
    BY <1>7, <2>1, OwnWorkerReport DEF ReportStep, OwnershipStep
<1>8. CASE GateStep
  BY <1>8, OwnGateStep DEF OwnershipStep
<1>9. CASE UNCHANGED vars
  BY <1>1, <1>9 DEF vars
<1> QED
  BY <1>2, <1>3, <1>4, <1>5, <1>6, <1>7, <1>8, <1>9 DEF Next

\* The row that createDispatchContext inserts.
LEMMA NewContextRow ==
  ASSUME TypeOK, NEW t, NEW p, NEW how, DispatchTask(t, p, how)
  PROVE \E d \in Dispatch :
          /\ IsNextRow(d)
          /\ \A e \in Dispatch \ {d} : dispatches'[e] = dispatches[e]
          /\ dispatches'[d].task = t
          /\ dispatches'[d].status = "dispatched"
          /\ dispatches'[d].host = "context"
          /\ IsMaxFailures(t, dispatches'[d].failures)
          /\ dispatches'[d].lastFailure = "none"
<1>1. PICK d \in Dispatch, n \in 0 .. MaxDispatches :
        /\ IsNextRow(d)
        /\ IsMaxFailures(t, n)
        /\ dispatches' = [dispatches EXCEPT ![d] =
             [EmptyRow EXCEPT !.task = t, !.status = "dispatched", !.failures = n,
                !.terminal = p, !.minted = (how = "inject")]]
  BY DEF DispatchTask
<1> DEFINE row == [EmptyRow EXCEPT !.task = t, !.status = "dispatched", !.failures = n,
                     !.terminal = p, !.minted = (how = "inject")]
<1>2. /\ row.task = t /\ row.status = "dispatched" /\ row.host = "context"
      /\ row.failures = n /\ row.lastFailure = "none"
  BY DEF EmptyRow
<1>3. dispatches' = [dispatches EXCEPT ![d] = row]
  BY <1>1
<1> HIDE DEF row
<1>4. dispatches'[d] = row /\ \A e \in Dispatch \ {d} : dispatches'[e] = dispatches[e]
  BY <1>3 DEF TypeOK
<1> QED
  BY <1>1, <1>2, <1>4

\* The row that createStartingWorkerDispatch inserts.
LEMMA NewWorkerRow ==
  ASSUME TypeOK, NEW t, NEW host, NEW d \in Dispatch, StartWorker(t, host, d)
  PROVE /\ IsNextRow(d)
        /\ \A e \in Dispatch \ {d} : /\ dispatches'[e] = dispatches[e]
                                     /\ workers'[e] = workers[e]
                                     /\ startCall'[e] = startCall[e]
        /\ dispatches'[d].task = t
        /\ dispatches'[d].status = "pending"
        /\ dispatches'[d].host = host
        /\ dispatches'[d].terminal = NoTerminal
        /\ dispatches'[d].lastFailure = "none"
        /\ workers'[d] = "starting"
        /\ startCall'[d] = IF host = "local" THEN "topology" ELSE "attach"
<1> DEFINE row == [EmptyRow EXCEPT !.task = t, !.status = "pending", !.host = host]
<1>1. /\ row.task = t /\ row.status = "pending" /\ row.host = host
      /\ row.terminal = NoTerminal /\ row.lastFailure = "none"
  BY DEF EmptyRow
<1>2. /\ IsNextRow(d)
      /\ dispatches' = [dispatches EXCEPT ![d] = row]
  BY DEF StartWorker
<1>3. /\ workers' = [workers EXCEPT ![d] = "starting"]
      /\ startCall' = [startCall EXCEPT ![d] = IF host = "local" THEN "topology" ELSE "attach"]
  BY DEF StartWorker
<1> HIDE DEF row
<1>4. dispatches'[d] = row /\ \A e \in Dispatch \ {d} : dispatches'[e] = dispatches[e]
  BY <1>2 DEF TypeOK
<1>5. /\ workers'[d] = "starting"
      /\ startCall'[d] = IF host = "local" THEN "topology" ELSE "attach"
      /\ \A e \in Dispatch \ {d} : workers'[e] = workers[e] /\ startCall'[e] = startCall[e]
  BY <1>3 DEF TypeOK
<1> QED
  BY <1>1, <1>2, <1>4, <1>5

\* An inserted row has the task of the request or of the row it retries.
LEMMA RowsHaveTaskNext ==
  ASSUME OwnershipInv, RowsHaveTask, ConstantsAssumption, [Next]_vars PROVE RowsHaveTask'
<1>0. TypeOK
  BY DEF OwnershipInv
<1>1. ASSUME NEW t \in Task, NEW d \in Dispatch, dispatches'[d].task = t,
             \A e \in Dispatch \ {d} : dispatches'[e] = dispatches[e]
      PROVE RowsHaveTask'
  BY <1>1 DEF RowsHaveTask
<1>2. CASE KeepsRows
  BY <1>2 DEF KeepsRows, RowsHaveTask
<1>3. ASSUME NEW t \in Task, NEW p, NEW how, DispatchTask(t, p, how) PROVE RowsHaveTask'
  BY <1>0, <1>1, <1>3, NewContextRow
<1>4. ASSUME NEW t \in Task, NEW host, NEW d \in Dispatch, StartWorker(t, host, d)
      PROVE RowsHaveTask'
  <2>1. /\ dispatches'[d].task = t
        /\ \A e \in Dispatch \ {d} : dispatches'[e] = dispatches[e]
    BY <1>0, <1>4, NewWorkerRow
  <2> QED
    BY <1>1, <2>1
<1>5. CASE InsertsRow
  BY <1>3, <1>4, <1>5 DEF InsertsRow, WorkerStart, WorkerRetry, RowsHaveTask
<1> QED
  BY <1>2, <1>5, RowsNext

\* No interleaving of retries leaves a dispatch without its task.
THEOREM DispatchesHaveTasks == Spec => []RowsHaveTask
<1>1. Init => RowsHaveTask
  BY DEF Init, RowsHaveTask, EmptyRow
<1>2. OwnershipInv /\ RowsHaveTask /\ [Next]_vars => RowsHaveTask'
  BY RowsHaveTaskNext, ConstantsAssumption
<1> QED
  BY <1>1, <1>2, OwnershipInvariant, PTL DEF Spec

(***************************************************************************)
(* The capability of a local worker                                        *)
(***************************************************************************)
\* What the row of a local worker shows while its start, its prompt and its stop
\* are on their way: the terminal comes with a capability, the prompt follows
\* the terminal, and only a worker that lost its start or is being stopped is
\* without authority.
LocalFits(d) ==
  dispatches[d].host = "local" =>
    /\ dispatches[d].terminal # NoTerminal => dispatches[d].minted
    /\ startCall[d] # "attach"
    /\ workers[d] = "ready" => dispatches[d].status = "dispatched"
    /\ workers[d] = "ready" \/ (workers[d] = "starting" /\ startCall[d] = "prompt")
         => dispatches[d].terminal # NoTerminal /\ ~dispatches[d].revoked
    /\ workers[d] = "start_unknown" => dispatches[d].revoked

LocalInv == \A d \in Dispatch : LocalFits(d)

\* A step that leaves the row of d, or takes its worker out of the way of a report.
LocalQuiet(d) ==
  /\ startCall'[d] \in {startCall[d], "none"}
  /\ \/ dispatches'[d] = dispatches[d] /\ workers'[d] = workers[d]
     \/ /\ dispatches'[d].host = dispatches[d].host
        /\ dispatches'[d].terminal = dispatches[d].terminal
        /\ dispatches'[d].minted = dispatches[d].minted
        /\ workers'[d] \notin {"starting", "ready"}
        /\ workers'[d] = "start_unknown" => dispatches'[d].revoked

\* Steps that start nothing keep the invariant.
LEMMA LocalKeeps ==
  ASSUME LocalInv,
         \A d \in Dispatch : dispatches'[d].host # "local" \/ LocalQuiet(d) \/ LocalFits(d)'
  PROVE LocalInv'
<1> SUFFICES ASSUME NEW d \in Dispatch PROVE LocalFits(d)'
  BY DEF LocalInv
<1>1. LocalFits(d)
  BY DEF LocalInv
<1>2. CASE LocalQuiet(d)
  BY <1>1, <1>2 DEF LocalFits, LocalQuiet
<1>3. CASE dispatches'[d].host # "local"
  BY <1>3 DEF LocalFits
<1> QED
  BY <1>2, <1>3

\* What a settlement keeps of the rows it revokes.
LEMMA SettledRowKeeps ==
  ASSUME TypeOK, NEW D, NEW s, NEW e \in D, e \in Dispatch
  PROVE /\ SettleRows(D, s)[e].host = dispatches[e].host
        /\ SettleRows(D, s)[e].terminal = dispatches[e].terminal
        /\ SettleRows(D, s)[e].minted = dispatches[e].minted
        /\ SettleRows(D, s)[e].revoked
BY TypeRow DEF SettleRows, Row

\* A settlement of rows whose workers are not starting or running.
LEMMA LocalSettleRows ==
  ASSUME TypeOK, LocalInv, NEW D, NEW s, dispatches' = SettleRows(D, s), UNCHANGED startCall,
         \A e \in Dispatch : e \notin D => workers'[e] = workers[e],
         \A e \in D \cap Dispatch : workers'[e] \notin {"starting", "ready"} \/ LocalFits(e)'
  PROVE LocalInv'
<1>1. ASSUME NEW e \in Dispatch PROVE LocalQuiet(e) \/ LocalFits(e)'
  <2>1. CASE e \in D
    BY <2>1, SettledRowKeeps DEF LocalQuiet
  <2>2. CASE e \notin D
    <3>1. dispatches'[e] = dispatches[e] /\ workers'[e] = workers[e]
      BY <2>2 DEF SettleRows
    <3> QED
      BY <3>1 DEF LocalQuiet
  <2> QED
    BY <2>1, <2>2
<1> QED
  BY <1>1, LocalKeeps

\* One row changes.
LEMMA LocalOneRow ==
  ASSUME LocalInv, NEW d \in Dispatch,
         \A e \in Dispatch \ {d} : /\ dispatches'[e] = dispatches[e]
                                   /\ workers'[e] = workers[e]
                                   /\ startCall'[e] = startCall[e],
         dispatches'[d].host # "local" \/ LocalQuiet(d) \/ LocalFits(d)'
  PROVE LocalInv'
<1>1. \A e \in Dispatch \ {d} : LocalQuiet(e)
  BY DEF LocalQuiet
<1> QED
  BY <1>1, LocalKeeps

\* Counted failures keep what the invariant reads, and revoke.
LEMMA FailedRowLocal ==
  ASSUME TypeOK, NEW d \in Dispatch, NEW why
  PROVE /\ FailedRow(d, why).host = dispatches[d].host
        /\ FailedRow(d, why).terminal = dispatches[d].terminal
        /\ FailedRow(d, why).minted = dispatches[d].minted
        /\ FailedRow(d, why).revoked
BY TypeRow DEF FailedRow, Row

\* failDispatch ends the worker, or meets none that is alive.
LEMMA LocalFailDispatch ==
  ASSUME TypeOK, LocalInv, NEW d \in Dispatch, NEW why, NEW exited,
         FailDispatch(d, why, exited), UNCHANGED startCall
  PROVE LocalInv'
<1>1. /\ \A e \in Dispatch \ {d} : dispatches'[e] = dispatches[e] /\ workers'[e] = workers[e]
      /\ dispatches'[d] = FailedRow(d, why)
      /\ workers'[d] \notin LiveWorker
  BY DEF FailDispatch, TypeOK, LiveWorker
<1>2. LocalQuiet(d)
  BY <1>1, FailedRowLocal DEF LocalQuiet, LiveWorker
<1> QED
  BY <1>1, <1>2, LocalOneRow

\* The steps that end the dispatch of d, or the authority of its worker.
LEMMA LocalRows ==
  ASSUME TypeOK, LocalInv, NEW d \in Dispatch,
         \/ Escalate(d) \/ ReleaseContextOnly(d)
         \/ \E why \in {"stalled", "error"} : FailStart(d, why)
         \/ StartUnknown(d)
         \/ WorkerStop(d) \/ Abandon(d)
         \/ SettleStop(d) /\ UNCHANGED startCall
         \/ RecoverMissing(d)
  PROVE LocalInv'
<1>0. dispatches[d] \in Row
  BY TypeRow
<1>1. /\ \A e \in Dispatch \ {d} : /\ dispatches'[e] = dispatches[e]
                                   /\ workers'[e] = workers[e]
                                   /\ startCall'[e] = startCall[e]
      /\ startCall'[d] \in {startCall[d], "none"}
  BY DEF Escalate, ReleaseContextOnly, FailStart, StartUnknown, WorkerStop, Abandon, SettleStop,
         RecoverMissing, TypeOK, calls
<1>2. workers'[d] \notin {"starting", "ready"}
  BY DEF Escalate, ReleaseContextOnly, FailStart, StartUnknown, WorkerStop, Abandon, SettleStop,
         RecoverMissing, TypeOK, LiveWorker
<1>3. /\ dispatches'[d].host = dispatches[d].host
      /\ dispatches'[d].terminal = dispatches[d].terminal
      /\ dispatches'[d].minted = dispatches[d].minted
      /\ workers'[d] = "start_unknown" => dispatches'[d].revoked
  <2>1. CASE Escalate(d) \/ RecoverMissing(d)
    <3>1. /\ dispatches'[d] \in {dispatches[d], FailedRow(d, "error")}
          /\ workers'[d] # "start_unknown"
      BY <2>1 DEF Escalate, RecoverMissing, TypeOK, LiveWorker
    <3> QED
      BY <3>1, FailedRowLocal
  <2>2. CASE ReleaseContextOnly(d)
    BY <1>0, <2>2 DEF ReleaseContextOnly, TypeOK, Row
  <2>3. CASE \E why \in {"stalled", "error"} : FailStart(d, why)
    BY <1>0, <2>3 DEF FailStart, TypeOK, Row
  <2>4. CASE StartUnknown(d) \/ WorkerStop(d)
    <3>1. dispatches' = [dispatches EXCEPT ![d].revoked = TRUE]
      BY <2>4 DEF StartUnknown, WorkerStop
    <3> QED
      BY <1>0, <3>1 DEF TypeOK, Row
  <2>5. CASE Abandon(d)
    BY <1>0, <2>5 DEF Abandon, TypeOK, Row
  <2>6. CASE SettleStop(d)
    BY <1>0, <2>6 DEF SettleStop, TypeOK, Row
  <2> QED
    BY <2>1, <2>2, <2>3, <2>4, <2>5, <2>6
<1>4. LocalQuiet(d)
  BY <1>1, <1>2, <1>3 DEF LocalQuiet
<1> QED
  BY <1>1, <1>4, LocalOneRow

\* The writes of worker-start that keep the worker on its way: the terminal and
\* the capability come together, and the prompt is all that is left then.
LEMMA LocalStartHandler ==
  ASSUME TypeOK, LocalInv, ConstantsAssumption, NEW d \in Dispatch,
         (\E p \in Terminal : AttachAuthority(d, p)) \/ WorkerReady(d)
  PROVE LocalInv'
<1>0. dispatches[d] \in Row /\ LocalFits(d)
  BY TypeRow DEF LocalInv
<1>1. CASE \E p \in Terminal : AttachAuthority(d, p)
  <2>1. PICK p \in Terminal : AttachAuthority(d, p)
    BY <1>1
  <2> DEFINE row == [dispatches[d] EXCEPT !.terminal = p, !.minted = TRUE, !.revoked = FALSE]
  <2>2. /\ row.terminal = p /\ row.minted = TRUE /\ row.revoked = FALSE
        /\ row.status = dispatches[d].status
    BY <1>0 DEF Row
  <2>3. dispatches' = [dispatches EXCEPT ![d] = row]
    BY <2>1 DEF AttachAuthority
  <2> HIDE DEF row
  <2>4. /\ dispatches'[d] = row
        /\ \A e \in Dispatch \ {d} : /\ dispatches'[e] = dispatches[e]
                                     /\ workers'[e] = workers[e]
                                     /\ startCall'[e] = startCall[e]
        /\ workers'[d] = "starting" /\ startCall'[d] = "prompt"
    BY <2>1, <2>3 DEF AttachAuthority, Starting, TypeOK
  <2>5. p # NoTerminal
    BY DEF ConstantsAssumption
  <2>6. LocalFits(d)'
    BY <2>2, <2>4, <2>5 DEF LocalFits
  <2> QED
    BY <2>4, <2>6, LocalOneRow
<1>2. CASE WorkerReady(d)
  <2>1. /\ dispatches'[d] = [dispatches[d] EXCEPT !.status = "dispatched"]
        /\ \A e \in Dispatch \ {d} : /\ dispatches'[e] = dispatches[e]
                                     /\ workers'[e] = workers[e]
                                     /\ startCall'[e] = startCall[e]
        /\ workers'[d] = "ready" /\ startCall'[d] = "none"
        /\ workers[d] = "starting" /\ startCall[d] \in {"prompt", "attach"}
    BY <1>2 DEF WorkerReady, Starting, TypeOK
  <2>2. /\ dispatches'[d].status = "dispatched"
        /\ dispatches'[d].host = dispatches[d].host
        /\ dispatches'[d].terminal = dispatches[d].terminal
        /\ dispatches'[d].minted = dispatches[d].minted
        /\ dispatches'[d].revoked = dispatches[d].revoked
    BY <1>0, <2>1 DEF Row
  <2>3. LocalFits(d)'
    BY <1>0, <2>1, <2>2 DEF LocalFits
  <2> QED
    BY <2>1, <2>3, LocalOneRow
<1> QED
  BY <1>1, <1>2

\* What a worker server says changes the row of a remote worker only.
LEMMA LocalRemote ==
  ASSUME TypeOK, LocalInv, NEW d \in Dispatch,
         \/ \E remote \in {"ready", "failed", "stopped"} : RemoteStartReport(d, remote)
         \/ StopResumed(d)
  PROVE LocalInv'
<1>0. dispatches[d] \in Row
  BY TypeRow
<1>1. /\ \A e \in Dispatch \ {d} : /\ dispatches'[e] = dispatches[e]
                                   /\ workers'[e] = workers[e]
                                   /\ startCall'[e] = startCall[e]
      /\ dispatches[d].host = "remote"
  BY DEF RemoteStartReport, StopResumed, TypeOK, calls
<1>2. dispatches'[d].host = "remote"
  BY <1>0, <1>1 DEF RemoteStartReport, StopResumed, TypeOK, Row
<1> QED
  BY <1>1, <1>2, LocalOneRow

\* A new row: a context-only dispatch, or a worker without a terminal.
LEMMA LocalNewRow ==
  ASSUME TypeOK, LocalInv, ConstantsAssumption, InsertsRow PROVE LocalInv'
<1>1. ASSUME NEW t \in Task, NEW p, NEW how, DispatchTask(t, p, how) PROVE LocalInv'
  <2>1. PICK d \in Dispatch : /\ \A e \in Dispatch \ {d} : dispatches'[e] = dispatches[e]
                              /\ dispatches'[d].host = "context"
    BY <1>1, NewContextRow
  <2>2. UNCHANGED <<workers, startCall>>
    BY <1>1 DEF DispatchTask
  <2> QED
    BY <2>1, <2>2, LocalOneRow
<1>2. ASSUME NEW t, NEW host, NEW d \in Dispatch, StartWorker(t, host, d) PROVE LocalInv'
  <2>1. /\ \A e \in Dispatch \ {d} : /\ dispatches'[e] = dispatches[e]
                                     /\ workers'[e] = workers[e]
                                     /\ startCall'[e] = startCall[e]
        /\ dispatches'[d].host = host
        /\ dispatches'[d].terminal = NoTerminal
        /\ workers'[d] = "starting"
        /\ startCall'[d] = IF host = "local" THEN "topology" ELSE "attach"
    BY <1>2, NewWorkerRow
  <2>2. LocalFits(d)'
    BY <2>1 DEF LocalFits
  <2> QED
    BY <2>1, <2>2, LocalOneRow
<1> QED
  BY <1>1, <1>2 DEF InsertsRow, WorkerStart, WorkerRetry

\* A report ends the worker it comes from; the worker of any other row it settles
\* had ended before.
LEMMA LocalWorkerReport ==
  ASSUME TypeOK, LocalInv, StartingIsPending, NEW d \in Dispatch,
         NEW outcome \in {"succeeded", "failed"}, WorkerReport(d, outcome)
  PROVE LocalInv'
<1> DEFINE D == ActiveOn(dispatches[d].task) \cup {d}
<1>1. PICK s : dispatches' = SettleRows(D, s)
  BY DEF WorkerReport
<1>2. /\ \A e \in Dispatch \ {d} : workers'[e] = workers[e]
      /\ UNCHANGED startCall
  BY DEF WorkerReport, TypeOK, calls
<1>3. ASSUME NEW e \in D, e \in Dispatch, e # d PROVE workers'[e] \notin {"starting", "ready"}
  BY <1>2, <1>3 DEF WorkerReport, LiveActiveOn, LiveWorker
<1>4. workers'[d] \notin {"starting", "ready"} \/ LocalFits(d)'
  <2>1. workers[d] # "starting"
    BY DEF WorkerReport, ReportFits, UnobservedPrompt, StartingIsPending
  <2>2. CASE UnobservedPrompt(d) /\ workers[d] = "ready"
    <3>1. dispatches[d].host # "local"
      BY <2>2 DEF LocalInv, LocalFits, UnobservedPrompt
    <3>2. dispatches'[d].host = dispatches[d].host
      BY <1>1, SettledRowKeeps
    <3> QED
      BY <3>1, <3>2 DEF LocalFits
  <2>3. CASE ~(UnobservedPrompt(d) /\ workers[d] = "ready")
    <3>1. workers'[d] \in {workers[d], outcome}
      BY DEF WorkerReport, TypeOK
    <3>2. workers[d] = "ready" => workers'[d] = outcome
      BY <2>3 DEF WorkerReport, TypeOK
    <3> QED
      BY <2>1, <3>1, <3>2
  <2> QED
    BY <2>2, <2>3
<1>5. \A e \in Dispatch : e \notin D => workers'[e] = workers[e]
  BY <1>2
<1>6. \A e \in D \cap Dispatch : workers'[e] \notin {"starting", "ready"} \/ LocalFits(e)'
  BY <1>3, <1>4
<1> HIDE DEF D
<1> QED
  BY <1>1, <1>2, <1>5, <1>6, LocalSettleRows

\* Settlements by the coordinator or by a gate meet no live worker.
LEMMA LocalSettlesDead ==
  ASSUME TypeOK, LocalInv, NEW t, NEW s, LiveActiveOn(t) = {},
         dispatches' \in {dispatches, SettleRows(ActiveOn(t), s)},
         UNCHANGED <<workers, startCall>>
  PROVE LocalInv'
<1>1. CASE dispatches' = dispatches
  BY <1>1, LocalKeeps DEF LocalQuiet
<1>2. CASE dispatches' = SettleRows(ActiveOn(t), s)
  <2>1. \A e \in ActiveOn(t) : workers'[e] \notin {"starting", "ready"}
    BY DEF LiveActiveOn, LiveWorker
  <2> QED
    BY <1>2, <2>1, LocalSettleRows
<1> QED
  BY <1>1, <1>2

\* One case per group of actions.
LEMMA LocalNext ==
  ASSUME TypeOK, LocalInv, StartingIsPending, ConstantsAssumption, [Next]_vars
  PROVE LocalInv'
<1>0. ASSUME UNCHANGED dispatches, UNCHANGED workers,
             \A e \in Dispatch : startCall'[e] \in {startCall[e], "none"}
      PROVE LocalInv'
  BY <1>0, LocalKeeps DEF LocalQuiet
<1>1. CASE TaskStep
  <2>1. ASSUME NEW t \in Task, TaskCreate(t) PROVE LocalInv'
    BY <1>0, <2>1 DEF TaskCreate, calls
  <2>2. ASSUME NEW t \in Task, NEW s, TaskUpdate(t, s) PROVE LocalInv'
    <3>1. CASE s \in {"completed", "failed"}
      BY <2>2, <3>1, LocalSettlesDead DEF TaskUpdate, UpdatePermitted, calls
    <3>2. CASE s \notin {"completed", "failed"}
      BY <1>0, <2>2, <3>2 DEF TaskUpdate, calls
    <3> QED
      BY <3>1, <3>2
  <2> QED
    BY <1>1, <2>1, <2>2 DEF TaskStep
<1>2. CASE ContextStep
  <2>1. ASSUME NEW d \in Dispatch, NEW why, PromptSent(d) \/ PromptFailed(d, why)
        PROVE LocalInv'
    BY <1>0, <2>1, LocalFailDispatch DEF PromptSent, PromptFailed
  <2>2. ASSUME NEW t \in Task, NEW p \in Terminal, NEW how \in Injections, DispatchTask(t, p, how)
        PROVE LocalInv'
    BY <2>2, LocalNewRow DEF InsertsRow
  <2> QED
    BY <1>2, <2>1, <2>2, LocalRows DEF ContextStep
<1>3. CASE StartStep
  <2>1. ASSUME NEW d \in Dispatch, StartFenced(d) PROVE LocalInv'
    BY <1>0, <2>1 DEF StartFenced, TypeOK
  <2>2. CASE InsertsRow
    BY <2>2, LocalNewRow
  <2> QED
    BY <1>3, <2>1, <2>2, LocalStartHandler, LocalRows, LocalRemote DEF StartStep, InsertsRow
<1>4. CASE StopStep
  <2> PICK d \in Dispatch :
        \/ WorkerStop(d) \/ StopSettled(d) \/ RemoteStopReport(d) \/ StopUnknown(d)
        \/ StopResumed(d) \/ StopFenced(d) \/ Abandon(d)
    BY <1>4 DEF StopStep
  <2>1. CASE StopUnknown(d)
    <3>1. /\ UNCHANGED <<dispatches, startCall>>
          /\ \A e \in Dispatch \ {d} : workers'[e] = workers[e]
          /\ workers'[d] = "stop_unknown"
      BY <2>1 DEF StopUnknown, TypeOK
    <3> QED
      BY <3>1, LocalOneRow DEF LocalQuiet
  <2>2. CASE StopFenced(d)
    BY <1>0, <2>2 DEF StopFenced
  <2>3. CASE StopSettled(d) \/ RemoteStopReport(d)
    BY <2>3, LocalRows DEF StopSettled, RemoteStopReport, SettleStop
  <2> QED
    BY <2>1, <2>2, <2>3, LocalRows, LocalRemote
<1>5. CASE RecoveryStep
  <2>1. ASSUME NEW p \in Terminal, TerminalExit(p) PROVE LocalInv'
    BY <2>1, LocalFailDispatch DEF TerminalExit, calls
  <2>2. CASE Restart \/ \E d \in Dispatch : RecoverDone(d)
    BY <1>0, <2>2 DEF Restart, RecoverDone
  <2> QED
    BY <1>5, <2>1, <2>2, LocalRows DEF RecoveryStep
<1>6. CASE ReportStep
  <2>1. ASSUME NEW d \in Dispatch, Ask(d) \/ AnswerQuestion(d) PROVE LocalInv'
    BY <1>0, <2>1 DEF Ask, AnswerQuestion, calls
  <2> QED
    BY <1>6, <2>1, LocalWorkerReport DEF ReportStep
<1>7. CASE GateStep
  <2>1. ASSUME NEW t, NEW g, GateCreate(t, g) PROVE LocalInv'
    BY <2>1, LocalSettlesDead DEF GateCreate, calls
  <2>2. ASSUME NEW g, GateResolve(g) PROVE LocalInv'
    BY <1>0, <2>2 DEF GateResolve, calls
  <2> QED
    BY <1>7, <2>1, <2>2 DEF GateStep
<1>8. CASE UNCHANGED vars
  BY <1>0, <1>8 DEF vars, calls
<1> QED
  BY <1>1, <1>2, <1>3, <1>4, <1>5, <1>6, <1>7, <1>8 DEF Next

\* However its start raced a restart, an exit or a stop, a local worker that is
\* ready has the terminal, the capability and the dispatch it reports with.
THEOREM LocalWorkerHasCapability == Spec => []LocalInv
<1>1. Init => LocalInv
  BY DEF Init, LocalInv, LocalFits, EmptyRow
<1>2. TypeOK /\ LocalInv /\ StartingIsPending /\ [Next]_vars => LocalInv'
  BY LocalNext, ConstantsAssumption
<1> QED
  BY <1>1, <1>2, TypeCorrect, StartHoldsItsDispatch, PTL DEF Spec

(***************************************************************************)
(* The task of a live worker                                               *)
(***************************************************************************)
\* The coordinator never writes "dispatched" itself: task-update would let a task
\* whose worker is being stopped take a report again.
NoForcedDispatch == "dispatched" \notin UpdateStatuses

\* The rows that keep their dispatch: the ones of local workers, and every row
\* when the coordinator forces no status "dispatched".
Watched(d) == dispatches[d].host = "local" \/ NoForcedDispatch

\* A live worker holds its dispatch, and its task shows what it does.
HoldsTask(d) ==
  LET t == dispatches[d].task
  IN  /\ Watched(d) /\ workers[d] \in LiveWorker => Active(d)
      /\ Watched(d) /\ workers[d] \in {"starting", "ready"} => tasks[t] = "dispatched"
      /\ NoForcedDispatch /\ workers[d] \in {"start_unknown", "stopping", "stop_unknown"}
           => tasks[t] = "blocked"

HoldInv ==
  /\ \A d \in Dispatch : HoldsTask(d)
  /\ NoForcedDispatch => NoStrandedTask

\* The invariants this one rests on.
Context ==
  OwnershipInv /\ RowsHaveTask /\ StartingIsPending /\ LocalInv /\ StoppingIsRevoked

\* A watched live worker is among the live active ones of its task.
LEMMA WatchedIsActive ==
  ASSUME HoldInv, NEW d \in Dispatch, Watched(d), workers[d] \in LiveWorker
  PROVE d \in LiveActiveOn(dispatches[d].task)
BY DEF HoldInv, HoldsTask, LiveActiveOn, ActiveOn

\* One task moves, with rows of its own; dependents of it may become ready.
LEMMA HoldMoves ==
  ASSUME OwnershipInv, RowsHaveTask, HoldInv, NEW t \in Task,
         \A u \in Task \ {t} :
           tasks'[u] = tasks[u] \/ (tasks[u] = "pending" /\ tasks'[u] = "ready"),
         \A e \in Dispatch :
           \/ /\ dispatches[e].task # t
              /\ dispatches'[e] = dispatches[e] /\ workers'[e] = workers[e]
           \/ /\ dispatches[e].task = t \/ ~Active(e)
              /\ dispatches'[e].task = t /\ HoldsTask(e)',
         NoForcedDispatch /\ tasks'[t] = "dispatched"
           => \E e \in Dispatch : Active(e)' /\ dispatches'[e].task = t
  PROVE HoldInv'
<1>1. ASSUME NEW e \in Dispatch PROVE HoldsTask(e)'
  <2> SUFFICES ASSUME dispatches[e].task # t,
                      dispatches'[e] = dispatches[e], workers'[e] = workers[e]
               PROVE HoldsTask(e)'
    OBVIOUS
  <2>1. HoldsTask(e)
    BY DEF HoldInv
  <2>2. CASE Watched(e) /\ workers[e] \in LiveWorker
    <3>1. Active(e)
      BY <2>1, <2>2 DEF HoldsTask
    <3>2. dispatches[e].task \in Task
      BY <3>1 DEF RowsHaveTask, Active, ActiveStatus
    <3>3. tasks[dispatches[e].task] \in {"dispatched", "blocked"}
      BY <3>1, <3>2, WorkedIsOpen
    <3>4. tasks'[dispatches[e].task] = tasks[dispatches[e].task]
      BY <3>2, <3>3
    <3> QED
      BY <2>1, <3>4 DEF HoldsTask, Watched, Active, NoForcedDispatch
  <2>3. CASE ~(Watched(e) /\ workers[e] \in LiveWorker)
    BY <2>3 DEF HoldsTask, Watched, LiveWorker, NoForcedDispatch
  <2> QED
    BY <2>2, <2>3
<1>2. ASSUME NoForcedDispatch, NEW u \in Task, tasks'[u] = "dispatched"
      PROVE \E e \in Dispatch : Active(e)' /\ dispatches'[e].task = u
  <2>1. CASE u = t
    BY <1>2, <2>1
  <2>2. CASE u # t
    <3>1. tasks[u] = "dispatched"
      BY <1>2, <2>2
    <3>2. PICK e \in Dispatch : Active(e) /\ dispatches[e].task = u
      BY <1>2, <3>1 DEF HoldInv, NoStrandedTask, ActiveOn
    <3>3. dispatches'[e] = dispatches[e]
      BY <2>2, <3>2
    <3> QED
      BY <3>2, <3>3 DEF Active
  <2> QED
    BY <2>1, <2>2
<1>3. NoForcedDispatch => NoStrandedTask'
  BY <1>2 DEF NoStrandedTask, ActiveOn
<1> QED
  BY <1>1, <1>3 DEF HoldInv, NoForcedDispatch

\* Nothing the invariant reads changes.
LEMMA HoldSame ==
  ASSUME HoldInv, UNCHANGED <<tasks, dispatches, workers>> PROVE HoldInv'
BY DEF HoldInv, HoldsTask, Watched, NoForcedDispatch, NoStrandedTask, Active, ActiveOn

\* One row changes, and its task with it: unless the task is forced back to
\* "dispatched", nobody else works on it.
LEMMA HoldOneRow ==
  ASSUME OwnershipInv, RowsHaveTask, HoldInv, NEW d \in Dispatch, dispatches[d].status # "none",
         \A e \in Dispatch \ {d} : dispatches'[e] = dispatches[e] /\ workers'[e] = workers[e],
         dispatches'[d].task = dispatches[d].task,
         \A u \in Task \ {dispatches[d].task} : tasks'[u] = tasks[u],
         \/ tasks'[dispatches[d].task] = tasks[dispatches[d].task]
         \/ ActiveOn(dispatches[d].task) \ {d} = {}
         \/ ~NoForcedDispatch /\ tasks'[dispatches[d].task] = "dispatched",
         HoldsTask(d)',
         NoForcedDispatch /\ tasks'[dispatches[d].task] = "dispatched"
           => Active(d)' \/ (tasks[dispatches[d].task] = "dispatched" /\ ~Active(d))
  PROVE HoldInv'
<1> DEFINE t == dispatches[d].task
<1>1. t \in Task
  BY DEF RowsHaveTask
<1>2. ASSUME NEW e \in Dispatch, e # d, dispatches[e].task = t PROVE HoldsTask(e)'
  <2>1. HoldsTask(e) /\ dispatches'[e] = dispatches[e] /\ workers'[e] = workers[e]
    BY <1>2 DEF HoldInv
  <2>2. CASE tasks'[t] = tasks[t]
    BY <1>2, <2>1, <2>2 DEF HoldsTask, Watched, Active, NoForcedDispatch
  <2>3. CASE ActiveOn(t) \ {d} = {}
    <3>1. ~Active(e)
      BY <1>2, <2>3 DEF ActiveOn
    <3> QED
      BY <2>1, <3>1 DEF HoldsTask, Watched, Active, LiveWorker, NoForcedDispatch
  <2>4. CASE ~NoForcedDispatch /\ tasks'[t] = "dispatched"
    BY <1>2, <2>1, <2>4 DEF HoldsTask, Watched, Active, NoForcedDispatch
  <2> QED
    BY <2>2, <2>3, <2>4
<1>3. ASSUME NoForcedDispatch, tasks'[t] = "dispatched"
      PROVE \E e \in Dispatch : Active(e)' /\ dispatches'[e].task = t
  <2>1. CASE Active(d)'
    BY <2>1
  <2>2. CASE tasks[t] = "dispatched" /\ ~Active(d)
    <3>1. PICK e \in Dispatch : Active(e) /\ dispatches[e].task = t
      BY <1>1, <1>3, <2>2 DEF HoldInv, NoStrandedTask, ActiveOn
    <3>2. dispatches'[e] = dispatches[e]
      BY <2>2, <3>1
    <3> QED
      BY <3>1, <3>2 DEF Active
  <2> QED
    BY <1>3, <2>1, <2>2
<1>4. \A e \in Dispatch :
        \/ /\ dispatches[e].task # t
           /\ dispatches'[e] = dispatches[e] /\ workers'[e] = workers[e]
        \/ /\ dispatches[e].task = t \/ ~Active(e)
           /\ dispatches'[e].task = t /\ HoldsTask(e)'
  BY <1>2
<1> HIDE DEF t
<1> QED
  BY <1>1, <1>3, <1>4, HoldMoves DEF t

\* Ending the only active dispatch of a task, and its worker, with a task that
\* does not stay "dispatched".
LEMMA HoldEnds ==
  ASSUME OwnershipInv, RowsHaveTask, HoldInv, NEW d \in Dispatch, Active(d),
         \A e \in Dispatch \ {d} : dispatches'[e] = dispatches[e] /\ workers'[e] = workers[e],
         dispatches'[d].task = dispatches[d].task,
         workers'[d] \notin LiveWorker,
         \A u \in Task \ {dispatches[d].task} : tasks'[u] = tasks[u],
         NoForcedDispatch => tasks'[dispatches[d].task] # "dispatched"
  PROVE HoldInv'
<1>1. ActiveOn(dispatches[d].task) \ {d} = {}
  BY OwnsAlone
<1>2. HoldsTask(d)'
  BY DEF HoldsTask, LiveWorker, NoForcedDispatch
<1>3. dispatches[d].status # "none"
  BY DEF Active, ActiveStatus
<1> QED
  BY <1>1, <1>2, <1>3, HoldOneRow

\* failDispatch gives the task back, or finds it blocked.
LEMMA HoldFailDispatch ==
  ASSUME OwnershipInv, RowsHaveTask, HoldInv, NEW d \in Dispatch, NEW why, NEW exited,
         FailDispatch(d, why, exited)
  PROVE HoldInv'
<1>0. TypeOK /\ ActiveOn(dispatches[d].task) \ {d} = {}
  BY OwnsAlone DEF OwnershipInv, FailDispatch
<1>1. dispatches[d].task \in Task
  BY DEF FailDispatch, RowsHaveTask, Active, ActiveStatus
<1>2. /\ \A e \in Dispatch \ {d} : dispatches'[e] = dispatches[e] /\ workers'[e] = workers[e]
      /\ dispatches'[d] = FailedRow(d, why)
      /\ workers'[d] \notin LiveWorker
      /\ Active(d)
  BY <1>0 DEF FailDispatch, TypeOK, LiveWorker
<1>3. /\ \A u \in Task \ {dispatches[d].task} : tasks'[u] = tasks[u]
      /\ tasks'[dispatches[d].task] # "dispatched"
  BY <1>0, <1>1 DEF FailDispatch, TypeOK, SetStatus, RetryStatus
<1> QED
  BY <1>0, <1>2, <1>3, FailedRowKeeps, HoldEnds

\* An escalation and a release end a context-only dispatch.
LEMMA HoldContextEnds ==
  ASSUME OwnershipInv, RowsHaveTask, HoldInv, NEW d \in Dispatch,
         Escalate(d) \/ ReleaseContextOnly(d)
  PROVE HoldInv'
<1>0. TypeOK /\ Active(d) /\ dispatches[d] \in Row
  BY TypeRow DEF OwnershipInv, Escalate, ReleaseContextOnly
<1>1. ActiveOn(dispatches[d].task) \ {d} = {}
  BY <1>0, OwnsAlone
<1>2. dispatches[d].task \in Task
  BY <1>0 DEF RowsHaveTask, Active, ActiveStatus
<1>3. tasks[dispatches[d].task] \in {"dispatched", "blocked"}
  BY <1>0, <1>2, WorkedIsOpen
<1>4. /\ \A e \in Dispatch \ {d} : dispatches'[e] = dispatches[e] /\ workers'[e] = workers[e]
      /\ workers'[d] \notin LiveWorker
  BY <1>0 DEF Escalate, ReleaseContextOnly, TypeOK, LiveWorker
<1>5. dispatches'[d].task = dispatches[d].task
  <2>1. CASE Escalate(d)
    BY <1>0, <2>1, FailedRowKeeps DEF Escalate, TypeOK
  <2>2. CASE ReleaseContextOnly(d)
    BY <1>0, <2>2 DEF ReleaseContextOnly, TypeOK, Row
  <2> QED
    BY <2>1, <2>2
<1>6. /\ \A u \in Task \ {dispatches[d].task} : tasks'[u] = tasks[u]
      /\ tasks'[dispatches[d].task] # "dispatched"
  BY <1>0, <1>1, <1>2, <1>3 DEF Escalate, ReleaseContextOnly, TypeOK, SetStatus, RetryStatus
<1> QED
  BY <1>0, <1>4, <1>5, <1>6, HoldEnds

\* The writes of worker-start on its own dispatch, which is still pending.
LEMMA HoldStartHandler ==
  ASSUME Context, HoldInv, NEW d \in Dispatch,
         \/ \E p \in Terminal : AttachAuthority(d, p)
         \/ WorkerReady(d)
         \/ \E why \in {"stalled", "error"} : FailStart(d, why)
         \/ StartUnknown(d)
  PROVE HoldInv'
<1>0. TypeOK /\ OwnershipInv /\ RowsHaveTask /\ dispatches[d] \in Row /\ HoldsTask(d)
  BY TypeRow DEF Context, OwnershipInv, HoldInv
<1>1. workers[d] = "starting" /\ Active(d)
  BY DEF AttachAuthority, WorkerReady, FailStart, StartUnknown, Starting, Context,
         StartingIsPending, Active, ActiveStatus
<1>2. /\ ActiveOn(dispatches[d].task) \ {d} = {}
      /\ dispatches[d].status # "none" /\ dispatches[d].task \in Task
  BY <1>0, <1>1, OwnsAlone DEF RowsHaveTask, Active, ActiveStatus
<1>3. \A e \in Dispatch \ {d} : dispatches'[e] = dispatches[e] /\ workers'[e] = workers[e]
  BY <1>0 DEF AttachAuthority, WorkerReady, FailStart, StartUnknown, TypeOK
<1>4. CASE (\E p \in Terminal : AttachAuthority(d, p)) \/ WorkerReady(d)
  <2>1. /\ dispatches'[d].task = dispatches[d].task
        /\ dispatches'[d].host = dispatches[d].host
        /\ dispatches'[d].status \in ActiveStatus
        /\ workers'[d] \in {"starting", "ready"}
        /\ UNCHANGED tasks
    <3>1. CASE \E p \in Terminal : AttachAuthority(d, p)
      <4>1. PICK p \in Terminal : AttachAuthority(d, p)
        BY <3>1
      <4> DEFINE row == [dispatches[d] EXCEPT !.terminal = p, !.minted = TRUE, !.revoked = FALSE]
      <4>2. dispatches' = [dispatches EXCEPT ![d] = row]
        BY <4>1 DEF AttachAuthority
      <4>3. /\ row.task = dispatches[d].task /\ row.status = dispatches[d].status
            /\ row.host = dispatches[d].host
        BY <1>0 DEF Row
      <4> HIDE DEF row
      <4>4. dispatches'[d] = row
        BY <1>0, <4>2 DEF TypeOK
      <4> QED
        BY <1>1, <4>1, <4>3, <4>4 DEF AttachAuthority, Active
    <3>2. CASE WorkerReady(d)
      BY <1>0, <3>2 DEF WorkerReady, TypeOK, Row, ActiveStatus
    <3> QED
      BY <1>4, <3>1, <3>2
  <2>2. HoldsTask(d)'
    BY <1>0, <1>1, <2>1 DEF HoldsTask, Watched, Active, LiveWorker, NoForcedDispatch
  <2> QED
    BY <1>0, <1>2, <1>3, <2>1, <2>2, HoldOneRow DEF Active
<1>5. CASE \E why \in {"stalled", "error"} : FailStart(d, why)
  <2>1. /\ dispatches'[d].task = dispatches[d].task
        /\ workers'[d] = "failed"
        /\ tasks' = SetStatus(dispatches[d].task, "failed")
    BY <1>0, <1>2, <1>5 DEF FailStart, TypeOK, Row
  <2>2. /\ \A u \in Task \ {dispatches[d].task} : tasks'[u] = tasks[u]
        /\ tasks'[dispatches[d].task] # "dispatched"
    BY <1>0, <1>2, <2>1 DEF TypeOK, SetStatus
  <2> QED
    BY <1>0, <1>1, <1>3, <2>1, <2>2, HoldEnds DEF LiveWorker
<1>6. CASE StartUnknown(d)
  <2>1. /\ dispatches'[d].task = dispatches[d].task
        /\ dispatches'[d].status = dispatches[d].status
        /\ workers'[d] = "start_unknown"
    BY <1>0, <1>6 DEF StartUnknown, TypeOK, Row
  <2>2. /\ \A u \in Task \ {dispatches[d].task} : tasks'[u] = tasks[u]
        /\ tasks'[dispatches[d].task] = "blocked"
    BY <1>0, <1>2, <1>6 DEF StartUnknown, TypeOK, SetStatus
  <2>3. HoldsTask(d)'
    BY <1>1, <2>1, <2>2 DEF HoldsTask, Active
  <2> QED
    BY <1>0, <1>2, <1>3, <2>1, <2>2, <2>3, HoldOneRow
<1> QED
  BY <1>4, <1>5, <1>6

\* A remote worker whose dispatch was settled behind it is not watched.
LEMMA SettledIsUnwatched ==
  ASSUME HoldInv, NEW d \in Dispatch, workers[d] \in LiveWorker, ~Active(d)
  PROVE ~Watched(d) /\ ~NoForcedDispatch
BY DEF HoldInv, HoldsTask, Watched

\* A remote start answered, or a remote worker that reported while it was being
\* stopped: the task of a dispatch still active takes the report again.
LEMMA HoldRemote ==
  ASSUME Context, HoldInv, NEW d \in Dispatch,
         \/ \E remote \in {"ready", "failed", "stopped"} : RemoteStartReport(d, remote)
         \/ StopResumed(d)
  PROVE HoldInv'
<1> DEFINE t == dispatches[d].task
<1>0. TypeOK /\ OwnershipInv /\ RowsHaveTask /\ dispatches[d] \in Row
  BY TypeRow DEF Context, OwnershipInv
<1>1. /\ workers[d] \in LiveWorker
      /\ \A e \in Dispatch \ {d} : dispatches'[e] = dispatches[e] /\ workers'[e] = workers[e]
  BY <1>0 DEF RemoteStartReport, StopResumed, TypeOK, LiveWorker
<1>2. dispatches[d].status # "none" /\ t \in Task
  BY <1>0, <1>1, WorkerHasRow DEF RowsHaveTask, LiveWorker
<1>3. /\ dispatches'[d].task = t
      /\ dispatches'[d].host = dispatches[d].host
      /\ Active(d)' => Active(d)
  BY <1>0 DEF RemoteStartReport, StopResumed, TypeOK, Row, Active, ActiveStatus
<1>4. \A u \in Task \ {t} : tasks'[u] = tasks[u]
  BY <1>0 DEF RemoteStartReport, StopResumed, TypeOK, SetStatus
<1>5. CASE Active(d) /\ workers'[d] = "ready"
  <2>1. ActiveOn(t) \ {d} = {} /\ tasks[t] \in {"dispatched", "blocked"}
    BY <1>0, <1>2, <1>5, OwnsAlone, WorkedIsOpen
  <2>2. Active(d)' /\ tasks'[t] = "dispatched"
    BY <1>0, <1>2, <1>5, <2>1
    DEF RemoteStartReport, StopResumed, TypeOK, Row, Active, ActiveStatus, SetStatus
  <2>3. HoldsTask(d)'
    BY <1>3, <1>5, <2>2 DEF HoldsTask, Active
  <2> QED
    BY <1>0, <1>1, <1>2, <1>3, <1>4, <2>1, <2>2, <2>3, HoldOneRow
<1>6. CASE Active(d) /\ workers'[d] # "ready"
  <2>1. ActiveOn(t) \ {d} = {} /\ tasks[t] \in {"dispatched", "blocked"}
    BY <1>0, <1>2, <1>6, OwnsAlone, WorkedIsOpen
  <2>2. workers'[d] \in {"failed", "stopped"} /\ tasks'[t] = "failed"
    BY <1>0, <1>2, <1>6, <2>1 DEF RemoteStartReport, StopResumed, TypeOK, SetStatus
  <2> QED
    BY <1>0, <1>1, <1>3, <1>4, <1>6, <2>2, HoldEnds DEF LiveWorker
<1>7. CASE ~Active(d)
  <2>1. ~Watched(d) /\ ~NoForcedDispatch
    BY <1>1, <1>7, SettledIsUnwatched
  <2>2. HoldsTask(d)'
    BY <1>3, <2>1 DEF HoldsTask, Watched, NoForcedDispatch
  <2>3. \/ tasks'[t] \in {tasks[t], "dispatched"}
        \/ ActiveOn(t) \ {d} = {}
    BY <1>0, <1>2 DEF RemoteStartReport, StopResumed, TypeOK, SetStatus
  <2> QED
    BY <1>0, <1>1, <1>2, <1>3, <1>4, <2>1, <2>2, <2>3, HoldOneRow
<1> QED
  BY <1>5, <1>6, <1>7

\* The task of a dispatch that is alone is blocked by its interruption.
LEMMA InterruptedAlone ==
  ASSUME TypeOK, NEW d \in Dispatch, tasks' = Interrupted(d), dispatches[d].task \in Task
  PROVE /\ \A u \in Task \ {dispatches[d].task} : tasks'[u] = tasks[u]
        /\ \/ tasks'[dispatches[d].task] = tasks[dispatches[d].task]
           \/ tasks'[dispatches[d].task] \in {"dispatched", "blocked"}
        /\ ActiveOn(dispatches[d].task) \ {d} = {}
             => \/ tasks'[dispatches[d].task] = "blocked"
                \/ /\ tasks'[dispatches[d].task] = tasks[dispatches[d].task]
                   /\ tasks[dispatches[d].task] \notin {"dispatched", "blocked"}
        /\ tasks'[dispatches[d].task] \in {tasks[dispatches[d].task], "dispatched"}
             \/ ActiveOn(dispatches[d].task) \ {d} = {}
BY DEF TypeOK, Interrupted, SetStatus

\* A stop blocks the task of an active dispatch; its worker holds it until the
\* stop settles.
LEMMA HoldStops ==
  ASSUME Context, HoldInv, NEW d \in Dispatch,
         \/ WorkerStop(d)
         \/ SettleStop(d) /\ workers[d] \in {"stopping", "stop_unknown"}
  PROVE HoldInv'
<1> DEFINE t == dispatches[d].task
<1>0. TypeOK /\ OwnershipInv /\ RowsHaveTask /\ dispatches[d] \in Row
  BY TypeRow DEF Context, OwnershipInv
<1>1. /\ workers[d] \in LiveWorker
      /\ \A e \in Dispatch \ {d} : dispatches'[e] = dispatches[e] /\ workers'[e] = workers[e]
      /\ workers'[d] \in {"stopping", "stop_unknown", "stopped"}
      /\ tasks' = Interrupted(d)
  BY <1>0 DEF WorkerStop, SettleStop, TypeOK, LiveWorker
<1>2. dispatches[d].status # "none" /\ t \in Task
  BY <1>0, <1>1, WorkerHasRow DEF RowsHaveTask, LiveWorker
<1>3. /\ dispatches'[d].task = t
      /\ dispatches'[d].host = dispatches[d].host
      /\ workers'[d] # "stopped" => dispatches'[d].status = dispatches[d].status
  <2>1. CASE WorkerStop(d)
    <3>1. dispatches' = [dispatches EXCEPT ![d].revoked = TRUE]
      BY <2>1 DEF WorkerStop
    <3> QED
      BY <1>0, <3>1 DEF TypeOK, Row
  <2>2. CASE SettleStop(d)
    BY <1>0, <2>2 DEF SettleStop, TypeOK, Row
  <2> QED
    BY <2>1, <2>2
<1>4. CASE Active(d)
  <2>1. ActiveOn(t) \ {d} = {} /\ tasks[t] \in {"dispatched", "blocked"}
    BY <1>0, <1>2, <1>4, OwnsAlone, WorkedIsOpen
  <2>2. tasks'[t] = "blocked" /\ \A u \in Task \ {t} : tasks'[u] = tasks[u]
    BY <1>0, <1>1, <1>2, <2>1, InterruptedAlone
  <2>3. HoldsTask(d)'
    BY <1>1, <1>3, <1>4, <2>2 DEF HoldsTask, LiveWorker, Active
  <2> QED
    BY <1>0, <1>1, <1>2, <1>3, <2>1, <2>2, <2>3, HoldOneRow
<1>5. CASE ~Active(d)
  <2>1. ~Watched(d) /\ ~NoForcedDispatch
    BY <1>1, <1>5, SettledIsUnwatched
  <2>2. HoldsTask(d)'
    BY <1>3, <2>1 DEF HoldsTask, Watched, NoForcedDispatch
  <2> QED
    BY <1>0, <1>1, <1>2, <1>3, <2>1, <2>2, InterruptedAlone, HoldOneRow
<1> QED
  BY <1>4, <1>5

\* Abandoning the latest dispatch of a task leaves nobody on it.
LEMMA HoldAbandon ==
  ASSUME OwnershipInv, RowsHaveTask, HoldInv, NEW d \in Dispatch, Abandon(d)
  PROVE HoldInv'
<1> DEFINE t == dispatches[d].task
<1>0. TypeOK /\ dispatches[d] \in Row
  BY TypeRow DEF OwnershipInv
<1>1. /\ \A e \in Dispatch \ {d} : dispatches'[e] = dispatches[e] /\ workers'[e] = workers[e]
      /\ workers'[d] = "abandoned"
      /\ dispatches'[d].task = t
      /\ tasks' = Interrupted(d)
  BY <1>0 DEF Abandon, TypeOK, Row
<1>2. dispatches[d].status # "none" /\ t \in Task
  BY <1>0, WorkerHasRow DEF Abandon, RowsHaveTask
<1>3. ActiveOn(t) \ {d} = {}
  <2>1. ASSUME NEW e \in ActiveOn(t) PROVE e = d
    <3>1. d <= e
      BY <1>2, <2>1 DEF ActiveOn, OwnershipInv, ActiveIsLatest
    <3>2. e <= d
      BY <2>1 DEF ActiveOn, Abandon, IsLatest, RowsOf
    <3> QED
      BY <2>1, <3>1, <3>2 DEF Dispatch, ActiveOn
  <2> QED
    BY <2>1
<1>4. /\ tasks'[t] # "dispatched"
      /\ \A u \in Task \ {t} : tasks'[u] = tasks[u]
  BY <1>0, <1>1, <1>2, <1>3, InterruptedAlone
<1>5. HoldsTask(d)'
  BY <1>1 DEF HoldsTask, LiveWorker
<1> QED
  BY <1>1, <1>2, <1>3, <1>4, <1>5, HoldOneRow

\* A stop whose outcome is unknown still holds the dispatch.
LEMMA HoldStopUnknown ==
  ASSUME OwnershipInv, RowsHaveTask, HoldInv, NEW d \in Dispatch, StopUnknown(d)
  PROVE HoldInv'
<1>1. /\ \A e \in Dispatch \ {d} : dispatches'[e] = dispatches[e] /\ workers'[e] = workers[e]
      /\ UNCHANGED <<tasks, dispatches>>
      /\ workers[d] = "stopping" /\ workers'[d] = "stop_unknown"
  BY DEF StopUnknown, OwnershipInv, TypeOK
<1>2. HoldsTask(d)
  BY DEF HoldInv
<1>3. HoldsTask(d)'
  BY <1>1, <1>2 DEF HoldsTask, Watched, Active, LiveWorker, NoForcedDispatch
<1>4. dispatches[d].status # "none"
  BY <1>1, WorkerHasRow
<1> QED
  BY <1>1, <1>3, <1>4, HoldOneRow DEF Active

\* Recovery ends a worker and, if it is still active, its dispatch.
LEMMA HoldRecoverMissing ==
  ASSUME OwnershipInv, RowsHaveTask, HoldInv, NEW d \in Dispatch, RecoverMissing(d)
  PROVE HoldInv'
<1> DEFINE t == dispatches[d].task
<1>0. TypeOK /\ HoldsTask(d)
  BY DEF OwnershipInv, HoldInv
<1>1. /\ \A e \in Dispatch \ {d} : dispatches'[e] = dispatches[e] /\ workers'[e] = workers[e]
      /\ workers[d] \in LiveWorker
      /\ workers'[d] \in {"stopped", "abandoned"}
      /\ dispatches'[d] \in {dispatches[d], FailedRow(d, "error")}
      /\ \A u \in Task \ {t} : tasks'[u] = tasks[u]
  BY <1>0 DEF RecoverMissing, TypeOK, SetStatus
<1>2. dispatches[d].status # "none" /\ t \in Task
  BY <1>1, WorkerHasRow DEF RowsHaveTask, LiveWorker
<1>3. dispatches'[d].task = t
  BY <1>0, <1>1, FailedRowKeeps
<1>4. CASE Active(d)
  <2>1. ActiveOn(t) \ {d} = {} /\ tasks[t] \in {"dispatched", "blocked"}
    BY <1>2, <1>4, OwnsAlone, WorkedIsOpen
  <2>2. CASE workers[d] \in {"stopping", "stop_unknown"}
    <3>1. NoForcedDispatch => tasks'[t] # "dispatched"
      BY <1>0, <1>4, <2>2 DEF RecoverMissing, HoldsTask
    <3> QED
      BY <1>1, <1>3, <1>4, <3>1, HoldEnds DEF LiveWorker
  <2>3. CASE workers[d] \notin {"stopping", "stop_unknown"}
    <3>1. tasks'[t] = RetryStatus(d)
      BY <1>0, <1>2, <1>4, <2>1, <2>3 DEF RecoverMissing, TypeOK, SetStatus
    <3> QED
      BY <1>1, <1>3, <1>4, <3>1, HoldEnds DEF LiveWorker, RetryStatus
  <2> QED
    BY <2>2, <2>3
<1>5. CASE ~Active(d)
  <2>1. UNCHANGED tasks /\ ~NoForcedDispatch
    BY <1>1, <1>5, SettledIsUnwatched DEF RecoverMissing
  <2>2. HoldsTask(d)'
    BY <1>1 DEF HoldsTask, LiveWorker
  <2> QED
    BY <1>1, <1>2, <1>3, <2>1, <2>2, HoldOneRow
<1> QED
  BY <1>4, <1>5

\* A new row belongs to a task nobody works on.
LEMMA HoldNewRow ==
  ASSUME OwnershipInv, RowsHaveTask, HoldInv, NEW d \in Dispatch, IsNextRow(d), NEW t \in Task,
         ActiveOn(t) = {},
         \A e \in Dispatch \ {d} : dispatches'[e] = dispatches[e] /\ workers'[e] = workers[e],
         dispatches'[d].task = t, Active(d)', workers'[d] \in {"none", "starting"},
         tasks' = SetStatus(t, "dispatched")
  PROVE HoldInv'
<1>0. TypeOK
  BY DEF OwnershipInv
<1>1. tasks'[t] = "dispatched" /\ \A u \in Task \ {t} : tasks'[u] = tasks[u]
  BY <1>0 DEF TypeOK, SetStatus
<1>2. HoldsTask(d)'
  BY <1>1 DEF HoldsTask, LiveWorker
<1>3. ASSUME NEW e \in Dispatch, e # d, dispatches[e].task = t PROVE HoldsTask(e)'
  <2>1. HoldsTask(e) /\ ~Active(e) /\ dispatches'[e] = dispatches[e] /\ workers'[e] = workers[e]
    BY <1>3 DEF HoldInv, ActiveOn
  <2> QED
    BY <2>1 DEF HoldsTask, Watched, Active, LiveWorker, NoForcedDispatch
<1>4. ~Active(d)
  BY DEF IsNextRow, Active, ActiveStatus
<1>5. \A e \in Dispatch :
        \/ /\ dispatches[e].task # t
           /\ dispatches'[e] = dispatches[e] /\ workers'[e] = workers[e]
        \/ /\ dispatches[e].task = t \/ ~Active(e)
           /\ dispatches'[e].task = t /\ HoldsTask(e)'
  BY <1>2, <1>3, <1>4
<1> QED
  BY <1>1, <1>5, HoldMoves

\* The three ways a dispatch begins.
LEMMA HoldInserts ==
  ASSUME OwnershipInv, RowsHaveTask, HoldInv, InsertsRow PROVE HoldInv'
<1>0. TypeOK
  BY DEF OwnershipInv
<1>1. ASSUME NEW t \in Task, NEW p, NEW how, DispatchTask(t, p, how) PROVE HoldInv'
  <2>1. PICK d \in Dispatch : /\ IsNextRow(d)
                              /\ \A e \in Dispatch \ {d} : dispatches'[e] = dispatches[e]
                              /\ dispatches'[d].task = t
                              /\ dispatches'[d].status = "dispatched"
    BY <1>0, <1>1, NewContextRow
  <2>2. /\ ActiveOn(t) = {} /\ workers[d] = "none"
        /\ UNCHANGED workers /\ tasks' = SetStatus(t, "dispatched")
    BY <1>1, <2>1 DEF DispatchTask, OwnershipInv, ActiveOnlyWhileWorked, RowsContiguous, IsNextRow
  <2> QED
    BY <2>1, <2>2, HoldNewRow DEF Active, ActiveStatus
<1>2. ASSUME NEW t \in Task, NEW host, NEW d \in Dispatch, StartWorker(t, host, d),
             ActiveOn(t) = {}
      PROVE HoldInv'
  <2>1. /\ IsNextRow(d)
        /\ \A e \in Dispatch \ {d} : dispatches'[e] = dispatches[e] /\ workers'[e] = workers[e]
        /\ dispatches'[d].task = t
        /\ dispatches'[d].status = "pending"
        /\ workers'[d] = "starting"
    BY <1>0, <1>2, NewWorkerRow
  <2>2. tasks' = SetStatus(t, "dispatched")
    BY <1>2 DEF StartWorker
  <2> QED
    BY <1>2, <2>1, <2>2, HoldNewRow DEF Active, ActiveStatus
<1>3. ASSUME NEW t \in Task, NEW host, WorkerStart(t, host) PROVE HoldInv'
  <2>1. ActiveOn(t) = {}
    BY <1>3 DEF WorkerStart, OwnershipInv, ActiveOnlyWhileWorked
  <2> QED
    BY <1>2, <1>3, <2>1 DEF WorkerStart
<1>4. ASSUME NEW r \in Dispatch, NEW host, WorkerRetry(r, host) PROVE HoldInv'
  <2>1. ActiveOn(dispatches[r].task) = {} /\ dispatches[r].task \in Task
    BY <1>4, RetryFindsTaskFree DEF WorkerRetry, Retryable, DeadWorker, RowsHaveTask
  <2> QED
    BY <1>2, <1>4, <2>1 DEF WorkerRetry
<1> QED
  BY <1>1, <1>3, <1>4 DEF InsertsRow

\* EndTask ends its task and promotes pending ones.
LEMMA EndTaskMoves ==
  ASSUME TypeOK, NEW t \in Task, NEW s \in TaskStatus
  PROVE \A u \in Task \ {t} :
          \/ EndTask(t, s)[u] = tasks[u]
          \/ tasks[u] = "pending" /\ EndTask(t, s)[u] = "ready"
BY DEF TypeOK, EndTask, Promote, SetStatus

\* A task moves, and the rows of it that are settled have no watched live worker.
LEMMA HoldSettles ==
  ASSUME OwnershipInv, RowsHaveTask, HoldInv, NEW t \in Task, NEW D, NEW s,
         \A e \in D : e \in Dispatch /\ dispatches[e].task = t /\ dispatches[e].status # "none",
         ActiveOn(t) \subseteq D,
         s \in {"completed", "failed"},
         dispatches' = SettleRows(D, s),
         \A e \in Dispatch : e \notin D => workers'[e] = workers[e],
         \A e \in D : Watched(e) => workers'[e] \notin LiveWorker,
         \A u \in Task \ {t} :
           tasks'[u] = tasks[u] \/ (tasks[u] = "pending" /\ tasks'[u] = "ready"),
         tasks'[t] # "dispatched"
  PROVE HoldInv'
<1>0. TypeOK
  BY DEF OwnershipInv
<1>1. ASSUME NEW e \in Dispatch, dispatches[e].task = t
      PROVE dispatches'[e].task = t /\ HoldsTask(e)'
  <2>1. CASE e \in D
    <3>1. /\ dispatches'[e].task = t
          /\ dispatches'[e].host = dispatches[e].host
      BY <1>0, <1>1, <2>1, SettleRowsEffect, SettledRowKeeps
    <3> QED
      BY <2>1, <3>1 DEF HoldsTask, Watched, LiveWorker, NoForcedDispatch
  <2>2. CASE e \notin D
    <3>1. HoldsTask(e) /\ ~Active(e) /\ dispatches'[e] = dispatches[e] /\ workers'[e] = workers[e]
      BY <1>0, <1>1, <2>2, SettleRowsEffect DEF HoldInv, ActiveOn
    <3> QED
      BY <1>1, <3>1 DEF HoldsTask, Watched, Active, LiveWorker, NoForcedDispatch
  <2> QED
    BY <2>1, <2>2
<1>2. ASSUME NEW e \in Dispatch, dispatches[e].task # t
      PROVE dispatches'[e] = dispatches[e] /\ workers'[e] = workers[e]
  BY <1>0, <1>2, SettleRowsEffect
<1>3. \A e \in Dispatch :
        \/ /\ dispatches[e].task # t
           /\ dispatches'[e] = dispatches[e] /\ workers'[e] = workers[e]
        \/ /\ dispatches[e].task = t \/ ~Active(e)
           /\ dispatches'[e].task = t /\ HoldsTask(e)'
  BY <1>1, <1>2
<1> QED
  BY <1>3, HoldMoves

\* A watched worker that may report is ready: before that its dispatch is
\* pending, and after that it has lost its authority or its task is blocked.
LEMMA ReporterIsReady ==
  ASSUME Context, HoldInv, NEW d \in Dispatch, Watched(d), workers[d] \in LiveWorker,
         MayReport(d), ReportFits(d)
  PROVE workers[d] = "ready" /\ ~UnobservedPrompt(d)
<1>0. HoldsTask(d) /\ Active(d)
  BY DEF HoldInv, HoldsTask
<1>1. ~UnobservedPrompt(d)
  BY <1>0 DEF UnobservedPrompt, Active, ActiveStatus
<1>2. dispatches[d].status = "dispatched" /\ tasks[dispatches[d].task] = "dispatched"
  BY <1>1 DEF ReportFits
<1>3. workers[d] # "starting"
  BY <1>2 DEF Context, StartingIsPending
<1>4. CASE NoForcedDispatch
  BY <1>0, <1>1, <1>2, <1>3, <1>4 DEF HoldsTask, LiveWorker
<1>5. CASE dispatches[d].host = "local"
  <2>1. ~dispatches[d].revoked
    BY <1>5 DEF Context, LocalInv, LocalFits, MayReport
  <2>2. workers[d] \notin {"start_unknown", "stopping", "stop_unknown"}
    BY <1>5, <2>1 DEF Context, LocalInv, LocalFits, StoppingIsRevoked
  <2> QED
    BY <1>1, <1>3, <2>2 DEF LiveWorker
<1> QED
  BY <1>1, <1>4, <1>5 DEF Watched

\* A report ends the task, its dispatch and the worker that sent it.
LEMMA HoldWorkerReport ==
  ASSUME Context, HoldInv, NEW d \in Dispatch, NEW outcome \in {"succeeded", "failed"},
         WorkerReport(d, outcome)
  PROVE HoldInv'
<1> DEFINE t == dispatches[d].task
           D == ActiveOn(t) \cup {d}
           s == IF outcome = "succeeded" THEN "completed" ELSE "failed"
<1>0. TypeOK /\ OwnershipInv /\ RowsHaveTask
  BY DEF Context, OwnershipInv
<1>1. /\ t \in Task /\ s \in {"completed", "failed"} /\ s \in TaskStatus
      /\ dispatches' = SettleRows(D, s)
      /\ tasks' = EndTask(t, s)
  BY <1>0 DEF WorkerReport, RowsHaveTask, TaskStatus
<1>2. \A e \in D : e \in Dispatch /\ dispatches[e].task = t /\ dispatches[e].status # "none"
  BY DEF ActiveOn, Active, ActiveStatus, WorkerReport
<1>3. \A e \in Dispatch \ {d} : workers'[e] = workers[e]
  BY <1>0 DEF WorkerReport, TypeOK
<1>4. ASSUME NEW e \in D, Watched(e) PROVE workers'[e] \notin LiveWorker
  <2>1. CASE e # d
    BY <1>3, <2>1 DEF WorkerReport, LiveActiveOn, ActiveOn
  <2>2. CASE e = d /\ workers[d] \in LiveWorker
    <3>1. workers[d] = "ready" /\ ~UnobservedPrompt(d)
      BY <1>4, <2>2, ReporterIsReady DEF WorkerReport
    <3>2. workers'[d] = outcome
      BY <1>0, <3>1 DEF WorkerReport, TypeOK
    <3> QED
      BY <2>2, <3>2 DEF LiveWorker
  <2>3. CASE e = d /\ workers[d] \notin LiveWorker
    <3>1. workers'[d] \in {workers[d], outcome}
      BY <1>0 DEF WorkerReport, TypeOK
    <3> QED
      BY <2>3, <3>1 DEF LiveWorker
  <2> QED
    BY <2>1, <2>2, <2>3
<1>5. /\ tasks'[t] # "dispatched"
      /\ \A u \in Task \ {t} :
           tasks'[u] = tasks[u] \/ (tasks[u] = "pending" /\ tasks'[u] = "ready")
  BY <1>0, <1>1, EndTaskSets, EndTaskMoves
<1>6. \A e \in Dispatch : e \notin D => workers'[e] = workers[e]
  BY <1>3
<1>7. ActiveOn(t) \subseteq D
  OBVIOUS
<1> HIDE DEF D, s, t
<1> QED
  BY <1>0, <1>1, <1>2, <1>4, <1>5, <1>6, <1>7, HoldSettles

\* A task that nobody works on moves, or is forced to "dispatched".
LEMMA HoldIdle ==
  ASSUME OwnershipInv, RowsHaveTask, HoldInv, NEW t \in Task,
         UNCHANGED <<dispatches, workers>>,
         \A u \in Task \ {t} :
           tasks'[u] = tasks[u] \/ (tasks[u] = "pending" /\ tasks'[u] = "ready"),
         \/ ActiveOn(t) = {} /\ tasks'[t] # "dispatched"
         \/ ~NoForcedDispatch /\ tasks'[t] = "dispatched"
  PROVE HoldInv'
<1>1. ASSUME NEW e \in Dispatch, dispatches[e].task = t PROVE HoldsTask(e)'
  <2>1. HoldsTask(e)
    BY DEF HoldInv
  <2>2. CASE ~NoForcedDispatch /\ tasks'[t] = "dispatched"
    BY <1>1, <2>1, <2>2 DEF HoldsTask, Watched, Active, NoForcedDispatch
  <2>3. CASE ActiveOn(t) = {}
    <3>1. ~Active(e)
      BY <1>1, <2>3 DEF ActiveOn
    <3> QED
      BY <2>1, <3>1 DEF HoldsTask, Watched, Active, LiveWorker, NoForcedDispatch
  <2> QED
    BY <2>2, <2>3
<1>2. \A e \in Dispatch :
        \/ /\ dispatches[e].task # t
           /\ dispatches'[e] = dispatches[e] /\ workers'[e] = workers[e]
        \/ /\ dispatches[e].task = t \/ ~Active(e)
           /\ dispatches'[e].task = t /\ HoldsTask(e)'
  BY <1>1
<1> QED
  BY <1>2, HoldMoves

\* Tasks and gates: the guard of updateTaskStatus spares live workers.
LEMMA HoldCoordinator ==
  ASSUME OwnershipInv, RowsHaveTask, HoldInv, ConstantsAssumption, TaskStep \/ GateStep
  PROVE HoldInv'
<1>0. TypeOK
  BY DEF OwnershipInv
<1>1. ASSUME NEW t \in Task, TaskCreate(t) PROVE HoldInv'
  <2>1. ActiveOn(t) = {}
    BY <1>1 DEF TaskCreate, OwnershipInv, ActiveOnlyWhileWorked
  <2>2. /\ UNCHANGED <<dispatches, workers>>
        /\ \A u \in Task \ {t} : tasks'[u] = tasks[u]
        /\ tasks'[t] # "dispatched"
    BY <1>0, <1>1 DEF TaskCreate, TypeOK, SetStatus
  <2> QED
    BY <2>1, <2>2, HoldIdle
<1>2. ASSUME NEW t \in Task, NEW s \in {"completed", "failed"}, LiveActiveOn(t) = {},
             dispatches' = SettleRows(ActiveOn(t), s), UNCHANGED workers,
             \A u \in Task \ {t} :
               tasks'[u] = tasks[u] \/ (tasks[u] = "pending" /\ tasks'[u] = "ready"),
             tasks'[t] # "dispatched"
      PROVE HoldInv'
  <2>1. \A e \in ActiveOn(t) :
          e \in Dispatch /\ dispatches[e].task = t /\ dispatches[e].status # "none"
    BY DEF ActiveOn, Active, ActiveStatus
  <2>2. \A e \in ActiveOn(t) : workers'[e] \notin LiveWorker
    BY <1>2 DEF LiveActiveOn
  <2> QED
    BY <1>2, <2>1, <2>2, HoldSettles
<1>3. ASSUME NEW t \in Task, NEW s \in UpdateStatuses, TaskUpdate(t, s) PROVE HoldInv'
  <2>1. s \in TaskStatus /\ tasks' = EndTask(t, s) /\ UNCHANGED workers
    BY <1>3 DEF TaskUpdate, ConstantsAssumption
  <2>2. /\ tasks'[t] = s
        /\ \A u \in Task \ {t} :
             tasks'[u] = tasks[u] \/ (tasks[u] = "pending" /\ tasks'[u] = "ready")
    BY <1>0, <2>1, EndTaskSets, EndTaskMoves
  <2>3. CASE s \in {"completed", "failed"}
    BY <1>2, <1>3, <2>1, <2>2, <2>3 DEF TaskUpdate, UpdatePermitted
  <2>4. CASE s \notin {"completed", "failed"}
    <3>1. UNCHANGED dispatches
      BY <1>3, <2>4 DEF TaskUpdate
    <3>2. s = "dispatched" => ~NoForcedDispatch
      BY DEF NoForcedDispatch
    <3>3. s # "dispatched" => ActiveOn(t) = {}
      BY <1>3, <2>4 DEF TaskUpdate, UpdatePermitted
    <3> QED
      BY <2>1, <2>2, <3>1, <3>2, <3>3, HoldIdle
  <2> QED
    BY <2>3, <2>4
<1>4. ASSUME NEW t \in Task, NEW g, GateCreate(t, g) PROVE HoldInv'
  <2>1. /\ \A u \in Task \ {t} : tasks'[u] = tasks[u]
        /\ tasks'[t] = "blocked"
    BY <1>0, <1>4 DEF GateCreate, TypeOK, SetStatus
  <2> QED
    BY <1>2, <1>4, <2>1 DEF GateCreate
<1>5. ASSUME NEW g \in Gate, GateResolve(g) PROVE HoldInv'
  <2>1. UNCHANGED <<dispatches, workers>> /\ ActiveOn(gates[g].task) = {}
    BY <1>5 DEF GateResolve, UpdatePermitted
  <2>2. CASE gates[g].task \in Task
    <3>1. /\ \A u \in Task \ {gates[g].task} : tasks'[u] = tasks[u]
          /\ tasks'[gates[g].task] = "ready"
      BY <1>0, <1>5, <2>2 DEF GateResolve, TypeOK, SetStatus
    <3> QED
      BY <2>1, <2>2, <3>1, HoldIdle
  <2>3. CASE gates[g].task \notin Task
    <3>1. UNCHANGED tasks
      BY <1>0, <1>5, <2>3 DEF GateResolve, TypeOK, SetStatus
    <3> QED
      BY <2>1, <3>1, HoldSame
  <2> QED
    BY <2>2, <2>3
<1> QED
  BY <1>1, <1>3, <1>4, <1>5 DEF TaskStep, GateStep

\* One case per group of actions.
LEMMA HoldNext ==
  ASSUME Context, HoldInv, ConstantsAssumption, [Next]_vars PROVE HoldInv'
<1>0. OwnershipInv /\ RowsHaveTask
  BY DEF Context
<1>1. CASE TaskStep \/ GateStep
  BY <1>0, <1>1, HoldCoordinator
<1>2. CASE ContextStep
  <2>1. ASSUME NEW d \in Dispatch, NEW why, PromptSent(d) \/ PromptFailed(d, why)
        PROVE HoldInv'
    BY <1>0, <2>1, HoldSame, HoldFailDispatch DEF PromptSent, PromptFailed
  <2>2. CASE InsertsRow
    BY <1>0, <2>2, HoldInserts
  <2> QED
    BY <1>0, <1>2, <2>1, <2>2, HoldContextEnds DEF ContextStep, InsertsRow
<1>3. CASE StartStep
  <2>1. ASSUME NEW d \in Dispatch, StartFenced(d) PROVE HoldInv'
    BY <2>1, HoldSame DEF StartFenced
  <2>2. CASE InsertsRow
    BY <1>0, <2>2, HoldInserts
  <2> QED
    BY <1>3, <2>1, <2>2, HoldStartHandler, HoldRemote DEF StartStep, InsertsRow
<1>4. CASE StopStep
  <2> PICK d \in Dispatch :
        \/ WorkerStop(d) \/ StopSettled(d) \/ RemoteStopReport(d) \/ StopUnknown(d)
        \/ StopResumed(d) \/ StopFenced(d) \/ Abandon(d)
    BY <1>4 DEF StopStep
  <2>1. CASE StopSettled(d) \/ RemoteStopReport(d)
    BY <2>1, HoldStops DEF StopSettled, RemoteStopReport
  <2>2. CASE StopFenced(d)
    BY <2>2, HoldSame DEF StopFenced
  <2> QED
    BY <1>0, <2>1, <2>2, HoldStops, HoldStopUnknown, HoldRemote, HoldAbandon
<1>5. CASE RecoveryStep
  <2>1. ASSUME NEW p \in Terminal, TerminalExit(p) PROVE HoldInv'
    BY <1>0, <2>1, HoldFailDispatch DEF TerminalExit
  <2>2. CASE Restart \/ \E d \in Dispatch : RecoverDone(d)
    BY <2>2, HoldSame DEF Restart, RecoverDone
  <2> QED
    BY <1>0, <1>5, <2>1, <2>2, HoldRecoverMissing DEF RecoveryStep
<1>6. CASE ReportStep
  <2>1. ASSUME NEW d \in Dispatch, Ask(d) \/ AnswerQuestion(d) PROVE HoldInv'
    BY <2>1, HoldSame DEF Ask, AnswerQuestion
  <2> QED
    BY <1>6, <2>1, HoldWorkerReport DEF ReportStep
<1>7. CASE UNCHANGED vars
  BY <1>7, HoldSame DEF vars
<1> QED
  BY <1>1, <1>2, <1>3, <1>4, <1>5, <1>6, <1>7 DEF Next

\* The invariants of the other modules, together.
LEMMA ContextHolds == Spec => []Context
<1>1. OwnershipInv /\ RowsHaveTask /\ StartingIsPending /\ LocalInv /\ AuthorityInv => Context
  BY DEF Context, AuthorityInv
<1> QED
  BY <1>1, OwnershipInvariant, DispatchesHaveTasks, StartHoldsItsDispatch,
     LocalWorkerHasCapability, AuthorityInvariant, PTL

\* A live worker holds its dispatch and the status of its task, through every
\* interleaving of handlers, exits, recoveries, reports and coordinator decisions.
THEOREM LiveWorkerHoldsTask == Spec => []HoldInv
<1>1. Init => HoldInv
  BY DEF Init, HoldInv, HoldsTask, LiveWorker, NoStrandedTask
<1>2. Context /\ HoldInv /\ [Next]_vars => HoldInv'
  BY HoldNext, ConstantsAssumption
<1> QED
  BY <1>1, <1>2, ContextHolds, PTL DEF Spec

\* A local worker the store calls ready has a valid capability, an active
\* dispatch and a task that waits for its report.
THEOREM ReadyWorkersCanReport == Spec => []ReadyWorkerCanReport
<1>1. LocalInv /\ HoldInv => ReadyWorkerCanReport
  BY DEF LocalInv, LocalFits, HoldInv, HoldsTask, Watched, LiveWorker, MayReport,
         ReadyWorkerCanReport
<1> QED
  BY <1>1, LocalWorkerHasCapability, LiveWorkerHoldsTask, PTL

\* While the coordinator forces no task to "dispatched", nothing settles the
\* dispatch of a worker that is starting, running or stopping, local or remote.
THEOREM LiveWorkersKeepDispatch ==
  ASSUME "dispatched" \notin UpdateStatuses PROVE Spec => []LiveWorkerKeepsDispatch
<1>1. HoldInv => LiveWorkerKeepsDispatch
  BY DEF HoldInv, HoldsTask, Watched, NoForcedDispatch, LiveWorkerKeepsDispatch
<1> QED
  BY <1>1, LiveWorkerHoldsTask, PTL

\* While the coordinator forces no task to "dispatched", every path that settles
\* the last dispatch of a task moves the task too.
THEOREM TasksNotStranded ==
  ASSUME "dispatched" \notin UpdateStatuses PROVE Spec => []NoStrandedTask
<1>1. HoldInv => NoStrandedTask
  BY DEF HoldInv, NoForcedDispatch
<1> QED
  BY <1>1, LiveWorkerHoldsTask, PTL

(***************************************************************************)
(* Questions of settled workers                                            *)
(***************************************************************************)
\* A local worker that succeeded, stopped or was abandoned, or that is being
\* stopped, has no pending question: settling the stop closes none any more.
QuestionInv ==
  \A d \in questions :
    dispatches[d].host = "local" =>
      workers[d] \notin {"succeeded", "stopped", "abandoned", "stopping", "stop_unknown"}

\* Who may have a pending question after a step.
LEMMA QuestionKeeps ==
  ASSUME QuestionInv,
         \A d \in questions' :
           \/ dispatches'[d].host # "local"
           \/ workers'[d] \notin {"succeeded", "stopped", "abandoned", "stopping", "stop_unknown"}
           \/ /\ d \in questions /\ dispatches'[d].host = dispatches[d].host
              /\ workers'[d] = workers[d]
  PROVE QuestionInv'
BY DEF QuestionInv

\* The host of a row is written once, when the row is inserted.
LEMMA HostKept ==
  ASSUME TypeOK, [Next]_vars, ~InsertsRow
  PROVE \A d \in Dispatch : dispatches'[d].host = dispatches[d].host
<1>1. ASSUME NEW D, NEW s, dispatches' = SettleRows(D, s), NEW d \in Dispatch
      PROVE dispatches'[d].host = dispatches[d].host
  <2>1. CASE d \in D
    BY <1>1, <2>1, SettledRowKeeps
  <2>2. CASE d \notin D
    BY <1>1, <2>2 DEF SettleRows
  <2> QED
    BY <2>1, <2>2
<1>2. ASSUME NEW e \in Dispatch, NEW why,
             dispatches' = [dispatches EXCEPT ![e] = FailedRow(e, why)], NEW d \in Dispatch
      PROVE dispatches'[d].host = dispatches[d].host
  BY <1>2, FailedRowLocal DEF TypeOK
<1>3. CASE TaskStep \/ GateStep \/ ReportStep
  <2>1. \/ UNCHANGED dispatches
        \/ \E D, s : dispatches' = SettleRows(D, s)
    BY <1>3 DEF TaskStep, TaskCreate, TaskUpdate, GateStep, GateCreate, GateResolve,
                ReportStep, WorkerReport, Ask, AnswerQuestion
  <2> QED
    BY <1>1, <2>1
<1>4. ASSUME NEW d \in Dispatch, NEW why, NEW exited,
             FailDispatch(d, why, exited) \/ Escalate(d) \/ RecoverMissing(d)
      PROVE \A e \in Dispatch : dispatches'[e].host = dispatches[e].host
  BY <1>2, <1>4 DEF FailDispatch, Escalate, RecoverMissing
<1>5. ASSUME NEW d \in Dispatch,
             \/ ReleaseContextOnly(d)
             \/ \E p \in Terminal : AttachAuthority(d, p)
             \/ WorkerReady(d)
             \/ \E why \in {"stalled", "error"} : FailStart(d, why)
             \/ StartUnknown(d)
             \/ \E remote \in {"ready", "failed", "stopped"} : RemoteStartReport(d, remote)
             \/ WorkerStop(d) \/ SettleStop(d) \/ Abandon(d)
      PROVE \A e \in Dispatch : dispatches'[e].host = dispatches[e].host
  <2>1. dispatches[d] \in Row
    BY TypeRow
  <2>2. CASE ReleaseContextOnly(d) \/ Abandon(d)
    BY <2>1, <2>2 DEF ReleaseContextOnly, Abandon, TypeOK, Row
  <2>3. CASE (\E p \in Terminal : AttachAuthority(d, p)) \/ WorkerReady(d)
    <3>1. CASE \E p \in Terminal : AttachAuthority(d, p)
      <4>1. PICK p \in Terminal : AttachAuthority(d, p)
        BY <3>1
      <4> DEFINE row == [dispatches[d] EXCEPT !.terminal = p, !.minted = TRUE, !.revoked = FALSE]
      <4>2. dispatches' = [dispatches EXCEPT ![d] = row]
        BY <4>1 DEF AttachAuthority
      <4>3. row.host = dispatches[d].host
        BY <2>1 DEF Row
      <4> HIDE DEF row
      <4> QED
        BY <4>2, <4>3 DEF TypeOK
    <3>2. CASE WorkerReady(d)
      BY <2>1, <3>2 DEF WorkerReady, TypeOK, Row
    <3> QED
      BY <2>3, <3>1, <3>2
  <2>4. CASE (\E why \in {"stalled", "error"} : FailStart(d, why)) \/ SettleStop(d)
    BY <2>1, <2>4 DEF FailStart, SettleStop, TypeOK, Row
  <2>5. CASE StartUnknown(d) \/ WorkerStop(d)
    <3>1. dispatches' = [dispatches EXCEPT ![d].revoked = TRUE]
      BY <2>5 DEF StartUnknown, WorkerStop
    <3> QED
      BY <2>1, <3>1 DEF TypeOK, Row
  <2>6. CASE \E remote \in {"ready", "failed", "stopped"} : RemoteStartReport(d, remote)
    BY <2>1, <2>6 DEF RemoteStartReport, TypeOK, Row
  <2> QED
    BY <1>5, <2>2, <2>3, <2>4, <2>5, <2>6
<1>6. CASE ContextStep \/ RecoveryStep
  <2>1. CASE ContextStep
    BY <1>4, <1>5, <2>1 DEF ContextStep, InsertsRow, PromptSent, PromptFailed
  <2>2. CASE RecoveryStep
    BY <1>4, <2>2 DEF RecoveryStep, TerminalExit, Restart, RecoverDone
  <2> QED
    BY <1>6, <2>1, <2>2
<1>7. CASE StartStep
  BY <1>5, <1>7 DEF StartStep, InsertsRow, StartFenced
<1>8. CASE StopStep
  BY <1>5, <1>8 DEF StopStep, StopSettled, RemoteStopReport, StopUnknown, StopResumed, StopFenced
<1>9. CASE UNCHANGED vars
  BY <1>9 DEF vars
<1> QED
  BY <1>3, <1>6, <1>7, <1>8, <1>9 DEF Next

\* A local worker that may ask is neither settled nor being stopped.
LEMMA AskerIsWorking ==
  ASSUME Context, NEW d \in Dispatch, dispatches[d].host = "local", Ask(d)
  PROVE workers[d] \notin {"succeeded", "stopped", "abandoned", "stopping", "stop_unknown"}
<1>1. Active(d) /\ MayReport(d)
  BY DEF Ask
<1>2. workers[d] \notin {"succeeded", "stopped", "abandoned"}
  BY <1>1 DEF Context, OwnershipInv, DeadWorkerReleased, DeadWorker
<1>3. ~dispatches[d].revoked
  BY <1>1 DEF MayReport, Context, LocalInv, LocalFits
<1> QED
  BY <1>2, <1>3 DEF Context, StoppingIsRevoked

\* The steps that move one worker.
LEMMA QuestionRows ==
  ASSUME Context, HoldInv, QuestionInv, NEW d \in Dispatch,
         \A e \in Dispatch : dispatches'[e].host = dispatches[e].host,
         \/ \E why, exited : FailDispatch(d, why, exited) /\ UNCHANGED questions
         \/ \E why \in {"stalled", "error"} : FailStart(d, why)
         \/ StartUnknown(d) \/ WorkerReady(d)
         \/ \E remote \in {"ready", "failed", "stopped"} : RemoteStartReport(d, remote)
         \/ WorkerStop(d) \/ Abandon(d) \/ StopUnknown(d) \/ StopResumed(d)
         \/ SettleStop(d) /\ workers[d] \in {"stopping", "stop_unknown"}
         \/ RecoverMissing(d)
         \/ \E outcome \in {"succeeded", "failed"} : WorkerReport(d, outcome)
  PROVE QuestionInv'
<1>0. TypeOK
  BY DEF Context, OwnershipInv
<1>1. \A e \in Dispatch \ {d} : workers'[e] = workers[e]
  BY <1>0 DEF FailDispatch, FailStart, StartUnknown, WorkerReady, RemoteStartReport, WorkerStop,
              Abandon, StopUnknown, StopResumed, SettleStop, RecoverMissing, WorkerReport, TypeOK
<1>2. questions' \subseteq questions
  BY DEF FailDispatch, FailStart, StartUnknown, WorkerReady, RemoteStartReport, WorkerStop,
         Abandon, StopUnknown, StopResumed, SettleStop, RecoverMissing, WorkerReport
<1>3. questions \subseteq Dispatch
  BY <1>0 DEF TypeOK
<1>4. ASSUME d \in questions', dispatches[d].host = "local"
      PROVE \/ workers'[d] = workers[d]
            \/ workers'[d] \notin {"succeeded", "stopped", "abandoned", "stopping", "stop_unknown"}
  <2>1. CASE \/ \E why, exited : FailDispatch(d, why, exited)
             \/ \E why \in {"stalled", "error"} : FailStart(d, why)
             \/ StartUnknown(d) \/ WorkerReady(d) \/ StopResumed(d)
    BY <1>0, <2>1 DEF FailDispatch, FailStart, StartUnknown, WorkerReady, StopResumed, TypeOK
  <2>2. CASE \E remote \in {"ready", "failed", "stopped"} : RemoteStartReport(d, remote)
    BY <1>4, <2>2 DEF RemoteStartReport
  <2>3. CASE \/ WorkerStop(d) \/ Abandon(d)
             \/ \E outcome \in {"succeeded", "failed"} : WorkerReport(d, outcome)
    BY <1>4, <2>3 DEF WorkerStop, Abandon, WorkerReport
  <2>4. CASE \/ StopUnknown(d)
             \/ SettleStop(d) /\ workers[d] \in {"stopping", "stop_unknown"}
    BY <1>2, <1>4, <2>4 DEF StopUnknown, QuestionInv
  <2>5. CASE RecoverMissing(d)
    <3>1. Active(d)
      BY <1>4, <2>5 DEF RecoverMissing, HoldInv, HoldsTask, Watched
    <3> QED
      BY <1>4, <2>5, <3>1 DEF RecoverMissing
  <2> QED
    BY <2>1, <2>2, <2>3, <2>4, <2>5
<1> QED
  BY <1>1, <1>2, <1>3, <1>4, QuestionKeeps

\* One case per group of actions.
LEMMA QuestionNext ==
  ASSUME Context, HoldInv, QuestionInv, [Next]_vars PROVE QuestionInv'
<1>0. TypeOK /\ questions \subseteq Dispatch
  BY DEF Context, OwnershipInv, TypeOK
<1>1. CASE InsertsRow
  <2>1. ASSUME NEW t \in Task, NEW p, NEW how, DispatchTask(t, p, how) PROVE QuestionInv'
    <3>1. PICK d \in Dispatch : /\ \A e \in Dispatch \ {d} : dispatches'[e] = dispatches[e]
                                /\ dispatches'[d].host = "context"
      BY <1>0, <2>1, NewContextRow
    <3>2. UNCHANGED <<workers, questions>>
      BY <2>1 DEF DispatchTask
    <3> QED
      BY <1>0, <3>1, <3>2, QuestionKeeps
  <2>2. ASSUME NEW t, NEW host, NEW d \in Dispatch, StartWorker(t, host, d) PROVE QuestionInv'
    <3>1. /\ \A e \in Dispatch \ {d} : dispatches'[e] = dispatches[e] /\ workers'[e] = workers[e]
          /\ workers'[d] = "starting"
      BY <1>0, <2>2, NewWorkerRow
    <3>2. UNCHANGED questions
      BY <2>2 DEF StartWorker
    <3> QED
      BY <1>0, <3>1, <3>2, QuestionKeeps
  <2> QED
    BY <1>1, <2>1, <2>2 DEF InsertsRow, WorkerStart, WorkerRetry
<1>2. CASE ~InsertsRow
  <2>0. \A e \in Dispatch : dispatches'[e].host = dispatches[e].host
    BY <1>0, <1>2, HostKept
  <2>1. ASSUME UNCHANGED workers, questions' \subseteq questions PROVE QuestionInv'
    BY <1>0, <2>0, <2>1, QuestionKeeps
  <2>2. CASE TaskStep \/ GateStep \/ UNCHANGED vars
    BY <2>1, <2>2 DEF TaskStep, TaskCreate, TaskUpdate, GateStep, GateCreate, GateResolve, vars
  <2>3. CASE ContextStep
    BY <1>2, <2>0, <2>1, <2>3, QuestionRows
    DEF ContextStep, InsertsRow, PromptSent, PromptFailed, Escalate, ReleaseContextOnly
  <2>4. CASE StartStep
    BY <1>2, <2>0, <2>1, <2>4, QuestionRows DEF StartStep, InsertsRow, StartFenced, AttachAuthority
  <2>5. CASE StopStep
    BY <2>0, <2>1, <2>5, QuestionRows
    DEF StopStep, StopSettled, RemoteStopReport, SettleStop, StopFenced
  <2>6. CASE RecoveryStep
    BY <2>0, <2>1, <2>6, QuestionRows DEF RecoveryStep, TerminalExit, Restart, RecoverDone
  <2>7. CASE ReportStep
    <3>1. ASSUME NEW d \in Dispatch, Ask(d) PROVE QuestionInv'
      <4>1. questions' = questions \cup {d} /\ UNCHANGED workers
        BY <3>1 DEF Ask
      <4>2. \A e \in questions' : e = d \/ e \in questions
        BY <4>1
      <4> QED
        BY <1>0, <2>0, <3>1, <4>1, <4>2, AskerIsWorking, QuestionKeeps
    <3>2. ASSUME NEW d \in Dispatch, AnswerQuestion(d) PROVE QuestionInv'
      BY <2>1, <3>2 DEF AnswerQuestion
    <3> QED
      BY <2>0, <2>7, <3>1, <3>2, QuestionRows DEF ReportStep
  <2> QED
    BY <2>2, <2>3, <2>4, <2>5, <2>6, <2>7 DEF Next
<1> QED
  BY <1>1, <1>2

\* A question that crosses a stop, an abandonment or a report of its worker is
\* closed by it, and none is asked afterwards.
THEOREM SettledWorkersAskNothing == Spec => []NoQuestionAfterSettling
<1>1. Init => QuestionInv
  BY DEF Init, QuestionInv
<1>2. Context /\ HoldInv /\ QuestionInv /\ [Next]_vars => QuestionInv'
  BY QuestionNext
<1>3. QuestionInv => NoQuestionAfterSettling
  BY DEF QuestionInv, NoQuestionAfterSettling
<1> QED
  BY <1>1, <1>2, <1>3, ContextHolds, LiveWorkerHoldsTask, PTL DEF Spec
==============================================================================
