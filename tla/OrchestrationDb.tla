--------------------------- MODULE OrchestrationDb ---------------------------
(***************************************************************************)
(* The orchestration store: tasks, dispatch_contexts, worker_dispatches,   *)
(* decision_gates and question_threads, and the RPC handlers and runtime   *)
(* callbacks that write them.  Every store operation is one synchronous    *)
(* SQLite transaction, hence one action; the interleavings come from the   *)
(* awaits BETWEEN the transactions of one handler (worker-start,           *)
(* worker-stop, dispatch) and from the restart of the runtime.             *)
(*                                                                         *)
(* An operator Buggy<X> is operator <X> with a plausible bug; nothing of   *)
(* the model uses it.  It is what a property that guards <X> must reject.  *)
(***************************************************************************)
EXTENDS Naturals, FiniteSets

CONSTANTS
  Task,            \* tasks of one Run
  Deps,            \* [Task -> SUBSET Task], the "deps" column of each task
  Terminal,        \* terminals (panes) an agent can be assigned to
  Gate,            \* decision gates that may be created
  NoTask, NoTerminal,
  MaxDispatches,   \* bound: rows of dispatch_contexts
  BreakAt,         \* DISPATCH_CIRCUIT_BREAK_FAILURES, 3 in the code
  UpdateStatuses,  \* statuses a coordinator passes to task-update
  Hosts,           \* subset of {"local", "remote"}: where worker-start runs
  Injections       \* subset of {"inject", "loop", "track"}: who dispatches

Dispatch      == 1 .. MaxDispatches            \* rowid order
ActiveStatus  == {"pending", "dispatched"}
TaskStatus    == {"pending", "ready", "dispatched", "completed", "failed", "blocked"}
DispatchStatus == ActiveStatus \cup {"completed", "failed", "circuit_broken"}
LiveWorker    == {"starting", "ready", "start_unknown", "stopping", "stop_unknown"}
DeadWorker    == {"failed", "succeeded", "stopped", "abandoned"}

ASSUME ConstantsAssumption ==
  /\ Deps \in [Task -> SUBSET Task]
  /\ NoTask \notin Task /\ NoTerminal \notin Terminal
  /\ MaxDispatches \in Nat /\ BreakAt \in Nat \ {0}
  /\ UpdateStatuses \subseteq TaskStatus
  /\ Hosts \subseteq {"local", "remote"}
  /\ Injections \subseteq {"inject", "loop", "track"}

VARIABLES
  tasks,        \* task |-> status, "absent" before task-create
  dispatches,   \* rowid |-> row of dispatch_contexts
  workers,      \* rowid |-> worker_dispatches.state, "none" without a row
  gates,        \* gate |-> row of decision_gates
  questions,    \* dispatches that have a pending question thread
  startCall,    \* rowid |-> where the worker-start handler awaits
  stopCalls,    \* dispatches whose worker-stop handler awaits
  sendCalls,    \* context-only dispatches whose prompt is being sent
  recovery      \* worker rows the startup recovery snapshot still holds

calls == <<startCall, stopCalls, sendCalls, recovery>>
vars  == <<tasks, dispatches, workers, gates, questions, calls>>

\* last_failure: the stalled prompt, a stop or release, what a worker or the
\* coordinator reported, any other error.
Row == [task : Task \cup {NoTask}, status : DispatchStatus \cup {"none"},
        failures : Nat, terminal : Terminal \cup {NoTerminal},
        minted : BOOLEAN, revoked : BOOLEAN,
        lastFailure : {"none", "stalled", "released", "reported", "error"},
        host : {"local", "remote", "context"}]

EmptyRow == [task |-> NoTask, status |-> "none", failures |-> 0,
             terminal |-> NoTerminal, minted |-> FALSE, revoked |-> FALSE,
             lastFailure |-> "none", host |-> "context"]

Init ==
  /\ tasks = [t \in Task |-> "absent"]
  /\ dispatches = [d \in Dispatch |-> EmptyRow]
  /\ workers = [d \in Dispatch |-> "none"]
  /\ gates = [g \in Gate |-> [task |-> NoTask, status |-> "none"]]
  /\ questions = {}
  /\ startCall = [d \in Dispatch |-> "none"]
  /\ stopCalls = {} /\ sendCalls = {} /\ recovery = {}

(***************************************************************************)
(* Queries                                                                 *)
(***************************************************************************)
Active(d)   == dispatches[d].status \in ActiveStatus
ActiveOn(t) == {d \in Dispatch : Active(d) /\ dispatches[d].task = t}
LiveActiveOn(t) == {d \in ActiveOn(t) : workers[d] \in LiveWorker}
RowsOf(t)   == {d \in Dispatch : dispatches[d].task = t}
IsLatest(d) == \A e \in RowsOf(dispatches[d].task) : e <= d
BuggyTerminalBusy(p) ==
  \E d \in Dispatch : dispatches[d].status = "pending" /\ dispatches[d].terminal = p

TerminalBusy(p) == \E d \in Dispatch : Active(d) /\ dispatches[d].terminal = p
IsNextRow(d) == /\ dispatches[d].status = "none"
                /\ \A e \in Dispatch : e < d => dispatches[e].status # "none"
BuggyIsMaxFailures(t, n) == n = 0

\* MAX(failure_count) over the rows of the task, 0 without rows.
IsMaxFailures(t, n) ==
  /\ \A e \in RowsOf(t) : dispatches[e].failures <= n
  /\ n = 0 \/ \E e \in RowsOf(t) : dispatches[e].failures = n

(***************************************************************************)
(* Effects shared by several transactions                                  *)
(***************************************************************************)
SetStatus(t, s) == [tasks EXCEPT ![t] = s]

BuggyPromote(ts, t) ==
  [u \in Task |-> IF /\ ts[u] = "pending" /\ t \in Deps[u]
                     /\ \A p \in Deps[u] : tasks[p] = "completed"
                  THEN "ready" ELSE ts[u]]

\* promoteReadyTasks on the table ts in which t has just completed.
Promote(ts, t) ==
  [u \in Task |-> IF /\ ts[u] = "pending" /\ t \in Deps[u]
                     /\ \A p \in Deps[u] : ts[p] = "completed"
                  THEN "ready" ELSE ts[u]]

\* The table after task t ends with status s: completion promotes dependents.
EndTask(t, s) ==
  IF s = "completed" THEN Promote(SetStatus(t, s), t) ELSE SetStatus(t, s)

BuggySettleRows(D, s) ==
  [d \in Dispatch |-> IF d \in D THEN [dispatches[d] EXCEPT !.status = s] ELSE dispatches[d]]

\* settleActiveDispatchesForTask over the rows D.
SettleRows(D, s) ==
  [d \in Dispatch |->
     IF d \in D
     THEN [dispatches[d] EXCEPT !.status = s, !.revoked = TRUE,
             !.lastFailure = IF s = "failed" THEN "reported" ELSE @]
     ELSE dispatches[d]]

BuggyInterrupted(d) ==
  SetStatus(dispatches[d].task,
            IF ActiveOn(dispatches[d].task) \ {d} # {} THEN "dispatched" ELSE "blocked")

\* reconcileTaskAfterDispatchInterruption for dispatch d.
Interrupted(d) ==
  LET t == dispatches[d].task
  IN  IF tasks[t] \in {"dispatched", "blocked"}
      THEN SetStatus(t, IF ActiveOn(t) \ {d} # {} THEN "dispatched" ELSE "blocked")
      ELSE tasks

\* The row of d after a counted failure for a reason.
FailedRow(d, why) ==
  [dispatches[d] EXCEPT
     !.status = IF dispatches[d].failures + 1 >= BreakAt THEN "circuit_broken" ELSE "failed",
     !.failures = @ + 1, !.revoked = TRUE, !.lastFailure = why]

BuggyRetryStatus(d) ==
  IF dispatches[d].failures + 1 >= BreakAt THEN "circuit_broken" ELSE "ready"

\* The status a counted failure of d gives back to its task.
RetryStatus(d) ==
  IF dispatches[d].failures + 1 >= BreakAt THEN "failed" ELSE "ready"

BuggyFailDispatch(d, why, exited) ==
  /\ Active(d)
  /\ exited \/ workers[d] \notin LiveWorker
  /\ dispatches' = [dispatches EXCEPT ![d] = FailedRow(d, why)]
  /\ workers' = IF exited /\ workers[d] \in LiveWorker
                THEN [workers EXCEPT ![d] = "failed"] ELSE workers
  /\ UNCHANGED tasks

\* failDispatch: refused for a live supervised worker unless its process exited.
\* The task is touched only while it still waits on this dispatch.
FailDispatch(d, why, exited) ==
  LET t == dispatches[d].task
  IN  /\ Active(d)
      /\ exited \/ workers[d] \notin LiveWorker
      /\ dispatches' = [dispatches EXCEPT ![d] = FailedRow(d, why)]
      /\ workers' = IF exited /\ workers[d] \in LiveWorker
                    THEN [workers EXCEPT ![d] = "failed"] ELSE workers
      /\ tasks' = IF tasks[t] = "dispatched" /\ ActiveOn(t) \ {d} = {}
                  THEN SetStatus(t, RetryStatus(d)) ELSE tasks

(***************************************************************************)
(* Tasks                                                                   *)
(***************************************************************************)
TaskCreate(t) ==
  /\ tasks[t] = "absent"
  /\ \A p \in Deps[t] : tasks[p] # "absent"
  /\ tasks' = SetStatus(t, IF \E p \in Deps[t] : tasks[p] # "completed"
                           THEN "pending" ELSE "ready")
  /\ UNCHANGED <<dispatches, workers, gates, questions, calls>>

BuggyPermits(t, s) ==
  /\ s = "dispatched" => ActiveOn(t) # {}
  /\ s \in {"completed", "failed"} => LiveActiveOn(t) = {}

BuggyPermitsSettling(t, s) ==
  /\ s = "dispatched" => ActiveOn(t) # {}
  /\ s \notin {"completed", "failed", "dispatched"} => ActiveOn(t) = {}

\* The guard of updateTaskStatus.
UpdatePermitted(t, s) ==
  /\ s = "dispatched" => ActiveOn(t) # {}
  /\ s \notin {"completed", "failed", "dispatched"} => ActiveOn(t) = {}
  /\ s \in {"completed", "failed"} => LiveActiveOn(t) = {}

\* updateTaskStatus, as taskUpdate calls it: any status the guard permits.
TaskUpdate(t, s) ==
  /\ tasks[t] # "absent"
  /\ UpdatePermitted(t, s)
  /\ tasks' = EndTask(t, s)
  /\ dispatches' = IF s \in {"completed", "failed"}
                   THEN SettleRows(ActiveOn(t), s) ELSE dispatches
  /\ UNCHANGED <<workers, gates, questions, calls>>

(***************************************************************************)
(* Context-only dispatches: dispatch RPC ("inject" or "track") and the     *)
(* coordinator loop ("loop")                                               *)
(***************************************************************************)
\* createDispatchContext, then mintDispatchCapability for an injected prompt.
DispatchTask(t, p, how) ==
  /\ tasks[t] = "ready"
  /\ ~TerminalBusy(p)
  /\ \E d \in Dispatch, n \in 0 .. MaxDispatches :
       /\ IsNextRow(d)
       /\ IsMaxFailures(t, n)
       /\ dispatches' = [dispatches EXCEPT ![d] =
            [EmptyRow EXCEPT !.task = t, !.status = "dispatched", !.failures = n,
               !.terminal = p, !.minted = (how = "inject")]]
       /\ sendCalls' = IF how = "track" THEN sendCalls ELSE sendCalls \cup {d}
  /\ tasks' = SetStatus(t, "dispatched")
  /\ UNCHANGED <<workers, gates, questions, startCall, stopCalls, recovery>>

\* The awaited prompt was accepted, or (loop only) its turn start went unseen.
PromptSent(d) ==
  /\ d \in sendCalls
  /\ sendCalls' = sendCalls \ {d}
  /\ UNCHANGED <<tasks, dispatches, workers, gates, questions, startCall, stopCalls, recovery>>

\* The awaited prompt failed.  The dispatch may have been settled meanwhile;
\* only the dispatch RPC treats a stalled prompt as a failure.
PromptFailed(d, why) ==
  /\ d \in sendCalls
  /\ why = "stalled" => dispatches[d].minted
  /\ \/ FailDispatch(d, why, FALSE)
     \/ ~Active(d) /\ UNCHANGED <<tasks, dispatches, workers>>
  /\ sendCalls' = sendCalls \ {d}
  /\ UNCHANGED <<gates, questions, startCall, stopCalls, recovery>>

\* applyEscalationToDispatch: an active context-only worker gives up.
Escalate(d) ==
  LET t == dispatches[d].task
  IN  /\ Active(d) /\ dispatches[d].terminal # NoTerminal
      /\ tasks[t] \notin {"completed", "failed"}
      /\ workers[d] \notin LiveWorker
      /\ dispatches' = [dispatches EXCEPT ![d] = FailedRow(d, "error")]
      /\ tasks' = IF RetryStatus(d) = "failed"
                     \/ (tasks[t] = "dispatched" /\ ActiveOn(t) \ {d} = {})
                  THEN SetStatus(t, RetryStatus(d)) ELSE tasks
      /\ UNCHANGED <<workers, gates, questions, calls>>

\* releaseContextOnlyDispatch, from worker-stop or worker-abandon.
ReleaseContextOnly(d) ==
  LET t == dispatches[d].task
  IN  /\ Active(d) /\ workers[d] = "none"
      /\ dispatches' = [dispatches EXCEPT ![d].status = "failed", ![d].revoked = TRUE,
                                          ![d].lastFailure = "released"]
      /\ tasks' = IF tasks[t] = "dispatched" /\ ActiveOn(t) \ {d} = {}
                  THEN SetStatus(t, "blocked") ELSE tasks
      /\ questions' = questions \ {d}
      /\ UNCHANGED <<workers, gates, calls>>

(***************************************************************************)
(* worker-start: accept, build the topology, attach authority, prompt      *)
(***************************************************************************)
\* createStartingWorkerDispatch, for a ready task or as a retry of row r.
StartWorker(t, host, d) ==
  /\ IsNextRow(d)
  /\ dispatches' = [dispatches EXCEPT ![d] =
       [EmptyRow EXCEPT !.task = t, !.status = "pending", !.host = host]]
  /\ workers' = [workers EXCEPT ![d] = "starting"]
  /\ tasks' = SetStatus(t, "dispatched")
  /\ startCall' = [startCall EXCEPT ![d] = IF host = "local" THEN "topology" ELSE "attach"]
  /\ UNCHANGED <<gates, questions, stopCalls, sendCalls, recovery>>

WorkerStart(t, host) ==
  /\ tasks[t] = "ready"
  /\ \E d \in Dispatch : StartWorker(t, host, d)

BuggyRetryable(r) == workers[r] \in {"start_unknown", "failed", "stopped", "abandoned"}

\* The worker states createStartingWorkerDispatch accepts a retry of.
Retryable(r) == workers[r] \in {"failed", "stopped", "abandoned"}

WorkerRetry(r, host) ==
  LET t == dispatches[r].task
  IN  /\ dispatches[r].status # "none" /\ IsLatest(r)
      /\ Retryable(r)
      /\ tasks[t] \in {"failed", "blocked"}
      /\ \E d \in Dispatch : StartWorker(t, host, d)

BuggyStarting(d) == dispatches[d].status # "none"

\* What every write of the start handler re-checks after an await.
Starting(d) == dispatches[d].status = "pending" /\ workers[d] = "starting"

\* prepareStartingWorkerAuthority, reached when the agent terminal is idle.
AttachAuthority(d, p) ==
  /\ startCall[d] = "topology"
  /\ Starting(d)
  /\ ~\E e \in Dispatch \ {d} : Active(e) /\ dispatches[e].terminal = p
  /\ dispatches' = [dispatches EXCEPT ![d].terminal = p, ![d].minted = TRUE,
                                      ![d].revoked = FALSE]
  /\ startCall' = [startCall EXCEPT ![d] = "prompt"]
  /\ UNCHANGED <<tasks, workers, gates, questions, stopCalls, sendCalls, recovery>>

\* markWorkerDispatchReady, once the prompt or the remote attach returned.
WorkerReady(d) ==
  /\ startCall[d] \in {"prompt", "attach"}
  /\ Starting(d)
  /\ dispatches' = [dispatches EXCEPT ![d].status = "dispatched"]
  /\ workers' = [workers EXCEPT ![d] = "ready"]
  /\ startCall' = [startCall EXCEPT ![d] = "none"]
  /\ UNCHANGED <<tasks, gates, questions, stopCalls, sendCalls, recovery>>

\* failWorkerStart, from the catch of worker-start.  A stalled prompt keeps
\* the capability: the prompt landed, so the worker may still report.
FailStart(d, why) ==
  LET t == dispatches[d].task
  IN  /\ startCall[d] # "none"
      /\ why = "stalled" => startCall[d] = "prompt"
      /\ workers[d] = "starting"
      /\ dispatches' = [dispatches EXCEPT ![d].status = "failed", ![d].lastFailure = why,
                                          ![d].revoked = @ \/ why # "stalled"]
      /\ workers' = [workers EXCEPT ![d] = "failed"]
      /\ tasks' = IF ActiveOn(t) \ {d} = {} THEN SetStatus(t, "failed") ELSE tasks
      /\ questions' = questions \ {d}
      /\ startCall' = [startCall EXCEPT ![d] = "none"]
      /\ UNCHANGED <<gates, stopCalls, sendCalls, recovery>>

\* markWorkerStartUnknown: a step of the start, or the remote attach, lost its
\* answer, or worker-show finds a start whose runtime has restarted.
StartUnknown(d) ==
  /\ workers[d] = "starting"
  /\ startCall[d] = "none" => dispatches[d].host = "local"
  /\ workers' = [workers EXCEPT ![d] = "start_unknown"]
  /\ dispatches' = [dispatches EXCEPT ![d].revoked = TRUE]
  /\ tasks' = SetStatus(dispatches[d].task, "blocked")
  /\ questions' = questions \ {d}
  /\ startCall' = [startCall EXCEPT ![d] = "none"]
  /\ UNCHANGED <<gates, stopCalls, sendCalls, recovery>>

\* The handler resumes after another actor moved the worker out of "starting":
\* every later write of it throws dispatch_inactive.
StartFenced(d) ==
  /\ startCall[d] # "none" /\ workers[d] # "starting"
  /\ startCall' = [startCall EXCEPT ![d] = "none"]
  /\ UNCHANGED <<tasks, dispatches, workers, gates, questions, stopCalls, sendCalls, recovery>>

\* reconcileFederatedWorkerStart: worker-show relays what the worker server says.
RemoteStartReport(d, remote) ==
  LET t == dispatches[d].task
  IN  /\ dispatches[d].host = "remote"
      /\ workers[d] \in {"starting", "start_unknown"}
      /\ workers' = [workers EXCEPT ![d] = remote]
      /\ IF remote = "ready"
         THEN /\ dispatches' = [dispatches EXCEPT ![d].status =
                                  IF @ = "pending" THEN "dispatched" ELSE @]
              /\ tasks' = IF tasks[t] = "blocked" THEN SetStatus(t, "dispatched") ELSE tasks
              /\ UNCHANGED questions
         ELSE /\ dispatches' = IF Active(d)
                               THEN [dispatches EXCEPT ![d].status = "failed",
                                       ![d].lastFailure = "error", ![d].revoked = TRUE]
                               ELSE dispatches
              /\ tasks' = IF tasks[t] \in {"dispatched", "blocked"}
                          THEN SetStatus(t, IF ActiveOn(t) \ {d} = {}
                                            THEN "failed" ELSE "dispatched")
                          ELSE tasks
              /\ questions' = questions \ {d}
      /\ UNCHANGED <<gates, calls>>

(***************************************************************************)
(* worker-stop, worker-abandon                                             *)
(***************************************************************************)
BuggyWorkerStop(d) ==
  /\ workers[d] \in {"ready", "start_unknown"}
  /\ workers' = [workers EXCEPT ![d] = "stopping"]
  /\ tasks' = Interrupted(d)
  /\ questions' = questions \ {d}
  /\ stopCalls' = stopCalls \cup {d}
  /\ UNCHANGED <<dispatches, gates, startCall, sendCalls, recovery>>

\* A local worker whose start did not come to its authority
Unattached(d) == dispatches[d].host = "local" /\ dispatches[d].terminal = NoTerminal

\* beginWorkerStop.  A local worker that has recorded no terminal cannot be
\* stopped: the same handler marks it stop_unknown before it awaits anything.
\* A lost start may have recorded one before its authority was attached.
WorkerStop(d) ==
  /\ workers[d] \in {"ready", "start_unknown"}
  /\ \/ /\ workers[d] = "start_unknown" \/ ~Unattached(d)
        /\ workers' = [workers EXCEPT ![d] = "stopping"]
        /\ stopCalls' = stopCalls \cup {d}
     \/ /\ Unattached(d)
        /\ workers' = [workers EXCEPT ![d] = "stop_unknown"]
        /\ UNCHANGED stopCalls
  /\ dispatches' = [dispatches EXCEPT ![d].revoked = TRUE]
  /\ tasks' = Interrupted(d)
  /\ questions' = questions \ {d}
  /\ UNCHANGED <<gates, startCall, sendCalls, recovery>>

BuggySettleStop(d) ==
  /\ workers' = [workers EXCEPT ![d] = "stopped"]
  /\ tasks' = Interrupted(d)
  /\ UNCHANGED <<dispatches, gates, questions, startCall, sendCalls, recovery>>

\* settleWorkerStop (local, from "stopping") or reconcileFederatedWorkerStop.
SettleStop(d) ==
  /\ workers' = [workers EXCEPT ![d] = "stopped"]
  /\ dispatches' = IF Active(d)
                   THEN [dispatches EXCEPT ![d].status = "failed", ![d].lastFailure = "released"]
                   ELSE dispatches
  /\ tasks' = Interrupted(d)
  /\ UNCHANGED <<gates, questions, startCall, sendCalls, recovery>>

\* A terminal that was not attached is not found to be the worker's own.
StopSettled(d) ==
  /\ d \in stopCalls /\ ~Unattached(d)
  /\ workers[d] \in (IF dispatches[d].host = "remote" THEN {"stopping", "stop_unknown"}
                     ELSE {"stopping"})
  /\ SettleStop(d)
  /\ stopCalls' = stopCalls \ {d}

\* worker-show of a remote worker whose server says it stopped.
RemoteStopReport(d) ==
  /\ dispatches[d].host = "remote"
  /\ workers[d] \in {"stopping", "stop_unknown"}
  /\ SettleStop(d)
  /\ UNCHANGED stopCalls

\* markWorkerStopUnknown: the close was not confirmed, or worker-show finds a
\* local stop whose runtime has restarted.
StopUnknown(d) ==
  /\ workers[d] = "stopping"
  /\ d \in stopCalls \/ dispatches[d].host = "local"
  /\ workers' = [workers EXCEPT ![d] = "stop_unknown"]
  /\ stopCalls' = stopCalls \ {d}
  /\ UNCHANGED <<tasks, dispatches, gates, questions, startCall, sendCalls, recovery>>

\* resumeFederatedWorkerForTerminalRelay: the remote worker had reported.
StopResumed(d) ==
  LET t == dispatches[d].task
  IN  /\ d \in stopCalls /\ dispatches[d].host = "remote"
      /\ workers[d] = "stopping"
      /\ workers' = [workers EXCEPT ![d] = "ready"]
      /\ tasks' = IF tasks[t] = "blocked" THEN SetStatus(t, "dispatched") ELSE tasks
      /\ stopCalls' = stopCalls \ {d}
      /\ UNCHANGED <<dispatches, gates, questions, startCall, sendCalls, recovery>>

\* The handler resumes after another actor settled the stop.
StopFenced(d) ==
  /\ d \in stopCalls /\ workers[d] # "stopping"
  /\ stopCalls' = stopCalls \ {d}
  /\ UNCHANGED <<tasks, dispatches, workers, gates, questions, startCall, sendCalls, recovery>>

\* abandonWorkerDispatch of the latest row of its task.
Abandon(d) ==
  /\ workers[d] \in {"starting", "ready", "start_unknown", "stop_unknown", "failed", "stopped"}
  /\ IsLatest(d)
  /\ workers' = [workers EXCEPT ![d] = "abandoned"]
  /\ dispatches' = [dispatches EXCEPT ![d].revoked = TRUE,
                      ![d].status = IF Active(d) THEN "failed" ELSE @]
  /\ tasks' = Interrupted(d)
  /\ questions' = questions \ {d}
  /\ UNCHANGED <<gates, calls>>

(***************************************************************************)
(* Process exit and recovery after a restart                               *)
(***************************************************************************)
\* failActiveDispatchOnExit: the PTY behind terminal p exited.
TerminalExit(p) ==
  /\ \E d \in Dispatch : /\ Active(d) /\ dispatches[d].terminal = p
                         /\ FailDispatch(d, "error", TRUE)
  /\ UNCHANGED <<gates, questions, calls>>

\* Every handler in flight is lost; startup plans a recovery of the workers
\* whose terminals it can name, from the rows as they are now.
Restart ==
  /\ startCall' = [d \in Dispatch |-> "none"]
  /\ stopCalls' = {} /\ sendCalls' = {}
  /\ recovery' = {d \in Dispatch : workers[d] \in LiveWorker
                                   /\ dispatches[d].terminal # NoTerminal}
  /\ UNCHANGED <<tasks, dispatches, workers, gates, questions>>

\* reconcileMissingWorkerTerminal: the planned terminal is not live any more.
RecoverMissing(d) ==
  LET t == dispatches[d].task
      stopping == workers[d] \in {"stopping", "stop_unknown"}
  IN  /\ d \in recovery /\ workers[d] \in LiveWorker
      /\ dispatches' = IF Active(d) THEN [dispatches EXCEPT ![d] = FailedRow(d, "error")]
                       ELSE dispatches
      /\ tasks' = IF Active(d) /\ ~stopping /\ tasks[t] \in {"dispatched", "blocked"}
                  THEN SetStatus(t, IF ActiveOn(t) \ {d} = {} THEN RetryStatus(d)
                                    ELSE "dispatched")
                  ELSE tasks
      /\ questions' = IF Active(d) THEN questions \ {d} ELSE questions
      /\ workers' = [workers EXCEPT ![d] = IF stopping THEN "stopped" ELSE "abandoned"]
      /\ recovery' = recovery \ {d}
      /\ UNCHANGED <<gates, startCall, stopCalls, sendCalls>>

\* The planned terminal is live and adopted, or its worker settled meanwhile.
RecoverDone(d) ==
  /\ d \in recovery
  /\ recovery' = recovery \ {d}
  /\ UNCHANGED <<tasks, dispatches, workers, gates, questions, startCall, stopCalls, sendCalls>>

(***************************************************************************)
(* Worker reports                                                          *)
(***************************************************************************)
BuggyMayReport(d) ==
  dispatches[d].host = "remote" \/ dispatches[d].terminal # NoTerminal

\* A worker_done sent from a pane needs an unrevoked capability when one was
\* minted; a report imported from the worker server is not checked again.
MayReport(d) ==
  \/ dispatches[d].host = "remote"
  \/ /\ dispatches[d].terminal # NoTerminal
     /\ dispatches[d].minted => ~dispatches[d].revoked

\* The failure recorded is only an unobserved prompt: a report may correct it.
UnobservedPrompt(d) ==
  /\ dispatches[d].status = "failed" /\ dispatches[d].lastFailure = "stalled"
  /\ tasks[dispatches[d].task] = "failed"

BuggyReportAnytime(d) == tasks[dispatches[d].task] \in {"dispatched", "blocked", "failed"}

\* The states in which a report is not answered "inactive_dispatch".
ReportFits(d) ==
  UnobservedPrompt(d) \/ (dispatches[d].status = "dispatched"
                            /\ tasks[dispatches[d].task] = "dispatched")

\* settleWorkerReport; rejected and duplicate reports change nothing.
WorkerReport(d, outcome) ==
  LET t      == dispatches[d].task
      status == IF outcome = "succeeded" THEN "completed" ELSE "failed"
  IN  /\ dispatches[d].status # "none"
      /\ MayReport(d)
      /\ ReportFits(d)
      /\ LiveActiveOn(t) \subseteq {d}
      /\ workers[d] = "none" => d \in ActiveOn(t) /\ \A e \in ActiveOn(t) : e <= d
      /\ dispatches' = SettleRows(ActiveOn(t) \cup {d}, status)
      /\ tasks' = EndTask(t, status)
      /\ workers' = IF workers[d] = (IF UnobservedPrompt(d) THEN "failed" ELSE "ready")
                    THEN [workers EXCEPT ![d] = outcome] ELSE workers
      /\ questions' = questions \ (ActiveOn(t) \cup {d})
      /\ UNCHANGED <<gates, calls>>

(***************************************************************************)
(* Questions and decision gates                                            *)
(***************************************************************************)
\* ask of an active dispatch, or registerFederatedQuestion on relay import.
Ask(d) ==
  /\ dispatches[d].status # "none" /\ d \notin questions
  /\ \/ dispatches[d].host = "remote"
     \/ Active(d) /\ MayReport(d)
  /\ questions' = questions \cup {d}
  /\ UNCHANGED <<tasks, dispatches, workers, gates, calls>>

AnswerQuestion(d) ==
  /\ d \in questions
  /\ questions' = questions \ {d}
  /\ UNCHANGED <<tasks, dispatches, workers, gates, calls>>

GateCreate(t, g) ==
  /\ tasks[t] # "absent" /\ gates[g].status = "none"
  /\ LiveActiveOn(t) = {}
  /\ gates' = [gates EXCEPT ![g] = [task |-> t, status |-> "pending"]]
  /\ dispatches' = SettleRows(ActiveOn(t), "completed")
  /\ tasks' = SetStatus(t, "blocked")
  /\ UNCHANGED <<workers, questions, calls>>

\* resolveGate has no guard on the gate's status, only updateTaskStatus's.
GateResolve(g) ==
  /\ gates[g].status # "none"
  /\ UpdatePermitted(gates[g].task, "ready")
  /\ gates' = [gates EXCEPT ![g].status = "resolved"]
  /\ tasks' = SetStatus(gates[g].task, "ready")
  /\ UNCHANGED <<dispatches, workers, questions, calls>>

(***************************************************************************)
(* Specification                                                           *)
(***************************************************************************)
TaskStep ==
  \/ \E t \in Task : TaskCreate(t)
  \/ \E t \in Task, s \in UpdateStatuses : TaskUpdate(t, s)

ContextStep ==
  \/ \E t \in Task, p \in Terminal, how \in Injections : DispatchTask(t, p, how)
  \/ \E d \in Dispatch : PromptSent(d)
  \/ \E d \in Dispatch, why \in {"stalled", "error"} : PromptFailed(d, why)
  \/ \E d \in Dispatch : Escalate(d)
  \/ \E d \in Dispatch : ReleaseContextOnly(d)

StartStep ==
  \/ \E t \in Task, host \in Hosts : WorkerStart(t, host)
  \/ \E r \in Dispatch, host \in Hosts : WorkerRetry(r, host)
  \/ \E d \in Dispatch, p \in Terminal : AttachAuthority(d, p)
  \/ \E d \in Dispatch : WorkerReady(d)
  \/ \E d \in Dispatch, why \in {"stalled", "error"} : FailStart(d, why)
  \/ \E d \in Dispatch : StartUnknown(d)
  \/ \E d \in Dispatch : StartFenced(d)
  \/ \E d \in Dispatch, remote \in {"ready", "failed", "stopped"} : RemoteStartReport(d, remote)

StopStep ==
  \E d \in Dispatch :
    \/ WorkerStop(d)
    \/ StopSettled(d)
    \/ RemoteStopReport(d)
    \/ StopUnknown(d)
    \/ StopResumed(d)
    \/ StopFenced(d)
    \/ Abandon(d)

RecoveryStep ==
  \/ \E p \in Terminal : TerminalExit(p)
  \/ Restart
  \/ \E d \in Dispatch : RecoverMissing(d)
  \/ \E d \in Dispatch : RecoverDone(d)

ReportStep ==
  \/ \E d \in Dispatch, outcome \in {"succeeded", "failed"} : WorkerReport(d, outcome)
  \/ \E d \in Dispatch : Ask(d)
  \/ \E d \in Dispatch : AnswerQuestion(d)

GateStep ==
  \/ \E t \in Task, g \in Gate : GateCreate(t, g)
  \/ \E g \in Gate : GateResolve(g)

Next == TaskStep \/ ContextStep \/ StartStep \/ StopStep \/ RecoveryStep
          \/ ReportStep \/ GateStep

Spec == Init /\ [][Next]_vars

(***************************************************************************)
(* Properties                                                              *)
(***************************************************************************)
\* Every table holds rows of its schema.
TypeOK ==
  /\ tasks \in [Task -> TaskStatus \cup {"absent"}]
  /\ dispatches \in [Dispatch -> Row]
  /\ workers \in [Dispatch -> LiveWorker \cup DeadWorker \cup {"none"}]
  /\ gates \in [Gate -> [task : Task \cup {NoTask}, status : {"none", "pending", "resolved"}]]
  /\ questions \subseteq Dispatch
  /\ startCall \in [Dispatch -> {"none", "topology", "prompt", "attach"}]
  /\ stopCalls \subseteq Dispatch /\ sendCalls \subseteq Dispatch
  /\ recovery \subseteq Dispatch

\* A task is worked on by at most one dispatch, whatever stops, retries and
\* late answers do: the queries "LIMIT 1" of the store never choose.
OneActivePerTask ==
  \A d, e \in Dispatch :
    Active(d) /\ Active(e) /\ dispatches[d].task = dispatches[e].task => d = e

\* A terminal is assigned to at most one active dispatch (the dispatch lock of
\* createDispatchContext and prepareStartingWorkerAuthority).
OneActivePerTerminal ==
  \A d, e \in Dispatch :
    /\ Active(d) /\ Active(e) /\ dispatches[d].terminal = dispatches[e].terminal
    /\ dispatches[d].terminal # NoTerminal
    => d = e

\* Only a dispatched or blocked task has a dispatch at work, so a ready task
\* can be dispatched again without a second worker on it.
ActiveOnlyWhileWorked ==
  \A t \in Task : ActiveOn(t) # {} => tasks[t] \in {"dispatched", "blocked"}

\* A task never stays "dispatched" after its last dispatch ended: whichever
\* path settled the dispatch also moved the task.
NoStrandedTask ==
  \A t \in Task : tasks[t] = "dispatched" => ActiveOn(t) # {}

\* A worker that failed, succeeded, stopped or was abandoned no longer holds
\* an active dispatch, so its task can be retried.
DeadWorkerReleased ==
  \A d \in Dispatch : workers[d] \in DeadWorker => ~Active(d)

\* Rows are allocated in order, and only an allocated row has a worker.
RowsContiguous ==
  \A d \in Dispatch :
    /\ dispatches[d].status = "none" => workers[d] = "none"
    /\ dispatches[d].status # "none"
         => \A e \in Dispatch : e < d => dispatches[e].status # "none"

\* An active dispatch is the latest of its task.
ActiveIsLatest ==
  \A d, e \in Dispatch :
    /\ Active(d)
    /\ dispatches[e].status # "none" /\ dispatches[e].task = dispatches[d].task
    => e <= d

\* The inductive form of the four properties above: a retry looks only at the
\* latest row of a task, so ownership is safe because no earlier row of the task
\* can be active, whatever order its handlers and recoveries resume in.
OwnershipInv ==
  TypeOK /\ RowsContiguous /\ ActiveIsLatest /\ ActiveOnlyWhileWorked /\ DeadWorkerReleased

\* No lifecycle authority outlives its dispatch: every settling path revokes
\* the capability, except for a prompt whose turn start went unobserved.
AuthorityEndsWithDispatch ==
  \A d \in Dispatch :
    dispatches[d].status # "none" /\ ~Active(d) /\ dispatches[d].minted
      => \/ dispatches[d].revoked
         \/ dispatches[d].lastFailure = "stalled" /\ workers[d] = "failed"

\* A worker told to stop has lost its authority already: settling the stop later
\* revokes nothing any more.
StoppingIsRevoked ==
  \A d \in Dispatch : workers[d] \in {"stopping", "stop_unknown"} => dispatches[d].revoked

\* The inductive form of AuthorityEndsWithDispatch, next to OwnershipInv: the row
\* of a stop ends without being revoked, so it must have been revoked before.
AuthorityInv == AuthorityEndsWithDispatch /\ StoppingIsRevoked

\* A local worker the store calls ready can still settle its dispatch, however
\* its start raced stops and late answers: its capability is valid and the task
\* waits for the report.
ReadyWorkerCanReport ==
  \A d \in Dispatch :
    workers[d] = "ready" /\ dispatches[d].host = "local"
      => /\ MayReport(d) /\ dispatches[d].status = "dispatched"
         /\ tasks[dispatches[d].task] = "dispatched"

\* The same of a worker on another runtime, whose report worker-stop waits for.
RemoteReportAccepted ==
  \A d \in Dispatch :
    workers[d] = "ready" /\ dispatches[d].host = "remote"
      => ReportFits(d)

\* A local worker that succeeded, was stopped or was abandoned asks nothing any
\* more: a question that crossed the stop was closed, a later one is refused.
NoQuestionAfterSettling ==
  \A d \in questions :
    dispatches[d].host = "local" => workers[d] \notin {"succeeded", "stopped", "abandoned"}

\* A worker still starting, running or stopping keeps its dispatch active:
\* nothing settles the dispatch behind a live process.
LiveWorkerKeepsDispatch ==
  \A d \in Dispatch : workers[d] \in LiveWorker => Active(d)

\* A pending task waits for something: promoteReadyTasks runs on every path
\* that completes a task.
NoStrandedPending ==
  \A t \in Task : tasks[t] = "pending" => \E p \in Deps[t] : tasks[p] # "completed"

\* Failures of one task add up to a broken circuit: fewer than BreakAt
\* dispatches of it count a failure without breaking it.
CircuitBreaks ==
  \A t \in Task :
    Cardinality({d \in RowsOf(t) : /\ dispatches[d].status = "failed"
                                   /\ dispatches[d].failures > 0
                                   /\ dispatches[d].lastFailure \in {"stalled", "error"}}) < BreakAt

\* A task with an unanswered gate is not being worked on.
PendingGateHoldsTask ==
  \A g \in Gate : gates[g].status = "pending" => ActiveOn(gates[g].task) = {}

\* The coordinator's explicit decisions about a task.
CoordinatorStep == (\E t \in Task, s \in UpdateStatuses : TaskUpdate(t, s)) \/ GateStep

\* What a step does to a settled dispatch.
SettledKept(d) ==
  dispatches[d].status # "none" /\ ~Active(d)
    => \/ dispatches'[d].status = dispatches[d].status
       \/ UnobservedPrompt(d) /\ dispatches'[d].status = "completed"

\* A settled dispatch stays as it was settled; a report may only correct a
\* failure that was an unobserved prompt.
SettledStaysSettled == [][\A d \in Dispatch : SettledKept(d)]_vars

\* What a step other than a coordinator's does to a completed task.
CompletedKept(t) ==
  tasks[t] = "completed" /\ ~CoordinatorStep => tasks'[t] = "completed"

\* A late failure, stop or report never reopens a completed task.
CompletedStaysCompleted == [][\A t \in Task : CompletedKept(t)]_vars

\* What a step other than a coordinator's needs to complete a task.
CompletionReported(t) ==
  tasks[t] # "completed" /\ tasks'[t] = "completed" /\ ~CoordinatorStep
    => \E d \in RowsOf(t) :
         /\ Active(d) \/ UnobservedPrompt(d)
         /\ dispatches'[d].status = "completed"

\* Without the coordinator, a task completes only because the dispatch that is
\* at work on it, or its unobserved prompt, completes in the same step.
CompletionIsReported == [][\A t \in Task : CompletionReported(t)]_vars

\* The phase of a dispatch, as its task sees it.
Phase(row) ==
  CASE row.status \in ActiveStatus -> "working"
    [] row.status = "none" -> "unused"
    [] row.status = "completed" -> "completed"
    [] row.status = "failed" /\ row.lastFailure = "stalled" -> "unseen"
    [] OTHER -> "ended"

Ownership == INSTANCE TaskOwnership WITH
  phase <- [d \in Dispatch |-> Phase(dispatches[d])],
  of <- [d \in Dispatch |-> dispatches[d].task],
  done <- {t \in Task : tasks[t] = "completed"}

\* The store implements TaskOwnership: whatever starts, stops, exits, restarts
\* and late answers do, a task changes hands only through nobody.
ImplementsOwnership == Ownership!Spec
==============================================================================
