# Verification of Kondex orchestration

Kondex is a desktop application that runs coding agents in terminals and lets
them work together. Its agents share *tasks*; a *coordinator* hands a task to a
*worker* (a terminal with an agent in it) by way of a *dispatch*; workers report,
ask questions and open decision gates. All of that is state of one SQLite store
(`src/main/runtime/orchestration/db`), written by RPC handlers, by an automatic
coordinator loop, by process-exit callbacks and by start-up recovery. Around the
store are the mailbox a coordinator reads, the relay to the server that runs a
remote worker, and the ledger that makes repeated calls safe. This directory models
the four, model-checks them with TLC, and proves with TLAPS that a task has one
owner, a terminal one dispatch, that authority ends with the dispatch, that no repetition
of a mutation carries it out again, and that mail is leased to one consumer at a time.

Paths below are relative to the repository root; `orch/` stands for
`src/main/runtime/orchestration/` and `rpc/` for `src/main/runtime/rpc/methods/`.

## 1. The system

### Components, state, operations

| Component | State | Operations | What makes it correct |
|---|---|---|---|
| Task table (`orch/db/tasks`) | `tasks.status`, `deps` | create, update status, promote dependents | a completed task releases its dependents; a status never contradicts the dispatches at work |
| Dispatch contexts (`orch/db/dispatch-context`) | `dispatch_contexts`: status, failure count, assignee, capability | create, fail (circuit breaker), release, settle by report | one owner per task, one dispatch per terminal, authority ends with the dispatch, failures accumulate |
| Supervised workers (`orch/db/worker-dispatch`, `rpc/orchestration-workers.ts`, `-worker-stop.ts`, `-worker-control.ts`) | `worker_dispatches.state` | start, retry, attach authority, ready, fail, unknown, stop, abandon | a live worker keeps its dispatch, a dead one holds none, a late handler changes nothing that was settled |
| Federation, home side (`orch/db/federation`, `federated-worker-start-reconcile.ts`) | the same rows, host "remote" | reconcile a remote start or stop, resume for a report, import a report or question | the home and the worker server converge on one outcome |
| Decision gates (`orch/db/decision-gates`, `orch/coordinator-decision-gates.ts`) | `decision_gates` | create, resolve, re-block | a gated task is not worked on |
| Questions (`orch/db/questions`) | `question_threads` | ask, answer, close on settling | no question of a worker that is done |
| Recovery (`worker-terminal-recovery.ts`, `runtime-legacy-worker-terminal-recovery-runner.ts`) | a snapshot of worker rows taken at start-up | adopt a live terminal, reconcile a missing one | a stale snapshot never damages newer state |
| Coordinator loop (`orch/coordinator*.ts`) | in-memory phase, slots; `coordinator_runs` | tick: messages, re-block, dispatch ready tasks, convergence | every runnable task is dispatched; the run ends |
| Run mailbox (`orch/db/runs`, `orch/db/messages`) | messages, deliveries, consumer generation | send, reply, supersede heartbeats, open a delivery, acknowledge, take over | at-least-once to the current consumer, nothing to a fenced one |
| Ask loop (`rpc/orchestration-ask-methods.ts`) | a pending wait with a timeout | ask, wait, answer, time out | an answer is not lost to the timeout |
| Federation relay (`orch/federation-sync.ts`, `federation-relay-*.ts`) | queues with sequence numbers, quota | enqueue, pull, import, acknowledge | contiguous, exactly-once import; the final report fits the quota |
| Mutation receipts (`orch/db/mutation-receipts`) | receipts by caller and request id | claim, complete, discard, replay, prune | a mutation that did not fail is not carried out again when it is retried |
| Worker terminal ownership (`orch/db/worker-terminal`) | resource rows | claim, transfer, two-step release | a terminal is closed once, by its owner |
| Agent session leases (`src/main/runtime/agent-session-*.ts`) | session records with leases | reserve, renew, hand off, adjudicate after restart | one holder per session |
| Browser host leases (`src/main/runtime/browser-host-*.ts`) | leases, fences, a command ledger | attach, reconnect, fence, replay | a fenced host executes nothing; a command runs at most once |
| Terminal daemon (`src/main/daemon`) | sessions, attachments, backlog | spawn, attach, restart | output is neither lost nor doubled on reattach |
| Persistence, automations, git, relay, renderer, CLI | files, schedules, processes | I/O and user interface | outside the scope, see section 7 |

### How they interact, and what is hard about it

The store runs in one Node process. SQLite calls (`src/main/sqlite/sync-database.ts`) are synchronous and
every operation brackets its statements in a transaction or a savepoint, so an
operation is atomic. The concurrency is elsewhere:

- **Handlers await between transactions.** `worker-start` accepts the dispatch,
  awaits the creation of a worktree and a terminal, attaches authority, awaits
  the prompt, then marks the worker ready. `worker-stop` and `dispatch` await the
  terminal in the same way. Any other operation may run during an await.
- **Outcomes are uncertain.** A prompt may be accepted, fail, or stall with its
  turn start unobserved; a remote start or stop may never be acknowledged.
- **Processes exit and the runtime restarts** at any point, and start-up recovery
  works from a snapshot of the rows.
- **Workers report late**, from a superseded dispatch, or twice.
- **A coordinator overrides** by updating a task's status by hand.
- **Calls are repeated.** A client that lost an answer sends the call again with its
  request id, while the first may still run, or after a restart between the effect
  and its receipt.
- **Consumers are replaced** while their check routes mail or waits for it.
- **Two databases settle one dispatch.** The home and the worker's server exchange
  reports, verdicts, control mail and stops over a network that loses and delays calls.

The parts meet in three places. A worker's report settles a dispatch of
`OrchestrationDb`, whether it comes from a terminal or through `FederationRelay`.
A message the relay imports lies in the Run's mailbox (`RunMailbox`). The calls
`federationAck` and `federationImport` are mutations, so `FederationRelay` contains
the part of `MutationReceipts` it depends on: the request id and the input of the
receipt that answers them.

## 2. Modules

| Module | Models |
|---|---|
| `OrchestrationDb` | tasks, dispatches, workers, gates, questions and the handlers, callbacks and recovery that write them |
| `TaskOwnership` | the abstract promise of the store: a task passes from one dispatch to the next only through nobody |
| `OrchestrationDb_proofs` | types, ownership and the terminal lock: theorems and proofs |
| `OrchestrationDb_settling` | the action properties on settled dispatches and completed tasks: theorems and proofs |
| `OrchestrationDb_workers` | the end of a dispatch's authority, and what a worker may rely on until then: theorems and proofs |
| `OrchestrationDb_tasks` | what a task goes through: dependencies, the circuit of its failures, and the refinement of `TaskOwnership`: theorems and proofs |
| `FederationRelay` | both databases and the network between them for one remote dispatch |
| `ReportAgreement` | the abstract promise of the relay: who decides about a report, who repeats it |
| `FederationRelay_proofs` | types, cursors, reports, control mail and the refinement of the relay: theorems and proofs |
| `RunMailbox` | the mailbox of a Run, its binding, and the calls of `orchestration.check` |
| `ConsumerLease` | the abstract promise of the mailbox: mail is leased to one consumer, and finished by it or withdrawn |
| `RunMailbox_proofs` | types, batches, answers and the refinement of the mailbox: theorems and proofs |
| `RunMailbox_wakeups` | that no waiting coordinator sleeps on its mail: theorem and proof |
| `MutationReceipts` | the ledger of mutations and the executor |
| `MutationReceipts_proofs` | theorems and proofs about it |
| `MCOrchestrationDb`, `MCFederationRelay`, `MCRunMailbox`, `MCMutationReceipts` | the definitions and symmetry sets of the TLC instances |

### `OrchestrationDb`: state and code

`tasks` is the status column ("absent" before `createTask`); `dispatches` has one
row per `dispatch_contexts` row, numbered in rowid order because the code asks for
the latest row of a task; `workers` is `worker_dispatches.state`, "none" for a
context-only dispatch; `questions` is the set of dispatches with a pending
question; `gates` the gate rows. A row keeps what the code decides on: status,
failure count, assignee terminal, whether a capability was minted and whether it
was revoked, the class of its last failure, and where it runs. The rest is control
state of JavaScript functions that are suspended:

- `startCall[d]`: where the `worker-start` handler of `d` awaits: building the
  topology, the prompt, or the remote attach;
- `stopCalls`, `sendCalls`: the `worker-stop` handlers and prompt writes in flight;
- `recovery`: the rows the start-up snapshot still holds.

`Restart` clears the first three and takes a new snapshot, and leaves the tables alone.
A start persists its terminal before it attaches authority, and the model does not follow
where in between it is. So whether `worker-stop` of a start with unknown outcome has a
terminal to await ("stopping") or none ("stop_unknown") is a free choice in `WorkerStop`.

| Actions | Code |
|---|---|
| `TaskCreate`, `TaskUpdate` | `createTask`; `updateTaskStatus` with its guard (`UpdatePermitted`), settlement and promotion |
| `DispatchTask`, `PromptSent`, `PromptFailed` | the dispatch RPC and the loop's `dispatchTaskToWorker` around the awaited prompt |
| `Escalate`, `ReleaseContextOnly` | escalation triage; the release of a context-only dispatch by stop or abandon |
| `WorkerStart`, `WorkerRetry`, `AttachAuthority`, `WorkerReady` | the transactions of `worker-start` |
| `FailStart`, `StartUnknown`, `StartFenced` | its error paths, and its return after another actor moved the row |
| `RemoteStartReport`, `RemoteStopReport`, `StopResumed` | what the home store does with a worker server's answers |
| `WorkerStop`, `StopSettled`, `StopUnknown`, `StopFenced`, `Abandon` | `worker-stop` and `worker-abandon`; the epoch check that turns an orphaned start or stop into "unknown" |
| `TerminalExit`, `Restart`, `RecoverMissing`, `RecoverDone` | the exit callback and start-up recovery |
| `WorkerReport`, `Ask`, `AnswerQuestion` | `settleWorkerReportInTransaction` and the question threads |
| `GateCreate`, `GateResolve` | `createGate`, `resolveGate` |

Abstractions: identities, titles, results and message texts are dropped. A pane and
its handle are one terminal (the remint of a handle is left out). Capabilities are
two Booleans: a report carries the right secret or none. The last failure is the
class a later step tests (a stalled prompt) or a property counts. Heartbeats and
timestamps, nesting depth, mutation receipts and terminal-resource rows are left
out: no guard of these operations but their own reads them. `completeDispatch`,
`failActiveDispatchForTask` and `timeoutGate` are called by tests only.

Operators named `Buggy...` are plausible wrong versions of the operator that
follows them. Nothing in the specification uses them; each one is substituted for
the real operator to see that a property notices.

### `FederationRelay`

State of the worker's server: the queue `outbox` (`federation_relay_items` of direction
to_home), the attachment `att`, the import cursor and the agent's mailbox for control
mail, the receipts of the two mutations, and the runtime's `epoch`. State of the home:
the worker row `home`, the imported `mailbox`, the acknowledgment it recorded and for
which epoch, the in-memory `checkpoint`, its own queue. `sync` is the local state of
`syncFederatedDispatch` between its awaits, `call` the RPC it awaits, `late` the
acknowledgments it gave up and the server may yet run.

| Actions | Code |
|---|---|
| `SendStatus`, `SendHeartbeat`, `SendReport` | `sendRemoteMessage` and `enqueueFederationRelay`: heartbeat refreshed, identical report returned, the report that takes a heartbeat's row in a full queue |
| `Tick`, `ShowSync`, `NextPage` | the pull, from the timer, the terminal-history recovery, `worker-show`, or the next page |
| `Import`, `ImportRefused` | one transaction of `importFederatedRelayItem` |
| `SendAck`, `RecordAck`, `CallRefused` | the acknowledgment with the verdicts of the page |
| `PushMail`, `RecordMail`, `SendMail` | control mail to the worker |
| `HandleAck`, `HandleLateAck`, `HandleImport` | the handlers of the worker's server, behind their receipts |
| `HomeStop` to `ShowStopped`, `ShowEpoch`, `Abandon` | stop and abandonment on both sides |
| `CallLost`, `StopLost`, `HomeRestart`, `WorkerRestart`, `CrashInAck`, `CrashInImport` | faults, counted by `MaxFaults` |

A pull changes nothing at the server, so call and answer are one step, a snapshot; the
items are imported from the snapshot later. Message kinds are three: one that is only
delivered, the heartbeat, the report; a report has one of two outcomes or does not fit
the dispatch ("misfit").

### `RunMailbox`

`mail` is the `messages` table in sequence order with the mailbox a row is in, `run` the
binding with its consumer generation, `deliveries` the batches, `check[c]` the local
state of a call of `orchestration.check` between its awaits: routing pages, acting,
waiting, woken, forwarding a settled dispatch's mail. `answered` remembers which batches
an answer brought to a pane, so that a pane acknowledges only what it may know.
`superseded` and `replied` record the mail somebody other than the consumer marked read,
and why. `dispatch` is one dispatch; its `heartbeat` and `worker_done` messages are types
of their own, and a message of any other dispatch is of another type.

| Actions | Code |
|---|---|
| `SendToRun`, `SendToDispatch`, `SendToPane` | `sendPointToPointMessage` with `resolveBareOrchestrationRecipient`, `reconcileLifecycleMessage` and the wake of waiters: a heartbeat of a dispatch that is over is inserted read (`InsertObsolete`), a report that is accepted settles the dispatch and marks its unread heartbeats in that mailbox read, those of an outstanding batch too (`InsertReport`) |
| `Reply` | `orchestration.reply`: whoever replies, the message replied to is marked read, and the reply may be new mail |
| `RunUse`, `Leave` | `bindRun`, `unbindOtherRunsForPane`: direct mail moves, the batch is fenced, waiters are cancelled |
| `BeginRun`, `BeginDispatch`, `RoutePage` | the start of a check, and each page of direct mail it takes along |
| `ActOnRun`, `ResumeOnRun` | what `checkRunMailbox` does without a pause: revalidate, acknowledge, read, register the waiter; and after the wait |
| `ActOnDispatch`, `ResumeOnDispatch`, `ForwardPage` | the same of `checkWorkerMailbox`, with the forwarding of a settled dispatch's mail |
| `TimeOut`, `Abort`, `Restart` | the ends of a wait |
| `Assign`, `Settle` | what the mailbox sees of a dispatch's life |

### `MutationReceipts`

`ledger` is the table, `inFlight` the promises of the executor, `call` the calls, `answers`
what clients were told. `effects` lists how a request was carried out since an error behind
its effect last made the ledger forget it. `lost` holds the requests the ledger promises
nothing for: the receipt was pruned, or deleted by the failure of a start while the accepted
start it belongs to, or a call that joined a duplicate, goes on (`Shared`). Identity of the
caller and the hash are one request id and one payload. Ages are not modelled: which
completed receipts count as old is a free choice, so pruning may take any of them.

| Actions | Code |
|---|---|
| `Begin`, `BeginStart`, `Join`, `Replay`, `Resume` | the branches of `OrchestrationMutationExecutor.run` |
| `Effect`, `Accept` | the handler; the acceptance of a start inserts the receipt with its effect |
| `Record`, `Complete`, `CompleteFails` | `completeMutationReceipt`, early or at the end |
| `Fail`, `FailUnknown` | errors: the pending receipt is deleted, or kept when the outcome is unknown |
| `Restart` | the process ends; the table stays |

`Fail` and `FailUnknown` are possible wherever a handler is, before its effect and behind
it: the executor deletes the pending receipt on every error but `operation_unknown`
(`orchestration-mutation-executor.ts:112`) and does not ask what has happened by then.
Behind an effect the code does throw other errors: `worker-start` when the dispatch ended
during the prompt (`worker-dispatch-outcome.ts:50`), `dispatch --inject` when the prompt
was not delivered (`orchestration-dispatch-methods.ts:128`), `worker-stop` when its
dispatch has moved on (`worker-dispatch-stop.ts:206`). The client is told of the error, and
its next call with the same id is carried out anew. `Fail` therefore resets `effects`: the
properties count from such an error on, and say that nothing else, neither a repetition nor
a concurrent call nor a restart, carries a request out twice.

## 3. Properties

Of `OrchestrationDb`:

| Property | Says |
|---|---|
| `OneActivePerTask` | a task is worked on by at most one dispatch: the store's `LIMIT 1` queries never choose |
| `OneActivePerTerminal` | a terminal serves at most one active dispatch |
| `ActiveOnlyWhileWorked` | only a dispatched or blocked task has a dispatch at work |
| `NoStrandedTask` | a task is not "dispatched" after its last dispatch ended |
| `DeadWorkerReleased`, `LiveWorkerKeepsDispatch` | the worker table and the dispatch table agree on who is working |
| `AuthorityEndsWithDispatch` | a settled dispatch has no valid capability, but for a stalled prompt whose worker may be running |
| `ReadyWorkerCanReport` | a local worker shown as ready can settle its dispatch |
| `NoQuestionAfterSettling` | a worker that succeeded, was stopped or abandoned has no open question |
| `NoStrandedPending` | a pending task waits for a dependency that is not completed |
| `CircuitBreaks` | failures accumulate over the retries of a task |
| `SettledStaysSettled` | a settled dispatch is changed only by a report that corrects an unobserved prompt |
| `CompletedStaysCompleted` | no late failure, stop or report reopens a completed task |
| `CompletionIsReported` | without the coordinator, a task completes only together with a dispatch that was working on it |
| `ImplementsOwnership` | the store implements `TaskOwnership`: grants, ends, reports and decisions, one owner at a time |
| `OwnershipInv`, `AuthorityInv` | the inductive invariants behind the proofs of ownership and of authority |
| `PendingGateHoldsTask`, `RemoteReportAccepted` | documented expectations the code does not meet (section 5) |

Of the relay, the mailbox and the ledger:

| Property | Says |
|---|---|
| `AckedReportIsHome` | a report the worker's server no longer queues is in the home's mailbox, with its content |
| `CursorsInOrder` | recorded as acknowledged, acknowledged, imported: each is behind the next, in both directions |
| `MailOnceInOrder` | control mail is inserted once and in the order it was sent |
| `ImplementsAgreement` | the relay implements `ReportAgreement`: the home decides once, the server ends the worker only as decided or as a stop asked |
| `ReportReachesHome`, `WorkerLearnsVerdict`, `MailArrives` | liveness of the three flows, with the exceptions named in them |
| `HomeLearnsAck` | the documented retry of an acknowledgment, which the code does not meet (section 5) |
| `OneIntactBatch` | one outstanding batch, of the current generation, whose mail nobody moved, and nobody marked read but by a reply to it or because it is a heartbeat of a dispatch that is over |
| `NoSleepingConsumer` | no waiting coordinator sleeps on mail it asked for, by whatever path the mail came |
| `AnswersCurrentConsumer` | a batch is answered only to the bound pane, for its own generation |
| `ImplementsLease` | the mailbox implements `ConsumerLease`: mail is finished by the consumer it was handed to, or withdrawn as superseded or replied to, never both, and withdrawn mail is not handed out again |
| `EffectOnce`, `EffectHasReceipt` | a mutation is carried out once, what was carried out has its receipt with its input; until the handler itself fails with an ordinary error behind its effect |
| `AnswersRepeat` | all clients of a request got the answer the ledger repeats |
| `HandlersExclude` | handlers of one request exclude each other, but for starts before acceptance |

## 4. Model-checking runs

| Run | Instance | Question | Distinct states |
|---|---|---|---|
| `supervised` | 1 task, 1 terminal, 3 dispatches, local and injected workers, every update status | who may still report or ask, and what a report may change, through starts, stops, exits, restarts, retries | 639 000 |
| `mixed` | 1 task, 2 interchangeable terminals, 2 dispatches, local, remote and injected workers, 1 gate | one owner, and the refinement of `TaskOwnership`; an ended dispatch leaves neither authority nor a stranded task | 182 000 |
| `context` | 1 task, 3 dispatches, the code's limit of 3 failures, all three dispatchers, 1 gate | the circuit breaker over retries | 441 000 |
| `chain` | 2 tasks, the second depends on the first, 1 terminal, supervised and loop dispatches | promotion of dependents, contention for one terminal | 195 000 |
| `relay` | both protocol generations, queue of 2, 2 items each way, pages of 2, stop and abandon, 1 fault | safety of the relay and its refinement | 1 821 000 |
| `relay_live` | pages of 1, control mail, no stop, 2 faults, fairness | liveness of the relay | 272 000 |
| `mailbox` | 2 coordinators, 1 worker, 2 checks at a time, 2 messages (heartbeat, report, other), batches of 1, 2 generations | the mailbox and its refinement | 1 490 000 |
| `receipts` | a plain mutation, a start and a release, 2 inputs, 2 calls at a time, 2 rows | the ledger | 616 000 |
| `gated`, `breaker`, `remote_report`, `relay_ack` | smallest instances | the findings | counterexample |

Bounds. `MaxDispatches` caps the rows of `dispatch_contexts`. A retry looks at the
latest row only, so two rows show every interference of a row with its successor,
and three show that of a stale first row with a retry of a retry. One task is enough
for everything but promotion and the terminal lock, which `chain` has two for.
`BreakAt` is the code's 3 where the breaker is the question and 2 elsewhere, so that
breaking happens within the bound. The runs of `OrchestrationDb` check for
deadlock and none occurs: the runtime can always restart. The others do not: their
bounds (messages, faults, generations, effects) let a behaviour come to its end.

`relay`: a queue of two is full after a heartbeat and a status, which is when a report
takes a heartbeat's row; two items are two pages of one (`relay_live`) or a full page
(`relay`), which is when the acknowledgment is recorded one short. One fault of any kind
in `relay`, two in `relay_live`, fall at every point of a sync. `mailbox`: with batches
of one and two messages a routing or forwarding has two pages, so everything may happen
between them; two generations are a takeover, and two checks are a consumer and its
successor, a waiter and a forwarder, or two waiters. `receipts`: two rows for three
requests force pruning and refusal; two calls are a first attempt and its repeat. An
accepted start, a duplicate of it and a call that joined the duplicate would be three; of
more than two calls only the proofs speak.

`UpdateStatuses` is what a coordinator passes to `task-update`. `mixed` leaves out
"dispatched": the store permits that update while the dispatch's worker is being
stopped, and then the report of the worker settles the dispatch behind the stop, or
a recovery of the stop leaves the task "dispatched" alone. `NoStrandedTask` and
`LiveWorkerKeepsDispatch` therefore hold for coordinators that do not force that
status on a stopping worker. `chain` leaves out "pending", which would make
any task pending by decree, and "dispatched", which is covered elsewhere.

Fairness. The steps of `OrchestrationDb`, of the mailbox and of the ledger are those of
people and agents, which nothing obliges to act, and no liveness is claimed of them.
`relay_live` and `relay_ack` assume `RelayFairness`: weak fairness of the tick, of the
steps of a sync, and of the server's handlers. `ensureRelay` sets a timer of one second
for as long as a dispatch is eligible (`runtime-orchestration-federation.ts:161`), and
the terminal-history recovery does so for settled ones (`:190`); a sync runs to its end
because each of its calls has a timeout of 15 seconds; a running server answers what it
received. Faults are bounded by `MaxFaults`, so calls are not lost for ever; nothing is
assumed of agents, stops or late calls.

The liveness properties name what is not promised. *Interrupted*: the server ended
between a receipt and its completion, and repeats with that id are unknown outcomes from
then on. *Displaced*: a report took the row of a heartbeat the home had imported
already, and its import is refused. *Unrecorded*: the lost acknowledgment of finding 4.

## 5. Findings

1. **A resolved gate releases a task that another gate still holds** (`gated`).
   `resolveGate` moves the task to "ready" without looking at its other gates. The
   loop re-blocks such tasks at its next tick, but a dispatch in between makes that
   update illegal; it then throws out of the tick and the run is marked failed.
2. **Supervised failures do not accumulate** (`breaker`). A supervised row starts
   with a failure count of 0, whereas `createDispatchContext` carries the maximum of
   the task forward; the guide promises that three failures on a task break the circuit.
   In the run a task is given to three supervised workers, whose terminals exit one after
   another, and the circuit stays closed.
3. **A remote report is refused after a late stop** (`remote_report`). A stop that
   meets a finished remote worker puts the worker back to "ready", waiting for its
   report, but leaves a never acknowledged dispatch "pending", and the settlement
   takes reports for "dispatched" rows only.
4. **A lost acknowledgment is never repaired** (`relay_ack`). The id of an
   acknowledgment is its last sequence; its input also holds the verdicts. After the
   answer of one that settled a report is lost, the queue is empty of that report, the
   next acknowledgment of the same sequence carries other verdicts, and the ledger
   refuses it as a mismatch, in every sync from then on. The verdict has arrived, but
   the home polls for ever and control mail behind the acknowledgment is not sent.

The models also contain behaviours no document speaks about, so they are hazards in
`PROJECT.json` and not findings: an ordinary error behind the effect deletes the receipt,
and a repetition carries the request out again; a failing duplicate of a start deletes the
receipt of the accepted one; a check that peeks and waits marks a dispatch's mail as read; a
worker's mail is marked before its answer arrives.

## 6. What is proved

The theorems about the store hold for every set of tasks, terminals and gates, every
dependency relation, any number of dispatches and any limit of failures, from the
assumption `ConstantsAssumption` alone; those about the ledger, the mailbox and the
relay from the assumption of their module. Five state one hypothesis more:

| Theorem | Hypothesis | Without it |
|---|---|---|
| `LiveWorkersKeepDispatch`, `TasksNotStranded` | no `task-update` to "dispatched" | such an update of the task of a worker that is being stopped lets a report settle its dispatch (section 4) |
| `PendingNotStranded` | no `task-update` to "pending" | the update makes a task pending whatever its dependencies are |
| `CircuitOpensInTime` | no supervised worker (`Hosts = {}`) | run `breaker` refutes it (finding 2) |
| `ConsumersWake` | no pane both binds a Run and works for it | direct mail of such a pane wakes nobody |

Each holds of the run that checks its property, and `ReadyWorkersCanReport`,
`SettledWorkersAskNothing` and `StoreIsOwnership` need none of them.

### Types and ownership (`OrchestrationDb_proofs`)

- `TypeCorrect`: `Spec => []TypeOK`;
- `OwnershipInvariant`: `Spec => []OwnershipInv`, and from it
- `TaskHasOneOwner` (`OneActivePerTask`), `IdleTaskIsFree`
  (`ActiveOnlyWhileWorked`) and `DeadWorkerHoldsNothing` (`DeadWorkerReleased`).

The argument. A dispatch is created in two ways. For a *ready* task there is no
active dispatch at all, since active dispatches occur on dispatched and blocked
tasks only. A *retry* is different: the task may be blocked, where a dispatch can be
active, and the code checks only that the retried row is the latest of the task and
that its worker is dead. That is safe because a dead worker's row is not active
(`DeadWorkerReleased`) and because no row but the latest can be
(`ActiveIsLatest`): the two together leave no active row, which is the lemma
`RetryFindsTaskFree`. `OneActivePerTask` is not inductive by itself, since nothing in
it relates a retried row to the older ones; `OwnershipInv` adds `ActiveIsLatest`,
the order of the rows (`RowsContiguous`) and the two agreements between tables.

Almost every other action changes one row and only ever ends it; the lemma
`OwnOneRow` covers them, and what remains of each action is that the task's new
status fits. `OwnFailDispatch`, `OwnEscalate`, `OwnStopStep`, `OwnRecoverMissing`
and `OwnWorkerReport` are the cases with a real argument.

### The terminal lock (`OrchestrationDb_proofs`)

`TerminalLockHolds`: `Spec => []OneActivePerTerminal`. With the types, the property is
inductive by itself. Two transactions take a terminal, `DispatchTask` and
`AttachAuthority`, and each looks at the active rows of all dispatches; every other
step keeps the terminal of the row it changes and activates no row. Those two facts
are the lemma `LockOneRow` and its uses.

### Authority (`OrchestrationDb_workers`)

`AuthorityInvariant` (`Spec => []AuthorityInv`), and from it `AuthorityEnds`. By itself
the property is not inductive: `settleWorkerStop` ends the dispatch and revokes
nothing, so `StoppingIsRevoked` must say that the stop revoked the dispatch when it
began. `OwnershipInv` supplies that the worker of an active dispatch is not dead, which
a reader of the failure paths takes for granted.

### Settled dispatches and completed tasks (`OrchestrationDb_settling`)

The three action properties: `SettledForGood` (`SettledStaysSettled`),
`CompletedForGood` (`CompletedStaysCompleted`) and `CompletionNeedsReport`
(`CompletionIsReported`). `failWorkerStart` and the reconciliation of a failed remote
start settle the dispatch of a worker that is still starting without looking at the
dispatch; `StartHoldsItsDispatch` proves that it is pending then. `CompletedForGood`
also needs ownership: a late interruption of an active dispatch finds its task
dispatched or blocked, never completed.

### Workers (`OrchestrationDb_workers`)

- `ReadyWorkersCanReport` (`ReadyWorkerCanReport`),
- `LiveWorkersKeepDispatch` (`LiveWorkerKeepsDispatch`), `TasksNotStranded`
  (`NoStrandedTask`), and
- `SettledWorkersAskNothing` (`NoQuestionAfterSettling`).

The first three come from one invariant, `HoldInv` (`LiveWorkerHoldsTask`): a live worker
holds an active dispatch; while it starts or runs its task is "dispatched", and while it is
unknown or being stopped the task is "blocked". None of its parts is inductive by itself. A
report settles the dispatches of its task, so that it settles no other live worker's needs
the one owner of a task (`OwnershipInv`); that it does not settle its own behind a stop
needs its capability to be revoked then (`StoppingIsRevoked`), or the task to be blocked,
which a report does not fit. The first argument covers local workers only, since an imported
report carries no capability; the second covers all, but only while the coordinator does not
write "dispatched" over "blocked". `HoldInv` therefore speaks of local workers without a
hypothesis and of the others with it (`Watched`). A task that is "dispatched" keeps an
active dispatch in every step that ends one because its last owner's end moves the task,
and the paths that end a dispatch without moving it (`RecoverMissing` of a worker being
stopped) find it blocked.

`LocalWorkerHasCapability` supplies what `MayReport` asks: the steps of a start attach
terminal and capability together, and only a local start comes by that way.
`DispatchesHaveTasks` is the foreign key of the table.

For questions, `settleWorkerStop` closes none. So the invariant (`QuestionInv`) also says that a
worker being stopped has none: beginning the stop closed it, and none is asked while the
capability is revoked (`AskerIsWorking`). That a stop which had lost its terminal is marked
unknown in the same handler, and so never asks again, is part of that case.

### Tasks (`OrchestrationDb_tasks`)

`PendingNotStranded` (`NoStrandedPending`). With the types the property is inductive: steps of
contexts, workers, recoveries and gates write no "pending" and no "completed"
(`NonePendsNext`), and a completion promotes every dependent whose other dependencies are
complete, in the same step (`PendingEndTask`).

`CircuitOpensInTime` (`CircuitBreaks`). `createDispatchContext` gives a new row the largest
failure count of its task, and only the latest row of a task can be active and fail
(`ActiveIsLatest`). Hence the counts of a task's rows rise, strictly at each counted failure
(`FailuresRise`), and a counted failure that reaches the limit breaks the circuit instead
(`CountedBelow`). Counted failures of a task so have different counts from 1 to
`BreakAt - 1`, and there are fewer of them than `BreakAt` (`FewCountedFailures`, by the
pigeonhole theorem of the library). Supervised rows start at zero, so neither part
survives them.

`StoreIsOwnership` (`ImplementsOwnership`) is the refinement, below.

### The ledger (`MutationReceipts_proofs`)

From `LedgerConstants` alone, for any requests, calls, capacity and batch:
`TypeCorrect` (`TypeOK`, with the capacity), `CarriedOutOnce` (`EffectOnce`),
`CarriedOutRecorded` (`EffectHasReceipt`), `OneAnswer` (`AnswersRepeat`) and `OneHandler`
(`HandlersExclude`), all from the inductive invariant `IInv`.

The argument. `EffectOnce` needs to know who may still carry a request out. For a
request that is not a start, the handler is the registered promise and its row is pending
until it completes (`Registered`, `Owned`, `Matched`): a second call finds the row and
joins or is refused, so there is one handler (`Sole`). A start runs without a row, so
two may run; only an acceptance that finds no row carries it out, and the row it inserts
stays until it is lost or its handler fails (`OneCarrier`, `Carried`). `Staged` ties what a
call has done to the row it did it for. The hard step is an error. Before the effect
(`FailedEarly`) it deletes a row of a request that was not carried out, or, of a start, the
row of another call, and then the request is lost. Behind the effect (`Forgotten`) it deletes
the row together with what it stood for; the calls that had joined end with it, so that
what goes on is at most a start that has no receipt yet. `AnswersRepeat` follows because an answer is given only with, or
from, a completed row, and a completed row of a request changes only when the request is
lost. All the actions that end a call share the lemmas `Ended`, `EndedSole`, `EndedKept`.

### The mailbox (`RunMailbox_proofs`, `RunMailbox_wakeups`)

From `MailboxConstants`, for any panes, message types, batch size, calls and bounds:
`TypeCorrect` (`TypeOK`), `BatchIntact` (`OneIntactBatch`), `AnswersOnlyCurrent`
(`AnswersCurrentConsumer`) and `MailboxIsLease` (`ImplementsLease`), all from the
inductive invariant `IInv`.

The argument. A check looks at the binding, awaits, and looks again; what it believes
meanwhile may be stale. `Called` says how stale: its generation has existed, and if it is
the current one its pane is bound. A takeover fences the outstanding batch with the
generation it ends, so an outstanding batch is of the current generation (`Intact`), and
a check of an older one is refused before it reads or acknowledges. Between a delivery
and its acknowledgment no other step reads or moves the Run's mail: a binding moves
direct mail only, a forwarding mail of the dispatch, and a second check of the same
consumer gets the batch that is outstanding. Hence at most one batch is out (`OneOut`).
Mail of a batch is marked read from outside by a report and by a reply only, and both
record it; a superseded heartbeat stays one of a dispatch that is over, because a dispatch
that has settled does not start again (`Withdrawn`, `Excused`).
For the lease, a send posts and may supersede (`SendPosts`), a reply withdraws
(`ReplyWithdraws`), the routing steps post or stutter (`PostOrStutter`), a binding is a
takeover (`BindingStep`), and the uninterrupted part of a check finishes the acknowledged
batch and leases the next (`Serves`, `NextBatch`). The latter needs `Intact` to see that what
the batch finishes is exactly its mail that was not withdrawn meanwhile.

`ConsumersWake` (`NoSleepingConsumer`): mail comes into the Run's mailbox by a send, which
wakes the waiters it matches (`SendWakes`), or by a reply, which does the same
(`ReplyWakes`), while an obsolete heartbeat comes in read; by a binding, which cancels all of them; by the forwarding
of a settled dispatch, which announces the types it moved only after its last page, so
that a sleeper may rely on an announcement that is still due (`Promised`); or by routing
direct mail of the bound pane, which announces nothing. The last is harmless because a
bound pane has no direct mail (`NothingToRoute`), and that needs the hypothesis of the
theorem: no pane both binds the Run and works for it. For such a pane the binding spares
the direct mail of its active dispatch, and TLC finds a waiting check that another check
passes by when it routes that mail later.

### The relay (`FederationRelay_proofs`)

From `RelayConstants`, for any capacity, page size, number of pages, items, mail and
faults: `TypeCorrect` (`TypeOK`), `ReportsAreHome` (`AckedReportIsHome`),
`CursorsStayInOrder` (`CursorsInOrder`), `MailComesOnce` (`MailOnceInOrder`) and
`RelayAgrees` (`ImplementsAgreement`), all from the inductive invariant `IInv`.

The argument. A page and an acknowledgment are copies that outlive what they were taken
from: items may be queued, acknowledged and replaced before they are imported, and an
acknowledgment may run after the home gave it up. Two facts keep the copies true. A report
never leaves its sequence, since only an unacknowledged heartbeat is replaced, so a pulled
or imported report is still what the worker's server has there (`Pulled`, `Copied`). And
the mailbox of the home only grows, so an acknowledgment that named imported items, with
verdicts its messages back, is as good late as it was when sent (`Covered`, `Backs`).
`AppliedAck` then shows that what an acknowledgment newly acknowledges is imported, and a
report among it is a report at home. The checks of `acknowledgeFederationRelay` carry this: an
acknowledgment taken before a report took a heartbeat's place omits that report and is refused.

`Decided` relates the two decisions. The home accepts a report only while ready and then
leaves that state, so all accepted messages have one outcome, and a rejected one would not be
accepted later (`ReimportDecides`). A stop begins from ready, so with a stop under way
nothing is accepted (`Unsettled`), and a worker's server that a stop finds settled
(`StopBegins`, else branch) does not occur with lifecycle settlement. `Mailed` holds over
an import that ended between a message and its sequence, because the next import begins
behind the messages that are there (`InsertedMail`).

For the refinement each step leaves verdict and knowledge alone or cancels (`QuietSteps`,
`HomeKeepsOrCancels`), accepts while the worker is ready (`ImportAccepts`), teaches the
outcome (`AckTeaches`) or carries out a stop (`StopCarriesOut`).

### Refinements

`ImplementsOwnership`, `ImplementsLease` and `ImplementsAgreement` are checked by TLC and
proved (`StoreIsOwnership`, `MailboxIsLease`, `RelayAgrees`).

`TaskOwnership` knows of a dispatch only its phase and its task: a new row is granted a
task nobody works on and that is not completed (`GrantsTask`); an active row ends
(`EndsWork`); a report decides about the task of the one active row, or of a row that ended
with its prompt unseen while nobody followed (`ReportsOutcome`); a coordinator's decision
ends the owner with it (`CoordinatorDecides`); the other steps leave phases and completed
tasks alone (`OtherSteps`). It joins what the separate properties say: a late handler that
revived a settled row, a retry beside an active one, a report that fits a task which moved
on, are all no steps of it. The proof uses `OwnershipInv`, the foreign key for retries
(`DispatchesHaveTasks`), and `StartHoldsItsDispatch` for the failing start, which looks at
the worker only.

`ReportAgreement` maps the
home's decision to the report it accepted, and "cancelled" once it gave the worker up;
the server's knowledge to the state of its attachment. For protocol 2, where the server
settles by itself, the mapping is constantly "open". `ConsumerLease` maps the batch a
consumer holds to the outstanding delivery, and finished mail to read mail of the Run that
was not withdrawn.

### Only model-checked

Liveness: `ReportReachesHome`, `WorkerLearnsVerdict` and `MailArrives`, since liveness under
fairness is out of the prover's reach, as is `ENABLED`. That the runs of `OrchestrationDb`
do not deadlock is checked only, too. Every other property of a passing run is a theorem.

## 7. Not modelled

Of the modelled parts:

- relay: questions and their replies, the byte quota, the payload of a heartbeat, the
  start of the attachment, syncs that overlap after `stopRelay` or a database change,
  the waiter of a send that waits in memory for its verdict;
- mailbox: the direct mailbox of a pane that neither coordinates nor works, the legacy
  contract, mailboxes of remote attachments, the pointer typed into an idle terminal; the
  change of mailbox a reply makes to the older direct mail of its sender, and a question
  answered otherwise than by `orchestration.reply`; reports of other dispatches of the Run
  (each supersedes its own heartbeats alone; a report imported from another server
  supersedes none);
- ledger: the encoding of a receipt; what a mutation does other than that it happened.

The coordinator loop (`coordinator.ts`) is modelled as far as its transactions on the
store go. Its tick, slots and convergence are not: `orchestration.run` and `runStop` are
retired (`src/shared/orchestration-rpc-contract.ts:41`) and refused by the contract fence
(`src/main/runtime/rpc/orchestration-contract-fence.ts:19`), so only tests reach the loop.

Candidates for further modules, whose difficulty is the order of events: worker terminal
ownership, agent session leases, browser host leases, the ask loop, the terminal daemon.
Left out for good are the renderer, CLI and IPC plumbing (no state of their own that
others race for), git and forge wrappers, transcript parsing and the sidecar (external
processes), the JSON persistence (file-system behaviour), and the one-shot schema
migrations.

## 8. What is left

1. `WorkerTerminal`, `SessionLease`, `BrowserHostLease`: ownership and release.
2. Proofs: the invariants of the relay for protocol 2, and lemmas shared by the four
   proof modules of the store, which repeat the case split of `Next`.
