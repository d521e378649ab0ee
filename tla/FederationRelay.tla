--------------------------- MODULE FederationRelay ---------------------------
(***************************************************************************)
(* The relay between a Run home and the Kondex server that runs one of its *)
(* workers.  The worker's server queues what the agent sends (to_home) and *)
(* keeps it until the home acknowledges it; the home pulls, imports each   *)
(* item in a transaction of its own, returns the verdict on each report    *)
(* with the acknowledgment, and pushes the coordinator's control mail      *)
(* (to_worker).  Both directions cross a network that loses calls and      *)
(* answers and delivers late, and either side restarts.                    *)
(*                                                                         *)
(* One dispatch, whose remote start has succeeded.  The acknowledgment and *)
(* the import are mutations of the durable ledger: their receipts are in   *)
(* ackReceipts and importReceipts.                                         *)
(*                                                                         *)
(* An operator Buggy<X> is operator <X> with a plausible bug; nothing of   *)
(* the model uses it.                                                      *)
(***************************************************************************)
EXTENDS Naturals, Sequences, FiniteSets

CONSTANTS
  Protocols,   \* subset of {2, 3}: what home and worker server negotiated
  Reports,     \* the worker_done payloads an agent sends
  Commands,    \* subset of {"stop", "abandon"}: what a coordinator may do
  Capacity,    \* 256 in the code: unacknowledged rows a direction holds
  PageSize,    \* FEDERATION_PULL_PAGE_SIZE, 50 in the code
  MaxPages,    \* MAX_FEDERATION_PULL_PAGES_PER_SYNC, 6 in the code
  MaxItems,    \* bound: sequences of to_home
  MaxMail,     \* bound: sequences of to_worker
  MaxFaults    \* bound: lost or late calls, crashes and restarts

Settling == 3  \* ORCHESTRATION_FEDERATION_LIFECYCLE_SETTLEMENT_PROTOCOL_VERSION
Kinds    == {"status", "heartbeat", "worker_done"}
Verdicts == {"none", "completed", "failed", "rejected"}

ASSUME RelayConstants ==
  /\ Protocols \subseteq {2, 3}
  /\ Reports \subseteq {"succeeded", "failed", "misfit"}
  /\ Commands \subseteq {"stop", "abandon"}
  /\ {Capacity, PageSize, MaxPages} \subseteq Nat \ {0}
  /\ {MaxItems, MaxMail, MaxFaults} \subseteq Nat

VARIABLES
  protocol,        \* remote_dispatch_attachments.protocol_version
  \* the worker's server
  outbox,          \* rows of to_home by sequence
  att,             \* remote_dispatch_attachments.state
  epoch,           \* runtimeId of its runtime, counted by restarts
  mailIn,          \* to_worker_imported_sequence
  delivered,       \* control mail in the agent's mailbox, in order of insertion
  ackReceipts,     \* through |-> receipt of request relay_ack_<d>_<through>
  importReceipts,  \* last |-> receipt of request relay_import_<d>_<last>
  \* the Run home
  home,            \* worker_dispatches.state of the dispatch
  mailbox,         \* imported messages by sequence
  homeAcked,       \* to_home_acknowledged_sequence
  homeEpoch,       \* remote_runtime_epoch, 0 when NULL
  checkpoint,      \* the in-memory acknowledgment checkpoint
  mailSent,        \* sequences of to_worker
  mailAcked,       \* of which acknowledged
  sync,            \* where syncFederatedDispatch stands
  \* between them
  call,            \* the federationAck or federationImport the sync awaits
  late,            \* acknowledgments given up by the home, maybe still to run
  stop,            \* the federationStop call
  stopWaits,       \* the worker-stop handler of the home awaits its answer
  faults           \* faults so far

workerVars == <<outbox, att, epoch, mailIn, delivered, ackReceipts, importReceipts>>
homeVars   == <<home, mailbox, homeAcked, homeEpoch, checkpoint, mailSent, mailAcked>>
netVars    == <<call, late, stop, stopWaits, faults>>
vars       == <<protocol, workerVars, homeVars, sync, netVars>>

Least(a, b) == IF a < b THEN a ELSE b
Most(a, b)  == IF a > b THEN a ELSE b

Imported     == Len(mailbox)      \* to_home_imported_sequence
NoReceipt    == [state |-> "none", settled |-> {}]
NoCheckpoint == [epoch |-> 0, through |-> 0]
NoCall       == [method |-> "none", through |-> 0, settled |-> {}, state |-> "none"]
Idle         == [pc |-> "idle", items |-> {}, cursor |-> 0, epoch |-> 0,
                 durable |-> 0, settled |-> {}, left |-> 0, full |-> FALSE]

Init ==
  /\ protocol \in Protocols
  /\ outbox = <<>> /\ att = "ready" /\ epoch = 1
  /\ mailIn = 0 /\ delivered = <<>>
  /\ ackReceipts = [n \in 1 .. MaxItems |-> NoReceipt]
  /\ importReceipts = [n \in 1 .. MaxMail |-> "none"]
  /\ home = "ready" /\ mailbox = <<>> /\ homeAcked = 0 /\ homeEpoch = 1
  /\ checkpoint = NoCheckpoint /\ mailSent = 0 /\ mailAcked = 0
  /\ sync = Idle /\ call = NoCall /\ late = {} /\ stop = "none"
  /\ stopWaits = FALSE /\ faults = 0

(***************************************************************************)
(* The agent sends: enqueueFederationRelay                                 *)
(***************************************************************************)
OutcomeOf(report) == IF report = "misfit" THEN "succeeded" ELSE report

Unacked(kind) == {i \in DOMAIN outbox : outbox[i].kind = kind /\ ~outbox[i].acked}
Row(kind, report) == [kind |-> kind, report |-> report, acked |-> FALSE]
HasRoom == Cardinality({i \in DOMAIN outbox : ~outbox[i].acked}) < Capacity

Append1(kind, report) ==
  /\ HasRoom /\ Len(outbox) < MaxItems
  /\ outbox' = Append(outbox, Row(kind, report))

\* Only a ready attachment has the capability a send must present.
SendStatus ==
  /\ att = "ready"
  /\ Append1("status", "none")
  /\ UNCHANGED <<protocol, att, epoch, mailIn, delivered, ackReceipts, importReceipts,
                 homeVars, sync, netVars>>

\* A heartbeat refreshes the payload of the last unacknowledged one.
SendHeartbeat ==
  /\ att = "ready"
  /\ IF Unacked("heartbeat") # {} THEN UNCHANGED outbox ELSE Append1("heartbeat", "none")
  /\ UNCHANGED <<protocol, att, epoch, mailIn, delivered, ackReceipts, importReceipts,
                 homeVars, sync, netVars>>

Oldest(S) == CHOOSE i \in S : \A j \in S : i <= j

\* An identical queued report is returned; a full queue gives a report the
\* place, and the sequence, of the oldest unacknowledged heartbeat.
QueueReport(report) ==
  IF \E i \in Unacked("worker_done") : outbox[i].report = report
  THEN UNCHANGED outbox
  ELSE \/ Append1("worker_done", report)
       \/ /\ ~HasRoom /\ Unacked("heartbeat") # {}
          /\ outbox' = [outbox EXCEPT ![Oldest(Unacked("heartbeat"))] = Row("worker_done", report)]

\* Before lifecycle settlement the worker's server settles the attachment
\* itself when it queues the report.
SendReport(report) ==
  /\ att = "ready"
  /\ QueueReport(report)
  /\ att' = IF protocol < Settling THEN OutcomeOf(report) ELSE att
  /\ UNCHANGED <<protocol, epoch, mailIn, delivered, ackReceipts, importReceipts,
                 homeVars, sync, netVars>>

(***************************************************************************)
(* The home pulls and imports: syncFederatedDispatch                       *)
(***************************************************************************)
LiveHome == home \in {"ready", "stopping", "stop_unknown"}
Eligible == LiveHome \/ homeAcked < Imported

EndSync ==
  /\ sync' = Idle
  /\ checkpoint' = IF Eligible THEN checkpoint ELSE NoCheckpoint

BuggyWanted == {i \in DOMAIN outbox : i > Imported}

\* The whole queue, or what follows the last import before lifecycle settlement.
Wanted == {i \in DOMAIN outbox : IF protocol >= Settling THEN ~outbox[i].acked ELSE i > Imported}

\* The first PageSize of them
Page == {i \in Wanted : Cardinality({j \in Wanted : j < i}) < PageSize}

Item(i) == [seq |-> i, kind |-> outbox[i].kind, report |-> outbox[i].report]

\* The answer of federationPull: a snapshot the items are imported from.  The
\* durable watermark is read before the pull and used after the imports.
Pull(left) ==
  /\ sync' = [pc |-> "import", items |-> {Item(i) : i \in Page}, epoch |-> epoch, settled |-> {},
              left |-> left,
              cursor |-> IF protocol >= Settling /\ Page # {} THEN Oldest(Page) - 1 ELSE Imported,
              durable |-> IF homeEpoch = epoch THEN homeAcked ELSE 0,
              full |-> Cardinality(Page) = PageSize]
  /\ UNCHANGED <<protocol, workerVars, homeVars, netVars>>

\* The tick of ensureRelay, once a second, and the terminal-history recovery.
Tick == sync.pc = "idle" /\ Eligible /\ Pull(MaxPages)

\* worker-show of a worker whose server says it reported.
ShowSync ==
  /\ sync.pc = "idle" /\ ~Eligible
  /\ att = "succeeded" \/ (att = "failed" /\ protocol < Settling)
  /\ Pull(MaxPages)

NextPage == sync.pc = "next" /\ Pull(sync.left - 1)

\* settleWorkerReportInTransaction on the rows of this dispatch.
Verdict(report) ==
  IF report = "misfit" \/ home \notin {"ready", report} THEN "rejected"
  ELSE IF report = "succeeded" THEN "completed" ELSE "failed"

BuggyContiguous(item) == item.seq = sync.cursor + 1 /\ item.seq = Imported + 1

\* A sequence and a kind name a message: only a heartbeat that lost its place
\* to a report changes the id at its sequence.
Contiguous(item) ==
  /\ item.seq = sync.cursor + 1
  /\ IF item.seq <= Imported THEN mailbox[item.seq].kind = item.kind
     ELSE item.seq = Imported + 1

IsNext(item) == sync.pc = "import" /\ \A other \in sync.items : item.seq <= other.seq

\* importFederatedRelayItem, one transaction for each item.
Import(item) ==
  LET verdict == IF item.kind = "worker_done" THEN Verdict(item.report) ELSE "none"
  IN  /\ IsNext(item) /\ Contiguous(item)
      /\ mailbox' = IF item.seq <= Imported THEN mailbox
                    ELSE Append(mailbox, [kind |-> item.kind, report |-> item.report,
                                          rejected |-> verdict = "rejected"])
      /\ home' = IF verdict \in {"completed", "failed"} THEN item.report ELSE home
      /\ sync' = [sync EXCEPT !.items = @ \ {item}, !.cursor = item.seq,
                    !.settled = IF verdict # "none" /\ protocol >= Settling
                                THEN @ \cup {<<item.seq, verdict>>} ELSE @]
      /\ UNCHANGED <<protocol, workerVars, homeAcked, homeEpoch, checkpoint,
                     mailSent, mailAcked, netVars>>

\* The item is not the next one, or was committed without its message.
ImportRefused(item) ==
  /\ IsNext(item) /\ ~Contiguous(item)
  /\ EndSync
  /\ UNCHANGED <<protocol, workerVars, home, mailbox, homeAcked, homeEpoch, mailSent,
                 mailAcked, netVars>>

Watermark ==
  Most(IF checkpoint.epoch = sync.epoch THEN checkpoint.through ELSE 0, sync.durable)

BuggySendAck ==
  /\ sync.pc = "import" /\ sync.items = {}
  /\ IF sync.cursor > Watermark
     THEN /\ call' = [method |-> "ack", through |-> sync.cursor, settled |-> sync.settled,
                      state |-> "sent"]
          /\ sync' = [sync EXCEPT !.pc = "ack"]
     ELSE sync' = Idle /\ UNCHANGED call
  /\ UNCHANGED <<protocol, workerVars, homeVars, late, stop, stopWaits, faults>>

\* Nothing is acknowledged twice to the same runtime of the worker's server.
SendAck ==
  /\ sync.pc = "import" /\ sync.items = {}
  /\ IF sync.cursor > Watermark
     THEN /\ call' = [method |-> "ack", through |-> sync.cursor, settled |-> sync.settled,
                      state |-> "sent"]
          /\ sync' = [sync EXCEPT !.pc = "ack"]
     ELSE /\ sync' = [sync EXCEPT !.pc = "mail"]
          /\ UNCHANGED call
  /\ UNCHANGED <<protocol, workerVars, homeVars, late, stop, stopWaits, faults>>

\* A full last page stays eligible: its acknowledgment is recorded one short.
BuggyRecorded == call.through + 1
Recorded == IF sync.full /\ sync.left = 1 THEN call.through - 1 ELSE call.through

\* recordFederatedHomeAcknowledgment and the checkpoint.
RecordAck ==
  /\ sync.pc = "ack" /\ call.state = "done"
  /\ homeEpoch' = sync.epoch
  /\ homeAcked' = IF homeEpoch = sync.epoch THEN Most(homeAcked, Recorded) ELSE Recorded
  /\ checkpoint' = IF checkpoint.epoch = sync.epoch /\ checkpoint.through >= Recorded
                   THEN checkpoint ELSE [epoch |-> sync.epoch, through |-> Recorded]
  /\ sync' = [sync EXCEPT !.pc = "mail"]
  /\ call' = NoCall
  /\ UNCHANGED <<protocol, workerVars, home, mailbox, mailSent, mailAcked, late, stop, stopWaits, faults>>

\* A refused call throws out of the sync; the next tick starts again.
CallRefused ==
  /\ call.state = "refused"
  /\ call' = NoCall
  /\ EndSync
  /\ UNCHANGED <<protocol, workerVars, home, mailbox, homeAcked, homeEpoch, mailSent,
                 mailAcked, late, stop, stopWaits, faults>>

NextOrIdle ==
  IF sync.full /\ sync.left > 1
  THEN /\ sync' = [Idle EXCEPT !.pc = "next", !.left = sync.left]
       /\ UNCHANGED checkpoint
  ELSE EndSync

PushMail ==
  /\ sync.pc = "mail" /\ call = NoCall
  /\ IF home = "ready" /\ mailAcked < mailSent
     THEN /\ call' = [method |-> "import", settled |-> {}, state |-> "sent",
                      through |-> Least(mailSent, mailAcked + PageSize)]
          /\ UNCHANGED <<sync, checkpoint>>
     ELSE NextOrIdle /\ UNCHANGED call
  /\ UNCHANGED <<protocol, workerVars, home, mailbox, homeAcked, homeEpoch, mailSent,
                 mailAcked, late, stop, stopWaits, faults>>

RecordMail ==
  /\ sync.pc = "mail" /\ call.state = "done"
  /\ mailAcked' = call.through
  /\ call' = NoCall
  /\ NextOrIdle
  /\ UNCHANGED <<protocol, workerVars, home, mailbox, homeAcked, homeEpoch, mailSent,
                 late, stop, stopWaits, faults>>

\* sendFederatedControlMail of the coordinator.
SendMail ==
  /\ home = "ready" /\ mailSent < MaxMail /\ mailSent - mailAcked < Capacity
  /\ mailSent' = mailSent + 1
  /\ UNCHANGED <<protocol, workerVars, home, mailbox, homeAcked, homeEpoch, checkpoint,
                 mailAcked, sync, netVars>>

(***************************************************************************)
(* The worker's server answers                                             *)
(***************************************************************************)
\* A report at or below the acknowledgment that nobody settled would be lost.
OmitsReport(request) ==
  \E i \in Unacked("worker_done") :
    i <= request.through /\ i \notin {s[1] : s \in request.settled}

ActionOf(row) == IF OutcomeOf(row.report) = "succeeded" THEN "completed" ELSE "failed"

MatchesOutbox(s) ==
  /\ outbox[s[1]].kind = "worker_done"
  /\ s[2] \in {"rejected", ActionOf(outbox[s[1]])}

BuggyOutcomes(request) == {OutcomeOf(outbox[s[1]].report) : s \in request.settled}

Outcomes(request) == {IF s[2] = "completed" THEN "succeeded" ELSE "failed" :
                        s \in {t \in request.settled : t[2] # "rejected"}}

BuggyAckFits(request) ==
  /\ \A s \in request.settled : MatchesOutbox(s)
  /\ \A o \in Outcomes(request) : att \in {"ready", o}

\* The checks of acknowledgeFederationRelay: what fails one throws, and the
\* pending receipt is discarded.
AckFits(request) ==
  /\ \A s \in request.settled : MatchesOutbox(s)
  /\ protocol >= Settling => ~OmitsReport(request)
  /\ \A o, p \in Outcomes(request) : o = p
  /\ \A o \in Outcomes(request) : att \in {"ready", o}

BuggyApplyAck(request) ==
  /\ att' = IF request.settled = {} THEN att ELSE ActionOf(outbox[request.through])
  /\ outbox' = [i \in DOMAIN outbox |->
                  [outbox[i] EXCEPT !.acked = @ \/ i <= request.through]]

ApplyAck(request) ==
  /\ att' = IF Outcomes(request) = {} THEN att ELSE CHOOSE o \in Outcomes(request) : TRUE
  /\ outbox' = [i \in DOMAIN outbox |->
                  [outbox[i] EXCEPT !.acked = @ \/ i <= request.through]]

Receipt(request, state) ==
  ackReceipts' = [ackReceipts EXCEPT ![request.through] =
                    [state |-> state, settled |-> request.settled]]

FreshAck(request) == ackReceipts[request.through] = NoReceipt /\ AckFits(request)

\* A receipt answers the same request again, and no other one.
ReplayedAck(request) ==
  ackReceipts[request.through] = [state |-> "completed", settled |-> request.settled]

Answer(state) == call' = [call EXCEPT !.state = state]

AckSent == call.method = "ack" /\ call.state = "sent"

HandleAck ==
  /\ AckSent
  /\ IF FreshAck(call)
     THEN ApplyAck(call) /\ Receipt(call, "completed") /\ Answer("done")
     ELSE /\ Answer(IF ReplayedAck(call) THEN "done" ELSE "refused")
          /\ UNCHANGED <<outbox, att, ackReceipts>>
  /\ UNCHANGED <<protocol, epoch, mailIn, delivered, importReceipts, homeVars, sync,
                 late, stop, stopWaits, faults>>

\* An acknowledgment the home gave up on runs after all.
HandleLateAck(request) ==
  /\ request \in late /\ FreshAck(request)
  /\ ApplyAck(request) /\ Receipt(request, "completed")
  /\ late' = late \ {request}
  /\ UNCHANGED <<protocol, epoch, mailIn, delivered, importReceipts, homeVars, sync,
                 call, stop, stopWaits, faults>>

BuggyInsertMail(last) == delivered \o [i \in 1 .. last - mailIn |-> mailIn + i]

\* importFederatedControlMessage: a message that is there is not inserted again.
InsertMail(last) ==
  LET there == Most(mailIn, Len(delivered))
  IN  delivered \o [i \in 1 .. last - there |-> there + i]

\* federationImport: an attachment that is not ready takes nothing new.
HandleImport ==
  LET n     == call.through
      fresh == importReceipts[n] = "none" /\ (mailIn >= n \/ att = "ready")
  IN  /\ call.method = "import" /\ call.state = "sent"
      /\ IF fresh
         THEN /\ delivered' = IF mailIn < n THEN InsertMail(n) ELSE delivered
              /\ mailIn' = Most(mailIn, n)
              /\ importReceipts' = [importReceipts EXCEPT ![n] = "completed"]
              /\ Answer("done")
         ELSE /\ Answer(IF importReceipts[n] = "completed" THEN "done" ELSE "refused")
              /\ UNCHANGED <<delivered, mailIn, importReceipts>>
      /\ UNCHANGED <<protocol, outbox, att, epoch, ackReceipts, homeVars, sync, late, stop,
                     stopWaits, faults>>

(***************************************************************************)
(* worker-stop and worker-abandon of the home                              *)
(***************************************************************************)
\* beginWorkerStop; the call of federationStop follows.
HomeStop ==
  /\ "stop" \in Commands
  /\ home = "ready" /\ stop = "none"
  /\ home' = "stopping" /\ stop' = "sent" /\ stopWaits' = TRUE
  /\ UNCHANGED <<protocol, workerVars, mailbox, homeAcked, homeEpoch, checkpoint, mailSent,
                 mailAcked, sync, call, late, faults>>

\* beginRemoteAttachmentStop: a settled attachment answers its state.
StopBegins ==
  /\ stop = "sent"
  /\ IF att = "ready" THEN att' = "stopping" /\ stop' = "closing"
                      ELSE stop' = "settled" /\ UNCHANGED att
  /\ UNCHANGED <<protocol, outbox, epoch, mailIn, delivered, ackReceipts, importReceipts,
                 homeVars, sync, call, late, stopWaits, faults>>

\* The terminal was closed, or its end could not be confirmed.
StopEnds(state) ==
  /\ stop = "closing"
  /\ att' = state /\ stop' = state
  /\ UNCHANGED <<protocol, outbox, epoch, mailIn, delivered, ackReceipts, importReceipts,
                 homeVars, sync, call, late, stopWaits, faults>>

\* reconcileFederatedWorkerStop, resumeFederatedWorkerForTerminalRelay or
\* markWorkerStopUnknown.
AfterStop == CASE stop = "stopped" -> "stopped"
               [] stop = "settled" -> "ready"
               [] OTHER            -> "stop_unknown"

StopAnswered ==
  /\ stopWaits /\ stop \in {"stopped", "stop_unknown", "settled"}
  /\ home' = IF home = "stopping" THEN AfterStop ELSE home
  /\ stopWaits' = FALSE
  /\ UNCHANGED <<protocol, workerVars, mailbox, homeAcked, homeEpoch, checkpoint, mailSent,
                 mailAcked, sync, call, late, stop, faults>>

\* worker-show: the server says the worker stopped after all.
ShowStopped ==
  /\ home \in {"stopping", "stop_unknown"} /\ att = "stopped"
  /\ home' = "stopped"
  /\ UNCHANGED <<protocol, workerVars, mailbox, homeAcked, homeEpoch, checkpoint, mailSent,
                 mailAcked, sync, netVars>>

\* worker-show of a ready attachment records the epoch that answered.
ShowEpoch ==
  /\ att = "ready" /\ homeEpoch # epoch
  /\ homeEpoch' = epoch
  /\ UNCHANGED <<protocol, workerVars, home, mailbox, homeAcked, checkpoint, mailSent,
                 mailAcked, sync, netVars>>

\* abandonWorkerDispatch of the latest dispatch of the task.
Abandon ==
  /\ "abandon" \in Commands
  /\ home \in {"ready", "stop_unknown", "failed", "stopped"}
  /\ home' = "abandoned"
  /\ UNCHANGED <<protocol, workerVars, mailbox, homeAcked, homeEpoch, checkpoint, mailSent,
                 mailAcked, sync, netVars>>

(***************************************************************************)
(* Faults                                                                  *)
(***************************************************************************)
Fault == faults < MaxFaults /\ faults' = faults + 1

\* The home gives a call up: the request or its answer is lost, or the
\* request runs later.
CallLost(keep) ==
  /\ Fault
  /\ call.state \in {"sent", "done"}
  /\ late' = IF keep /\ AckSent THEN late \cup {call} ELSE late
  /\ call' = NoCall
  /\ EndSync
  /\ UNCHANGED <<protocol, workerVars, home, mailbox, homeAcked, homeEpoch, mailSent,
                 mailAcked, stop, stopWaits>>

\* The federationStop call fails at the home.
StopLost ==
  /\ Fault
  /\ stopWaits
  /\ home' = IF home = "stopping" THEN "stop_unknown" ELSE home
  /\ stopWaits' = FALSE
  /\ UNCHANGED <<protocol, workerVars, mailbox, homeAcked, homeEpoch, checkpoint, mailSent,
                 mailAcked, sync, call, late, stop>>

\* The process of the home ends and starts: its memory is lost.
HomeRestart ==
  /\ Fault
  /\ sync' = Idle /\ call' = NoCall /\ checkpoint' = NoCheckpoint /\ stopWaits' = FALSE
  /\ late' = IF AckSent THEN late \cup {call} ELSE late
  /\ UNCHANGED <<protocol, workerVars, home, mailbox, homeAcked, homeEpoch, mailSent,
                 mailAcked, stop>>

\* Of the worker's server, with the call it had not begun.
WorkerRestart ==
  /\ Fault
  /\ epoch' = epoch + 1
  /\ call' = IF call.state = "sent" THEN [call EXCEPT !.state = "refused"] ELSE call
  /\ stop' = IF stop = "closing" THEN "lost" ELSE stop
  /\ late' = {}
  /\ UNCHANGED <<protocol, outbox, att, mailIn, delivered, ackReceipts, importReceipts,
                 homeVars, sync, stopWaits>>

\* It ends between the transactions of one acknowledgment: the receipt, what
\* it receipts, the answer.
CrashInAck(applied) ==
  /\ Fault
  /\ AckSent /\ FreshAck(call)
  /\ Receipt(call, "pending")
  /\ IF applied THEN ApplyAck(call) ELSE UNCHANGED <<outbox, att>>
  /\ epoch' = epoch + 1 /\ late' = {}
  /\ Answer("refused")
  /\ stop' = IF stop = "closing" THEN "lost" ELSE stop
  /\ UNCHANGED <<protocol, mailIn, delivered, importReceipts, homeVars, sync, stopWaits>>

\* It ends within an import: messages up to "in" are inserted, the sequence
\* of the last of them perhaps not recorded.
CrashInImport(in, recorded) ==
  /\ Fault
  /\ call.method = "import" /\ call.state = "sent"
  /\ importReceipts[call.through] = "none" /\ att = "ready"
  /\ in \in mailIn .. call.through /\ recorded \in mailIn .. in /\ in <= recorded + 1
  /\ delivered' = InsertMail(in)
  /\ mailIn' = recorded
  /\ importReceipts' = [importReceipts EXCEPT ![call.through] = "pending"]
  /\ epoch' = epoch + 1 /\ late' = {}
  /\ Answer("refused")
  /\ stop' = IF stop = "closing" THEN "lost" ELSE stop
  /\ UNCHANGED <<protocol, outbox, att, ackReceipts, homeVars, sync, stopWaits>>

(***************************************************************************)
(* The specification                                                       *)
(***************************************************************************)
AgentStep == SendStatus \/ SendHeartbeat \/ \E r \in Reports : SendReport(r)

SyncStep == NextPage \/ (\E item \in sync.items : Import(item) \/ ImportRefused(item))
              \/ SendAck \/ RecordAck \/ CallRefused \/ PushMail \/ RecordMail

ServerStep == HandleAck \/ HandleImport

StopStep == HomeStop \/ StopBegins \/ StopEnds("stopped") \/ StopEnds("stop_unknown")
              \/ StopAnswered \/ ShowStopped

FaultStep ==
  \/ \E keep \in BOOLEAN : CallLost(keep)
  \/ StopLost
  \/ HomeRestart
  \/ WorkerRestart
  \/ \E applied \in BOOLEAN : CrashInAck(applied)
  \/ \E in, recorded \in 0 .. MaxMail : CrashInImport(in, recorded)

Next == AgentStep \/ Tick \/ ShowSync \/ SyncStep \/ ServerStep
          \/ (\E request \in late : HandleLateAck(request))
          \/ SendMail \/ StopStep \/ ShowEpoch \/ Abandon \/ FaultStep

Spec == Init /\ [][Next]_vars

\* The timers keep syncing while the dispatch is eligible, a sync runs to its
\* end and a running server answers what it received.
RelayFairness == WF_vars(Tick) /\ WF_vars(SyncStep) /\ WF_vars(ServerStep)

FairSpec == Spec /\ RelayFairness

(***************************************************************************)
(* Properties                                                              *)
(***************************************************************************)
\* Every row, cursor and call has its range.
TypeOK ==
  /\ protocol \in {2, 3}
  /\ outbox \in Seq([kind : Kinds, report : Reports \cup {"none"}, acked : BOOLEAN])
  /\ att \in {"ready", "succeeded", "failed", "stopping", "stopped", "stop_unknown"}
  /\ {epoch, mailIn, homeAcked, homeEpoch, mailSent, mailAcked, faults} \subseteq Nat
  /\ delivered \in Seq(Nat)
  /\ home \in {"ready", "succeeded", "failed", "stopping", "stopped", "stop_unknown", "abandoned"}
  /\ mailbox \in Seq([kind : Kinds, report : Reports \cup {"none"}, rejected : BOOLEAN])
  /\ checkpoint \in [epoch : Nat, through : Nat]
  /\ sync.pc \in {"idle", "import", "ack", "mail", "next"}
  /\ call.method \in {"none", "ack", "import"}

\* A report the worker's server dropped from its queue is in the home's
\* mailbox, whatever was retried, late, restarted or pulled before the report
\* took a heartbeat's place: with lifecycle settlement none is lost.
AckedReportIsHome ==
  protocol >= Settling =>
    \A i \in DOMAIN outbox :
      outbox[i].acked /\ outbox[i].kind = "worker_done" =>
        i <= Imported /\ mailbox[i].kind = "worker_done" /\ mailbox[i].report = outbox[i].report

\* The home's decision is the report it accepted, if it accepted one.
Accepted == {i \in DOMAIN mailbox : mailbox[i].kind = "worker_done" /\ ~mailbox[i].rejected}

HomeVerdict ==
  IF protocol < Settling THEN "open"
  ELSE IF Accepted # {} THEN mailbox[CHOOSE i \in Accepted : TRUE].report
  ELSE IF LiveHome THEN "open" ELSE "cancelled"

WorkerKnows ==
  IF protocol < Settling \/ att = "ready" THEN "open"
  ELSE IF att \in {"succeeded", "failed"} THEN att ELSE "cancelled"

Agreement == INSTANCE ReportAgreement WITH Outcome <- {"succeeded", "failed"},
                                           verdict <- HomeVerdict, known <- WorkerKnows

\* The relay implements the agreement: over lost, late and repeated calls the
\* home decides once, the worker's server ends the worker only as the home
\* decided or as a stop asked, and a settled worker is never stopped.
ImplementsAgreement == Agreement!Spec

\* The cursors of the two databases stay in order: what the home recorded as
\* acknowledged is acknowledged, and that is imported.
CursorsInOrder ==
  /\ \A i \in DOMAIN outbox : i <= homeAcked => outbox[i].acked
  /\ \A i \in DOMAIN outbox : outbox[i].acked => i <= Imported
  /\ homeAcked <= Imported
  /\ mailAcked <= mailIn /\ mailIn <= Len(delivered) /\ Len(delivered) <= mailSent

\* Control mail reaches the agent once and in the order it was sent.
MailOnceInOrder == \A i \in DOMAIN delivered : delivered[i] = i

\* The worker's server ended between a receipt and its completion: requests
\* with that id are refused from then on.
Interrupted ==
  \/ \E n \in DOMAIN ackReceipts : ackReceipts[n].state = "pending"
  \/ \E n \in DOMAIN importReceipts : importReceipts[n] = "pending"

\* A report took the place of a heartbeat the home had imported: the item at
\* its sequence is refused from then on.
Displaced == \E i \in DOMAIN mailbox : mailbox[i].kind # outbox[i].kind

\* An acknowledgment that settled reports ran, and the home has not recorded it
\* for the present runtime of the worker's server.
Unrecorded ==
  \E n \in DOMAIN ackReceipts :
    ackReceipts[n].settled # {} /\ (homeAcked < n \/ homeEpoch # epoch)

\* A queued report reaches the home while it keeps the worker, over lost
\* calls, late acknowledgments and restarts of both sides.
ReportReachesHome ==
  \A i \in 1 .. MaxItems :
    (i \in DOMAIN outbox /\ outbox[i].kind = "worker_done")
      ~> (i <= Imported \/ ~LiveHome \/ Interrupted \/ Displaced)

\* What the home settled, the worker's server learns: a worker that reported
\* does not stay ready, and its agent does not wait for a verdict for ever.
WorkerLearnsVerdict ==
  (protocol >= Settling /\ home = "succeeded")
    ~> (att = "succeeded" \/ Interrupted \/ Displaced)

\* Control mail for a ready worker arrives, unless an acknowledgment is
\* refused in every sync.
MailArrives ==
  \/ <>[]Unrecorded
  \/ \A n \in 1 .. MaxMail :
       (mailSent >= n) ~> (Len(delivered) >= n \/ home # "ready" \/ att # "ready"
                             \/ Interrupted \/ Displaced)

\* The retry of a lost acknowledgment succeeds, so the home stops polling for
\* what it imported.
HomeLearnsAck ==
  (homeAcked < Imported) ~> (homeAcked = Imported \/ Interrupted \/ Displaced)
=============================================================================
