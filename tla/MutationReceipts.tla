--------------------------- MODULE MutationReceipts ---------------------------
(***************************************************************************)
(* The durable ledger of orchestration mutations.  A client gives each     *)
(* mutation a request id and repeats the call with the same id when the    *)
(* answer is lost; the executor begins a receipt, runs the handler and     *)
(* completes the receipt with the answer, which later calls replay.  Calls *)
(* with the same id run concurrently, and the runtime restarts anywhere    *)
(* between the begin, the effect and the completion.                       *)
(*                                                                         *)
(* A handler has one effect; it may fail before it and after it.  An       *)
(* answer is named by the effect it reports.  A call that is refused       *)
(* changes nothing and is no step.  An operator Buggy<X> is operator <X>   *)
(* with a plausible bug; nothing of the model uses it.                     *)
(***************************************************************************)
EXTENDS Naturals, Sequences, FiniteSets

CONSTANTS
  Requests,    \* request ids of one caller
  Payloads,    \* method and parameters, as hashed
  Calls,       \* RPC calls in flight at a time
  Starts,      \* ids of workerStart and federationAttachStart
  Releases,    \* ids of workerRelease, which resumes
  Early,       \* ids whose handler completes its receipt before it waits
  Capacity,    \* MUTATION_RECEIPT_MAX_ROWS, 10000 in the code
  PruneBatch,  \* MUTATION_RECEIPT_PRUNE_BATCH_SIZE, 64 in the code
  MaxEffects,  \* bound: effects of one request
  NoCall, NoPayload

ASSUME LedgerConstants ==
  /\ Starts \cup Releases \cup Early \subseteq Requests
  /\ Starts \cap Releases = {}
  /\ NoCall \notin Calls /\ NoPayload \notin Payloads
  /\ {Capacity, PruneBatch} \subseteq Nat \ {0} /\ MaxEffects \in Nat
  /\ IsFiniteSet(Requests) /\ Requests # {}

VARIABLES
  ledger,     \* mutation_receipts by request id
  inFlight,   \* the call whose promise is registered for a request
  call,       \* the RPC calls
  effects,    \* the payloads a request has been carried out with, in order, since
              \* an error of its own handler last made the ledger forget it
  answers,    \* the answers its clients have received, each with its input
  lost        \* requests whose receipt was pruned, or deleted while not one call's alone

vars == <<ledger, inFlight, call, effects, answers, lost>>

NoRow == [state |-> "none", payload |-> NoPayload, answer |-> 0]
Idle  == [pc |-> "idle", id |-> CHOOSE id \in Requests : TRUE, payload |-> NoPayload,
          owner |-> NoCall]

Init ==
  /\ ledger = [id \in Requests |-> NoRow]
  /\ inFlight = [id \in Requests |-> NoCall]
  /\ call = [c \in Calls |-> Idle]
  /\ effects = [id \in Requests |-> <<>>]
  /\ answers = [id \in Requests |-> {}]
  /\ lost = {}

Rows(state) == {id \in Requests : ledger[id].state = state}
Held        == Rows("pending") \cup Rows("completed")
Fewer(a, b) == IF a < b THEN a ELSE b

(***************************************************************************)
(* ensureMutationReceiptCapacity deletes the aged completed receipts and,  *)
(* when the ledger is still full, the oldest completed ones; when that is  *)
(* not enough the call is refused and its transaction undone.              *)
(***************************************************************************)
BuggyPrunes(aged, oldest) ==
  /\ aged \subseteq Rows("completed") /\ oldest \subseteq Rows("completed") \ aged
  /\ Cardinality(oldest) =
       IF Cardinality(Held \ aged) < Capacity THEN 0
       ELSE Fewer(Cardinality(Rows("completed") \ aged),
                  Cardinality(Held \ aged) - Capacity + PruneBatch)
Prunes(aged, oldest) ==
  /\ aged \subseteq Rows("completed") /\ oldest \subseteq Rows("completed") \ aged
  /\ Cardinality(oldest) =
       IF Cardinality(Held \ aged) < Capacity THEN 0
       ELSE Fewer(Cardinality(Rows("completed") \ aged),
                  Cardinality(Held \ aged) - Capacity + PruneBatch)
  /\ Cardinality(Held \ (aged \cup oldest)) < Capacity

\* The ledger with a pending receipt for the request
Begun(gone, id, payload) ==
  [r \in Requests |-> IF r = id THEN [state |-> "pending", payload |-> payload, answer |-> 0]
                      ELSE IF r \in gone THEN NoRow ELSE ledger[r]]

Inserts(id, payload) ==
  \E aged \in SUBSET Held : \E oldest \in SUBSET Held :
    /\ Prunes(aged, oldest)
    /\ ledger' = Begun(aged \cup oldest, id, payload)
    /\ lost' = lost \cup aged \cup oldest

(***************************************************************************)
(* A call arrives: OrchestrationMutationExecutor.run                       *)
(***************************************************************************)
Enter(c, id, payload, pc, owner) ==
  call' = [call EXCEPT ![c] = [pc |-> pc, id |-> id, payload |-> payload, owner |-> owner]]

BuggyRun(c, id, payload) ==
  /\ Enter(c, id, payload, "running", c)
  /\ UNCHANGED inFlight
Run(c, id, payload) ==
  /\ Enter(c, id, payload, "running", c)
  /\ inFlight' = [inFlight EXCEPT ![id] = c]

\* An answer reaches some of the clients that sent these inputs.  The effects
\* and the answers of a request that lost its receipt are not followed further.
Answer(id, inputs, n) ==
  IF id \in lost THEN UNCHANGED answers
  ELSE \E told \in SUBSET inputs :
         answers' = [answers EXCEPT ![id] = @ \cup {<<payload, n>> : payload \in told}]

Begin(c, id, payload) ==
  /\ call[c] = Idle /\ id \notin Starts /\ ledger[id] = NoRow
  /\ Inserts(id, payload)
  /\ Run(c, id, payload)
  /\ UNCHANGED <<effects, answers>>

\* The receipt of a start is inserted with its effect; until then every call
\* finds none, and runs.
BeginStart(c, id, payload) ==
  /\ call[c] = Idle /\ id \in Starts /\ ledger[id] = NoRow
  /\ Run(c, id, payload)
  /\ UNCHANGED <<ledger, effects, answers, lost>>

\* The same input; another input is a request_mismatch.
BuggyRepeats(id, payload) == ledger[id] # NoRow
Repeats(id, payload) == ledger[id] # NoRow /\ ledger[id].payload = payload

Join(c, id, payload) ==
  /\ call[c] = Idle /\ Repeats(id, payload) /\ inFlight[id] # NoCall
  /\ Enter(c, id, payload, "joined", inFlight[id])
  /\ UNCHANGED <<ledger, inFlight, effects, answers, lost>>

Replay(id, payload) ==
  /\ Repeats(id, payload) /\ inFlight[id] = NoCall /\ ledger[id].state = "completed"
  /\ Answer(id, {payload}, ledger[id].answer)
  /\ UNCHANGED <<ledger, inFlight, call, effects, lost>>

\* A pending receipt without a running handler is an unknown outcome, which
\* only a release takes up again.
BuggyResumes(id) == id \in Requests
Resumes(id) == id \in Releases

Resume(c, id, payload) ==
  /\ call[c] = Idle /\ Repeats(id, payload) /\ inFlight[id] = NoCall
  /\ ledger[id].state = "pending" /\ Resumes(id)
  /\ Run(c, id, payload)
  /\ UNCHANGED <<ledger, effects, answers, lost>>

(***************************************************************************)
(* The handler                                                             *)
(***************************************************************************)
Handling == {"running", "effected", "recorded"}

\* The call ends, and with it those that joined it; the registered promise
\* is removed, whoever registered it.
Waiting(c) == {d \in Calls : call[d].owner = c}
Ends(c) ==
  /\ call' = [d \in Calls |-> IF d \in Waiting(c) THEN Idle ELSE call[d]]
  /\ inFlight' = [inFlight EXCEPT ![call[c].id] = NoCall]

Carries(c) ==
  LET k == call[c]
  IN /\ IF k.id \in lost THEN UNCHANGED effects
        ELSE /\ Len(effects[k.id]) < MaxEffects
             /\ effects' = [effects EXCEPT ![k.id] = Append(@, k.payload)]
     /\ call' = [call EXCEPT ![c].pc = "effected"]

Effect(c) ==
  /\ call[c].pc = "running" /\ call[c].id \notin Starts
  /\ Carries(c)
  /\ UNCHANGED <<ledger, inFlight, answers, lost>>

\* createStartingWorkerDispatch, createRemoteDispatchAttachment
Accept(c) ==
  LET k == call[c]
  IN /\ k.pc = "running" /\ k.id \in Starts /\ ledger[k.id] = NoRow
     /\ Inserts(k.id, k.payload)
     /\ Carries(c)
     /\ UNCHANGED <<inFlight, answers>>

\* discardPendingMutationReceipt
BuggyDiscards(id) == ledger' = [ledger EXCEPT ![id] = NoRow]
Discards(id) == ledger' = [ledger EXCEPT ![id] = IF @.state = "pending" THEN NoRow ELSE @]

\* The receipt of a start is another call's, or a call that found it has joined
\* a duplicate start, which runs without it.
Shared(c) ==
  /\ call[c].id \in Starts
  /\ \/ call[c].pc = "running"
     \/ \E d \in Calls \ Waiting(c) : call[d].id = call[c].id /\ call[d].pc = "joined"

\* Every error but operation_unknown deletes the pending receipt.  Behind the
\* effect, the ledger forgets that the request was carried out.
Fail(c) ==
  LET id == call[c].id
      pending == ledger[id].state = "pending"
  IN /\ call[c].pc \in Handling
     /\ Ends(c)
     /\ Discards(id)
     /\ lost' = IF pending /\ Shared(c) THEN lost \cup {id} ELSE lost
     /\ effects' = IF pending /\ call[c].pc # "running" /\ id \notin lost
                   THEN [effects EXCEPT ![id] = <<>>] ELSE effects
     /\ UNCHANGED answers

\* operation_unknown keeps the receipt; the acceptance of a start throws it
\* when it meets the receipt of another call with the same input.
FailUnknown(c) ==
  /\ call[c].pc \in Handling
  /\ Ends(c)
  /\ UNCHANGED <<ledger, effects, answers, lost>>

\* completeMutationReceipt
Completed(c) ==
  [ledger EXCEPT ![call[c].id] = [@ EXCEPT !.state = "completed",
                                           !.answer = Len(effects[call[c].id])]]

Record(c) ==
  /\ call[c].pc = "effected" /\ call[c].id \in Early
  /\ Repeats(call[c].id, call[c].payload)
  /\ ledger' = Completed(c)
  /\ call' = [call EXCEPT ![c].pc = "recorded"]
  /\ UNCHANGED <<inFlight, effects, answers, lost>>

Complete(c) ==
  /\ call[c].pc \in {"effected", "recorded"}
  /\ Repeats(call[c].id, call[c].payload)
  /\ ledger' = Completed(c)
  /\ Answer(call[c].id, {call[d].payload : d \in Waiting(c)}, Len(effects[call[c].id]))
  /\ Ends(c)
  /\ UNCHANGED <<effects, lost>>

\* The receipt is gone, or another call's: the caller gets an error, the
\* calls that joined may still get the answer.
CompleteFails(c) ==
  /\ call[c].pc \in {"effected", "recorded"}
  /\ ~Repeats(call[c].id, call[c].payload)
  /\ Discards(call[c].id)
  /\ Answer(call[c].id, {call[d].payload : d \in Waiting(c) \ {c}},
            Len(effects[call[c].id]))
  /\ Ends(c)
  /\ UNCHANGED <<effects, lost>>

\* The runtime restarts: the ledger and the effects stay.
Restart ==
  /\ \E c \in Calls : call[c] # Idle
  /\ call' = [c \in Calls |-> Idle] /\ inFlight' = [id \in Requests |-> NoCall]
  /\ UNCHANGED <<ledger, effects, answers, lost>>

Arrives(c) ==
  \E id \in Requests, payload \in Payloads :
    \/ Begin(c, id, payload) \/ BeginStart(c, id, payload)
    \/ Join(c, id, payload) \/ Resume(c, id, payload)

Handles(c) ==
  \/ Effect(c) \/ Accept(c) \/ Fail(c) \/ FailUnknown(c)
  \/ Record(c) \/ Complete(c) \/ CompleteFails(c)

Next ==
  \/ \E c \in Calls : Arrives(c) \/ Handles(c)
  \/ \E id \in Requests, payload \in Payloads : Replay(id, payload)
  \/ Restart

Spec == Init /\ [][Next]_vars

(***************************************************************************)
(* Properties                                                              *)
(***************************************************************************)
\* Every variable keeps its type, and the ledger never outgrows its capacity.
TypeOK ==
  /\ ledger \in [Requests -> [state : {"none", "pending", "completed"},
                             payload : Payloads \cup {NoPayload}, answer : Nat]]
  /\ inFlight \in [Requests -> Calls \cup {NoCall}]
  /\ call \in [Calls -> [pc : Handling \cup {"idle", "joined"}, id : Requests,
                        payload : Payloads \cup {NoPayload}, owner : Calls \cup {NoCall}]]
  /\ effects \in [Requests -> Seq(Payloads)]
  /\ answers \in [Requests -> SUBSET (Payloads \X Nat)]
  /\ lost \subseteq Requests
  /\ Cardinality(Held) <= Capacity

\* A mutation is carried out a second time only after its handler failed with
\* an ordinary error behind the first: no repetition of the call, concurrent or
\* after a restart, does it.  A release may be carried out again, and nothing
\* is promised once a receipt was pruned, or deleted by one of several starts.
EffectOnce == \A id \in Requests \ (lost \cup Releases) : Len(effects[id]) <= 1

\* What was carried out, and not forgotten by such an error, has a receipt with
\* the input it was carried out with: the request id is of no use for another.
EffectHasReceipt ==
  \A id \in Requests \ (lost \cup Releases) : \A n \in DOMAIN effects[id] :
    ledger[id] # NoRow /\ ledger[id].payload = effects[id][n]

\* Every client of a request that got an answer got the same one, to the input
\* the request was made with, and the ledger will repeat it.
AnswersRepeat ==
  \A id \in Requests \ lost : answers[id] # {} =>
    /\ ledger[id].state = "completed"
    /\ answers[id] = {<<ledger[id].payload, ledger[id].answer>>}

\* Two handlers of one request never overlap; two starts may, until one of
\* them is accepted.
HandlersExclude ==
  \A c, d \in Calls :
    /\ c # d /\ call[c].id = call[d].id /\ call[c].id \notin lost
    /\ call[c].pc \in Handling /\ call[d].pc \in Handling
    => call[c].id \in Starts /\ "running" \in {call[c].pc, call[d].pc}
===============================================================================
