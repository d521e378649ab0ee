---------------------- MODULE MutationReceipts_proofs ----------------------
(* Theorems of MutationReceipts for every value of its constants. *)
EXTENDS MutationReceipts, TLAPS, FiniteSetTheorems

(***************************************************************************)
(* Type correctness                                                        *)
(***************************************************************************)
CallType == [pc : Handling \cup {"idle", "joined"}, id : Requests,
             payload : Payloads \cup {NoPayload}, owner : Calls \cup {NoCall}]
RowType  == [state : {"none", "pending", "completed"},
             payload : Payloads \cup {NoPayload}, answer : Nat]

\* TypeOK without the bound on the ledger
Types ==
  /\ ledger \in [Requests -> RowType]
  /\ inFlight \in [Requests -> Calls \cup {NoCall}]
  /\ call \in [Calls -> CallType]
  /\ effects \in [Requests -> Seq(Payloads)]
  /\ answers \in [Requests -> SUBSET (Payloads \X Nat)]
  /\ lost \subseteq Requests

\* A call that was made has the input of a client, and one that was not waits
\* for nobody.
Inputs ==
  \A c \in Calls : IF call[c].pc = "idle" THEN call[c].owner = NoCall
                   ELSE call[c].payload \in Payloads

LEMMA IdleType == Idle \in CallType /\ Idle.pc = "idle" /\ Idle.owner = NoCall
<1>1. (CHOOSE id \in Requests : TRUE) \in Requests
  BY LedgerConstants
<1> QED
  BY <1>1 DEF Idle, CallType, Handling

LEMMA NoRowType == NoRow \in RowType /\ NoRow.state = "none"
BY DEF NoRow, RowType

LEMMA InsertsTypes ==
  ASSUME Types, NEW id \in Requests, NEW payload \in Payloads, Inserts(id, payload)
  PROVE  ledger' \in [Requests -> RowType] /\ lost' \subseteq Requests
<1>1. PICK aged \in SUBSET Held, oldest \in SUBSET Held :
        ledger' = Begun(aged \cup oldest, id, payload) /\ lost' = lost \cup aged \cup oldest
  BY DEF Inserts
<1>2. [state |-> "pending", payload |-> payload, answer |-> 0] \in RowType
  BY DEF RowType
<1>3. Held \subseteq Requests
  BY DEF Held, Rows
<1> QED
  BY <1>1, <1>2, <1>3, NoRowType DEF Types, Begun

LEMMA EnterTypes ==
  ASSUME Types, Inputs, NEW c \in Calls, NEW id \in Requests, NEW payload \in Payloads,
         NEW pc \in Handling \cup {"joined"}, NEW owner \in Calls,
         Enter(c, id, payload, pc, owner)
  PROVE  call' \in [Calls -> CallType] /\ Inputs'
<1>1. [pc |-> pc, id |-> id, payload |-> payload, owner |-> owner] \in CallType
  BY DEF CallType
<1> QED
  BY <1>1 DEF Types, Enter, Inputs, Handling

LEMMA RunTypes ==
  ASSUME Types, Inputs, NEW c \in Calls, NEW id \in Requests, NEW payload \in Payloads,
         Run(c, id, payload)
  PROVE  /\ call' \in [Calls -> CallType] /\ Inputs'
         /\ inFlight' \in [Requests -> Calls \cup {NoCall}]
<1>1. "running" \in Handling
  BY DEF Handling
<1>2. call' \in [Calls -> CallType] /\ Inputs'
  BY <1>1, EnterTypes DEF Run
<1> QED
  BY <1>2 DEF Run, Types

LEMMA EndsTypes ==
  ASSUME Types, Inputs, NEW c \in Calls, Ends(c)
  PROVE  /\ call' \in [Calls -> CallType] /\ Inputs'
         /\ inFlight' \in [Requests -> Calls \cup {NoCall}]
BY IdleType DEF Types, Ends, Inputs

LEMMA DiscardsTypes ==
  ASSUME Types, NEW id \in Requests, Discards(id) PROVE ledger' \in [Requests -> RowType]
BY NoRowType DEF Types, Discards

LEMMA CompletedTypes ==
  ASSUME Types, NEW c \in Calls PROVE Completed(c) \in [Requests -> RowType]
<1>1. call[c].id \in Requests
  BY DEF Types, CallType
<1>2. Len(effects[call[c].id]) \in Nat
  BY <1>1 DEF Types
<1>3. ledger[call[c].id] \in RowType
  BY <1>1 DEF Types
<1>4. ASSUME NEW row \in RowType, NEW n \in Nat
      PROVE [row EXCEPT !.state = "completed", !.answer = n] \in RowType
  BY DEF RowType
<1>5. [ledger[call[c].id] EXCEPT !.state = "completed",
                                 !.answer = Len(effects[call[c].id])] \in RowType
  BY <1>2, <1>3, <1>4
<1> QED
  BY <1>1, <1>5 DEF Completed, Types

LEMMA AnswerTypes ==
  ASSUME Types, NEW id \in Requests, NEW inputs \in SUBSET Payloads, NEW n \in Nat,
         Answer(id, inputs, n)
  PROVE  answers' \in [Requests -> SUBSET (Payloads \X Nat)]
<1>1. CASE id \in lost
  BY <1>1 DEF Answer, Types
<1>2. CASE id \notin lost
  <2>1. PICK told \in SUBSET inputs :
          answers' = [answers EXCEPT ![id] = @ \cup {<<payload, n>> : payload \in told}]
    BY <1>2 DEF Answer
  <2>2. {<<payload, n>> : payload \in told} \subseteq Payloads \X Nat
    OBVIOUS
  <2>3. answers[id] \cup {<<payload, n>> : payload \in told} \in SUBSET (Payloads \X Nat)
    BY <2>2 DEF Types
  <2> QED
    BY <2>1, <2>3 DEF Types
<1> QED
  BY <1>1, <1>2

LEMMA CarriesTypes ==
  ASSUME Types, Inputs, NEW c \in Calls, call[c].pc = "running", Carries(c)
  PROVE  /\ call' \in [Calls -> CallType] /\ Inputs'
         /\ effects' \in [Requests -> Seq(Payloads)]
<1>1. call[c] \in CallType /\ call[c].payload \in Payloads
  BY DEF Types, Inputs
<1>2. [call[c] EXCEPT !.pc = "effected"] \in CallType
  BY <1>1 DEF CallType, Handling
<1>3. call' = [call EXCEPT ![c] = [call[c] EXCEPT !.pc = "effected"]]
  BY DEF Carries
<1>4. call' \in [Calls -> CallType]
  BY <1>2, <1>3 DEF Types
<1>5. Inputs'
  BY <1>1, <1>3 DEF Types, Inputs, CallType
<1>6. effects' \in [Requests -> Seq(Payloads)]
  <2>1. call[c].id \in Requests /\ effects[call[c].id] \in Seq(Payloads)
    BY <1>1 DEF Types, CallType
  <2>2. Append(effects[call[c].id], call[c].payload) \in Seq(Payloads)
    BY <1>1, <2>1
  <2> QED
    BY <2>1, <2>2 DEF Carries, Types
<1> QED
  BY <1>4, <1>5, <1>6

LEMMA WaitingInputs ==
  ASSUME Types, Inputs, NEW c \in Calls, NEW ds \in SUBSET Waiting(c)
  PROVE  {call[d].payload : d \in ds} \in SUBSET Payloads
BY LedgerConstants DEF Inputs, Waiting

LEMMA TypesArrive ==
  ASSUME Types, Inputs, NEW c \in Calls, NEW id \in Requests, NEW payload \in Payloads,
         \/ Begin(c, id, payload) \/ BeginStart(c, id, payload)
         \/ Join(c, id, payload) \/ Resume(c, id, payload)
  PROVE  Types' /\ Inputs'
<1>1. CASE Begin(c, id, payload)
  BY <1>1, InsertsTypes, RunTypes DEF Begin, Types
<1>2. CASE BeginStart(c, id, payload)
  BY <1>2, RunTypes DEF BeginStart, Types
<1>3. CASE Resume(c, id, payload)
  BY <1>3, RunTypes DEF Resume, Types
<1>4. CASE Join(c, id, payload)
  <2>1. inFlight[id] \in Calls
    BY <1>4 DEF Join, Types
  <2>2. call' \in [Calls -> CallType] /\ Inputs'
    BY <1>4, <2>1, EnterTypes DEF Join
  <2> QED
    BY <1>4, <2>2 DEF Join, Types
<1> QED
  BY <1>1, <1>2, <1>3, <1>4

LEMMA TypesHandle ==
  ASSUME Types, Inputs, NEW c \in Calls, Handles(c) PROVE Types' /\ Inputs'
<1> DEFINE id == call[c].id
<1>1. id \in Requests /\ Len(effects[id]) \in Nat
  BY DEF Types, CallType
<1>2. call[c].pc # "idle" => call[c].payload \in Payloads
  BY DEF Inputs
<1>4. CASE Effect(c)
  BY <1>4, CarriesTypes DEF Effect, Types
<1>5. CASE Accept(c)
  BY <1>1, <1>2, <1>5, CarriesTypes, InsertsTypes DEF Accept, Types
<1>7. CASE Fail(c)
  <2>1. effects' \in [Requests -> Seq(Payloads)]
    BY <1>1, <1>7 DEF Fail, Types
  <2> QED
    BY <1>1, <1>7, <2>1, EndsTypes, DiscardsTypes DEF Fail, Types
<1>8. CASE FailUnknown(c)
  BY <1>8, EndsTypes DEF FailUnknown, Types
<1>9. CASE Record(c)
  <2>1. [call[c] EXCEPT !.pc = "recorded"] \in CallType
    BY DEF Types, CallType, Handling
  <2>2. call' = [call EXCEPT ![c] = [call[c] EXCEPT !.pc = "recorded"]]
    BY <1>9 DEF Record
  <2>3. call' \in [Calls -> CallType] /\ Inputs'
    BY <1>2, <1>9, <2>1, <2>2 DEF Types, Inputs, Record, CallType
  <2> QED
    BY <1>9, <2>3, CompletedTypes DEF Record, Types
<1>10. CASE Complete(c)
  <2>1. answers' \in [Requests -> SUBSET (Payloads \X Nat)]
    BY <1>1, <1>10, AnswerTypes, WaitingInputs DEF Complete
  <2> QED
    BY <1>10, <2>1, EndsTypes, CompletedTypes DEF Complete, Types
<1>12. CASE CompleteFails(c)
  <2>1. answers' \in [Requests -> SUBSET (Payloads \X Nat)]
    BY <1>1, <1>12, AnswerTypes, WaitingInputs DEF CompleteFails
  <2> QED
    BY <1>1, <1>12, <2>1, EndsTypes, DiscardsTypes DEF CompleteFails, Types
<1> QED
  BY <1>4, <1>5, <1>7, <1>8, <1>9, <1>10, <1>12 DEF Handles

\* The ledger never outgrows its capacity.
Fits == Cardinality(Held) <= Capacity

LEMMA HeldFinite == IsFiniteSet(Held) /\ Cardinality(Held) \in Nat
<1>1. Held \in SUBSET Requests
  BY DEF Held, Rows
<1> QED
  BY <1>1, FS_Subset, FS_CardinalityType, LedgerConstants

LEMMA InsertsFits ==
  ASSUME Types, NEW id \in Requests, NEW payload \in Payloads, Inserts(id, payload)
  PROVE  Fits'
<1>1. PICK aged \in SUBSET Held, oldest \in SUBSET Held :
        Prunes(aged, oldest) /\ ledger' = Begun(aged \cup oldest, id, payload)
  BY DEF Inserts
<1> DEFINE kept == Held \ (aged \cup oldest)
<1>2. Cardinality(kept) < Capacity
  BY <1>1 DEF Prunes
<1>3. IsFiniteSet(kept) /\ Cardinality(kept) \in Nat
  BY HeldFinite, FS_Subset, FS_CardinalityType
<1>4. Held' = kept \cup {id}
  BY <1>1, NoRowType DEF Begun, Held, Rows, Types
<1>5. Cardinality(Held') = IF id \in kept THEN Cardinality(kept) ELSE Cardinality(kept) + 1
  <2> HIDE DEF kept
  <2> QED
    BY <1>3, <1>4, FS_AddElement
<1> QED
  BY <1>2, <1>3, <1>5, LedgerConstants DEF Fits

LEMMA FewerFits ==
  ASSUME Fits, Held' \subseteq Held PROVE Fits'
BY HeldFinite, FS_Subset, FS_CardinalityType, LedgerConstants DEF Fits

LEMMA DiscardsFits ==
  ASSUME Types, Fits, NEW id \in Requests, Discards(id) PROVE Fits'
<1>1. Held' \subseteq Held
  BY NoRowType DEF Discards, Held, Rows, Types
<1> QED
  BY <1>1, FewerFits

LEMMA CompletedFits ==
  ASSUME Types, Fits, NEW c \in Calls, Repeats(call[c].id, call[c].payload),
         ledger' = Completed(c), \A id \in Requests : ledger[id].state = "none" => ledger[id] = NoRow
  PROVE  Fits'
<1>1. call[c].id \in Requests /\ ledger[call[c].id] \in RowType
  BY DEF Types, CallType
<1>2. ledger[call[c].id].state \in {"pending", "completed"}
  BY <1>1 DEF Repeats, RowType
<1>3. \A id \in Requests : ledger'[id].state = "completed" \/ ledger'[id] = ledger[id]
  BY <1>1 DEF Completed, Types, RowType
<1>4. \A id \in Requests \ {call[c].id} : ledger'[id] = ledger[id]
  BY <1>1 DEF Completed, Types
<1>5. Held' \subseteq Held
  BY <1>1, <1>2, <1>3, <1>4 DEF Held, Rows
<1> QED
  BY <1>5, FewerFits

(***************************************************************************)
(* The inductive invariant.  A registered handler is running; a joined     *)
(* call waits for a handler of its request; only an empty row has no       *)
(* state.                                                                  *)
(***************************************************************************)
Registered ==
  \A id \in Requests : inFlight[id] # NoCall =>
    call[inFlight[id]].pc \in Handling /\ call[inFlight[id]].id = id

Owned ==
  \A c \in Calls :
    /\ call[c].pc \in Handling => call[c].owner = c
    /\ call[c].pc = "joined" => /\ call[c].owner \in Calls
                               /\ call[call[c].owner].pc \in Handling
                               /\ call[call[c].owner].id = call[c].id

Shaped == \A id \in Requests : ledger[id].state = "none" => ledger[id] = NoRow

\* While the receipt of a request is not lost: its row is that of each call
\* that handles it or waits for it, starts before their acceptance excepted;
\* the row says how far the handler is, and a request that is no start has one
\* handler, the registered one.
Matched ==
  \A c \in Calls : call[c].pc # "idle" /\ call[c].id \notin lost =>
    (call[c].id \in Starts /\ call[c].pc = "running") \/ Repeats(call[c].id, call[c].payload)

Sole ==
  \A c \in Calls : call[c].pc \in Handling /\ call[c].id \notin lost \cup Starts =>
    inFlight[call[c].id] = c

Staged ==
  \A c \in Calls : call[c].id \notin lost =>
    /\ call[c].pc = "running" /\ call[c].id \notin Starts =>
         /\ ledger[call[c].id].state = "pending"
         /\ call[c].id \notin Releases => effects[call[c].id] = <<>>
    /\ call[c].pc = "effected" => ledger[call[c].id].state = "pending"
    /\ call[c].pc = "recorded" =>
         /\ ledger[call[c].id].state = "completed"
         /\ ledger[call[c].id].answer = Len(effects[call[c].id])

\* One handler has had its effect.
OneCarrier ==
  \A c, d \in Calls :
    /\ call[c].id = call[d].id /\ call[c].id \notin lost
    /\ call[c].pc \in {"effected", "recorded"} /\ call[d].pc \in {"effected", "recorded"}
    => c = d

\* The effect is that of the row.
Carried ==
  \A id \in Requests \ (lost \cup Releases) :
    \/ effects[id] = <<>>
    \/ ledger[id] # NoRow /\ effects[id] = <<ledger[id].payload>>

IInv ==
  /\ Types /\ Inputs /\ Fits
  /\ Registered /\ Owned /\ Shaped
  /\ Matched /\ Sole /\ Staged /\ OneCarrier /\ Carried
  /\ AnswersRepeat

LEMMA InvInit == Init => IInv
<1> SUFFICES ASSUME Init PROVE IInv
  OBVIOUS
<1>1. Types /\ Inputs
  BY IdleType, NoRowType DEF Init, Types, Inputs
<1>2. Held = {}
  BY NoRowType DEF Init, Held, Rows
<1>3. Fits
  BY <1>2, FS_EmptySet, LedgerConstants DEF Fits
<1> QED
  BY <1>1, <1>3, IdleType, NoRowType
  DEF Init, IInv, Registered, Owned, Shaped, Matched, Sole, Staged, OneCarrier, Carried,
      AnswersRepeat, Handling

(***************************************************************************)
(* Arriving calls                                                          *)
(***************************************************************************)
LEMMA RunEntered ==
  ASSUME Types, NEW c \in Calls, NEW id \in Requests, NEW payload \in Payloads,
         Run(c, id, payload)
  PROVE  /\ call'[c].pc = "running" /\ call'[c].id = id /\ call'[c].payload = payload
         /\ call'[c].owner = c
         /\ \A d \in Calls \ {c} : call'[d] = call[d]
         /\ inFlight'[id] = c /\ \A r \in Requests \ {id} : inFlight'[r] = inFlight[r]
<1>1. Enter(c, id, payload, "running", c) /\ inFlight' = [inFlight EXCEPT ![id] = c]
  BY DEF Run
<1> QED
  BY <1>1 DEF Types, Enter

\* The call that runs was idle, so no other waited for it.
LEMMA RunStructure ==
  ASSUME IInv, NEW c \in Calls, NEW id \in Requests, NEW payload \in Payloads,
         call[c] = Idle, Run(c, id, payload)
  PROVE  Registered' /\ Owned'
<1>1. /\ call'[c].pc = "running" /\ call'[c].id = id /\ call'[c].owner = c
      /\ \A d \in Calls \ {c} : call'[d] = call[d]
  BY RunEntered DEF IInv
<1>2. call[c].pc = "idle"
  BY IdleType
<1>3. inFlight'[id] = c /\ \A r \in Requests \ {id} : inFlight'[r] = inFlight[r]
  BY DEF Run, IInv, Types
<1>4. \A r \in Requests : inFlight[r] \in Calls \cup {NoCall} /\ inFlight[r] # c
  BY <1>2, LedgerConstants DEF IInv, Types, Registered, Handling
<1>5. Registered'
  BY <1>1, <1>3, <1>4 DEF IInv, Registered, Handling
<1>6. \A d \in Calls : call[d].pc = "joined" => call[d].owner # c
  BY <1>2 DEF IInv, Owned, Handling
<1>7. Owned'
  BY <1>1, <1>6 DEF IInv, Owned, Handling
<1> QED
  BY <1>5, <1>7

\* What a new receipt leaves of the ledger while a request is not lost
LEMMA Inserted ==
  ASSUME IInv, NEW id \in Requests, NEW payload \in Payloads, ledger[id] = NoRow,
         Inserts(id, payload)
  PROVE  /\ ledger'[id] = [state |-> "pending", payload |-> payload, answer |-> 0]
         /\ ledger'[id] # NoRow
         /\ lost \subseteq lost'
         /\ \A r \in Requests \ ({id} \cup lost') : ledger'[r] = ledger[r]
         /\ Shaped'
<1>1. PICK aged \in SUBSET Held, oldest \in SUBSET Held :
        ledger' = Begun(aged \cup oldest, id, payload) /\ lost' = lost \cup aged \cup oldest
  BY DEF Inserts
<1>2. ledger'[id] = [state |-> "pending", payload |-> payload, answer |-> 0]
  BY <1>1 DEF Begun
<1>3. \A r \in Requests \ {id} : ledger'[r] = IF r \in aged \cup oldest THEN NoRow ELSE ledger[r]
  BY <1>1 DEF Begun
<1>4. Shaped'
  BY <1>2, <1>3 DEF IInv, Shaped
<1> QED
  BY <1>1, <1>2, <1>3, <1>4, NoRowType

\* A request without a row that is not lost has had no effect and no answer,
\* and is handled by starts only.
LEMMA NoRowMeans ==
  ASSUME IInv, NEW id \in Requests \ lost, ledger[id] = NoRow
  PROVE  /\ id \notin Releases => effects[id] = <<>>
         /\ answers[id] = {}
         /\ \A d \in Calls : call[d].id = id /\ call[d].pc # "idle" =>
              id \in Starts /\ call[d].pc = "running"
BY NoRowType DEF IInv, Carried, AnswersRepeat, Matched, Repeats

LEMMA InvBegin ==
  ASSUME IInv, NEW c \in Calls, NEW id \in Requests, NEW payload \in Payloads,
         Begin(c, id, payload)
  PROVE  IInv'
<1>0. call[c] = Idle /\ id \notin Starts /\ ledger[id] = NoRow /\ Inserts(id, payload)
      /\ Run(c, id, payload) /\ UNCHANGED <<effects, answers>>
  BY DEF Begin
<1>1. Types' /\ Inputs' /\ Fits'
  BY <1>0, TypesArrive, InsertsFits DEF IInv
<1>2. Registered' /\ Owned'
  BY <1>0, RunStructure
<1>3. /\ call'[c].pc = "running" /\ call'[c].id = id /\ call'[c].payload = payload
      /\ \A d \in Calls \ {c} : call'[d] = call[d]
      /\ inFlight'[id] = c /\ \A r \in Requests \ {id} : inFlight'[r] = inFlight[r]
  BY <1>0, RunEntered DEF IInv
<1>4. /\ ledger'[id] = [state |-> "pending", payload |-> payload, answer |-> 0]
      /\ ledger'[id] # NoRow /\ ledger'[id].state = "pending" /\ ledger'[id].payload = payload
      /\ lost \subseteq lost'
      /\ \A r \in Requests \ ({id} \cup lost') : ledger'[r] = ledger[r]
      /\ Shaped'
  BY <1>0, Inserted
<1>5. id \notin lost' =>
        /\ id \notin Releases => effects[id] = <<>>
        /\ answers[id] = {}
        /\ \A d \in Calls : call[d].id = id => call[d].pc = "idle"
  BY <1>0, <1>4, NoRowMeans
<1>6. \A d \in Calls : call[d].id \in Requests
  BY DEF IInv, Types, CallType
<1>7. Matched'
  BY <1>3, <1>4, <1>5, <1>6 DEF IInv, Matched, Repeats
<1>8. Sole'
  BY <1>3, <1>4, <1>5, <1>6 DEF IInv, Sole, Handling
<1>9. Staged'
  BY <1>0, <1>3, <1>4, <1>5, <1>6 DEF IInv, Staged
<1>10. OneCarrier'
  BY <1>3, <1>4 DEF IInv, OneCarrier
<1>11. Carried' /\ AnswersRepeat'
  BY <1>0, <1>4, <1>5 DEF IInv, Carried, AnswersRepeat
<1> QED
  BY <1>1, <1>2, <1>4, <1>7, <1>8, <1>9, <1>10, <1>11 DEF IInv

LEMMA InvBeginStart ==
  ASSUME IInv, NEW c \in Calls, NEW id \in Requests, NEW payload \in Payloads,
         BeginStart(c, id, payload)
  PROVE  IInv'
<1>0. call[c] = Idle /\ id \in Starts /\ ledger[id] = NoRow /\ Run(c, id, payload)
      /\ UNCHANGED <<ledger, effects, answers, lost>>
  BY DEF BeginStart
<1>1. Types' /\ Inputs'
  BY TypesArrive DEF IInv
<1>2. Registered' /\ Owned'
  BY <1>0, RunStructure
<1>3. /\ call'[c].pc = "running" /\ call'[c].id = id
      /\ \A d \in Calls \ {c} : call'[d] = call[d]
      /\ \A r \in Requests \ {id} : inFlight'[r] = inFlight[r]
  BY <1>0, RunEntered DEF IInv
<1>4. Fits' /\ Shaped' /\ Carried' /\ AnswersRepeat'
  BY <1>0 DEF IInv, Fits, Held, Rows, Shaped, Carried, AnswersRepeat
<1>5. Matched' /\ Staged' /\ OneCarrier'
  BY <1>0, <1>3 DEF IInv, Matched, Repeats, Staged, OneCarrier
<1>6. Sole'
  BY <1>0, <1>3 DEF IInv, Sole, Types, CallType
<1> QED
  BY <1>1, <1>2, <1>4, <1>5, <1>6 DEF IInv

LEMMA InvResume ==
  ASSUME IInv, NEW c \in Calls, NEW id \in Requests, NEW payload \in Payloads,
         Resume(c, id, payload)
  PROVE  IInv'
<1>0. call[c] = Idle /\ id \in Releases /\ Run(c, id, payload)
      /\ Repeats(id, payload) /\ inFlight[id] = NoCall /\ ledger[id].state = "pending"
      /\ UNCHANGED <<ledger, effects, answers, lost>>
  BY DEF Resume, Resumes
<1>1. Types' /\ Inputs'
  BY TypesArrive DEF IInv
<1>2. Registered' /\ Owned'
  BY <1>0, RunStructure
<1>3. /\ call'[c].pc = "running" /\ call'[c].id = id /\ call'[c].payload = payload
      /\ \A d \in Calls \ {c} : call'[d] = call[d]
      /\ inFlight'[id] = c /\ \A r \in Requests \ {id} : inFlight'[r] = inFlight[r]
  BY <1>0, RunEntered DEF IInv
<1>4. Fits' /\ Shaped' /\ Carried' /\ AnswersRepeat'
  BY <1>0 DEF IInv, Fits, Held, Rows, Shaped, Carried, AnswersRepeat
<1>5. Matched' /\ Staged' /\ OneCarrier'
  BY <1>0, <1>3 DEF IInv, Matched, Repeats, Staged, OneCarrier
<1>6. id \notin lost => \A d \in Calls : call[d].id = id => call[d].pc \notin Handling
  BY <1>0, LedgerConstants DEF IInv, Sole
<1>7. Sole'
  BY <1>0, <1>3, <1>6 DEF IInv, Sole, Types, CallType
<1> QED
  BY <1>1, <1>2, <1>4, <1>5, <1>7 DEF IInv

LEMMA InvJoin ==
  ASSUME IInv, NEW c \in Calls, NEW id \in Requests, NEW payload \in Payloads,
         Join(c, id, payload)
  PROVE  IInv'
<1>0. call[c] = Idle /\ Repeats(id, payload) /\ inFlight[id] # NoCall
      /\ Enter(c, id, payload, "joined", inFlight[id])
      /\ UNCHANGED <<ledger, inFlight, effects, answers, lost>>
  BY DEF Join
<1>1. Types' /\ Inputs'
  BY TypesArrive DEF IInv
<1> Types
  BY DEF IInv
<1>2. /\ call'[c].pc = "joined" /\ call'[c].id = id /\ call'[c].payload = payload
      /\ call'[c].owner = inFlight[id]
      /\ \A d \in Calls \ {c} : call'[d] = call[d]
  BY <1>0 DEF Types, Enter
<1>3. call[c].pc = "idle" /\ "idle" \notin Handling /\ "joined" \notin Handling
  BY <1>0, IdleType DEF Handling
<1>4. \A r \in Requests : inFlight[r] # NoCall =>
        inFlight[r] \in Calls \ {c} /\ call[inFlight[r]].pc \in Handling
        /\ call[inFlight[r]].id = r
  BY <1>3 DEF IInv, Registered, Types
<1>5. Registered'
  BY <1>0, <1>2, <1>4 DEF Registered
<1>6. \A d \in Calls : call[d].pc = "joined" => call[d].owner \in Calls \ {c}
  BY <1>3 DEF IInv, Owned
<1>7. Owned'
  BY <1>0, <1>2, <1>3, <1>4, <1>6 DEF IInv, Owned
<1>8. Fits' /\ Shaped' /\ Carried' /\ AnswersRepeat'
  BY <1>0 DEF IInv, Fits, Held, Rows, Shaped, Carried, AnswersRepeat
<1>9. Matched' /\ Staged' /\ OneCarrier'
  BY <1>0, <1>2 DEF IInv, Matched, Repeats, Staged, OneCarrier
<1>10. Sole'
  BY <1>0, <1>2, <1>3 DEF IInv, Sole
<1> QED
  BY <1>1, <1>5, <1>7, <1>8, <1>9, <1>10 DEF IInv

(***************************************************************************)
(* A handler goes on                                                       *)
(***************************************************************************)
LEMMA Advanced ==
  ASSUME IInv, NEW c \in Calls, NEW pc \in {"effected", "recorded"}, call[c].pc \in Handling,
         call' = [call EXCEPT ![c].pc = pc], UNCHANGED inFlight, lost \subseteq lost'
  PROVE  /\ call'[c].pc = pc /\ call'[c].id = call[c].id /\ call'[c].payload = call[c].payload
         /\ \A d \in Calls \ {c} : call'[d] = call[d]
         /\ Registered' /\ Owned' /\ Sole'
<1>1. /\ call'[c].pc = pc /\ call'[c].id = call[c].id /\ call'[c].payload = call[c].payload
      /\ call'[c].owner = call[c].owner
      /\ \A d \in Calls \ {c} : call'[d] = call[d]
  BY DEF IInv, Types, CallType
<1>2. pc \in Handling /\ "joined" \notin Handling
  BY DEF Handling
<1>3. Registered'
  BY <1>1, <1>2 DEF IInv, Registered, Types
<1>4. Owned'
  BY <1>1, <1>2 DEF IInv, Owned
<1>5. Sole'
  BY <1>1, <1>2 DEF IInv, Sole
<1> QED
  BY <1>1, <1>3, <1>4, <1>5

\* The effect of a request that is not lost is its first, unless it is a release.
LEMMA FirstEffect ==
  ASSUME IInv, NEW c \in Calls, call[c].pc = "running", Carries(c)
  PROVE  /\ \A r \in Requests \ {call[c].id} : effects'[r] = effects[r]
         /\ call[c].id \notin lost /\ effects[call[c].id] = <<>>
              => effects'[call[c].id] = <<call[c].payload>>
<1> DEFINE id == call[c].id
<1>1. id \in Requests /\ call[c].payload \in Payloads
  BY DEF IInv, Types, CallType, Inputs
<1>2. Append(<<>>, call[c].payload) = <<call[c].payload>>
  BY <1>1
<1>3. CASE id \in lost
  BY <1>3 DEF Carries
<1>4. CASE id \notin lost
  <2>1. effects' = [effects EXCEPT ![id] = Append(effects[id], call[c].payload)]
    BY <1>4 DEF Carries
  <2> QED
    BY <1>1, <1>2, <2>1 DEF IInv, Types
<1> QED
  BY <1>3, <1>4

LEMMA InvEffect ==
  ASSUME IInv, NEW c \in Calls, Effect(c) PROVE IInv'
<1> DEFINE id == call[c].id
<1>0. /\ call[c].pc = "running" /\ id \notin Starts /\ Carries(c)
      /\ call' = [call EXCEPT ![c].pc = "effected"]
      /\ UNCHANGED <<ledger, inFlight, answers, lost>> /\ id \in Requests
  BY DEF Effect, Carries, IInv, Types, CallType
<1>1. Types' /\ Inputs' /\ Fits' /\ Shaped' /\ AnswersRepeat'
  BY <1>0, TypesHandle DEF Handles, IInv, Fits, Held, Rows, Shaped, AnswersRepeat
<1>2. /\ call'[c].pc = "effected" /\ call'[c].id = id /\ call'[c].payload = call[c].payload
      /\ \A d \in Calls \ {c} : call'[d] = call[d]
      /\ Registered' /\ Owned' /\ Sole'
  BY <1>0, Advanced DEF Handling
<1>3. \A d \in Calls \ {c} : call[d].id = id /\ id \notin lost => call[d].pc \notin Handling
  BY <1>0 DEF IInv, Sole, Handling
<1>4. id \notin lost =>
        /\ ledger[id].state = "pending" /\ Repeats(id, call[c].payload)
        /\ id \notin Releases => effects[id] = <<>>
  BY <1>0 DEF IInv, Staged, Matched
<1>5. /\ \A r \in Requests \ {id} : effects'[r] = effects[r]
      /\ id \notin lost \cup Releases => effects'[id] = <<call[c].payload>>
  BY <1>0, <1>4, FirstEffect
<1>6. Matched'
  BY <1>0, <1>2, <1>4 DEF IInv, Matched, Repeats
<1>7. Staged'
  <2> SUFFICES ASSUME NEW d \in Calls, call'[d].id \notin lost
               PROVE /\ call'[d].pc = "running" /\ call'[d].id \notin Starts =>
                          /\ ledger[call'[d].id].state = "pending"
                          /\ call'[d].id \notin Releases => effects'[call'[d].id] = <<>>
                     /\ call'[d].pc = "effected" => ledger[call'[d].id].state = "pending"
                     /\ call'[d].pc = "recorded" =>
                          /\ ledger[call'[d].id].state = "completed"
                          /\ ledger[call'[d].id].answer = Len(effects'[call'[d].id])
    BY <1>0 DEF Staged
  <2>1. CASE d = c
    BY <1>2, <1>4, <2>1
  <2>2. CASE d # c
    <3>1. call'[d] = call[d] /\ call[d].id \in Requests
      BY <1>2, <2>2 DEF IInv, Types, CallType
    <3>2. CASE call[d].id = id
      BY <1>3, <2>2, <3>1, <3>2 DEF Handling
    <3>3. CASE call[d].id # id
      BY <1>5, <3>1, <3>3 DEF IInv, Staged
    <3> QED
      BY <3>2, <3>3
  <2> QED
    BY <2>1, <2>2
<1>8. OneCarrier'
  BY <1>0, <1>2, <1>3 DEF IInv, OneCarrier, Handling
<1>9. Carried'
  BY <1>0, <1>4, <1>5 DEF IInv, Carried, Repeats
<1> QED
  BY <1>1, <1>2, <1>6, <1>7, <1>8, <1>9 DEF IInv

LEMMA InvAccept ==
  ASSUME IInv, NEW c \in Calls, Accept(c) PROVE IInv'
<1> DEFINE id == call[c].id
<1>0. /\ call[c].pc = "running" /\ id \in Starts /\ ledger[id] = NoRow /\ Carries(c)
      /\ call' = [call EXCEPT ![c].pc = "effected"] /\ Inserts(id, call[c].payload)
      /\ UNCHANGED <<inFlight, answers>> /\ id \in Requests \ Releases
      /\ call[c].payload \in Payloads
  BY LedgerConstants DEF Accept, Carries, IInv, Types, CallType, Inputs
<1>1. Types' /\ Inputs' /\ Fits'
  BY <1>0, TypesHandle, InsertsFits DEF Handles, IInv
<1>2. /\ ledger'[id] = [state |-> "pending", payload |-> call[c].payload, answer |-> 0]
      /\ ledger'[id] # NoRow /\ ledger'[id].state = "pending"
      /\ ledger'[id].payload = call[c].payload
      /\ lost \subseteq lost'
      /\ \A r \in Requests \ ({id} \cup lost') : ledger'[r] = ledger[r]
      /\ Shaped'
  BY <1>0, Inserted
<1>3. /\ call'[c].pc = "effected" /\ call'[c].id = id /\ call'[c].payload = call[c].payload
      /\ \A d \in Calls \ {c} : call'[d] = call[d]
      /\ Registered' /\ Owned' /\ Sole'
  BY <1>0, <1>2, Advanced DEF Handling
<1>4. id \notin lost =>
        /\ effects[id] = <<>> /\ answers[id] = {}
        /\ \A d \in Calls : call[d].id = id /\ call[d].pc # "idle" => call[d].pc = "running"
  BY <1>0, NoRowMeans
<1>5. /\ \A r \in Requests \ {id} : effects'[r] = effects[r]
      /\ id \notin lost => effects'[id] = <<call[c].payload>>
  BY <1>0, <1>4, FirstEffect
<1>6. \A d \in Calls : call[d].id \in Requests
  BY DEF IInv, Types, CallType
<1>7. Matched'
  BY <1>0, <1>2, <1>3, <1>4, <1>6 DEF IInv, Matched, Repeats
<1>8. Staged'
  BY <1>0, <1>2, <1>3, <1>4, <1>5, <1>6 DEF IInv, Staged
<1>9. OneCarrier'
  BY <1>2, <1>3, <1>4 DEF IInv, OneCarrier
<1>10. Carried' /\ AnswersRepeat'
  BY <1>0, <1>2, <1>4, <1>5 DEF IInv, Carried, AnswersRepeat
<1> QED
  BY <1>1, <1>2, <1>3, <1>7, <1>8, <1>9, <1>10 DEF IInv

\* completeMutationReceipt, of a handler whose row is its own
LEMMA CompletedRow ==
  ASSUME IInv, NEW c \in Calls, ledger' = Completed(c), Repeats(call[c].id, call[c].payload),
         call[c].id \in Requests
  PROVE  /\ ledger'[call[c].id].state = "completed"
         /\ ledger'[call[c].id].answer = Len(effects[call[c].id])
         /\ ledger'[call[c].id].payload = call[c].payload
         /\ ledger'[call[c].id] # NoRow
         /\ \A r \in Requests \ {call[c].id} : ledger'[r] = ledger[r]
         /\ Shaped'
<1> DEFINE id == call[c].id
<1>1. ledger'[id] = [ledger[id] EXCEPT !.state = "completed", !.answer = Len(effects[id])]
      /\ \A r \in Requests \ {id} : ledger'[r] = ledger[r]
  BY DEF IInv, Types, Completed
<1>2. ledger[id] \in RowType /\ ledger[id].payload = call[c].payload
  BY DEF IInv, Types, Repeats
<1>3. /\ ledger'[id].state = "completed" /\ ledger'[id].answer = Len(effects[id])
      /\ ledger'[id].payload = call[c].payload
  BY <1>1, <1>2 DEF RowType
<1>4. ledger'[id] # NoRow
  BY <1>3, NoRowType
<1>5. Shaped'
  BY <1>1, <1>3 DEF IInv, Shaped
<1> QED
  BY <1>1, <1>3, <1>4, <1>5

LEMMA InvRecord ==
  ASSUME IInv, NEW c \in Calls, Record(c) PROVE IInv'
<1> DEFINE id == call[c].id
<1>0. /\ call[c].pc = "effected" /\ Repeats(id, call[c].payload) /\ ledger' = Completed(c)
      /\ call' = [call EXCEPT ![c].pc = "recorded"]
      /\ UNCHANGED <<inFlight, effects, answers, lost>> /\ id \in Requests
  BY DEF Record, IInv, Types, CallType
<1>1. Types' /\ Inputs' /\ Fits'
  BY <1>0, TypesHandle, CompletedFits DEF Handles, IInv, Shaped
<1>2. /\ ledger'[id].state = "completed" /\ ledger'[id].answer = Len(effects[id])
      /\ ledger'[id].payload = call[c].payload /\ ledger'[id] # NoRow
      /\ \A r \in Requests \ {id} : ledger'[r] = ledger[r]
      /\ Shaped'
  BY <1>0, CompletedRow
<1>3. /\ call'[c].pc = "recorded" /\ call'[c].id = id /\ call'[c].payload = call[c].payload
      /\ \A d \in Calls \ {c} : call'[d] = call[d]
      /\ Registered' /\ Owned' /\ Sole'
  BY <1>0, Advanced DEF Handling
<1>4. \A d \in Calls \ {c} : call[d].id = id /\ id \notin lost =>
        /\ call[d].pc \notin {"effected", "recorded"}
        /\ id \notin Starts => call[d].pc # "running"
  BY <1>0 DEF IInv, Sole, Handling, OneCarrier
<1>5. \A d \in Calls : call[d].id \in Requests
  BY DEF IInv, Types, CallType
<1>6. id \notin lost => answers[id] = {} /\ ledger[id].payload = call[c].payload
  BY <1>0 DEF IInv, Staged, AnswersRepeat, Repeats
<1>7. Matched'
  BY <1>0, <1>2, <1>3, <1>5 DEF IInv, Matched, Repeats
<1>8. Staged'
  BY <1>0, <1>2, <1>3, <1>4, <1>5 DEF IInv, Staged
<1>9. OneCarrier'
  BY <1>0, <1>3 DEF IInv, OneCarrier
<1>10. Carried' /\ AnswersRepeat'
  BY <1>0, <1>2, <1>6 DEF IInv, Carried, AnswersRepeat
<1> QED
  BY <1>1, <1>2, <1>3, <1>7, <1>8, <1>9, <1>10 DEF IInv

(***************************************************************************)
(* A handler ends                                                          *)
(***************************************************************************)
\* With the handler end the calls that waited for it, and no other.  Without
\* a start, and until the receipt is lost, they are all there is of the request.
LEMMA Ended ==
  ASSUME IInv, NEW c \in Calls, call[c].pc \in Handling, Ends(c)
  PROVE  /\ \A d \in Calls : call'[d] = call[d] \/ call'[d].pc = "idle"
         /\ call'[c].pc = "idle"
         /\ \A d \in Calls : call[d].owner = c => call[d].id = call[c].id
         /\ call[c].id \notin lost \cup Starts =>
              \A d \in Calls : call[d].id = call[c].id => call'[d].pc = "idle"
         /\ Registered' /\ Owned'
<1> DEFINE id == call[c].id
<1>1. \A d \in Calls : call'[d] = IF call[d].owner = c THEN Idle ELSE call[d]
  BY DEF Ends, Waiting
<1>2. Idle.pc = "idle" /\ "idle" \notin Handling /\ "joined" \notin Handling /\ c # NoCall
  BY IdleType, LedgerConstants DEF Handling
<1>3. \A d \in Calls : call[d].pc \in Handling \cup {"idle", "joined"}
  BY DEF IInv, Types, CallType
<1>4. \A d \in Calls : call[d].owner = c => d = c \/ call[d].pc = "joined"
  BY <1>2, <1>3 DEF IInv, Owned, Inputs
<1>5. \A d \in Calls : call[d].owner = c => call[d].id = id
  BY <1>4 DEF IInv, Owned
<1>6. call[c].owner = c
  BY DEF IInv, Owned
<1>7. ASSUME id \notin lost \cup Starts, NEW d \in Calls, call[d].id = id
      PROVE  call'[d].pc = "idle"
  <2>1. \A e \in Calls : call[e].pc \in Handling /\ call[e].id = id => e = c
    BY <1>7 DEF IInv, Sole
  <2>2. call[d].pc = "idle" \/ call[d].owner = c
    BY <1>3, <1>7, <2>1 DEF IInv, Owned
  <2> QED
    BY <1>1, <1>2, <2>2
<1>8. id \in Requests /\ inFlight'[id] = NoCall /\ \A r \in Requests \ {id} : inFlight'[r] = inFlight[r]
  BY DEF Ends, IInv, Types, CallType
<1>9. \A r \in Requests : inFlight[r] \in Calls \cup {NoCall}
  BY DEF IInv, Types
<1>10. Registered'
  BY <1>1, <1>5, <1>8, <1>9 DEF IInv, Registered
<1>11. Owned'
  BY <1>1, <1>2, <1>4, <1>6 DEF IInv, Owned
<1> QED
  BY <1>1, <1>2, <1>5, <1>6, <1>7, <1>10, <1>11

\* The registered promise of another request stays; that of this one was this
\* handler's, unless it is a start.
LEMMA EndedSole ==
  ASSUME IInv, NEW c \in Calls, call[c].pc \in Handling, Ends(c), lost \subseteq lost'
  PROVE  Sole'
<1>1. /\ \A d \in Calls : call'[d] = call[d] \/ call'[d].pc = "idle"
      /\ call[c].id \notin lost \cup Starts =>
           \A d \in Calls : call[d].id = call[c].id => call'[d].pc = "idle"
  BY Ended
<1>2. \A r \in Requests \ {call[c].id} : inFlight'[r] = inFlight[r]
  BY DEF Ends, IInv, Types
<1>3. \A d \in Calls : call[d].id \in Requests
  BY DEF IInv, Types, CallType
<1> QED
  BY <1>1, <1>2, <1>3 DEF IInv, Sole, Handling

\* When the ledger stays for the requests that are not lost, or changes for one
\* whose calls all end, the rest of the invariant stays.
LEMMA EndedKept ==
  ASSUME IInv, NEW c \in Calls, call[c].pc \in Handling, Ends(c), lost \subseteq lost',
         UNCHANGED effects,
         \A r \in Requests \ lost' :
           \/ ledger'[r] = ledger[r]
           \/ r = call[c].id /\ r \notin Starts
  PROVE  Matched' /\ Staged' /\ OneCarrier'
<1>1. /\ \A d \in Calls : call'[d] = call[d] \/ call'[d].pc = "idle"
      /\ call[c].id \notin lost \cup Starts =>
           \A d \in Calls : call[d].id = call[c].id => call'[d].pc = "idle"
  BY Ended
<1>2. \A d \in Calls : call[d].id \in Requests
  BY DEF IInv, Types, CallType
<1>3. \A d \in Calls : call'[d].pc # "idle" /\ call'[d].id \notin lost' =>
        call'[d] = call[d] /\ ledger'[call[d].id] = ledger[call[d].id] /\ call[d].id \notin lost
  BY <1>1, <1>2
<1>4. Matched'
  BY <1>3 DEF IInv, Matched, Repeats
<1>5. Staged'
  BY <1>3 DEF IInv, Staged
<1>6. OneCarrier'
  BY <1>3 DEF IInv, OneCarrier
<1> QED
  BY <1>4, <1>5, <1>6

LEMMA InvFailUnknown ==
  ASSUME IInv, NEW c \in Calls, FailUnknown(c) PROVE IInv'
<1>0. /\ call[c].pc \in Handling /\ Ends(c) /\ UNCHANGED <<ledger, effects, answers, lost>>
  BY DEF FailUnknown
<1>1. Types' /\ Inputs' /\ Fits' /\ Shaped' /\ AnswersRepeat' /\ Carried'
  BY <1>0, TypesHandle DEF Handles, IInv, Fits, Held, Rows, Shaped, AnswersRepeat, Carried
<1>2. Registered' /\ Owned' /\ Sole'
  BY <1>0, Ended, EndedSole
<1>3. Matched' /\ Staged' /\ OneCarrier'
  BY <1>0, EndedKept
<1> QED
  BY <1>1, <1>2, <1>3 DEF IInv

\* The handler that forgets its effect was the only one to have had it, and the
\* calls that go on are starts that have no receipt yet.
LEMMA Forgotten ==
  ASSUME IInv, NEW c \in Calls, Fail(c), ledger[call[c].id].state = "pending",
         call[c].pc # "running"
  PROVE  Matched' /\ Staged' /\ OneCarrier' /\ Carried'
<1> DEFINE id == call[c].id
<1>0. /\ call[c].pc \in {"effected", "recorded"} /\ call[c].pc \in Handling
      /\ Ends(c) /\ Discards(id) /\ id \in Requests
      /\ lost' = IF Shared(c) THEN lost \cup {id} ELSE lost
      /\ effects' = IF id \notin lost THEN [effects EXCEPT ![id] = <<>>] ELSE effects
  BY DEF Fail, Handling, IInv, Types, CallType
<1>1. /\ ledger'[id] = NoRow /\ \A r \in Requests \ {id} : ledger'[r] = ledger[r]
      /\ id \notin lost => effects'[id] = <<>>
      /\ \A r \in Requests \ {id} : effects'[r] = effects[r]
  BY <1>0 DEF Discards, IInv, Types
<1>2. /\ \A d \in Calls : call'[d] = call[d] \/ call'[d].pc = "idle"
      /\ call'[c].pc = "idle"
      /\ id \notin lost \cup Starts => \A d \in Calls : call[d].id = id => call'[d].pc = "idle"
  BY <1>0, Ended
<1>3. \A d \in Waiting(c) : call'[d].pc = "idle"
  BY <1>0, IdleType DEF Ends, Waiting
<1>4. \A d \in Calls : call[d].id \in Requests /\ call[d].pc \in Handling \cup {"idle", "joined"}
  BY DEF IInv, Types, CallType
<1>5. ASSUME NEW d \in Calls, call'[d].pc # "idle", call'[d].id \notin lost'
      PROVE  /\ call'[d] = call[d] /\ call[d].id \notin lost /\ call[d].id \in Requests
             /\ call[d].id = id => id \in Starts /\ call[d].pc = "running"
  <2>1. call'[d] = call[d] /\ call[d].id \notin lost
    BY <1>0, <1>2, <1>5
  <2>2. ASSUME call[d].id = id PROVE id \in Starts /\ call[d].pc = "running"
    <3>1. id \in Starts /\ ~Shared(c)
      BY <1>0, <1>2, <1>5, <2>1, <2>2
    <3>2. call[d].pc \notin {"effected", "recorded"}
      BY <1>0, <1>2, <1>5, <2>1, <2>2 DEF IInv, OneCarrier
    <3>3. call[d].pc # "joined"
      BY <1>3, <1>5, <2>2, <3>1 DEF Shared
    <3> QED
      BY <1>4, <1>5, <2>1, <3>1, <3>2, <3>3 DEF Handling
  <2> QED
    BY <1>4, <2>1, <2>2
<1>6. Matched'
  BY <1>1, <1>5 DEF IInv, Matched, Repeats
<1>7. Staged'
  BY <1>1, <1>5 DEF IInv, Staged
<1>8. OneCarrier'
  BY <1>5 DEF IInv, OneCarrier
<1>9. Carried'
  BY <1>0, <1>1 DEF IInv, Carried
<1> QED
  BY <1>6, <1>7, <1>8, <1>9

\* A handler that fails before its effect leaves no trace of a request, or
\* loses the receipt of another start.
LEMMA FailedEarly ==
  ASSUME IInv, NEW c \in Calls, Fail(c),
         ~(ledger[call[c].id].state = "pending" /\ call[c].pc # "running")
  PROVE  Matched' /\ Staged' /\ OneCarrier' /\ Carried'
<1> DEFINE id == call[c].id
<1>0. /\ call[c].pc \in Handling /\ Ends(c) /\ Discards(id) /\ UNCHANGED effects
      /\ id \in Requests
      /\ lost' = IF ledger[id].state = "pending" /\ Shared(c) THEN lost \cup {id} ELSE lost
  BY DEF Fail, IInv, Types, CallType
<1>1. /\ ledger'[id] = IF ledger[id].state = "pending" THEN NoRow ELSE ledger[id]
      /\ \A r \in Requests \ {id} : ledger'[r] = ledger[r]
  BY <1>0 DEF Discards, IInv, Types
<1>2. ledger[id].state = "pending" => call[c].pc = "running" /\ (id \in Starts => id \in lost')
  BY <1>0 DEF Shared
<1>3. /\ lost \subseteq lost'
      /\ \A r \in Requests \ lost' : ledger'[r] = ledger[r] \/ (r = id /\ r \notin Starts)
  BY <1>0, <1>1, <1>2
<1>4. Matched' /\ Staged' /\ OneCarrier'
  BY <1>0, <1>3, EndedKept
<1>5. id \notin lost' \cup Releases /\ ledger[id].state = "pending" => effects[id] = <<>>
  BY <1>0, <1>2 DEF IInv, Staged
<1>6. Carried'
  BY <1>0, <1>1, <1>3, <1>5 DEF IInv, Carried
<1> QED
  BY <1>4, <1>6

LEMMA InvFail ==
  ASSUME IInv, NEW c \in Calls, Fail(c) PROVE IInv'
<1> DEFINE id == call[c].id
<1>0. /\ call[c].pc \in Handling /\ Ends(c) /\ Discards(id) /\ UNCHANGED answers
      /\ id \in Requests /\ lost \subseteq lost'
  BY DEF Fail, IInv, Types, CallType
<1>1. Types' /\ Inputs' /\ Fits'
  BY <1>0, TypesHandle, DiscardsFits DEF Handles, IInv
<1>2. /\ ledger'[id] = IF ledger[id].state = "pending" THEN NoRow ELSE ledger[id]
      /\ \A r \in Requests \ {id} : ledger'[r] = ledger[r]
  BY <1>0 DEF Discards, IInv, Types
<1>3. Shaped'
  BY <1>2, NoRowType DEF IInv, Shaped
<1>4. Registered' /\ Owned' /\ Sole'
  BY <1>0, Ended, EndedSole
<1>5. Matched' /\ Staged' /\ OneCarrier' /\ Carried'
  BY Forgotten, FailedEarly
<1>6. AnswersRepeat'
  BY <1>0, <1>2 DEF IInv, AnswersRepeat
<1> QED
  BY <1>1, <1>3, <1>4, <1>5, <1>6 DEF IInv

LEMMA InvCompleteFails ==
  ASSUME IInv, NEW c \in Calls, CompleteFails(c) PROVE IInv'
<1> DEFINE id == call[c].id
<1>0. /\ call[c].pc \in {"effected", "recorded"} /\ call[c].pc \in Handling /\ Ends(c)
      /\ ~Repeats(id, call[c].payload) /\ Discards(id)
      /\ Answer(id, {call[d].payload : d \in Waiting(c) \ {c}}, Len(effects[id]))
      /\ UNCHANGED <<effects, lost>> /\ id \in Requests
  BY DEF CompleteFails, Handling, IInv, Types, CallType
<1>1. Types' /\ Inputs' /\ Fits'
  BY <1>0, TypesHandle, DiscardsFits DEF Handles, IInv
<1>2. id \in lost
  BY <1>0 DEF IInv, Matched
<1>3. UNCHANGED answers
  BY <1>0, <1>2 DEF Answer
<1>4. /\ ledger'[id] = IF ledger[id].state = "pending" THEN NoRow ELSE ledger[id]
      /\ \A r \in Requests \ {id} : ledger'[r] = ledger[r]
  BY <1>0 DEF Discards, IInv, Types
<1>5. Shaped'
  BY <1>4, NoRowType DEF IInv, Shaped
<1>6. \A r \in Requests \ lost' : ledger'[r] = ledger[r]
  BY <1>0, <1>2, <1>4
<1>7. Registered' /\ Owned' /\ Sole'
  BY <1>0, Ended, EndedSole
<1>8. Matched' /\ Staged' /\ OneCarrier'
  BY <1>0, <1>6, EndedKept
<1>9. Carried' /\ AnswersRepeat'
  BY <1>0, <1>3, <1>6 DEF IInv, Carried, AnswersRepeat
<1> QED
  BY <1>1, <1>5, <1>7, <1>8, <1>9 DEF IInv

\* The answer goes to those who sent the input of the row; before it there was
\* none, or the same from the handler's own early completion.
LEMMA CompleteAnswers ==
  ASSUME IInv, NEW c \in Calls, Complete(c)
  PROVE  AnswersRepeat'
<1> DEFINE id == call[c].id  payload == call[c].payload  n == Len(effects[id])
<1>0. /\ call[c].pc \in {"effected", "recorded"} /\ Repeats(id, payload) /\ ledger' = Completed(c)
      /\ Answer(id, {call[d].payload : d \in Waiting(c)}, n)
      /\ UNCHANGED <<effects, lost>> /\ id \in Requests /\ call[c].pc \in Handling /\ Ends(c)
  BY DEF Complete, IInv, Types, CallType, Handling
<1>1. /\ ledger'[id].state = "completed" /\ ledger'[id].answer = n
      /\ ledger'[id].payload = payload
      /\ \A r \in Requests \ {id} : ledger'[r] = ledger[r]
  BY <1>0, CompletedRow
<1>2. CASE id \in lost
  BY <1>0, <1>1, <1>2 DEF Answer, IInv, AnswersRepeat
<1>3. CASE id \notin lost
  <2>1. PICK told \in SUBSET {call[d].payload : d \in Waiting(c)} :
          answers' = [answers EXCEPT ![id] = @ \cup {<<p, n>> : p \in told}]
    BY <1>0, <1>3 DEF Answer
  <2>2. ASSUME NEW d \in Waiting(c) PROVE call[d].payload = payload
    <3>1. d \in Calls /\ call[d].owner = c
      BY DEF Waiting
    <3>2. call[d].id = id /\ call[d].pc # "idle"
      BY <1>0, <3>1, Ended, LedgerConstants DEF IInv, Inputs
    <3>3. d = c \/ call[d].pc = "joined"
      BY <3>1, <3>2 DEF IInv, Owned, Types, CallType
    <3>4. CASE call[d].pc = "joined"
      BY <1>0, <1>3, <3>1, <3>2, <3>4 DEF IInv, Matched, Repeats
    <3> QED
      BY <3>3, <3>4
  <2>3. {<<p, n>> : p \in told} \subseteq {<<payload, n>>}
    BY <2>2
  <2>4. answers[id] \subseteq {<<payload, n>>}
    BY <1>0, <1>3 DEF IInv, Staged, AnswersRepeat, Repeats
  <2>5. answers'[id] = {} \/ answers'[id] = {<<payload, n>>}
    <3>1. answers'[id] = answers[id] \cup {<<p, n>> : p \in told}
      BY <1>0, <2>1 DEF IInv, Types
    <3> QED
      BY <2>3, <2>4, <3>1
  <2>6. \A r \in Requests \ {id} : answers'[r] = answers[r]
    BY <2>1 DEF IInv, Types
  <2> QED
    BY <1>0, <1>1, <2>5, <2>6 DEF IInv, AnswersRepeat
<1> QED
  BY <1>2, <1>3

LEMMA InvComplete ==
  ASSUME IInv, NEW c \in Calls, Complete(c) PROVE IInv'
<1> DEFINE id == call[c].id
<1>0. /\ call[c].pc \in {"effected", "recorded"} /\ Repeats(id, call[c].payload)
      /\ ledger' = Completed(c) /\ Ends(c)
      /\ UNCHANGED <<effects, lost>> /\ id \in Requests /\ call[c].pc \in Handling
  BY DEF Complete, IInv, Types, CallType, Handling
<1>1. Types' /\ Inputs' /\ Fits'
  BY <1>0, TypesHandle, CompletedFits DEF Handles, IInv, Shaped
<1>2. /\ ledger'[id].state = "completed" /\ ledger'[id].answer = Len(effects[id])
      /\ ledger'[id].payload = call[c].payload /\ ledger'[id] # NoRow
      /\ \A r \in Requests \ {id} : ledger'[r] = ledger[r]
      /\ Shaped'
  BY <1>0, CompletedRow
<1>3. /\ \A d \in Calls : call'[d] = call[d] \/ call'[d].pc = "idle"
      /\ call'[c].pc = "idle" /\ Registered' /\ Owned' /\ Sole'
      /\ id \notin lost \cup Starts => \A d \in Calls : call[d].id = id => call'[d].pc = "idle"
  BY <1>0, Ended, EndedSole
<1>4. \A d \in Calls \ {c} : call[d].id = id /\ id \notin lost =>
        call[d].pc \notin {"effected", "recorded"}
  BY <1>0 DEF IInv, OneCarrier
<1>5. \A d \in Calls : call[d].id \in Requests
  BY DEF IInv, Types, CallType
<1>6. ledger[id].payload = call[c].payload /\ ledger[id] # NoRow
  BY <1>0 DEF Repeats
<1>7. Matched'
  BY <1>0, <1>2, <1>3, <1>5, <1>6 DEF IInv, Matched, Repeats
<1>8. Staged'
  BY <1>0, <1>2, <1>3, <1>4, <1>5 DEF IInv, Staged
<1>9. OneCarrier'
  BY <1>0, <1>3 DEF IInv, OneCarrier
<1>10. Carried'
  BY <1>0, <1>2, <1>6 DEF IInv, Carried
<1> QED
  BY <1>1, <1>2, <1>3, <1>7, <1>8, <1>9, <1>10, CompleteAnswers DEF IInv

(***************************************************************************)
(* The theorems                                                            *)
(***************************************************************************)
LEMMA InvReplay ==
  ASSUME IInv, NEW id \in Requests, NEW payload \in Payloads, Replay(id, payload)
  PROVE  IInv'
<1>0. /\ Repeats(id, payload) /\ ledger[id].state = "completed"
      /\ Answer(id, {payload}, ledger[id].answer)
      /\ UNCHANGED <<ledger, inFlight, call, effects, lost>>
  BY DEF Replay
<1>1. ledger[id].answer \in Nat /\ ledger[id].payload = payload
  BY <1>0 DEF IInv, Types, RowType, Repeats
<1>2. answers' \in [Requests -> SUBSET (Payloads \X Nat)]
  BY <1>0, <1>1, AnswerTypes DEF IInv
<1>3. AnswersRepeat'
  <2>1. CASE id \in lost
    BY <1>0, <2>1 DEF Answer, IInv, AnswersRepeat
  <2>2. CASE id \notin lost
    <3>1. PICK told \in SUBSET {payload} :
            answers' = [answers EXCEPT ![id] = @ \cup {<<p, ledger[id].answer>> : p \in told}]
      BY <1>0, <2>2 DEF Answer
    <3>2. answers'[id] = answers[id] \cup {<<p, ledger[id].answer>> : p \in told}
          /\ \A r \in Requests \ {id} : answers'[r] = answers[r]
      BY <3>1 DEF IInv, Types
    <3>3. {<<p, ledger[id].answer>> : p \in told} \subseteq {<<payload, ledger[id].answer>>}
      OBVIOUS
    <3>4. answers[id] \subseteq {<<payload, ledger[id].answer>>}
      BY <1>1, <2>2 DEF IInv, AnswersRepeat
    <3>5. answers'[id] = {} \/ answers'[id] = {<<payload, ledger[id].answer>>}
      BY <3>2, <3>3, <3>4
    <3> QED
      BY <1>0, <1>1, <3>2, <3>5 DEF IInv, AnswersRepeat
  <2> QED
    BY <2>1, <2>2
<1> QED
  BY <1>0, <1>2, <1>3
  DEF IInv, Types, Inputs, Fits, Held, Rows, Registered, Owned, Shaped, Matched, Repeats, Sole,
      Staged, OneCarrier, Carried

LEMMA InvRestart == ASSUME IInv, Restart PROVE IInv'
<1>0. /\ call' = [c \in Calls |-> Idle] /\ inFlight' = [id \in Requests |-> NoCall]
      /\ UNCHANGED <<ledger, effects, answers, lost>>
  BY DEF Restart
<1>1. \A c \in Calls : call'[c].pc = "idle" /\ call'[c].owner = NoCall
  BY <1>0, IdleType
<1>2. Types' /\ Inputs'
  BY <1>0, <1>1, IdleType DEF IInv, Types, Inputs
<1>3. Fits' /\ Shaped' /\ Carried' /\ AnswersRepeat'
  BY <1>0 DEF IInv, Fits, Held, Rows, Shaped, Carried, AnswersRepeat
<1>4. Registered'
  BY <1>0 DEF Registered
<1>5. Owned' /\ Matched' /\ Sole' /\ Staged' /\ OneCarrier'
  BY <1>1 DEF Owned, Matched, Sole, Staged, OneCarrier, Handling
<1> QED
  BY <1>2, <1>3, <1>4, <1>5 DEF IInv

LEMMA InvNext == ASSUME IInv, [Next]_vars PROVE IInv'
<1>1. ASSUME NEW c \in Calls, Arrives(c) PROVE IInv'
  BY <1>1, InvBegin, InvBeginStart, InvJoin, InvResume DEF Arrives
<1>2. ASSUME NEW c \in Calls, Handles(c) PROVE IInv'
  BY <1>2, InvEffect, InvAccept, InvFail, InvFailUnknown, InvRecord,
     InvComplete, InvCompleteFails DEF Handles
<1>3. CASE UNCHANGED vars
  BY <1>3
  DEF vars, IInv, Types, Inputs, Fits, Held, Rows, Registered, Owned, Shaped, Matched, Repeats,
      Sole, Staged, OneCarrier, Carried, AnswersRepeat
<1> QED
  BY <1>1, <1>2, <1>3, InvReplay, InvRestart DEF Next

\* The invariant of every reachable state
THEOREM Invariant == Spec => []IInv
<1>1. IInv /\ [Next]_vars => IInv'
  BY InvNext
<1> QED
  BY <1>1, InvInit, PTL DEF Spec

\* Every variable keeps its type, and the ledger never outgrows its capacity,
\* whatever the begin and the acceptance prune.
THEOREM TypeCorrect == Spec => []TypeOK
<1>1. IInv => TypeOK
  BY DEF IInv, Types, Fits, TypeOK, CallType, RowType
<1> QED
  BY <1>1, Invariant, PTL

\* A mutation is carried out at most once between two ordinary errors behind its
\* effect, with any number of concurrent calls, repetitions and restarts, while
\* its receipt is not lost and it is no release.
THEOREM CarriedOutOnce == Spec => []EffectOnce
<1>1. ASSUME IInv, NEW id \in Requests \ (lost \cup Releases)
      PROVE  Len(effects[id]) <= 1
  <2>1. effects[id] = <<>> \/ effects[id] = <<ledger[id].payload>>
    BY <1>1 DEF IInv, Carried
  <2>2. \A p : Len(<<p>>) = 1
    OBVIOUS
  <2>3. Len(<<>>) = 0
    OBVIOUS
  <2> DEFINE n == Len(effects[id])
  <2>4. n \in {0, 1}
    BY <2>1, <2>2, <2>3, Zenon
  <2>5. n <= 1
    <3> HIDE DEF n
    <3> QED
      BY <2>4
  <2> QED
    BY <2>5
<1>2. IInv => EffectOnce
  BY <1>1 DEF EffectOnce
<1> QED
  BY <1>2, Invariant, PTL

\* What was carried out has its receipt, with the input it was carried out with,
\* until an ordinary error behind the effect makes the ledger forget it.
THEOREM CarriedOutRecorded == Spec => []EffectHasReceipt
<1>1. ASSUME IInv, NEW id \in Requests \ (lost \cup Releases), NEW n \in DOMAIN effects[id]
      PROVE  ledger[id] # NoRow /\ ledger[id].payload = effects[id][n]
  <2>1. effects[id] = <<>> \/ (ledger[id] # NoRow /\ effects[id] = <<ledger[id].payload>>)
    BY <1>1 DEF IInv, Carried
  <2> QED
    BY <1>1, <2>1
<1>2. IInv => EffectHasReceipt
  BY <1>1 DEF EffectHasReceipt
<1> QED
  BY <1>2, Invariant, PTL

\* All clients of a request get one answer, and a repetition gets it again.
THEOREM OneAnswer == Spec => []AnswersRepeat
<1>1. IInv => AnswersRepeat
  BY DEF IInv
<1> QED
  BY <1>1, Invariant, PTL

\* Two handlers of one request never overlap, unless they are starts of which
\* at least one is not accepted.
THEOREM OneHandler == Spec => []HandlersExclude
<1>1. ASSUME IInv, NEW c \in Calls, NEW d \in Calls, c # d, call[c].id = call[d].id,
             call[c].id \notin lost, call[c].pc \in Handling, call[d].pc \in Handling
      PROVE  call[c].id \in Starts /\ "running" \in {call[c].pc, call[d].pc}
  <2>1. call[c].id \in Starts
    BY <1>1 DEF IInv, Sole
  <2>2. call[c].pc = "running" \/ call[d].pc = "running"
    BY <1>1 DEF IInv, OneCarrier, Handling
  <2> QED
    BY <2>1, <2>2
<1>2. IInv => HandlersExclude
  BY <1>1 DEF HandlersExclude
<1> QED
  BY <1>2, Invariant, PTL
=============================================================================
