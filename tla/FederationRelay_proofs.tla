------------------------ MODULE FederationRelay_proofs ------------------------
(* Theorems of FederationRelay for every value of its constants. *)
EXTENDS FederationRelay, Integers, TLAPS, SequenceTheorems, FiniteSetTheorems,
        WellFoundedInduction

(***************************************************************************)
(* The inductive invariant                                                 *)
(***************************************************************************)
Payloads    == Reports \cup {"none"}
RowType     == [kind : Kinds, report : Payloads, acked : BOOLEAN]
MessageType == [kind : Kinds, report : Payloads, rejected : BOOLEAN]
ItemType    == [seq : Nat, kind : Kinds, report : Payloads]
Settlements == SUBSET (Nat \X (Verdicts \ {"none"}))
CallType    == [method : {"none", "ack", "import"}, through : Nat, settled : Settlements,
                state : {"none", "sent", "done", "refused"}]
SyncType    == [pc : {"idle", "import", "ack", "mail", "next"}, items : SUBSET ItemType,
                cursor : Nat, epoch : Nat, durable : Nat, settled : Settlements, left : Int,
                full : BOOLEAN]
ReceiptType == [state : {"none", "pending", "completed"}, settled : Settlements]
Ended       == {"stopping", "stopped", "stop_unknown"}

Shapes ==
  /\ protocol \in {2, 3}
  /\ outbox \in Seq(RowType) /\ mailbox \in Seq(MessageType) /\ delivered \in Seq(Nat)
  /\ att \in {"ready", "succeeded", "failed"} \cup Ended
  /\ home \in {"ready", "succeeded", "failed", "abandoned"} \cup Ended
  /\ epoch \in Nat /\ homeEpoch \in Nat /\ homeAcked \in Nat /\ faults \in Nat
  /\ mailIn \in Nat /\ mailSent \in 0 .. MaxMail /\ mailAcked \in Nat
  /\ ackReceipts \in [1 .. MaxItems -> ReceiptType]
  /\ importReceipts \in [1 .. MaxMail -> {"none", "pending", "completed"}]
  /\ checkpoint \in [epoch : Nat, through : Nat]
  /\ sync \in SyncType /\ call \in CallType /\ late \subseteq CallType
  /\ stop \in {"none", "sent", "closing", "stopped", "stop_unknown", "settled", "lost"}

\* The worker's server numbers its items without gaps, and a report has a payload.
Queued ==
  /\ Len(outbox) <= MaxItems /\ Len(mailbox) <= Len(outbox)
  /\ \A i \in DOMAIN outbox : outbox[i].kind = "worker_done" => outbox[i].report \in Reports

IsReport(i) == outbox[i].kind = "worker_done"

\* A report never leaves its place, so a pulled one and an imported one are
\* still what the server has there.
Pulled ==
  \A item \in sync.items :
    /\ item.seq \in DOMAIN outbox
    /\ item.kind = "worker_done" => IsReport(item.seq) /\ outbox[item.seq].report = item.report

Copied ==
  \A i \in DOMAIN mailbox :
    mailbox[i].kind = "worker_done" => IsReport(i) /\ outbox[i].report = mailbox[i].report

\* The home backs each verdict it returns with a message of its mailbox.
Backs(s) ==
  /\ s[1] \in DOMAIN mailbox /\ mailbox[s[1]].kind = "worker_done"
  /\ s[2] # "rejected" =>
       /\ ~mailbox[s[1]].rejected /\ mailbox[s[1]].report \in {"succeeded", "failed"}
       /\ s[2] = IF mailbox[s[1]].report = "succeeded" THEN "completed" ELSE "failed"

Backed(settled) == \A s \in settled : protocol = 3 /\ Backs(s)

AckedUpTo(n) == \A i \in DOMAIN outbox : i <= n => outbox[i].acked

\* An acknowledgment covers imported items only.
Covered(request) == request.through \in 1 .. Imported /\ Backed(request.settled)

Acknowledged ==
  /\ \A i \in DOMAIN outbox : outbox[i].acked => i <= Imported
  /\ sync.cursor <= Imported /\ Backed(sync.settled)
  /\ call.method = "ack" => Covered(call)
  /\ \A request \in late : Covered(request)
  /\ call.method = "ack" /\ call.state = "done" => AckedUpTo(call.through)
  /\ \A n \in DOMAIN ackReceipts :
       ackReceipts[n].state = "completed" => n <= Imported /\ AckedUpTo(n)
  /\ homeAcked <= Imported /\ AckedUpTo(homeAcked)

\* A sync awaits its call where it made it.
Awaited ==
  /\ call.method = "none" => call.state = "none"
  /\ call.method = "ack" => sync.pc = "ack"
  /\ call.method = "import" => sync.pc = "mail"

\* No report is acknowledged without its verdict.
Delivered ==
  protocol = 3 =>
    \A i \in DOMAIN outbox :
      outbox[i].acked /\ IsReport(i) => i \in DOMAIN mailbox /\ mailbox[i].kind = "worker_done"

Mailed ==
  /\ mailAcked <= mailIn /\ mailIn <= Len(delivered) /\ Len(delivered) <= mailSent
  /\ \A i \in DOMAIN delivered : delivered[i] = i
  /\ call.method = "import" =>
       call.through \in 1 .. mailSent /\ (call.state = "done" => call.through <= mailIn)
  /\ \A n \in DOMAIN importReceipts : importReceipts[n] = "completed" => n <= mailIn

\* The home decides once, and a stop begins before a decision or not at all.
Decided ==
  protocol = 3 =>
    /\ \A i \in Accepted :
         mailbox[i].report \in {"succeeded", "failed"} /\ home \in {mailbox[i].report, "abandoned"}
    /\ \A i, j \in Accepted : mailbox[i].report = mailbox[j].report
    /\ home \in {"succeeded", "failed"} => Accepted # {}
    /\ \A i \in DOMAIN mailbox :
         mailbox[i].kind = "worker_done" /\ mailbox[i].rejected /\ mailbox[i].report # "misfit" =>
           home \notin {"ready", mailbox[i].report}
    /\ att \in {"succeeded", "failed"} => \E i \in Accepted : mailbox[i].report = att
    /\ stop = "none" => home \notin Ended /\ att \notin Ended
    /\ stop # "none" => home \in Ended \cup {"abandoned"} /\ Accepted = {}
    /\ stop = "sent" => att = "ready"
    /\ stop # "settled"

IInv ==
  Shapes /\ Queued /\ Pulled /\ Copied /\ Acknowledged /\ Awaited /\ Delivered /\ Mailed /\ Decided

(***************************************************************************)
(* Sequences and queues                                                    *)
(***************************************************************************)
LEMMA SeqDomain ==
  ASSUME NEW S, NEW s \in Seq(S)
  PROVE  DOMAIN s = 1 .. Len(s) /\ Len(s) \in Nat /\ \A i \in DOMAIN s : s[i] \in S
BY LenProperties, ElementOfSeq

\* A sequence rebuilt entry by entry
LEMMA Rebuilt ==
  ASSUME NEW S, NEW s \in Seq(S), NEW t, t \in [DOMAIN s -> S]
  PROVE  t \in Seq(S) /\ Len(t) = Len(s)
<1>1. DOMAIN s = 1 .. Len(s) /\ Len(s) \in Nat
  BY LenProperties
<1>2. t \in Seq(S)
  BY <1>1, SeqDef
<1> QED
  BY <1>1, <1>2, LenProperties

LEMMA HasOldest ==
  ASSUME NEW S, S \subseteq Nat, S # {}
  PROVE  Oldest(S) \in S /\ \A j \in S : Oldest(S) <= j
<1> DEFINE Less == {s \in Nat \X Nat : s[1] < s[2]}
<1>1. Less = OpToRel(<, Nat)
  BY DEF OpToRel
<1>2. IsWellFoundedOn(Less, Nat)
  BY <1>1, NatLessThanWellFounded
<1>3. \A i, j \in Nat : i < j => <<i, j>> \in Less
  OBVIOUS
<1> HIDE DEF Less
<1>4. PICK m \in S : \A j \in S : ~(<<j, m>> \in Less)
  BY <1>2, WFMin
<1>5. \A j \in S : ~(j < m)
  BY <1>3, <1>4, Zenon
<1>6. \A j \in S : m <= j
  BY <1>5
<1> QED
  BY <1>6 DEF Oldest

\* What the constants are
LEMMA Constants ==
  /\ Reports \subseteq {"succeeded", "failed", "misfit"}
  /\ Capacity \in Nat \ {0} /\ PageSize \in Nat \ {0} /\ MaxItems \in Nat /\ MaxMail \in Nat
BY RelayConstants

LEMMA SeqFacts ==
  ASSUME Shapes
  PROVE  /\ DOMAIN outbox = 1 .. Len(outbox) /\ Len(outbox) \in Nat
         /\ DOMAIN mailbox = 1 .. Len(mailbox) /\ Len(mailbox) \in Nat
         /\ DOMAIN delivered = 1 .. Len(delivered) /\ Len(delivered) \in Nat
         /\ \A i \in DOMAIN outbox : outbox[i] \in RowType
         /\ \A i \in DOMAIN mailbox : mailbox[i] \in MessageType
BY SeqDomain DEF Shapes

(***************************************************************************)
(* The agent sends                                                         *)
(***************************************************************************)
\* Rows are added, and an unacknowledged row that is no report may become one.
LEMMA QueueStep ==
  ASSUME IInv, outbox' \in Seq(RowType), Len(outbox) <= Len(outbox'), Len(outbox') <= MaxItems,
         \A i \in DOMAIN outbox :
           \/ outbox'[i] = outbox[i]
           \/ ~outbox[i].acked /\ ~outbox'[i].acked /\ ~IsReport(i) /\ outbox'[i].report \in Reports,
         \A i \in DOMAIN outbox' \ DOMAIN outbox :
           ~outbox'[i].acked /\ (outbox'[i].kind = "worker_done" => outbox'[i].report \in Reports),
         att' \in {"ready", "succeeded", "failed"} \cup Ended, protocol = 3 => att' = att,
         UNCHANGED <<protocol, epoch, mailIn, delivered, ackReceipts, importReceipts,
                     homeVars, sync, netVars>>
  PROVE  IInv'
<1> USE DEF homeVars, netVars
<1>1. /\ DOMAIN outbox = 1 .. Len(outbox) /\ Len(outbox) \in Nat
      /\ DOMAIN outbox' = 1 .. Len(outbox') /\ Len(outbox') \in Nat
      /\ DOMAIN mailbox = 1 .. Len(mailbox) /\ Len(mailbox) \in Nat
  BY SeqFacts, SeqDomain DEF IInv
<1>2. Shapes'
  BY DEF IInv, Shapes
<1>3. Queued' /\ Copied' /\ Pulled'
  BY <1>1 DEF IInv, Queued, Copied, Pulled, IsReport
<1>4. \A n \in Nat : n <= Len(mailbox) /\ AckedUpTo(n) => AckedUpTo(n)'
  BY <1>1 DEF IInv, AckedUpTo, Queued
<1>5. Acknowledged'
  <2>1. \A S : Backed(S)' <=> Backed(S)
    BY DEF Backed, Backs
  <2>2. \A i \in DOMAIN outbox' : outbox'[i].acked => i <= Len(mailbox)
    BY <1>1 DEF IInv, Acknowledged, Imported
  <2>3. \A n \in DOMAIN ackReceipts : n \in Nat
    BY DEF IInv, Shapes
  <2>4. homeAcked \in Nat /\ call.through \in Nat
    BY DEF IInv, Shapes, CallType
  <2>5. \A r : Covered(r)' <=> Covered(r)
    BY <2>1 DEF Covered, Imported
  <2>6. call.method = "ack" => call.through <= Len(mailbox)
    BY <1>1 DEF IInv, Acknowledged, Covered, Imported
  <2> QED
    BY <1>1, <1>4, <2>1, <2>2, <2>3, <2>4, <2>5, <2>6 DEF IInv, Acknowledged, Imported
<1>6. Awaited' /\ Mailed'
  BY DEF IInv, Awaited, Mailed
<1>7. Delivered'
  BY <1>1 DEF IInv, Delivered, IsReport
<1>8. Decided'
  BY DEF IInv, Decided, Accepted
<1> QED
  BY <1>2, <1>3, <1>5, <1>6, <1>7, <1>8 DEF IInv

LEMMA AppendStep ==
  ASSUME IInv, NEW kind \in Kinds, NEW report \in Payloads, Append1(kind, report),
         kind = "worker_done" => report \in Reports,
         att' \in {"ready", "succeeded", "failed"} \cup Ended, protocol = 3 => att' = att,
         UNCHANGED <<protocol, epoch, mailIn, delivered, ackReceipts, importReceipts,
                     homeVars, sync, netVars>>
  PROVE  IInv'
<1>1. Row(kind, report) \in RowType
  BY DEF Row, RowType
<1>2. /\ outbox' \in Seq(RowType) /\ Len(outbox') = Len(outbox) + 1
      /\ \A i \in 1 .. Len(outbox) : outbox'[i] = outbox[i]
      /\ outbox'[Len(outbox) + 1] = Row(kind, report)
  BY <1>1, AppendProperties DEF IInv, Shapes, Append1
<1>3. /\ DOMAIN outbox = 1 .. Len(outbox) /\ Len(outbox) \in Nat
      /\ DOMAIN outbox' = 1 .. Len(outbox')
  BY <1>2, SeqFacts, SeqDomain DEF IInv
<1>4. \A i \in DOMAIN outbox' \ DOMAIN outbox : outbox'[i] = Row(kind, report)
  BY <1>2, <1>3
<1>5. Len(outbox') <= MaxItems
  BY <1>2, <1>3, Constants DEF Append1
<1> QED
  BY <1>2, <1>3, <1>4, <1>5, QueueStep DEF Row

LEMMA SendStep ==
  ASSUME IInv, AgentStep PROVE IInv'
<1>1. "none" \in Payloads /\ Reports \subseteq Payloads /\ Kinds = {"status", "heartbeat", "worker_done"}
  BY DEF Payloads, Kinds
<1>2. protocol \in {2, 3} /\ att \in {"ready", "succeeded", "failed"} \cup Ended
      /\ outbox \in Seq(RowType) /\ Len(outbox) <= MaxItems /\ Len(outbox) \in Nat
  BY SeqFacts DEF IInv, Shapes, Queued
<1>3. CASE SendStatus
  BY <1>1, <1>2, <1>3, AppendStep DEF SendStatus
<1>4. CASE SendHeartbeat
  <2>1. CASE UNCHANGED outbox
    BY <1>2, <1>4, <2>1, QueueStep DEF SendHeartbeat
  <2>2. CASE Append1("heartbeat", "none")
    BY <1>1, <1>2, <1>4, <2>2, AppendStep DEF SendHeartbeat
  <2> QED
    BY <1>4, <2>1, <2>2 DEF SendHeartbeat
<1>5. ASSUME NEW r \in Reports, SendReport(r) PROVE IInv'
  <2>1. /\ att' \in {"ready", "succeeded", "failed"} \cup Ended
        /\ protocol = 3 => att' = att
    BY <1>2, <1>5, Constants DEF SendReport, Settling, OutcomeOf
  <2>2. CASE UNCHANGED outbox
    BY <1>2, <1>5, <2>1, <2>2, QueueStep DEF SendReport
  <2>3. CASE Append1("worker_done", r)
    BY <1>1, <1>5, <2>1, <2>3, AppendStep DEF SendReport
  <2>4. CASE /\ Unacked("heartbeat") # {}
             /\ outbox' = [outbox EXCEPT ![Oldest(Unacked("heartbeat"))] = Row("worker_done", r)]
    <3> DEFINE h == Oldest(Unacked("heartbeat"))
    <3>1. Unacked("heartbeat") \subseteq Nat
      BY SeqFacts DEF Unacked, IInv
    <3>2. h \in Unacked("heartbeat")
      BY <2>4, <3>1, HasOldest
    <3>3. Row("worker_done", r) \in RowType
      BY <1>1 DEF Row, RowType
    <3> HIDE DEF h
    <3>4. outbox' = [outbox EXCEPT ![h] = Row("worker_done", r)]
      BY <2>4 DEF h
    <3>5. outbox' \in [DOMAIN outbox -> RowType]
      BY <3>3, <3>4, <1>2, SeqFacts, SeqDef DEF IInv
    <3>6. outbox' \in Seq(RowType) /\ Len(outbox') = Len(outbox) /\ DOMAIN outbox' = DOMAIN outbox
      BY <1>2, <3>5, Rebuilt
    <3>7. /\ h \in DOMAIN outbox /\ ~outbox[h].acked /\ ~IsReport(h)
          /\ ~outbox'[h].acked /\ outbox'[h].report = r
      BY <3>2, <3>4 DEF Unacked, Row, IsReport
    <3>8. \A i \in DOMAIN outbox : i # h => outbox'[i] = outbox[i]
      BY <3>4
    <3> QED
      BY <1>2, <1>5, <2>1, <3>6, <3>7, <3>8, QueueStep DEF SendReport
  <2> QED
    BY <1>5, <2>2, <2>3, <2>4 DEF SendReport, QueueReport
<1> QED
  BY <1>3, <1>4, <1>5 DEF AgentStep

(***************************************************************************)
(* The sync                                                                *)
(***************************************************************************)
\* Steps of a sync and its calls that leave the tables' contents alone
LEMMA SyncStepKept ==
  ASSUME IInv, sync' \in SyncType, Pulled', sync'.cursor <= Imported, Backed(sync'.settled),
         call' \in CallType, Awaited',
         call'.method = "ack" =>
           Covered(call') /\ (call'.state = "done" => AckedUpTo(call'.through)),
         call'.method = "import" =>
           call'.through \in 1 .. mailSent /\ (call'.state = "done" => call'.through <= mailIn),
         late' \subseteq CallType, \A request \in late' : Covered(request),
         checkpoint' \in [epoch : Nat, through : Nat], epoch' \in Nat, homeEpoch' \in Nat,
         faults' \in Nat, mailAcked' \in Nat, mailAcked' <= mailIn,
         homeAcked' \in Nat, homeAcked' <= Imported, AckedUpTo(homeAcked'),
         UNCHANGED <<protocol, outbox, att, mailIn, delivered, ackReceipts, importReceipts,
                     home, mailbox, mailSent, stop>>
  PROVE  IInv'
<1>1. Shapes'
  BY DEF IInv, Shapes
<1>2. Queued' /\ Copied' /\ Delivered' /\ Decided'
  BY DEF IInv, Queued, Copied, Delivered, Decided, IsReport, Accepted
<1>3. /\ \A S : Backed(S)' <=> Backed(S)
      /\ \A r : Covered(r)' <=> Covered(r)
      /\ \A n : AckedUpTo(n)' <=> AckedUpTo(n)
  BY DEF Backed, Backs, Covered, AckedUpTo, Imported
<1>4. Acknowledged'
  BY <1>3 DEF IInv, Acknowledged, Imported
<1>5. Mailed'
  BY DEF IInv, Mailed
<1> QED
  BY <1>1, <1>2, <1>4, <1>5 DEF IInv

LEMMA Nothing ==
  /\ {} \in Settlements /\ {} \in SUBSET ItemType
  /\ NoCall \in CallType /\ Idle \in SyncType
<1>1. {} \in Settlements /\ {} \in SUBSET ItemType
  BY DEF Settlements
<1> QED
  BY <1>1 DEF NoCall, CallType, Idle, SyncType

\* A sync ends or turns to the next page, its call over.
LEMMA SyncOver ==
  ASSUME IInv, sync' \in SyncType, sync'.items = {}, sync'.cursor = 0, sync'.settled = {},
         call' = NoCall \/ (UNCHANGED call /\ call.method = "none"),
         late' \subseteq late \cup {request \in {call} : request.method = "ack"},
         checkpoint' \in [epoch : Nat, through : Nat], faults' \in Nat,
         mailAcked' \in Nat, mailAcked' <= mailIn,
         UNCHANGED <<protocol, outbox, att, epoch, mailIn, delivered, ackReceipts, importReceipts,
                     home, mailbox, homeAcked, homeEpoch, mailSent, stop>>
  PROVE  IInv'
<1>1. call' \in CallType /\ call'.method = "none" /\ call'.state = "none"
  <2>1. CASE call' = NoCall
    BY <2>1, Nothing DEF NoCall
  <2>2. CASE UNCHANGED call /\ call.method = "none"
    BY <2>2 DEF IInv, Shapes, Awaited
  <2> QED
    BY <2>1, <2>2
<1>2. Pulled' /\ Awaited' /\ Backed(sync'.settled)
  BY <1>1 DEF Pulled, Awaited, Backed
<1>3. late' \subseteq CallType /\ \A request \in late' : Covered(request)
  BY DEF IInv, Shapes, Acknowledged
<1>4. homeAcked \in Nat /\ homeAcked <= Imported /\ AckedUpTo(homeAcked) /\ epoch \in Nat
      /\ homeEpoch \in Nat
  BY DEF IInv, Shapes, Acknowledged
<1>5. sync'.cursor <= Imported
  BY SeqFacts DEF Imported, IInv
<1> QED
  BY <1>1, <1>2, <1>3, <1>4, <1>5, SyncStepKept

LEMMA EndSyncFacts ==
  ASSUME IInv, EndSync \/ NextOrIdle
  PROVE  /\ sync' \in SyncType /\ sync'.items = {} /\ sync'.cursor = 0 /\ sync'.settled = {}
         /\ checkpoint' \in [epoch : Nat, through : Nat]
<1>1. checkpoint \in [epoch : Nat, through : Nat] /\ NoCheckpoint \in [epoch : Nat, through : Nat]
  BY DEF IInv, Shapes, NoCheckpoint
<1>2. sync.left \in Int
  BY DEF IInv, Shapes, SyncType
<1>3. CASE EndSync
  BY <1>1, <1>3, Nothing DEF EndSync, Idle
<1>4. CASE NextOrIdle
  <2>1. CASE UNCHANGED checkpoint /\ sync' = [Idle EXCEPT !.pc = "next", !.left = sync.left]
    BY <1>1, <1>2, <2>1, Nothing DEF Idle, SyncType
  <2> QED
    BY <1>3, <1>4, <2>1 DEF NextOrIdle
<1> QED
  BY <1>3, <1>4

LEMMA PullStep ==
  ASSUME IInv, NEW left \in Int, Pull(left), call.method = "none" PROVE IInv'
<1> USE DEF workerVars, homeVars, netVars
<1>1. /\ DOMAIN outbox = 1 .. Len(outbox) /\ Len(outbox) \in Nat /\ Len(mailbox) \in Nat
      /\ \A i \in DOMAIN outbox : outbox[i] \in RowType
  BY SeqFacts DEF IInv
<1>2. Page \subseteq Wanted /\ Wanted \subseteq DOMAIN outbox
  BY DEF Page, Wanted
<1>3. \A i \in DOMAIN outbox : Item(i) \in ItemType
  BY <1>1 DEF Item, ItemType, RowType
<1>4. {Item(i) : i \in Page} \in SUBSET ItemType
  BY <1>2, <1>3
<1> DEFINE start == IF protocol >= Settling /\ Page # {} THEN Oldest(Page) - 1 ELSE Imported
<1>5. start \in Nat /\ start <= Imported
  <2>1. CASE protocol >= Settling /\ Page # {}
    <3>1. Page \subseteq Nat
      BY <1>1, <1>2
    <3>2. Oldest(Page) \in Page
      BY <2>1, <3>1, HasOldest
    <3>3. \A j \in Wanted : j \in DOMAIN outbox /\ ~outbox[j].acked
      BY <2>1 DEF Wanted
    <3> DEFINE o == Oldest(Page)
    <3>4. o \in Wanted /\ o \in 1 .. Len(outbox)
      BY <1>1, <1>2, <3>2
    <3> HIDE DEF o
    <3>5. o - 1 <= Imported
      <4>1. \A j \in Wanted : Cardinality({i \in Wanted : i < j}) < PageSize => j \in Page
        BY DEF Page
      <4>2. SUFFICES ASSUME o - 1 > Imported PROVE FALSE
        BY <1>1, <3>4 DEF Imported
      <4>3. o - 1 \in DOMAIN outbox /\ ~outbox[o - 1].acked
        BY <1>1, <3>4, <4>2 DEF IInv, Acknowledged, Imported
      <4>4. o - 1 \in Wanted
        BY <2>1, <4>3 DEF Wanted
      <4>5. {i \in Wanted : i < o - 1} \subseteq {i \in Wanted : i < o}
        BY <1>1, <1>2, <3>4
      <4>6. IsFiniteSet(1 .. Len(outbox))
        BY <1>1, FS_Interval
      <4>7. IsFiniteSet({i \in Wanted : i < o})
        BY <1>1, <1>2, <4>6, FS_Subset
      <4>8. /\ Cardinality({i \in Wanted : i < o - 1}) <= Cardinality({i \in Wanted : i < o})
            /\ Cardinality({i \in Wanted : i < o - 1}) \in Nat
            /\ Cardinality({i \in Wanted : i < o}) \in Nat
        BY <4>5, <4>7, FS_Subset, FS_CardinalityType
      <4>9. Cardinality({i \in Wanted : i < o}) < PageSize
        BY <3>2 DEF Page, o
      <4>10. o - 1 \in Page
        BY <4>1, <4>4, <4>8, <4>9, Constants
      <4>11. \A j \in Page : o <= j
        BY <2>1, <3>1, HasOldest DEF o
      <4> QED
        BY <3>4, <4>10, <4>11
    <3>6. o - 1 \in Nat
      BY <3>4
    <3> QED
      BY <2>1, <3>5, <3>6 DEF o
  <2>2. CASE ~(protocol >= Settling /\ Page # {})
    BY <1>1, <2>2 DEF Imported
  <2> QED
    BY <2>1, <2>2
<1> HIDE DEF start
<1>6. /\ sync'.pc = "import" /\ sync'.items = {Item(i) : i \in Page} /\ sync'.cursor = start
      /\ sync'.settled = {}
  BY DEF Pull, start
<1>7. sync' \in SyncType
  <2>1. (IF homeEpoch = epoch THEN homeAcked ELSE 0) \in Nat /\ epoch \in Nat
    BY DEF IInv, Shapes
  <2>2. (Cardinality(Page) = PageSize) \in BOOLEAN
    OBVIOUS
  <2> QED
    BY <1>4, <1>5, <2>1, <2>2, Nothing DEF Pull, SyncType, start
<1>8. Pulled'
  BY <1>2, <1>6 DEF Pulled, Item, IsReport, Pull
<1>9. Backed(sync'.settled)
  BY <1>6 DEF Backed
<1>10. Awaited' /\ call' = call /\ call' \in CallType /\ call'.method = "none"
  BY <1>6 DEF Awaited, Pull, IInv, Shapes
<1>11. /\ late' \subseteq CallType /\ \A request \in late' : Covered(request)
       /\ checkpoint' \in [epoch : Nat, through : Nat] /\ epoch' \in Nat /\ homeEpoch' \in Nat
       /\ faults' \in Nat /\ mailAcked' \in Nat /\ mailAcked' <= mailIn
       /\ homeAcked' \in Nat /\ homeAcked' <= Imported /\ AckedUpTo(homeAcked')
  BY DEF Pull, IInv, Shapes, Acknowledged, Mailed
<1> QED
  BY <1>5, <1>6, <1>7, <1>8, <1>9, <1>10, <1>11, SyncStepKept DEF Pull

\* What a step that leaves most of a sync alone may use
LEMMA SyncNow ==
  ASSUME IInv
  PROVE  /\ Backed(sync.settled) /\ sync.cursor <= Imported /\ sync.cursor \in Nat
         /\ call.method = "ack" =>
              Covered(call) /\ (call.state = "done" => AckedUpTo(call.through))
         /\ call.method = "import" =>
              call.through \in 1 .. mailSent /\ (call.state = "done" => call.through <= mailIn)
         /\ late \subseteq CallType /\ \A request \in late : Covered(request)
         /\ checkpoint \in [epoch : Nat, through : Nat] /\ epoch \in Nat /\ homeEpoch \in Nat
         /\ faults \in Nat /\ mailAcked \in Nat /\ mailAcked <= mailIn
         /\ homeAcked \in Nat /\ homeAcked <= Imported /\ AckedUpTo(homeAcked)
         /\ sync \in SyncType /\ call \in CallType /\ mailSent \in Nat /\ mailIn \in Nat
BY DEF IInv, Shapes, Acknowledged, Mailed, SyncType

LEMMA PullSteps ==
  ASSUME IInv, Tick \/ ShowSync \/ NextPage PROVE IInv'
<1>1. sync.pc \in {"idle", "next"}
  BY DEF Tick, ShowSync, NextPage
<1>2. call.method = "none"
  BY <1>1 DEF IInv, Awaited, Shapes, CallType
<1>3. MaxPages \in Int /\ sync.left - 1 \in Int
  BY RelayConstants DEF IInv, Shapes, SyncType
<1> QED
  BY <1>2, <1>3, PullStep DEF Tick, ShowSync, NextPage

LEMMA SyncOverSteps ==
  ASSUME IInv,
         \/ \E item \in sync.items : ImportRefused(item)
         \/ CallRefused \/ HomeRestart \/ \E keep \in BOOLEAN : CallLost(keep)
  PROVE  IInv'
<1> USE DEF workerVars, homeVars, netVars
<1>1. faults \in Nat /\ mailAcked \in Nat /\ mailAcked <= mailIn
  BY SyncNow
<1>2. CASE \E item \in sync.items : ImportRefused(item)
  <2>1. EndSync /\ UNCHANGED call /\ call.method = "none" /\ late' = late
    BY <1>2 DEF ImportRefused, IsNext, IInv, Awaited, Shapes, CallType
  <2> QED
    BY <1>1, <1>2, <2>1, EndSyncFacts, SyncOver DEF ImportRefused
<1>3. CASE CallRefused
  BY <1>1, <1>3, EndSyncFacts, SyncOver DEF CallRefused
<1>4. ASSUME NEW keep \in BOOLEAN, CallLost(keep) PROVE IInv'
  <2>1. late' \subseteq late \cup {request \in {call} : request.method = "ack"}
    BY <1>4 DEF CallLost, AckSent
  <2> QED
    BY <1>1, <1>4, <2>1, EndSyncFacts, SyncOver DEF CallLost, Fault
<1>5. CASE HomeRestart
  <2>1. late' \subseteq late \cup {request \in {call} : request.method = "ack"}
    BY <1>5 DEF HomeRestart, AckSent
  <2>2. sync' = Idle /\ checkpoint' = NoCheckpoint
    BY <1>5 DEF HomeRestart
  <2>3. /\ sync' \in SyncType /\ sync'.items = {} /\ sync'.cursor = 0 /\ sync'.settled = {}
        /\ checkpoint' \in [epoch : Nat, through : Nat]
    BY <2>2, Nothing DEF Idle, NoCheckpoint
  <2> QED
    BY <1>1, <1>5, <2>1, <2>3, SyncOver DEF HomeRestart, Fault
<1> QED
  BY <1>2, <1>3, <1>4, <1>5

LEMMA SendAckStep ==
  ASSUME IInv, SendAck PROVE IInv'
<1> USE DEF workerVars, homeVars
<1>1. sync' = [sync EXCEPT !.pc = "ack"] \/ sync' = [sync EXCEPT !.pc = "mail"]
  BY DEF SendAck
<1>2. /\ sync' \in SyncType /\ sync'.items = sync.items /\ sync'.cursor = sync.cursor
      /\ sync'.settled = sync.settled
  BY <1>1, SyncNow DEF SyncType
<1>3. Pulled'
  BY <1>2 DEF SendAck, IInv, Pulled, IsReport
<1>4. sync.pc = "import" /\ call.method = "none" /\ call.state = "none"
  BY DEF SendAck, IInv, Awaited, Shapes, CallType
<1>5. CASE sync.cursor > Watermark
  <2>1. Watermark \in Nat
    BY SyncNow DEF Watermark, Most, SyncType
  <2>2. /\ call' = [method |-> "ack", through |-> sync.cursor, settled |-> sync.settled,
                    state |-> "sent"]
        /\ sync' = [sync EXCEPT !.pc = "ack"]
    BY <1>5 DEF SendAck
  <2>3. Imported \in Nat
    BY SeqFacts DEF IInv, Imported
  <2>4. sync.settled \in Settlements
    BY SyncNow DEF SyncType
  <2>5. call' \in CallType /\ call'.method = "ack" /\ call'.state = "sent" /\ Covered(call')
    BY <1>5, <2>1, <2>2, <2>3, <2>4, SyncNow DEF CallType, Covered
  <2>6. Awaited'
    BY <2>2, <2>5, SyncNow DEF Awaited, SyncType
  <2> QED
    BY <1>2, <1>3, <2>5, <2>6, SyncNow, SyncStepKept DEF SendAck
<1>6. CASE ~(sync.cursor > Watermark)
  <2>1. call' = call
    BY <1>6 DEF SendAck
  <2> QED
    BY <1>2, <1>3, <1>4, <2>1, SyncNow, SyncStepKept DEF SendAck, Awaited
<1> QED
  BY <1>5, <1>6

LEMMA RecordAckStep ==
  ASSUME IInv, RecordAck PROVE IInv'
<1> USE DEF workerVars
<1>1. call.method = "ack" /\ call.state = "done"
  BY DEF RecordAck, IInv, Awaited, Shapes, CallType
<1>2. call.through \in Nat /\ call.through >= 1 /\ call.through <= Imported /\ AckedUpTo(call.through)
      /\ Imported \in Nat
  BY <1>1, SyncNow, SeqFacts DEF Covered, IInv, Imported
<1>3. Recorded \in Nat /\ Recorded <= call.through
  BY <1>2 DEF Recorded
<1>4. \A i \in DOMAIN outbox : i \in Nat
  BY SeqFacts DEF IInv
<1>5. homeAcked' \in Nat /\ homeAcked' <= Imported /\ AckedUpTo(homeAcked')
  BY <1>2, <1>3, <1>4, SyncNow DEF RecordAck, Most, AckedUpTo
<1>6. sync' = [sync EXCEPT !.pc = "mail"] /\ call' = NoCall
  BY DEF RecordAck
<1>7. /\ sync' \in SyncType /\ sync'.items = sync.items /\ sync'.cursor = sync.cursor
      /\ sync'.settled = sync.settled
  BY <1>6, SyncNow DEF SyncType
<1>8. Pulled'
  BY <1>7 DEF RecordAck, IInv, Pulled, IsReport
<1>9. call' \in CallType /\ call'.method = "none" /\ Awaited'
  BY <1>6, Nothing DEF NoCall, Awaited
<1>10. checkpoint' \in [epoch : Nat, through : Nat] /\ homeEpoch' \in Nat
  <2>1. sync.epoch \in Nat
    BY SyncNow DEF SyncType
  <2> QED
    BY <1>3, <2>1, SyncNow DEF RecordAck
<1> QED
  BY <1>5, <1>7, <1>8, <1>9, <1>10, SyncNow, SyncStepKept DEF RecordAck

LEMMA MailCallStep ==
  ASSUME IInv, PushMail \/ RecordMail PROVE IInv'
<1> USE DEF workerVars
<1>1. faults \in Nat /\ mailAcked \in Nat /\ mailAcked <= mailIn /\ mailSent \in Nat
  BY SyncNow
<1>2. CASE PushMail /\ home = "ready" /\ mailAcked < mailSent
  <2>1. /\ call' = [method |-> "import", settled |-> {}, state |-> "sent",
                    through |-> Least(mailSent, mailAcked + PageSize)]
        /\ UNCHANGED <<sync, checkpoint>>
    BY <1>2 DEF PushMail
  <2>2. Least(mailSent, mailAcked + PageSize) \in 1 .. mailSent
    BY <1>1, <1>2, Constants DEF Least
  <2>3. call' \in CallType /\ call'.method = "import" /\ call'.state = "sent"
        /\ call'.through \in 1 .. mailSent
    BY <2>1, <2>2, Nothing DEF CallType
  <2>4. Pulled' /\ Awaited'
    BY <1>2, <2>1, <2>3 DEF PushMail, Pulled, Awaited, IInv, IsReport
  <2> QED
    BY <1>2, <2>1, <2>3, <2>4, SyncNow, SyncStepKept DEF PushMail
<1>3. CASE PushMail /\ ~(home = "ready" /\ mailAcked < mailSent)
  <2>1. NextOrIdle /\ UNCHANGED call /\ call.method = "none"
    BY <1>3 DEF PushMail, NoCall
  <2> QED
    BY <1>1, <1>3, <2>1, EndSyncFacts, SyncOver DEF PushMail
<1>4. CASE RecordMail
  <2>1. call.method = "import"
    BY <1>4 DEF RecordMail, IInv, Awaited, Shapes, CallType
  <2>2. call.through \in Nat /\ call.through <= mailIn
    BY <1>4, <2>1, SyncNow DEF RecordMail, CallType
  <2> QED
    BY <1>1, <1>4, <2>2, EndSyncFacts, SyncOver DEF RecordMail
<1> QED
  BY <1>2, <1>3, <1>4

(***************************************************************************)
(* The home imports                                                        *)
(***************************************************************************)
LEMMA VerdictFacts ==
  ASSUME NEW report \in Reports
  PROVE  /\ Verdict(report) \in {"completed", "failed", "rejected"}
         /\ Verdict(report) = "rejected" <=> report = "misfit" \/ home \notin {"ready", report}
         /\ Verdict(report) # "rejected" =>
              /\ report \in {"succeeded", "failed"}
              /\ Verdict(report) = IF report = "succeeded" THEN "completed" ELSE "failed"
BY Constants DEF Verdict

\* An item that was imported before
LEMMA ReimportDecides ==
  ASSUME IInv, NEW report \in Reports, NEW i \in DOMAIN mailbox, protocol = 3,
         mailbox[i].kind = "worker_done", mailbox[i].report = report,
         Verdict(report) # "rejected"
  PROVE  home = report /\ ~mailbox[i].rejected
<1>1. report \in {"succeeded", "failed"} /\ home \in {"ready", report}
  BY VerdictFacts
<1>2. ~mailbox[i].rejected
  BY <1>1 DEF IInv, Decided
<1>3. i \in Accepted
  BY <1>2 DEF Accepted
<1> QED
  BY <1>1, <1>2, <1>3 DEF IInv, Decided

\* Of a message the home appends: what was in the mailbox stays
LEMMA AppendedMessage ==
  ASSUME Shapes, NEW m \in MessageType, mailbox' = Append(mailbox, m)
  PROVE  /\ mailbox' \in Seq(MessageType) /\ Len(mailbox') = Len(mailbox) + 1
         /\ DOMAIN mailbox' = DOMAIN mailbox \cup {Len(mailbox) + 1}
         /\ \A i \in DOMAIN mailbox : mailbox'[i] = mailbox[i]
         /\ mailbox'[Len(mailbox) + 1] = m
         /\ Len(mailbox) + 1 \notin DOMAIN mailbox
<1>1. DOMAIN mailbox = 1 .. Len(mailbox) /\ Len(mailbox) \in Nat
  BY SeqFacts
<1>2. /\ mailbox' \in Seq(MessageType) /\ Len(mailbox') = Len(mailbox) + 1
      /\ \A i \in 1 .. Len(mailbox) : mailbox'[i] = mailbox[i]
      /\ mailbox'[Len(mailbox) + 1] = m
  BY AppendProperties DEF Shapes
<1>3. DOMAIN mailbox' = 1 .. Len(mailbox')
  BY <1>2, SeqDomain
<1> QED
  BY <1>1, <1>2, <1>3

\* What the home decides when it appends a report or another message
LEMMA AppendDecides ==
  ASSUME IInv, NEW m \in MessageType, mailbox' = Append(mailbox, m),
         UNCHANGED <<protocol, att, stop>>,
         \/ m.kind # "worker_done" /\ UNCHANGED home
         \/ /\ m.kind = "worker_done" /\ m.report \in Reports
            /\ m.rejected <=> Verdict(m.report) = "rejected"
            /\ home' = IF m.rejected THEN home ELSE m.report
  PROVE  Decided'
<1> DEFINE n == Len(mailbox) + 1
<1>1. /\ DOMAIN mailbox' = DOMAIN mailbox \cup {n} /\ n \notin DOMAIN mailbox
      /\ \A i \in DOMAIN mailbox : mailbox'[i] = mailbox[i]
      /\ mailbox'[n] = m
  BY AppendedMessage DEF IInv
<1> HIDE DEF n
<1> SUFFICES ASSUME protocol = 3 PROVE Decided'
  BY DEF Decided
<1>2. m.rejected \in BOOLEAN /\ home \in {"ready", "succeeded", "failed", "abandoned"} \cup Ended
  BY DEF MessageType, IInv, Shapes
<1>3. CASE m.kind # "worker_done" \/ m.rejected
  <2>1. Accepted' = Accepted
    BY <1>1, <1>3 DEF Accepted
  <2>2. home' = home
    BY <1>3
  <2>3. \A i \in DOMAIN mailbox' :
          mailbox'[i].kind = "worker_done" /\ mailbox'[i].rejected /\ mailbox'[i].report # "misfit" =>
            home' \notin {"ready", mailbox'[i].report}
    BY <1>1, <1>3, <2>2, VerdictFacts DEF IInv, Decided
  <2>4. \A i \in Accepted : i \in DOMAIN mailbox /\ mailbox'[i] = mailbox[i]
    BY <1>1 DEF Accepted
  <2> QED
    BY <2>1, <2>2, <2>3, <2>4 DEF IInv, Decided
<1>4. CASE m.kind = "worker_done" /\ ~m.rejected
  <2>1. Accepted' = Accepted \cup {n}
    BY <1>1, <1>4 DEF Accepted
  <2>2. home' = m.report /\ m.report \in {"succeeded", "failed"} /\ home \in {"ready", m.report}
    BY <1>4, VerdictFacts
  <2>3. \A i \in Accepted : i \in DOMAIN mailbox /\ mailbox'[i] = mailbox[i]
    BY <1>1 DEF Accepted
  <2>4. \A i \in Accepted : mailbox[i].report = m.report
    BY <2>2 DEF IInv, Decided
  <2>5. \A i \in Accepted' : mailbox'[i].report = m.report
    BY <1>1, <2>1, <2>3, <2>4
  <2>6. \A i \in DOMAIN mailbox :
          mailbox[i].kind = "worker_done" /\ mailbox[i].rejected /\ mailbox[i].report # "misfit" =>
            m.report # mailbox[i].report
    BY <2>2 DEF IInv, Decided
  <2>7. \A i \in DOMAIN mailbox' :
          mailbox'[i].kind = "worker_done" /\ mailbox'[i].rejected /\ mailbox'[i].report # "misfit" =>
            home' \notin {"ready", mailbox'[i].report}
    BY <1>1, <1>4, <2>2, <2>6
  <2>8. stop = "none"
    BY <2>2 DEF IInv, Decided, Ended
  <2>9. att \in {"succeeded", "failed"} => \E i \in Accepted' : mailbox'[i].report = att
    BY <2>1, <2>3, <2>8 DEF IInv, Decided
  <2>10. home' \notin Ended
    BY <2>2 DEF Ended
  <2> QED
    BY <2>1, <2>2, <2>5, <2>7, <2>8, <2>9, <2>10 DEF IInv, Decided
<1> QED
  BY <1>2, <1>3, <1>4

LEMMA ImportStep ==
  ASSUME IInv, NEW item \in sync.items, Import(item) PROVE IInv'
<1> USE DEF workerVars, netVars
<1> DEFINE verdict == IF item.kind = "worker_done" THEN Verdict(item.report) ELSE "none"
           m == [kind |-> item.kind, report |-> item.report, rejected |-> verdict = "rejected"]
           n == item.seq
<1>1. item \in ItemType /\ n \in Nat /\ item.kind \in Kinds /\ item.report \in Payloads
  BY DEF IInv, Shapes, SyncType, ItemType
<1>2. /\ n \in DOMAIN outbox
      /\ item.kind = "worker_done" => IsReport(n) /\ outbox[n].report = item.report
                                      /\ item.report \in Reports
  BY DEF IInv, Pulled, IsReport, Queued
<1>3. /\ DOMAIN outbox = 1 .. Len(outbox) /\ Len(outbox) \in Nat
      /\ DOMAIN mailbox = 1 .. Len(mailbox) /\ Len(mailbox) \in Nat
  BY SeqFacts DEF IInv
<1>4. /\ verdict \in Verdicts
      /\ verdict = "none" <=> item.kind # "worker_done"
  BY <1>2, VerdictFacts DEF Verdicts
<1>5. m \in MessageType /\ (m.rejected <=> verdict = "rejected")
  BY <1>1 DEF MessageType
<1>v. PICK v \in Verdicts : v = verdict
  BY <1>4
<1>6. /\ mailbox' = IF n <= Imported THEN mailbox ELSE Append(mailbox, m)
      /\ home' = IF verdict \in {"completed", "failed"} THEN item.report ELSE home
      /\ sync' = [sync EXCEPT !.items = @ \ {item}, !.cursor = n,
                    !.settled = IF verdict # "none" /\ protocol >= Settling
                                THEN @ \cup {<<n, verdict>>} ELSE @]
  BY DEF Import
<1>7. IF n <= Imported THEN mailbox[n].kind = item.kind ELSE n = Imported + 1
  BY DEF Import, Contiguous
<1>8. UNCHANGED <<protocol, outbox, att, epoch, mailIn, delivered, ackReceipts, importReceipts,
                  homeAcked, homeEpoch, checkpoint, mailSent, mailAcked, call, late, stop, faults>>
  BY DEF Import
<1>9. /\ mailbox' \in Seq(MessageType) /\ n \in DOMAIN mailbox' /\ mailbox'[n].kind = item.kind
      /\ \A i \in DOMAIN mailbox : i \in DOMAIN mailbox' /\ mailbox'[i] = mailbox[i]
      /\ \A i \in DOMAIN mailbox' : i \in DOMAIN mailbox \/ (i = n /\ mailbox'[n] = m)
      /\ Len(mailbox') \in Nat /\ n <= Len(mailbox') /\ Len(mailbox) <= Len(mailbox')
      /\ Len(mailbox') <= Len(outbox) /\ DOMAIN mailbox' = 1 .. Len(mailbox')
  <2>1. CASE n <= Imported
    BY <1>2, <1>3, <1>6, <1>7, <2>1 DEF Imported, IInv, Shapes, Queued
  <2>2. CASE ~(n <= Imported)
    <3> HIDE DEF m, verdict, n
    <3>1. n = Len(mailbox) + 1 /\ mailbox' = Append(mailbox, m)
      BY <1>6, <1>7, <2>2 DEF Imported
    <3>2. m.kind = item.kind
      BY DEF m
    <3> QED
      BY <1>2, <1>3, <1>5, <3>1, <3>2, AppendedMessage, SeqDomain DEF IInv
  <2> QED
    BY <2>1, <2>2
<1>10. Decided'
  <2>1. CASE n <= Imported
    <3>1. mailbox' = mailbox /\ n \in DOMAIN mailbox /\ mailbox[n].kind = item.kind
      BY <1>2, <1>3, <1>6, <1>7, <2>1 DEF Imported
    <3>2. item.kind = "worker_done" => mailbox[n].report = item.report
      BY <1>2, <3>1 DEF IInv, Copied
    <3>3. protocol = 3 => home' = home
      BY <1>2, <1>4, <1>6, <3>1, <3>2, ReimportDecides
    <3> QED
      BY <1>8, <3>1, <3>3 DEF IInv, Decided, Accepted
  <2>2. CASE ~(n <= Imported)
    <3>1. mailbox' = Append(mailbox, m)
      BY <1>6, <2>2
    <3>2. m.kind = item.kind /\ m.report = item.report /\ (m.rejected <=> verdict = "rejected")
      OBVIOUS
    <3>3. \/ m.kind # "worker_done" /\ UNCHANGED home
          \/ /\ m.kind = "worker_done" /\ m.report \in Reports
             /\ m.rejected <=> Verdict(m.report) = "rejected"
             /\ home' = IF m.rejected THEN home ELSE m.report
      BY <1>2, <1>6, <3>2, VerdictFacts
    <3> HIDE DEF m
    <3> QED
      BY <1>5, <1>8, <3>1, <3>3, AppendDecides
  <2> QED
    BY <2>1, <2>2
<1>11. protocol = 3 /\ item.kind = "worker_done" => Backs(<<n, v>>)'
  <2> SUFFICES ASSUME protocol = 3, item.kind = "worker_done" PROVE Backs(<<n, v>>)'
    OBVIOUS
  <2>1. v = Verdict(item.report) /\ item.report \in Reports
    BY <1>2, <1>v
  <2>2. mailbox'[n].report = item.report
    <3>1. CASE n \in DOMAIN mailbox
      BY <1>2, <1>9, <3>1 DEF IInv, Copied
    <3>2. CASE n \notin DOMAIN mailbox
      BY <1>9, <3>2
    <3> QED
      BY <3>1, <3>2
  <2>3. v # "rejected" => ~mailbox'[n].rejected
    <3>1. CASE n \in DOMAIN mailbox
      BY <1>2, <1>9, <2>1, <2>2, <3>1, ReimportDecides
    <3>2. CASE n \notin DOMAIN mailbox
      BY <1>5, <1>9, <1>v, <3>2
    <3> QED
      BY <3>1, <3>2
  <2> HIDE DEF verdict, n
  <2> QED
    BY <1>9, <2>1, <2>2, <2>3, VerdictFacts DEF Backs
<1> HIDE DEF verdict, m, n
<1>12. \A s : Backs(s) => Backs(s)'
  BY <1>9 DEF Backs
<1>13. \A S : Backed(S) => Backed(S)'
  BY <1>8, <1>12 DEF Backed
<1>14. /\ sync' \in SyncType /\ sync'.items \subseteq sync.items /\ sync'.cursor = n
       /\ sync'.pc = sync.pc
       /\ sync'.settled = IF v # "none" /\ protocol >= Settling
                          THEN sync.settled \cup {<<n, v>>} ELSE sync.settled
  <2>1. sync \in SyncType /\ sync.settled \in Settlements
    BY SyncNow DEF SyncType
  <2>2. v # "none" => sync.settled \cup {<<n, v>>} \in Settlements
    BY <1>1, <2>1 DEF Settlements, n
  <2> QED
    BY <1>1, <1>6, <1>v, <2>1, <2>2 DEF SyncType, n
<1>15. \A s \in sync'.settled : protocol' = 3 /\ Backs(s)'
  <2>1. \A s \in sync.settled : protocol = 3 /\ Backs(s)'
    BY <1>12, SyncNow DEF Backed
  <2>2. protocol >= Settling => protocol = 3
    BY DEF Settling, IInv, Shapes
  <2> QED
    BY <1>4, <1>8, <1>11, <1>14, <1>v, <2>1, <2>2
<1>16. Imported <= Imported' /\ Imported \in Nat /\ Imported' \in Nat /\ n <= Imported'
  BY <1>3, <1>9 DEF Imported
<1>17. Acknowledged'
  <2>1. \A r \in CallType : Covered(r) => Covered(r)'
    BY <1>13, <1>16 DEF Covered, CallType
  <2>2. \A k : AckedUpTo(k)' <=> AckedUpTo(k)
    BY <1>8 DEF AckedUpTo
  <2>3. \A k \in Int : k <= Imported => k <= Imported'
    BY <1>16
  <2>4. \A k \in DOMAIN ackReceipts \cup DOMAIN outbox : k \in Int
    BY <1>3 DEF IInv, Shapes
  <2>5. homeAcked \in Int
    BY SyncNow
  <2>6. Backed(sync.settled)'
    BY <1>15 DEF Backed
  <2> QED
    BY <1>8, <1>14, <1>16, <2>1, <2>2, <2>3, <2>4, <2>5, <2>6, SyncNow DEF IInv, Acknowledged
<1>18. Shapes'
  <2>1. home' \in {"ready", "succeeded", "failed", "abandoned"} \cup Ended
    BY <1>2, <1>4, <1>6, VerdictFacts DEF IInv, Shapes, verdict
  <2> QED
    BY <1>8, <1>9, <1>14, <2>1 DEF IInv, Shapes
<1>19. Queued'
  BY <1>8, <1>9 DEF IInv, Queued
<1>20. Pulled'
  BY <1>8, <1>14 DEF IInv, Pulled, IsReport
<1>21. Copied'
  BY <1>2, <1>8, <1>9 DEF IInv, Copied, IsReport, m
<1>22. Awaited' /\ Mailed'
  BY <1>8, <1>14 DEF IInv, Awaited, Mailed
<1>23. Delivered'
  BY <1>8, <1>9 DEF IInv, Delivered, IsReport
<1> QED
  BY <1>10, <1>17, <1>18, <1>19, <1>20, <1>21, <1>22, <1>23 DEF IInv

(***************************************************************************)
(* The worker's server acknowledges                                        *)
(***************************************************************************)
\* What an accepted outcome is worth: the home accepted that report.
LEMMA OutcomeBacked ==
  ASSUME IInv, NEW request \in CallType, Covered(request), NEW o \in Outcomes(request)
  PROVE  protocol = 3 /\ o \in {"succeeded", "failed"} /\ \E i \in Accepted : mailbox[i].report = o
<1>1. PICK s \in request.settled :
        s[2] # "rejected" /\ o = IF s[2] = "completed" THEN "succeeded" ELSE "failed"
  BY DEF Outcomes
<1>2. protocol = 3 /\ Backs(s)
  BY DEF Covered, Backed
<1>3. s[1] \in Accepted /\ mailbox[s[1]].report = o
  BY <1>1, <1>2 DEF Backs, Accepted
<1> QED
  BY <1>1, <1>2, <1>3

\* The rows and the attachment after an acknowledgment
LEMMA AppliedAck ==
  ASSUME IInv, NEW request \in CallType, Covered(request), AckFits(request), ApplyAck(request)
  PROVE  /\ outbox' \in Seq(RowType) /\ Len(outbox') = Len(outbox) /\ DOMAIN outbox' = DOMAIN outbox
         /\ \A i \in DOMAIN outbox :
              /\ outbox'[i].kind = outbox[i].kind /\ outbox'[i].report = outbox[i].report
              /\ outbox'[i].acked <=> outbox[i].acked \/ i <= request.through
         /\ protocol = 3 =>
              \A i \in DOMAIN outbox : outbox'[i].acked /\ ~outbox[i].acked /\ IsReport(i) =>
                i \in DOMAIN mailbox /\ mailbox[i].kind = "worker_done"
         /\ att' = att \/ /\ protocol = 3 /\ att = "ready" /\ att' \in {"succeeded", "failed"}
                          /\ \E i \in Accepted : mailbox[i].report = att'
<1>1. \A i \in DOMAIN outbox : outbox[i] \in RowType
  BY SeqFacts DEF IInv
<1>2. outbox' = [i \in DOMAIN outbox |->
                   [outbox[i] EXCEPT !.acked = outbox[i].acked \/ i <= request.through]]
  BY DEF ApplyAck
<1>3. \A i \in DOMAIN outbox :
        /\ outbox'[i] = [outbox[i] EXCEPT !.acked = outbox[i].acked \/ i <= request.through]
        /\ outbox'[i].kind = outbox[i].kind /\ outbox'[i].report = outbox[i].report
  BY <1>1, <1>2 DEF RowType
<1>4. \A i \in DOMAIN outbox : outbox'[i].acked <=> outbox[i].acked \/ i <= request.through
  <2> TAKE i \in DOMAIN outbox
  <2>1. outbox'[i].acked = (outbox[i].acked \/ i <= request.through)
    BY <1>1, <1>3 DEF RowType
  <2> QED
    BY <2>1
<1>5. outbox' \in [DOMAIN outbox -> RowType]
  <2>1. \A i \in DOMAIN outbox : (outbox[i].acked \/ i <= request.through) \in BOOLEAN
    OBVIOUS
  <2> QED
    BY <1>1, <1>2, <2>1 DEF RowType
<1>6. outbox' \in Seq(RowType) /\ Len(outbox') = Len(outbox) /\ DOMAIN outbox' = DOMAIN outbox
  BY <1>5, Rebuilt DEF IInv, Shapes
<1>7. protocol = 3 =>
        \A i \in DOMAIN outbox : outbox'[i].acked /\ ~outbox[i].acked /\ IsReport(i) =>
          i \in DOMAIN mailbox /\ mailbox[i].kind = "worker_done"
  <2> SUFFICES ASSUME protocol = 3, NEW i \in DOMAIN outbox, ~outbox[i].acked, IsReport(i),
                      i <= request.through
               PROVE  i \in DOMAIN mailbox /\ mailbox[i].kind = "worker_done"
    BY <1>4
  <2>1. ~OmitsReport(request)
    BY DEF AckFits, Settling
  <2>2. PICK s \in request.settled : s[1] = i
    BY <2>1 DEF OmitsReport, Unacked, IsReport
  <2> QED
    BY <2>2 DEF Covered, Backed, Backs
<1>8. CASE Outcomes(request) = {}
  BY <1>3, <1>4, <1>6, <1>7, <1>8 DEF ApplyAck
<1>9. CASE Outcomes(request) # {}
  <2>1. att' \in Outcomes(request)
    BY <1>9 DEF ApplyAck
  <2>2. att \in {"ready", att'}
    BY <2>1 DEF AckFits
  <2>3. protocol = 3 /\ att' \in {"succeeded", "failed"} /\ \E i \in Accepted : mailbox[i].report = att'
    BY <2>1, OutcomeBacked
  <2> QED
    BY <1>3, <1>4, <1>6, <1>7, <2>2, <2>3
<1> QED
  BY <1>8, <1>9

\* An acknowledgment is carried out, whoever hears of it.
LEMMA AckStep ==
  ASSUME IInv, NEW request \in CallType, Covered(request), AckFits(request), ApplyAck(request),
         ackReceipts' \in [1 .. MaxItems -> ReceiptType],
         \A n \in DOMAIN ackReceipts :
           ackReceipts'[n].state = "completed" => ackReceipts[n].state = "completed" \/ n = request.through,
         call' \in CallType, call'.method = call.method, call'.through = call.through,
         call'.settled = call.settled, call'.method = "none" => call'.state = "none",
         call'.state = "done" =>
           call.state = "done" \/ (call.method = "ack" /\ call.through = request.through),
         late' \subseteq late, epoch' \in Nat, faults' \in Nat,
         stop' \in {stop} \cup (IF stop = "closing" THEN {"lost"} ELSE {}),
         UNCHANGED <<protocol, mailIn, delivered, importReceipts, homeVars, sync>>
  PROVE  IInv'
<1> USE DEF homeVars
<1>1. /\ outbox' \in Seq(RowType) /\ Len(outbox') = Len(outbox) /\ DOMAIN outbox' = DOMAIN outbox
      /\ \A i \in DOMAIN outbox :
           /\ outbox'[i].kind = outbox[i].kind /\ outbox'[i].report = outbox[i].report
           /\ outbox'[i].acked <=> outbox[i].acked \/ i <= request.through
      /\ protocol = 3 =>
           \A i \in DOMAIN outbox : outbox'[i].acked /\ ~outbox[i].acked /\ IsReport(i) =>
             i \in DOMAIN mailbox /\ mailbox[i].kind = "worker_done"
      /\ att' = att \/ /\ protocol = 3 /\ att = "ready" /\ att' \in {"succeeded", "failed"}
                       /\ \E i \in Accepted : mailbox[i].report = att'
  BY AppliedAck
<1>2. request.through \in Nat /\ request.through <= Imported /\ Imported \in Nat
  BY SeqFacts DEF Covered, IInv, Imported
<1>3. Shapes'
  BY <1>1 DEF IInv, Shapes
<1>4. Queued' /\ Copied' /\ Pulled'
  BY <1>1 DEF IInv, Queued, Copied, Pulled, IsReport
<1>5. \A n : AckedUpTo(n) => AckedUpTo(n)'
  BY <1>1 DEF AckedUpTo
<1>6. AckedUpTo(request.through)'
  <2>1. \A i \in DOMAIN outbox' : i <= request.through => outbox'[i].acked
    BY <1>1
  <2> QED
    BY <2>1 DEF AckedUpTo
<1>7. Acknowledged'
  <2>1. \A S : Backed(S)' <=> Backed(S)
    BY DEF Backed, Backs
  <2>2. \A i \in DOMAIN outbox' : outbox'[i].acked => i <= Imported
    BY <1>1, <1>2, SeqFacts DEF IInv, Acknowledged
  <2>3. call'.method = "ack" => call'.through \in 1 .. Imported /\ Backed(call'.settled)
    BY SyncNow DEF Covered
  <2>4. call'.method = "ack" /\ call'.state = "done" =>
          \A i \in DOMAIN outbox' : i <= call'.through => outbox'[i].acked
    <3>1. call.method = "ack" /\ call.state = "done" => AckedUpTo(call.through)
      BY SyncNow
    <3> QED
      BY <1>1, <3>1 DEF AckedUpTo
  <2>5. \A n \in DOMAIN ackReceipts' :
          ackReceipts'[n].state = "completed" => n <= Imported /\ AckedUpTo(n)'
    <3>1. DOMAIN ackReceipts' = DOMAIN ackReceipts
      BY DEF IInv, Shapes
    <3> QED
      BY <1>2, <1>5, <1>6, <3>1 DEF IInv, Acknowledged
  <2>6. \A r : Covered(r)' <=> Covered(r)
    BY <2>1 DEF Covered, Imported
  <2> QED
    BY <1>5, <2>1, <2>2, <2>3, <2>4, <2>5, <2>6, SyncNow DEF IInv, Acknowledged, Imported, Covered, AckedUpTo
<1>8. Awaited' /\ Mailed'
  BY DEF IInv, Awaited, Mailed
<1>9. Delivered'
  BY <1>1 DEF IInv, Delivered, IsReport
<1>10. Decided'
  <2>1. CASE att' = att
    BY <2>1 DEF IInv, Decided, Accepted
  <2>2. CASE protocol = 3 /\ att = "ready" /\ att' \in {"succeeded", "failed"}
             /\ \E i \in Accepted : mailbox[i].report = att'
    <3>1. Accepted' = Accepted /\ Accepted # {} /\ att' \notin Ended
      BY <2>2 DEF Accepted, Ended
    <3>2. stop = "none" /\ stop' = stop
      BY <2>2 DEF IInv, Decided
    <3> QED
      BY <2>2, <3>1, <3>2 DEF IInv, Decided
  <2> QED
    BY <1>1, <2>1, <2>2
<1> QED
  BY <1>3, <1>4, <1>7, <1>8, <1>9, <1>10 DEF IInv

\* The server ends before it has carried a call out, or answers without doing so.
LEMMA CallAnswered ==
  ASSUME IInv, NEW answer \in {"done", "refused"}, call.method # "none", Answer(answer),
         answer = "done" => IF call.method = "ack" THEN AckedUpTo(call.through)
                            ELSE call.through <= mailIn,
         ackReceipts' \in [1 .. MaxItems -> ReceiptType],
         \A n \in DOMAIN ackReceipts :
           ackReceipts'[n].state = "completed" => ackReceipts[n].state = "completed",
         late' \subseteq late, epoch' \in Nat, faults' \in Nat,
         stop' \in {stop} \cup (IF stop = "closing" THEN {"lost"} ELSE {}),
         UNCHANGED <<protocol, outbox, att, mailIn, delivered, importReceipts, homeVars, sync>>
  PROVE  IInv'
<1> USE DEF homeVars
<1>1. /\ call' \in CallType /\ call'.method = call.method /\ call'.through = call.through
      /\ call'.settled = call.settled /\ call'.state = answer
  BY SyncNow DEF Answer, CallType
<1>2. Shapes'
  BY <1>1 DEF IInv, Shapes
<1>3. Queued' /\ Copied' /\ Pulled' /\ Delivered' /\ Awaited'
  BY <1>1 DEF IInv, Queued, Copied, Pulled, Delivered, Awaited, IsReport
<1>4. /\ \A S : Backed(S)' <=> Backed(S)
      /\ \A n : AckedUpTo(n)' <=> AckedUpTo(n)
  BY DEF Backed, Backs, AckedUpTo
<1>5. \A r : Covered(r)' <=> Covered(r)
  BY <1>4 DEF Covered, Imported
<1>6. Acknowledged'
  <2>1. call'.method = "ack" => Covered(call')
    BY <1>1, SyncNow DEF Covered
  <2>2. call'.method = "ack" /\ call'.state = "done" => AckedUpTo(call'.through)
    BY <1>1, SyncNow
  <2>3. \A n \in DOMAIN ackReceipts' :
          ackReceipts'[n].state = "completed" => n <= Imported /\ AckedUpTo(n)
    BY DEF IInv, Acknowledged, Shapes
  <2> QED
    BY <1>4, <1>5, <2>1, <2>2, <2>3, SyncNow DEF IInv, Acknowledged, Imported
<1>7. Mailed'
  BY <1>1 DEF IInv, Mailed
<1>8. Decided'
  BY DEF IInv, Decided, Accepted
<1> QED
  BY <1>2, <1>3, <1>6, <1>7, <1>8 DEF IInv

\* A receipt is written for an acknowledgment that covers imported items.
LEMMA ReceiptWritten ==
  ASSUME IInv, NEW request \in CallType, Covered(request), NEW state \in {"pending", "completed"},
         Receipt(request, state)
  PROVE  /\ request.through \in DOMAIN ackReceipts
         /\ ackReceipts' \in [1 .. MaxItems -> ReceiptType]
         /\ \A n \in DOMAIN ackReceipts :
              ackReceipts'[n].state = "completed" =>
                ackReceipts[n].state = "completed" \/ (state = "completed" /\ n = request.through)
<1>1. request.through \in 1 .. MaxItems
  BY SeqFacts, Constants DEF IInv, Covered, Imported, Queued
<1>2. ackReceipts \in [1 .. MaxItems -> ReceiptType]
  BY DEF IInv, Shapes
<1>3. [state |-> state, settled |-> request.settled] \in ReceiptType
  BY DEF ReceiptType, CallType
<1> QED
  BY <1>1, <1>2, <1>3 DEF Receipt

LEMMA HandleAckStep ==
  ASSUME IInv, HandleAck PROVE IInv'
<1>1. call \in CallType /\ call.method = "ack" /\ Covered(call) /\ epoch \in Nat /\ faults \in Nat
      /\ ackReceipts \in [1 .. MaxItems -> ReceiptType]
  BY SyncNow DEF HandleAck, AckSent, IInv, Shapes
<1>2. UNCHANGED <<protocol, epoch, mailIn, delivered, importReceipts, homeVars, sync, late, stop,
                  faults>>
  BY DEF HandleAck
<1>3. CASE FreshAck(call)
  <2>1. AckFits(call) /\ ApplyAck(call) /\ Receipt(call, "completed") /\ Answer("done")
    BY <1>3 DEF HandleAck, FreshAck
  <2>2. /\ call' \in CallType /\ call'.method = call.method /\ call'.through = call.through
        /\ call'.settled = call.settled
    BY <1>1, <2>1 DEF Answer, CallType
  <2> QED
    BY <1>1, <1>2, <2>1, <2>2, ReceiptWritten, AckStep
<1>4. CASE ~FreshAck(call) /\ ReplayedAck(call)
  <2>1. call.through \in DOMAIN ackReceipts /\ ackReceipts[call.through].state = "completed"
    <3>1. call.through \in 1 .. MaxItems
      BY <1>1, SeqFacts, Constants DEF IInv, Covered, Imported, Queued
    <3> QED
      BY <1>1, <1>4, <3>1 DEF ReplayedAck
  <2>2. AckedUpTo(call.through)
    BY <2>1 DEF IInv, Acknowledged
  <2>3. Answer("done") /\ UNCHANGED <<outbox, att, ackReceipts>>
    BY <1>4 DEF HandleAck
  <2> QED
    BY <1>1, <1>2, <2>2, <2>3, CallAnswered
<1>5. CASE ~FreshAck(call) /\ ~ReplayedAck(call)
  <2>1. Answer("refused") /\ UNCHANGED <<outbox, att, ackReceipts>>
    BY <1>5 DEF HandleAck
  <2> QED
    BY <1>1, <1>2, <2>1, CallAnswered
<1> QED
  BY <1>3, <1>4, <1>5

LEMMA HandleLateAckStep ==
  ASSUME IInv, NEW request \in late, HandleLateAck(request) PROVE IInv'
<1>1. request \in CallType /\ Covered(request) /\ call \in CallType /\ epoch \in Nat /\ faults \in Nat
  BY SyncNow
<1>2. AckFits(request) /\ ApplyAck(request) /\ Receipt(request, "completed")
  BY DEF HandleLateAck, FreshAck
<1>3. late' \subseteq late /\ UNCHANGED <<protocol, epoch, mailIn, delivered, importReceipts,
        homeVars, sync, call, stop, faults>>
  BY DEF HandleLateAck
<1>4. call.method = "none" => call.state = "none"
  BY DEF IInv, Awaited
<1> QED
  BY <1>1, <1>2, <1>3, <1>4, ReceiptWritten, AckStep

LEMMA CrashInAckStep ==
  ASSUME IInv, NEW applied \in BOOLEAN, CrashInAck(applied) PROVE IInv'
<1>1. call \in CallType /\ call.method = "ack" /\ Covered(call) /\ epoch \in Nat /\ faults \in Nat
  BY SyncNow DEF CrashInAck, AckSent
<1>2. AckFits(call) /\ Receipt(call, "pending") /\ Answer("refused")
  BY DEF CrashInAck, FreshAck
<1>3. /\ late' \subseteq late /\ epoch' \in Nat /\ faults' \in Nat
      /\ stop' \in {stop} \cup (IF stop = "closing" THEN {"lost"} ELSE {})
      /\ UNCHANGED <<protocol, mailIn, delivered, importReceipts, homeVars, sync>>
  BY <1>1 DEF CrashInAck, Fault
<1>4. /\ call' \in CallType /\ call'.method = call.method /\ call'.through = call.through
      /\ call'.settled = call.settled /\ call'.state = "refused"
  BY <1>1, <1>2 DEF Answer, CallType
<1>5. CASE applied
  <2>1. ApplyAck(call)
    BY <1>5 DEF CrashInAck
  <2> QED
    BY <1>1, <1>2, <1>3, <1>4, <2>1, ReceiptWritten, AckStep
<1>6. CASE ~applied
  <2>1. UNCHANGED <<outbox, att>>
    BY <1>6 DEF CrashInAck
  <2> QED
    BY <1>1, <1>2, <1>3, <2>1, ReceiptWritten, CallAnswered
<1> QED
  BY <1>5, <1>6

(***************************************************************************)
(* The worker's server imports control mail                                *)
(***************************************************************************)
LEMMA Behind ==
  ASSUME NEW a \in Nat, NEW b \in Nat
  PROVE  \E k \in Nat : 1 .. b - a = 1 .. k /\ a + k = Most(a, b)
<1>1. CASE b > a
  <2>1. b - a \in Nat /\ a + (b - a) = Most(a, b)
    BY <1>1 DEF Most
  <2> QED
    BY <2>1
<1>2. CASE ~(b > a)
  <2>1. a + 0 = Most(a, b)
    BY <1>2 DEF Most
  <2>2. 1 .. b - a = 1 .. 0
    BY <1>2
  <2> QED
    BY <2>1, <2>2
<1> QED
  BY <1>1, <1>2

\* Only the mail behind the last is added, each under its sequence.
LEMMA InsertedMail ==
  ASSUME IInv, NEW last \in Nat
  PROVE  /\ InsertMail(last) \in Seq(Nat)
         /\ Len(InsertMail(last)) = Most(Len(delivered), last)
         /\ \A i \in DOMAIN InsertMail(last) : InsertMail(last)[i] = i
<1>1. /\ DOMAIN delivered = 1 .. Len(delivered) /\ Len(delivered) \in Nat /\ delivered \in Seq(Nat)
      /\ \A i \in DOMAIN delivered : delivered[i] = i
      /\ mailIn \in Nat /\ mailIn <= Len(delivered)
  BY SeqFacts DEF IInv, Shapes, Mailed
<1>0. Len(delivered) \in Nat /\ mailIn \in Nat /\ mailIn <= Len(delivered)
  BY <1>1
<1>2. PICK k \in Nat : 1 .. last - Len(delivered) = 1 .. k /\ Len(delivered) + k = Most(Len(delivered), last)
  BY <1>1, Behind
<1> DEFINE t == [i \in 1 .. k |-> Len(delivered) + i]
<1>3. InsertMail(last) = delivered \o t
  <2>1. Most(mailIn, Len(delivered)) = Len(delivered)
    BY <1>0 DEF Most
  <2> QED
    BY <1>2, <2>1 DEF InsertMail
<1>4. t \in Seq(Nat) /\ Len(t) = k /\ \A i \in 1 .. k : t[i] = Len(delivered) + i
  <2>1. \A i \in 1 .. k : Len(delivered) + i \in Nat
    BY <1>1
  <2>2. t \in [1 .. k -> Nat]
    BY <2>1
  <2>3. t \in Seq(Nat)
    BY <2>2, SeqDef
  <2> QED
    BY <2>2, <2>3, LenProperties
<1> HIDE DEF t
<1>5. /\ delivered \o t \in Seq(Nat) /\ Len(delivered \o t) = Len(delivered) + k
      /\ \A i \in 1 .. Len(delivered) + k :
           (delivered \o t)[i] = IF i <= Len(delivered) THEN delivered[i] ELSE t[i - Len(delivered)]
  BY <1>1, <1>4, ConcatProperties
<1>6. DOMAIN (delivered \o t) = 1 .. Len(delivered) + k
  BY <1>5, SeqDomain
<1>7. \A i \in 1 .. Len(delivered) + k : (delivered \o t)[i] = i
  <2> TAKE i \in 1 .. Len(delivered) + k
  <2>1. CASE i <= Len(delivered)
    <3>1. i \in DOMAIN delivered
      BY <1>1, <2>1
    <3>2. (delivered \o t)[i] = delivered[i]
      BY <1>5, <2>1
    <3> QED
      BY <1>1, <3>1, <3>2
  <2>2. CASE ~(i <= Len(delivered))
    <3>1. i - Len(delivered) \in 1 .. k
      BY <1>1, <1>2, <2>2
    <3> QED
      BY <1>1, <1>4, <1>5, <2>2, <3>1
  <2> QED
    BY <2>1, <2>2
<1>8. Len(delivered) + k = Most(Len(delivered), last)
  BY <1>2
<1> QED
  BY <1>3, <1>5, <1>6, <1>7, <1>8

LEMMA MailStep ==
  ASSUME IInv, call.method = "import", NEW answer \in {"done", "refused"}, Answer(answer),
         delivered' \in Seq(Nat), \A i \in DOMAIN delivered' : delivered'[i] = i,
         mailIn' \in Nat, mailIn <= mailIn', mailIn' <= Len(delivered'), Len(delivered') <= mailSent,
         answer = "done" => call.through <= mailIn',
         importReceipts' \in [1 .. MaxMail -> {"none", "pending", "completed"}],
         \A n \in DOMAIN importReceipts :
           importReceipts'[n] = "completed" => importReceipts[n] = "completed" \/ n <= mailIn',
         late' \subseteq late, epoch' \in Nat, faults' \in Nat,
         stop' \in {stop} \cup (IF stop = "closing" THEN {"lost"} ELSE {}),
         UNCHANGED <<protocol, outbox, att, ackReceipts, homeVars, sync>>
  PROVE  IInv'
<1> USE DEF homeVars
<1>1. /\ call' \in CallType /\ call'.method = "import" /\ call'.through = call.through
      /\ call'.state = answer
  BY SyncNow DEF Answer, CallType
<1>2. Shapes'
  BY <1>1 DEF IInv, Shapes
<1>3. Queued' /\ Copied' /\ Pulled' /\ Delivered' /\ Awaited'
  BY <1>1 DEF IInv, Queued, Copied, Pulled, Delivered, Awaited, IsReport
<1>4. /\ \A S : Backed(S)' <=> Backed(S)
      /\ \A n : AckedUpTo(n)' <=> AckedUpTo(n)
  BY DEF Backed, Backs, AckedUpTo
<1>5. \A r : Covered(r)' <=> Covered(r)
  BY <1>4 DEF Covered, Imported
<1>6. Acknowledged'
  BY <1>1, <1>4, <1>5 DEF IInv, Acknowledged, Imported
<1>7. Mailed'
  <2>1. /\ mailAcked \in Nat /\ mailAcked <= mailIn /\ mailIn \in Nat /\ mailSent \in Nat
        /\ call.through \in 1 .. mailSent
    BY SyncNow
  <2>2. mailAcked' <= mailIn'
    BY <2>1
  <2>3. \A n \in DOMAIN importReceipts' : importReceipts'[n] = "completed" => n <= mailIn'
    <3>1. DOMAIN importReceipts' = 1 .. MaxMail /\ DOMAIN importReceipts = 1 .. MaxMail
      BY DEF IInv, Shapes
    <3>2. \A n \in 1 .. MaxMail : importReceipts'[n] = "completed" => n <= mailIn \/ n <= mailIn'
      BY <3>1 DEF IInv, Mailed
    <3> QED
      BY <2>1, <3>1, <3>2, Constants
  <2> QED
    BY <1>1, <2>1, <2>2, <2>3 DEF Mailed
<1>8. Decided'
  BY DEF IInv, Decided, Accepted
<1> QED
  BY <1>2, <1>3, <1>6, <1>7, <1>8 DEF IInv

LEMMA HandleImportStep ==
  ASSUME IInv, HandleImport PROVE IInv'
<1> DEFINE n == call.through
<1>1. /\ call.method = "import" /\ n \in 1 .. mailSent /\ n \in Nat /\ epoch \in Nat /\ faults \in Nat
      /\ mailIn \in Nat /\ mailSent \in Nat /\ mailSent <= MaxMail
  BY SyncNow DEF HandleImport, IInv, Shapes
<1>2. /\ delivered \in Seq(Nat) /\ Len(delivered) \in Nat /\ Len(delivered) <= mailSent
      /\ mailIn <= Len(delivered) /\ \A i \in DOMAIN delivered : delivered[i] = i
      /\ importReceipts \in [1 .. MaxMail -> {"none", "pending", "completed"}]
      /\ n \in DOMAIN importReceipts
  BY <1>1, SeqFacts, Constants DEF IInv, Shapes, Mailed
<1>3. UNCHANGED <<protocol, outbox, att, epoch, ackReceipts, homeVars, sync, late, stop, faults>>
  BY DEF HandleImport
<1>4. CASE importReceipts[n] = "none" /\ (mailIn >= n \/ att = "ready")
  <2>1. /\ delivered' = IF mailIn < n THEN InsertMail(n) ELSE delivered
        /\ mailIn' = Most(mailIn, n) /\ Answer("done")
        /\ importReceipts' = [importReceipts EXCEPT ![n] = "completed"]
    BY <1>4 DEF HandleImport
  <2>2. /\ delivered' \in Seq(Nat) /\ \A i \in DOMAIN delivered' : delivered'[i] = i
        /\ mailIn' \in Nat /\ mailIn <= mailIn' /\ n <= mailIn'
        /\ mailIn' <= Len(delivered') /\ Len(delivered') <= mailSent
    <3>1. CASE mailIn < n
      <4>1. delivered' = InsertMail(n) /\ mailIn' = n
        BY <1>1, <2>1, <3>1 DEF Most
      <4>2. /\ delivered' \in Seq(Nat) /\ Len(delivered') = Most(Len(delivered), n)
            /\ \A i \in DOMAIN delivered' : delivered'[i] = i
        BY <1>1, <4>1, InsertedMail
      <4>3. n <= Most(Len(delivered), n) /\ Most(Len(delivered), n) <= mailSent
        <5>1. Len(delivered) \in Nat /\ Len(delivered) <= mailSent
          BY <1>2
        <5> QED
          BY <1>1, <5>1 DEF Most
      <4> QED
        BY <1>1, <3>1, <4>1, <4>2, <4>3
    <3>2. CASE ~(mailIn < n)
      BY <1>1, <1>2, <2>1, <3>2 DEF Most
    <3> QED
      BY <3>1, <3>2
  <2>3. /\ importReceipts' \in [1 .. MaxMail -> {"none", "pending", "completed"}]
        /\ \A k \in DOMAIN importReceipts :
             importReceipts'[k] = "completed" => importReceipts[k] = "completed" \/ k <= mailIn'
    BY <1>2, <2>1, <2>2
  <2> QED
    BY <1>1, <1>3, <2>1, <2>2, <2>3, MailStep
<1>5. CASE ~(importReceipts[n] = "none" /\ (mailIn >= n \/ att = "ready"))
  <2>1. /\ Answer(IF importReceipts[n] = "completed" THEN "done" ELSE "refused")
        /\ UNCHANGED <<delivered, mailIn, importReceipts>>
    BY <1>5 DEF HandleImport
  <2>2. importReceipts[n] = "completed" => n <= mailIn
    BY <1>2 DEF IInv, Mailed
  <2> QED
    BY <1>1, <1>2, <1>3, <2>1, <2>2, MailStep
<1> QED
  BY <1>4, <1>5

LEMMA CrashInImportStep ==
  ASSUME IInv, NEW in \in 0 .. MaxMail, NEW recorded \in 0 .. MaxMail, CrashInImport(in, recorded)
  PROVE  IInv'
<1>1. /\ call.method = "import" /\ call.through \in 1 .. mailSent /\ epoch \in Nat /\ faults \in Nat
      /\ mailIn \in Nat /\ mailSent \in Nat /\ in \in Nat /\ recorded \in Nat
  BY SyncNow, Constants DEF CrashInImport
<1>2. /\ Len(delivered) \in Nat /\ Len(delivered) <= mailSent /\ mailIn <= Len(delivered)
      /\ importReceipts \in [1 .. MaxMail -> {"none", "pending", "completed"}]
  BY SeqFacts DEF IInv, Shapes, Mailed
<1>3. /\ in <= call.through /\ mailIn <= recorded /\ recorded <= in
      /\ delivered' = InsertMail(in) /\ mailIn' = recorded /\ Answer("refused")
      /\ importReceipts' = [importReceipts EXCEPT ![call.through] = "pending"]
  BY <1>1 DEF CrashInImport
<1>4. /\ delivered' \in Seq(Nat) /\ \A i \in DOMAIN delivered' : delivered'[i] = i
      /\ mailIn' <= Len(delivered') /\ Len(delivered') <= mailSent
  BY <1>1, <1>2, <1>3, InsertedMail DEF Most
<1>5. /\ importReceipts' \in [1 .. MaxMail -> {"none", "pending", "completed"}]
      /\ \A k \in DOMAIN importReceipts :
           importReceipts'[k] = "completed" => importReceipts[k] = "completed"
  BY <1>2, <1>3
<1>6. /\ late' \subseteq late /\ epoch' \in Nat /\ faults' \in Nat
      /\ stop' \in {stop} \cup (IF stop = "closing" THEN {"lost"} ELSE {})
      /\ UNCHANGED <<protocol, outbox, att, ackReceipts, homeVars, sync>>
  BY <1>1 DEF CrashInImport, Fault
<1> QED
  BY <1>1, <1>3, <1>4, <1>5, <1>6, MailStep

(***************************************************************************)
(* Stop, abandonment and the other small steps                             *)
(***************************************************************************)
LEMMA LifecycleStep ==
  ASSUME IInv, Decided',
         att' \in {"ready", "succeeded", "failed"} \cup Ended,
         home' \in {"ready", "succeeded", "failed", "abandoned"} \cup Ended,
         stop' \in {"none", "sent", "closing", "stopped", "stop_unknown", "settled", "lost"},
         homeEpoch' \in Nat, faults' \in Nat, mailSent' \in 0 .. MaxMail, mailSent <= mailSent',
         UNCHANGED <<protocol, outbox, epoch, mailIn, delivered, ackReceipts, importReceipts,
                     mailbox, homeAcked, checkpoint, mailAcked, sync, call, late>>
  PROVE  IInv'
<1>1. Shapes'
  BY DEF IInv, Shapes
<1>2. Queued' /\ Copied' /\ Pulled' /\ Delivered' /\ Awaited'
  BY DEF IInv, Queued, Copied, Pulled, Delivered, Awaited, IsReport
<1>3. /\ \A S : Backed(S)' <=> Backed(S)
      /\ \A n : AckedUpTo(n)' <=> AckedUpTo(n)
  BY DEF Backed, Backs, AckedUpTo
<1>4. \A r : Covered(r)' <=> Covered(r)
  BY <1>3 DEF Covered, Imported
<1>5. Acknowledged'
  BY <1>3, <1>4 DEF IInv, Acknowledged, Imported
<1>6. Mailed'
  <2>1. Len(delivered) \in Nat /\ mailSent \in Nat /\ mailSent' \in Nat
    BY SeqFacts, Constants DEF IInv, Shapes
  <2>2. Len(delivered) <= mailSent'
    BY <2>1 DEF IInv, Mailed
  <2>3. call.method = "import" => call.through \in 1 .. mailSent'
    BY <2>1, SyncNow
  <2> QED
    BY <2>2, <2>3 DEF IInv, Mailed
<1> QED
  BY <1>1, <1>2, <1>5, <1>6 DEF IInv

\* Of protocol 3 while a stop or an abandonment goes on
LEMMA Unsettled ==
  ASSUME IInv, protocol = 3
  PROVE  /\ home = "ready" => Accepted = {}
         /\ Accepted = {} => att \notin {"succeeded", "failed"} /\ home \notin {"succeeded", "failed"}
         /\ stop # "none" => Accepted = {} /\ home # "ready"
         /\ home \in Ended => stop # "none"
         /\ home = "ready" => stop = "none" /\ att = "ready"
<1>1. \A i \in Accepted : home # "ready"
  BY DEF IInv, Decided
<1>2. Accepted = {} => att \notin {"succeeded", "failed"} /\ home \notin {"succeeded", "failed"}
  BY DEF IInv, Decided
<1>3. stop # "none" => Accepted = {} /\ home # "ready"
  BY DEF IInv, Decided, Ended
<1>4. stop = "none" => home \notin Ended /\ att \notin Ended
  BY DEF IInv, Decided
<1>5. att \in {"ready", "succeeded", "failed"} \cup Ended
  BY DEF IInv, Shapes
<1> QED
  BY <1>1, <1>2, <1>3, <1>4, <1>5

\* A decision stays but for an abandonment, and a stop needs that there is none.
LEMMA StopsUndecided ==
  ASSUME IInv, protocol = 3, UNCHANGED <<protocol, mailbox>>,
         \/ /\ home' \in {home, "abandoned"}
            /\ UNCHANGED <<att, stop>>
         \/ /\ Accepted = {} /\ stop' \notin {"none", "settled"}
            /\ home' \in Ended \cup {"abandoned"}
            /\ att' \in {att} \cup Ended /\ (stop' = "sent" => att' = "ready")
  PROVE  Decided'
<1>1. Accepted' = Accepted /\ mailbox' = mailbox /\ protocol' = protocol
  BY DEF Accepted
<1>2. \A i \in DOMAIN mailbox :
        mailbox[i].kind = "worker_done" => mailbox[i].report \in {"succeeded", "failed", "misfit"}
  <2>1. SUFFICES ASSUME NEW i \in DOMAIN mailbox, mailbox[i].kind = "worker_done"
                 PROVE  mailbox[i].report \in Reports
    BY Constants
  <2>2. i \in DOMAIN outbox
    BY SeqFacts DEF IInv, Queued
  <2> QED
    BY <2>1, <2>2 DEF IInv, Queued, Copied, IsReport
<1>3. CASE home' \in {home, "abandoned"} /\ UNCHANGED <<att, stop>>
  <2>1. \A i \in Accepted : mailbox[i].report \in {"succeeded", "failed"}
    BY DEF IInv, Decided
  <2>2. \A i \in Accepted : home' \in {mailbox[i].report, "abandoned"}
    BY <1>3 DEF IInv, Decided
  <2>3. home' \in {"succeeded", "failed"} => Accepted # {}
    BY <1>3 DEF IInv, Decided
  <2>4. \A i \in DOMAIN mailbox :
          mailbox[i].kind = "worker_done" /\ mailbox[i].rejected /\ mailbox[i].report # "misfit" =>
            home' \notin {"ready", mailbox[i].report}
    BY <1>2, <1>3 DEF IInv, Decided
  <2>5. /\ stop = "none" => home' \notin Ended /\ att \notin Ended
        /\ stop # "none" => home' \in Ended \cup {"abandoned"} /\ Accepted = {}
    BY <1>3 DEF IInv, Decided, Ended
  <2> QED
    BY <1>1, <1>3, <2>1, <2>2, <2>3, <2>4, <2>5 DEF IInv, Decided
<1>4. CASE /\ Accepted = {} /\ stop' \notin {"none", "settled"}
           /\ home' \in Ended \cup {"abandoned"}
           /\ att' \in {att} \cup Ended /\ (stop' = "sent" => att' = "ready")
  <2>1. att' \notin {"succeeded", "failed"}
    BY <1>4, Unsettled DEF Ended
  <2>2. \A i \in DOMAIN mailbox :
          mailbox[i].kind = "worker_done" => home' \notin {"ready", mailbox[i].report}
    BY <1>2, <1>4 DEF Ended
  <2>3. home' \notin {"succeeded", "failed"}
    BY <1>4 DEF Ended
  <2> QED
    BY <1>1, <1>4, <2>1, <2>2, <2>3 DEF Decided
<1> QED
  BY <1>3, <1>4

LEMMA LifecycleDecided ==
  ASSUME IInv, HomeStop \/ StopBegins \/ StopEnds("stopped") \/ StopEnds("stop_unknown")
                 \/ StopAnswered \/ ShowStopped \/ Abandon \/ StopLost
  PROVE  Decided'
<1> SUFFICES ASSUME protocol' = 3 PROVE Decided'
  BY DEF Decided
<1>1. protocol = 3 /\ UNCHANGED <<protocol, mailbox>>
  BY DEF HomeStop, StopBegins, StopEnds, StopAnswered, ShowStopped, Abandon, StopLost, homeVars
<1>2. /\ stop # "none" => home \in Ended \cup {"abandoned"} /\ Accepted = {}
      /\ stop = "sent" => att = "ready"
      /\ stop # "settled"
  BY <1>1 DEF IInv, Decided
<1> USE DEF workerVars, netVars, homeVars, Ended
<1>3. CASE HomeStop
  BY <1>1, <1>3, Unsettled, StopsUndecided DEF HomeStop
<1>4. CASE StopBegins
  BY <1>1, <1>2, <1>4, StopsUndecided DEF StopBegins
<1>5. CASE StopEnds("stopped") \/ StopEnds("stop_unknown")
  BY <1>1, <1>2, <1>5, StopsUndecided DEF StopEnds
<1>6. CASE StopAnswered
  <2>1. AfterStop \in {"stopped", "stop_unknown"}
    BY <1>2, <1>6 DEF AfterStop, StopAnswered
  <2>2. stop \notin {"none", "settled"} /\ stop' = stop /\ att' = att
    BY <1>2, <1>6 DEF StopAnswered
  <2>3. home' \in Ended \cup {"abandoned"}
    BY <1>2, <1>6, <2>1, <2>2 DEF StopAnswered
  <2> QED
    BY <1>1, <1>2, <2>2, <2>3, StopsUndecided
<1>7. CASE ShowStopped
  <2>1. stop # "none" /\ home' = "stopped" /\ stop' = stop /\ att' = att
    BY <1>1, <1>7, Unsettled DEF ShowStopped
  <2> QED
    BY <1>1, <1>2, <2>1, StopsUndecided
<1>8. CASE Abandon
  BY <1>1, <1>8, StopsUndecided DEF Abandon
<1>9. CASE StopLost
  <2>1. stop' = stop /\ att' = att /\ home' = IF home = "stopping" THEN "stop_unknown" ELSE home
    BY <1>9 DEF StopLost
  <2>2. CASE home = "stopping"
    <3>1. stop # "none"
      BY <1>1, <2>2, Unsettled
    <3> QED
      BY <1>1, <1>2, <2>1, <2>2, <3>1, StopsUndecided
  <2>3. CASE home # "stopping"
    BY <1>1, <2>1, <2>3, StopsUndecided
  <2> QED
    BY <2>2, <2>3
<1> QED
  BY <1>3, <1>4, <1>5, <1>6, <1>7, <1>8, <1>9

LEMMA SmallSteps ==
  ASSUME IInv, HomeStop \/ StopBegins \/ StopEnds("stopped") \/ StopEnds("stop_unknown")
                 \/ StopAnswered \/ ShowStopped \/ Abandon \/ StopLost \/ SendMail \/ ShowEpoch
  PROVE  IInv'
<1>1. /\ homeEpoch \in Nat /\ epoch \in Nat /\ faults \in Nat /\ mailSent \in 0 .. MaxMail
      /\ mailSent \in Nat
      /\ att \in {"ready", "succeeded", "failed"} \cup Ended
      /\ home \in {"ready", "succeeded", "failed", "abandoned"} \cup Ended
      /\ stop \in {"none", "sent", "closing", "stopped", "stop_unknown", "settled", "lost"}
  BY SyncNow DEF IInv, Shapes
<1> USE DEF workerVars, netVars, Ended
<1>2. CASE HomeStop
  BY <1>1, <1>2, LifecycleDecided, LifecycleStep DEF HomeStop
<1>3. CASE StopBegins
  BY <1>1, <1>3, LifecycleDecided, LifecycleStep DEF StopBegins, homeVars
<1>4. CASE StopEnds("stopped") \/ StopEnds("stop_unknown")
  BY <1>1, <1>4, LifecycleDecided, LifecycleStep DEF StopEnds, homeVars
<1>5. CASE StopAnswered
  <2>1. AfterStop \in {"stopped", "ready", "stop_unknown"}
    BY <1>5 DEF AfterStop, StopAnswered
  <2>2. home' \in {"ready", "succeeded", "failed", "abandoned"} \cup Ended
    BY <1>1, <1>5, <2>1 DEF StopAnswered
  <2>3. Decided'
    BY <1>5, LifecycleDecided
  <2> QED
    BY <1>1, <1>5, <2>2, <2>3, LifecycleStep DEF StopAnswered
<1>6. CASE ShowStopped
  BY <1>1, <1>6, LifecycleDecided, LifecycleStep DEF ShowStopped
<1>7. CASE Abandon
  BY <1>1, <1>7, LifecycleDecided, LifecycleStep DEF Abandon
<1>8. CASE StopLost
  <2>1. home' \in {"ready", "succeeded", "failed", "abandoned"} \cup Ended /\ faults' \in Nat
    BY <1>1, <1>8 DEF StopLost, Fault
  <2>2. Decided'
    BY <1>8, LifecycleDecided
  <2> QED
    BY <1>1, <1>8, <2>1, <2>2, LifecycleStep DEF StopLost
<1>9. CASE SendMail
  <2>1. Decided'
    BY <1>9 DEF SendMail, IInv, Decided, Accepted
  <2>2. mailSent' \in 0 .. MaxMail /\ mailSent <= mailSent'
    BY <1>1, <1>9, Constants DEF SendMail
  <2> QED
    BY <1>1, <1>9, <2>1, <2>2, LifecycleStep DEF SendMail
<1>10. CASE ShowEpoch
  <2>1. Decided'
    BY <1>10 DEF ShowEpoch, IInv, Decided, Accepted
  <2> QED
    BY <1>1, <1>10, <2>1, LifecycleStep DEF ShowEpoch
<1> QED
  BY <1>2, <1>3, <1>4, <1>5, <1>6, <1>7, <1>8, <1>9, <1>10

LEMMA WorkerRestartStep ==
  ASSUME IInv, WorkerRestart PROVE IInv'
<1>1. /\ late' \subseteq late /\ epoch' \in Nat /\ faults' \in Nat
      /\ stop' \in {stop} \cup (IF stop = "closing" THEN {"lost"} ELSE {})
      /\ UNCHANGED <<protocol, outbox, att, mailIn, delivered, ackReceipts, importReceipts,
                     homeVars, sync>>
  BY SyncNow DEF WorkerRestart, Fault
<1>2. ackReceipts \in [1 .. MaxItems -> ReceiptType] /\ call \in CallType
  BY DEF IInv, Shapes
<1>3. CASE call.state = "sent"
  <2>1. Answer("refused") /\ call.method # "none"
    BY <1>3 DEF WorkerRestart, Answer, IInv, Awaited
  <2> QED
    BY <1>1, <1>2, <2>1, CallAnswered
<1>4. CASE call.state # "sent"
  <2> USE DEF homeVars
  <2>1. call' = call
    BY <1>4 DEF WorkerRestart
  <2>2. Shapes'
    <3>1. stop' \in {"none", "sent", "closing", "stopped", "stop_unknown", "settled", "lost"}
      BY <1>1 DEF IInv, Shapes
    <3>2. late' \subseteq CallType
      BY <1>1 DEF IInv, Shapes
    <3> QED
      BY <1>1, <2>1, <3>1, <3>2 DEF IInv, Shapes
  <2>3. Queued' /\ Copied' /\ Pulled' /\ Delivered' /\ Awaited' /\ Mailed'
    BY <1>1, <2>1 DEF IInv, Queued, Copied, Pulled, Delivered, Awaited, Mailed, IsReport
  <2>4. /\ \A S : Backed(S)' <=> Backed(S)
        /\ \A n : AckedUpTo(n)' <=> AckedUpTo(n)
    BY <1>1 DEF Backed, Backs, AckedUpTo
  <2>5. \A r : Covered(r)' <=> Covered(r)
    BY <1>1, <2>4 DEF Covered, Imported
  <2>6. Acknowledged'
    BY <1>1, <2>1, <2>4, <2>5 DEF IInv, Acknowledged, Imported
  <2>7. Decided'
    BY <1>1 DEF IInv, Decided, Accepted, Ended
  <2> QED
    BY <2>2, <2>3, <2>6, <2>7 DEF IInv
<1> QED
  BY <1>3, <1>4

(***************************************************************************)
(* The theorems                                                            *)
(***************************************************************************)
LEMMA InitInvariant == Init => IInv
<1> SUFFICES ASSUME Init PROVE IInv
  OBVIOUS
<1>1. /\ <<>> \in Seq(RowType) /\ <<>> \in Seq(MessageType) /\ <<>> \in Seq(Nat)
      /\ Len(outbox) = 0 /\ Len(mailbox) = 0 /\ Len(delivered) = 0
      /\ DOMAIN outbox = {} /\ DOMAIN mailbox = {} /\ DOMAIN delivered = {}
  BY DEF Init
<1>2. Shapes
  <2>1. {} \in Settlements
    BY Nothing
  <2>2. /\ ackReceipts \in [1 .. MaxItems -> ReceiptType]
        /\ importReceipts \in [1 .. MaxMail -> {"none", "pending", "completed"}]
        /\ checkpoint \in [epoch : Nat, through : Nat]
    BY <2>1 DEF Init, NoReceipt, ReceiptType, NoCheckpoint
  <2>3. protocol \in {2, 3}
    BY RelayConstants DEF Init
  <2>4. sync \in SyncType /\ call \in CallType /\ late \subseteq CallType
    BY Nothing DEF Init
  <2> QED
    BY <1>1, <2>2, <2>3, <2>4, Constants DEF Init, Shapes
<1>3. Queued /\ Pulled /\ Copied /\ Delivered
  BY <1>1, Constants DEF Init, Queued, Pulled, Copied, Delivered, Idle
<1>4. Acknowledged
  BY <1>1 DEF Init, Acknowledged, Imported, AckedUpTo, Backed, Idle, NoCall, NoReceipt
<1>5. Awaited /\ Mailed
  BY <1>1 DEF Init, Awaited, Mailed, NoCall, Idle
<1>6. Accepted = {}
  BY <1>1 DEF Accepted
<1>7. Decided
  BY <1>1, <1>6 DEF Init, Decided, Ended
<1> QED
  BY <1>2, <1>3, <1>4, <1>5, <1>7 DEF IInv

LEMMA StepInvariant == IInv /\ [Next]_vars => IInv'
<1> SUFFICES ASSUME IInv, [Next]_vars PROVE IInv'
  OBVIOUS
<1>1. CASE AgentStep
  BY <1>1, SendStep
<1>2. CASE Tick \/ ShowSync
  BY <1>2, PullSteps
<1>3. CASE SyncStep
  <2>1. CASE NextPage
    BY <2>1, PullSteps
  <2>2. CASE \E item \in sync.items : Import(item)
    BY <2>2, ImportStep
  <2>3. CASE \E item \in sync.items : ImportRefused(item)
    BY <2>3, SyncOverSteps
  <2>4. CASE SendAck
    BY <2>4, SendAckStep
  <2>5. CASE RecordAck
    BY <2>5, RecordAckStep
  <2>6. CASE CallRefused
    BY <2>6, SyncOverSteps
  <2>7. CASE PushMail \/ RecordMail
    BY <2>7, MailCallStep
  <2> QED
    BY <1>3, <2>1, <2>2, <2>3, <2>4, <2>5, <2>6, <2>7 DEF SyncStep
<1>4. CASE ServerStep
  BY <1>4, HandleAckStep, HandleImportStep DEF ServerStep
<1>5. CASE \E request \in late : HandleLateAck(request)
  BY <1>5, HandleLateAckStep
<1>6. CASE SendMail \/ ShowEpoch \/ Abandon
  BY <1>6, SmallSteps
<1>7. CASE StopStep
  BY <1>7, SmallSteps DEF StopStep
<1>8. CASE FaultStep
  <2>1. CASE HomeRestart \/ \E keep \in BOOLEAN : CallLost(keep)
    BY <2>1, SyncOverSteps
  <2>2. CASE StopLost
    BY <2>2, SmallSteps
  <2>3. CASE WorkerRestart
    BY <2>3, WorkerRestartStep
  <2>4. CASE \E applied \in BOOLEAN : CrashInAck(applied)
    BY <2>4, CrashInAckStep
  <2>5. CASE \E in, recorded \in 0 .. MaxMail : CrashInImport(in, recorded)
    BY <2>5, CrashInImportStep
  <2> QED
    BY <1>8, <2>1, <2>2, <2>3, <2>4, <2>5 DEF FaultStep
<1>9. CASE UNCHANGED vars
  <2> USE <1>9 DEF vars, workerVars, homeVars, netVars
  <2>1. Shapes' /\ Queued' /\ Pulled' /\ Copied' /\ Awaited' /\ Delivered' /\ Mailed'
    BY DEF IInv, Shapes, Queued, Pulled, Copied, Awaited, Delivered, Mailed, IsReport
  <2>2. /\ \A S : Backed(S)' <=> Backed(S)
        /\ \A n : AckedUpTo(n)' <=> AckedUpTo(n)
    BY DEF Backed, Backs, AckedUpTo
  <2>3. \A r : Covered(r)' <=> Covered(r)
    BY <2>2 DEF Covered, Imported
  <2>4. Acknowledged'
    BY <2>2, <2>3 DEF IInv, Acknowledged, Imported
  <2>5. Decided'
    BY DEF IInv, Decided, Accepted
  <2> QED
    BY <2>1, <2>4, <2>5 DEF IInv
<1> QED
  BY <1>1, <1>2, <1>3, <1>4, <1>5, <1>6, <1>7, <1>8, <1>9 DEF Next

LEMMA Invariance == Spec => []IInv
BY InitInvariant, StepInvariant, PTL DEF Spec

\* Every row, cursor and call of the relay has its range, in all reachable
\* states of both servers.
THEOREM TypeCorrect == Spec => []TypeOK
<1>1. IInv => TypeOK
  BY SyncNow, Constants
     DEF IInv, Shapes, TypeOK, RowType, MessageType, Payloads, SyncType, CallType, Ended
<1> QED
  BY <1>1, Invariance, PTL

\* With lifecycle settlement the worker's server drops a report from its queue
\* only when the home has it, at the same sequence and with the same payload:
\* neither a late or repeated acknowledgment nor a report that took the place of
\* a heartbeat loses one.
THEOREM ReportsAreHome == Spec => []AckedReportIsHome
<1>1. IInv => AckedReportIsHome
  <2> SUFFICES ASSUME IInv, protocol >= Settling, NEW i \in DOMAIN outbox,
                      outbox[i].acked, outbox[i].kind = "worker_done"
               PROVE  /\ i <= Imported /\ mailbox[i].kind = "worker_done"
                      /\ mailbox[i].report = outbox[i].report
    BY DEF AckedReportIsHome
  <2>1. protocol = 3
    BY DEF IInv, Shapes, Settling
  <2> QED
    BY <2>1 DEF IInv, Acknowledged, Delivered, Copied, IsReport
<1> QED
  BY <1>1, Invariance, PTL

\* What the home recorded as acknowledged is acknowledged, and that is imported;
\* the cursors of the control mail are in order too.
THEOREM CursorsStayInOrder == Spec => []CursorsInOrder
<1>1. IInv => CursorsInOrder
  BY DEF IInv, CursorsInOrder, Acknowledged, AckedUpTo, Mailed
<1> QED
  BY <1>1, Invariance, PTL

\* Control mail is inserted once and in the order it was sent, over retries and
\* imports that ended halfway.
THEOREM MailComesOnce == Spec => []MailOnceInOrder
<1>1. IInv => MailOnceInOrder
  BY DEF IInv, Mailed, MailOnceInOrder
<1> QED
  BY <1>1, Invariance, PTL

(***************************************************************************)
(* The relay implements the agreement                                      *)
(***************************************************************************)
\* What the home's mailbox says is what it decided.
VerdictStands ==
  protocol = 3 =>
    /\ \A i \in Accepted : HomeVerdict = mailbox[i].report /\ HomeVerdict \in {"succeeded", "failed"}
    /\ Accepted = {} => HomeVerdict = IF LiveHome THEN "open" ELSE "cancelled"

LEMMA VerdictOf == IInv => VerdictStands
<1> SUFFICES ASSUME IInv, protocol = 3
             PROVE  /\ \A i \in Accepted : /\ HomeVerdict = mailbox[i].report
                                           /\ HomeVerdict \in {"succeeded", "failed"}
                    /\ Accepted = {} => HomeVerdict = IF LiveHome THEN "open" ELSE "cancelled"
  BY DEF VerdictStands
<1>1. ASSUME NEW i \in Accepted
      PROVE  HomeVerdict = mailbox[i].report /\ HomeVerdict \in {"succeeded", "failed"}
  <2> DEFINE first == CHOOSE j \in Accepted : TRUE
  <2>1. first \in Accepted
    BY <1>1
  <2>2. HomeVerdict = mailbox[first].report
    BY <1>1 DEF HomeVerdict, Settling
  <2> HIDE DEF first
  <2> QED
    BY <1>1, <2>1, <2>2 DEF IInv, Decided
<1>2. Accepted = {} => HomeVerdict = IF LiveHome THEN "open" ELSE "cancelled"
  BY DEF HomeVerdict, Settling
<1> QED
  BY <1>1, <1>2

\* Of a home that gains no message
LEMMA HomeKeepsOrCancels ==
  ASSUME IInv, IInv', protocol = 3, UNCHANGED <<protocol, mailbox>>, LiveHome' => LiveHome
  PROVE  /\ HomeVerdict' = HomeVerdict \/ (HomeVerdict = "open" /\ HomeVerdict' = "cancelled")
         /\ UNCHANGED home => HomeVerdict' = HomeVerdict
<1>1. VerdictStands /\ VerdictStands' /\ protocol' = 3
  <2>1. VerdictStands /\ VerdictStands'
    BY VerdictOf, PTL
  <2> QED
    BY <2>1
<1>2. Accepted' = Accepted /\ mailbox' = mailbox
  BY DEF Accepted
<1>3. CASE Accepted = {}
  BY <1>1, <1>2, <1>3 DEF VerdictStands, LiveHome
<1>4. CASE Accepted # {}
  <2>1. PICK i \in Accepted : TRUE
    BY <1>4
  <2> QED
    BY <1>1, <1>2, <2>1 DEF VerdictStands
<1> QED
  BY <1>3, <1>4

\* The steps that neither import nor acknowledge nor carry out a stop
LEMMA QuietSteps ==
  ASSUME IInv, protocol = 3,
         \/ AgentStep \/ Tick \/ ShowSync \/ NextPage \/ SendAck \/ RecordAck \/ CallRefused
         \/ PushMail \/ RecordMail \/ HandleImport \/ SendMail \/ HomeStop \/ StopAnswered
         \/ ShowStopped \/ ShowEpoch \/ Abandon \/ StopLost \/ HomeRestart \/ WorkerRestart
         \/ \E item \in sync.items : ImportRefused(item)
         \/ \E keep \in BOOLEAN : CallLost(keep)
         \/ \E in, recorded \in 0 .. MaxMail : CrashInImport(in, recorded)
         \/ UNCHANGED vars
  PROVE  UNCHANGED <<protocol, mailbox, att>> /\ (LiveHome' => LiveHome)
<1> USE DEF workerVars, homeVars, netVars, LiveHome
<1>1. CASE AgentStep
  <2>1. protocol < Settling <=> FALSE
    BY DEF Settling
  <2> QED
    BY <1>1, <2>1 DEF AgentStep, SendStatus, SendHeartbeat, SendReport
<1>2. CASE Tick \/ ShowSync \/ NextPage
  BY <1>2 DEF Tick, ShowSync, NextPage, Pull
<1>3. CASE SendAck \/ RecordAck \/ CallRefused \/ PushMail \/ RecordMail
  BY <1>3 DEF SendAck, RecordAck, CallRefused, PushMail, RecordMail
<1>4. CASE HandleImport \/ SendMail \/ ShowEpoch \/ HomeRestart \/ WorkerRestart \/ UNCHANGED vars
  BY <1>4 DEF HandleImport, SendMail, ShowEpoch, HomeRestart, WorkerRestart, vars
<1>5. CASE HomeStop \/ StopAnswered \/ ShowStopped \/ Abandon \/ StopLost
  BY <1>5 DEF HomeStop, StopAnswered, ShowStopped, Abandon, StopLost
<1>6. CASE \E item \in sync.items : ImportRefused(item)
  BY <1>6 DEF ImportRefused
<1>7. CASE \E keep \in BOOLEAN : CallLost(keep)
  BY <1>7 DEF CallLost
<1>8. CASE \E in, recorded \in 0 .. MaxMail : CrashInImport(in, recorded)
  BY <1>8 DEF CrashInImport
<1> QED
  BY <1>1, <1>2, <1>3, <1>4, <1>5, <1>6, <1>7, <1>8

\* A message is accepted while the worker is ready, or repeats the decision.
LEMMA ImportAccepts ==
  ASSUME IInv, IInv', protocol = 3, NEW item \in sync.items, Import(item)
  PROVE  \/ HomeVerdict' = HomeVerdict
         \/ /\ att = "ready" /\ HomeVerdict = "open"
            /\ HomeVerdict' \in {"succeeded", "failed"}
<1>1. VerdictStands /\ VerdictStands' /\ protocol' = 3
  <2>1. VerdictStands /\ VerdictStands'
    BY VerdictOf, PTL
  <2> QED
    BY <2>1 DEF Import
<1>2. /\ item.report \in Payloads /\ item.kind \in Kinds
      /\ item.kind = "worker_done" => item.report \in Reports
  BY DEF IInv, Shapes, SyncType, ItemType, Pulled, Queued, IsReport
<1>3. /\ home' = home \/ (home' \in {"succeeded", "failed"} /\ item.kind = "worker_done")
      /\ \/ mailbox' = mailbox
         \/ \E m \in MessageType :
              /\ mailbox' = Append(mailbox, m)
              /\ m.kind = "worker_done" /\ ~m.rejected =>
                   home \in {"ready", m.report} /\ m.report \in {"succeeded", "failed"}
  <2> DEFINE verdict == IF item.kind = "worker_done" THEN Verdict(item.report) ELSE "none"
             m == [kind |-> item.kind, report |-> item.report, rejected |-> verdict = "rejected"]
  <2>1. /\ mailbox' = mailbox \/ mailbox' = Append(mailbox, m)
        /\ home' = IF verdict \in {"completed", "failed"} THEN item.report ELSE home
    BY DEF Import
  <2>2. m \in MessageType
    BY <1>2 DEF MessageType
  <2>3. item.kind = "worker_done" /\ verdict # "rejected" =>
          home \in {"ready", item.report} /\ item.report \in {"succeeded", "failed"}
    BY <1>2, VerdictFacts
  <2>4. verdict \in {"completed", "failed"} => item.kind = "worker_done"
    OBVIOUS
  <2>5. m.kind = item.kind /\ m.report = item.report /\ (m.rejected <=> verdict = "rejected")
    OBVIOUS
  <2> HIDE DEF verdict, m
  <2>6. home' = home \/ (home' \in {"succeeded", "failed"} /\ item.kind = "worker_done")
    BY <2>1, <2>3, <2>4
  <2> QED
    BY <2>1, <2>2, <2>3, <2>5, <2>6
<1>4. \A i \in DOMAIN mailbox : i \in DOMAIN mailbox' /\ mailbox'[i] = mailbox[i]
  BY <1>3, AppendedMessage DEF IInv
<1>5. CASE Accepted # {}
  <2>1. PICK i \in Accepted : TRUE
    BY <1>5
  <2>2. i \in Accepted' /\ mailbox'[i] = mailbox[i]
    BY <1>4, <2>1 DEF Accepted
  <2> QED
    BY <1>1, <2>1, <2>2 DEF VerdictStands
<1>6. CASE Accepted = {} /\ Accepted' # {}
  <2>1. PICK i \in Accepted' : TRUE
    BY <1>6
  <2>2. i \notin Accepted
    BY <1>6
  <2>3. home = "ready"
    <3>1. mailbox' # mailbox
      BY <2>1, <2>2 DEF Accepted
    <3>2. PICK m \in MessageType :
            /\ mailbox' = Append(mailbox, m)
            /\ m.kind = "worker_done" /\ ~m.rejected =>
                 home \in {"ready", m.report} /\ m.report \in {"succeeded", "failed"}
      BY <1>3, <3>1
    <3>3. mailbox'[i] = m
      BY <2>1, <2>2, <3>2, AppendedMessage DEF IInv, Accepted
    <3>4. home \in {"ready", m.report} /\ m.report \in {"succeeded", "failed"}
      BY <2>1, <3>2, <3>3 DEF Accepted
    <3> QED
      BY <1>6, <3>4, Unsettled
  <2>4. LiveHome /\ att = "ready"
    BY <2>3, Unsettled DEF LiveHome
  <2> QED
    BY <1>1, <1>6, <2>1, <2>4 DEF VerdictStands
<1>7. CASE Accepted = {} /\ Accepted' = {}
  <2>1. home' \notin {"succeeded", "failed"}
    BY <1>1, <1>7 DEF IInv, Decided
  <2>2. home' = home
    BY <1>3, <2>1
  <2> QED
    BY <1>1, <1>7, <2>2 DEF VerdictStands, LiveHome
<1> QED
  BY <1>5, <1>6, <1>7

\* An outcome is learnt from an acknowledgment that the home's mailbox backs.
LEMMA AckTeaches ==
  ASSUME IInv, IInv', protocol = 3,
         \/ HandleAck \/ \E request \in late : HandleLateAck(request)
         \/ \E applied \in BOOLEAN : CrashInAck(applied)
  PROVE  /\ HomeVerdict' = HomeVerdict
         /\ \/ WorkerKnows' = WorkerKnows
            \/ /\ WorkerKnows = "open" /\ WorkerKnows' = HomeVerdict
               /\ HomeVerdict \in {"succeeded", "failed"}
<1>1. UNCHANGED <<protocol, home, mailbox>>
  BY DEF HandleAck, HandleLateAck, CrashInAck, homeVars
<1>2. HomeVerdict' = HomeVerdict
  BY <1>1, HomeKeepsOrCancels DEF LiveHome
<1>3. \/ UNCHANGED att
      \/ \E request \in {call} \cup late :
           request \in CallType /\ Covered(request) /\ AckFits(request) /\ ApplyAck(request)
  <2>1. CASE HandleAck
    BY <2>1, SyncNow DEF HandleAck, AckSent, FreshAck
  <2>2. CASE \E request \in late : HandleLateAck(request)
    BY <2>2, SyncNow DEF HandleLateAck, FreshAck
  <2>3. CASE \E applied \in BOOLEAN : CrashInAck(applied)
    BY <2>3, SyncNow DEF CrashInAck, AckSent, FreshAck
  <2> QED
    BY <2>1, <2>2, <2>3
<1>4. \/ UNCHANGED att
      \/ /\ att = "ready" /\ att' \in {"succeeded", "failed"}
         /\ \E i \in Accepted : mailbox[i].report = att'
  BY <1>3, AppliedAck
<1>5. VerdictStands
  BY VerdictOf
<1>6. CASE UNCHANGED att
  BY <1>1, <1>2, <1>6 DEF WorkerKnows
<1>7. CASE /\ att = "ready" /\ att' \in {"succeeded", "failed"}
           /\ \E i \in Accepted : mailbox[i].report = att'
  <2>1. HomeVerdict = att'
    BY <1>5, <1>7 DEF VerdictStands
  <2> QED
    BY <1>1, <1>2, <1>7, <2>1 DEF WorkerKnows, Settling
<1> QED
  BY <1>4, <1>6, <1>7

\* The stop is carried out at a worker that nobody settled.
LEMMA StopCarriesOut ==
  ASSUME IInv, IInv', protocol = 3, StopBegins \/ StopEnds("stopped") \/ StopEnds("stop_unknown")
  PROVE  /\ HomeVerdict' = HomeVerdict /\ HomeVerdict \in {"open", "cancelled"}
         /\ \/ WorkerKnows' = WorkerKnows
            \/ WorkerKnows = "open" /\ WorkerKnows' = "cancelled"
<1>1. UNCHANGED <<protocol, home, mailbox>> /\ stop # "none"
  BY DEF StopBegins, StopEnds, homeVars
<1>2. HomeVerdict' = HomeVerdict
  BY <1>1, HomeKeepsOrCancels DEF LiveHome
<1>3. Accepted = {} /\ att \notin {"succeeded", "failed"}
  BY <1>1, Unsettled
<1>4. HomeVerdict \in {"open", "cancelled"}
  BY <1>3, VerdictOf DEF VerdictStands
<1>5. att' = att \/ att' \in Ended
  BY DEF StopBegins, StopEnds, Ended
<1> QED
  BY <1>1, <1>2, <1>3, <1>4, <1>5 DEF WorkerKnows, Settling, Ended

LEMMA AgreementStep ==
  ASSUME IInv, IInv', [Next]_vars
  PROVE  [Agreement!Next]_<<HomeVerdict, WorkerKnows>>
<1> USE DEF Agreement!Next, Agreement!Accept, Agreement!Cancel, Agreement!Learn, Agreement!CarryOut
<1>1. protocol' = protocol
  BY DEF Next, vars, AgentStep, SendStatus, SendHeartbeat, SendReport, Tick, ShowSync, NextPage,
         Pull, SyncStep, Import, ImportRefused, SendAck, RecordAck, CallRefused, PushMail,
         RecordMail, ServerStep, HandleAck, HandleImport, HandleLateAck, SendMail, StopStep,
         HomeStop, StopBegins, StopEnds, StopAnswered, ShowStopped, ShowEpoch, Abandon, FaultStep,
         CallLost, StopLost, HomeRestart, WorkerRestart, CrashInAck, CrashInImport
<1>2. CASE protocol # 3
  <2>1. protocol < Settling /\ protocol' < Settling
    BY <1>1, <1>2 DEF IInv, Shapes, Settling
  <2> QED
    BY <2>1 DEF HomeVerdict, WorkerKnows
<1>3. CASE protocol = 3
  <2>1. CASE UNCHANGED <<protocol, mailbox, att>> /\ (LiveHome' => LiveHome)
    <3>1. WorkerKnows' = WorkerKnows
      BY <2>1 DEF WorkerKnows
    <3> QED
      BY <1>3, <2>1, <3>1, HomeKeepsOrCancels
  <2>2. CASE \E item \in sync.items : Import(item)
    <3>1. UNCHANGED <<protocol, att>>
      BY <2>2 DEF Import, workerVars
    <3>2. WorkerKnows' = WorkerKnows /\ (att = "ready" => WorkerKnows = "open")
      BY <3>1 DEF WorkerKnows
    <3> QED
      BY <1>3, <2>2, <3>2, ImportAccepts
  <2>3. CASE \/ HandleAck \/ \E request \in late : HandleLateAck(request)
             \/ \E applied \in BOOLEAN : CrashInAck(applied)
    BY <1>3, <2>3, AckTeaches
  <2>4. CASE StopBegins \/ StopEnds("stopped") \/ StopEnds("stop_unknown")
    BY <1>3, <2>4, StopCarriesOut
  <2> QED
    BY <1>3, <2>1, <2>2, <2>3, <2>4, QuietSteps
       DEF Next, SyncStep, ServerStep, StopStep, FaultStep
<1> QED
  BY <1>2, <1>3

\* The relay implements ReportAgreement: over lost, late and repeated calls and
\* restarts of both sides the home decides once, and the worker's server ends
\* the worker as the home decided or as a stop asked.
THEOREM RelayAgrees == Spec => ImplementsAgreement
<1>1. Init => Agreement!Init
  <2> SUFFICES ASSUME Init PROVE HomeVerdict = "open" /\ WorkerKnows = "open"
    BY DEF Agreement!Init
  <2>1. Accepted = {} /\ home = "ready" /\ att = "ready"
    BY DEF Init, Accepted
  <2> QED
    BY <2>1 DEF HomeVerdict, WorkerKnows, LiveHome
<1>2. IInv /\ IInv' /\ [Next]_vars => [Agreement!Next]_<<HomeVerdict, WorkerKnows>>
  BY AgreementStep
<1> QED
  BY <1>1, <1>2, Invariance, PTL DEF Spec, ImplementsAgreement, Agreement!Spec

=============================================================================
