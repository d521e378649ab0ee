------------------------- MODULE RunMailbox_proofs -------------------------
(* Theorems of RunMailbox for every value of its constants. *)
EXTENDS RunMailbox, TLAPS, SequenceTheorems, FiniteSetTheorems, WellFoundedInduction

(***************************************************************************)
(* The inductive invariant                                                 *)
(***************************************************************************)
Boxes   == Panes \cup {"run", "dispatch"}
Message == [box : Boxes, type : Types, read : BOOLEAN]
Batches == [generation : 1 .. MaxBinds, messages : SUBSET Nat,
            status : {"outstanding", "acknowledged", "fenced"}]
CallType == [pc : Steps, pane : Panes \cup {NoPane}, box : {"none", "run", "dispatch"},
             mode : {"read", "look"}, wait : BOOLEAN, types : SUBSET Types, ack : Nat,
             generation : Nat, through : Nat, moved : SUBSET Types,
             result : {"none", "notified", "over"}]

Shapes ==
  /\ mail \in Seq(Message)
  /\ run \in [pane : Coordinators \cup {NoPane}, generation : 1 .. MaxBinds]
  /\ known \subseteq Coordinators /\ elsewhere \subseteq Coordinators
  /\ deliveries \in Seq(Batches)
  /\ dispatch \in [pane : Workers \cup {NoPane}, active : BOOLEAN]
  /\ check \in [Callers -> CallType]
  /\ answered \in [Panes -> SUBSET (DOMAIN deliveries)]

\* A batch holds mail that exists, at least one message and no more than a
\* delivery may.
Filled ==
  \A d \in DOMAIN deliveries :
    /\ deliveries[d].messages \subseteq DOMAIN mail
    /\ Cardinality(deliveries[d].messages) \in 1 .. Batch

\* Mail of the Run that a batch may hold: no check has read it.
Excused(i, type) == i \in replied \/ (i \in superseded /\ type = Heartbeat /\ ~dispatch.active)
Held(msgs) ==
  {i \in DOMAIN msgs : msgs[i].box = "run" /\ (msgs[i].read => Excused(i, msgs[i].type))}

OneOut == \A d, e \in Outstanding(deliveries) : d = e

Intact ==
  \A d \in Outstanding(deliveries) :
    deliveries[d].generation = run.generation /\ deliveries[d].messages \subseteq Held(mail)

\* Mail withdrawn is read.  A heartbeat is superseded when its dispatch is over.
Withdrawn ==
  /\ superseded \subseteq DOMAIN mail /\ replied \subseteq DOMAIN mail /\ superseded \cap replied = {}
  /\ \A i \in superseded \cup replied : mail[i].read
  /\ \A i \in superseded : mail[i].type = Heartbeat
  /\ superseded # {} => dispatch.pane # NoPane /\ ~dispatch.active

\* A call belongs to a pane and acknowledges a batch that exists.  One that
\* reads the Run's mailbox is of a generation there has been, and of the
\* current one only while its pane is bound.
Called ==
  \A c \in Callers :
    /\ check[c].pc # "idle" => check[c].pane \in Panes
    /\ check[c].ack \in {0} \cup DOMAIN deliveries
    /\ check[c].pc = "routing" => check[c].box # "none"
    /\ check[c].box = "run" =>
         /\ check[c].generation <= run.generation
         /\ check[c].generation = run.generation => run.pane = check[c].pane

IInv == Shapes /\ Filled /\ OneOut /\ Intact /\ Withdrawn /\ Called

(***************************************************************************)
(* Mail                                                                    *)
(***************************************************************************)
LEMMA MailDomain ==
  ASSUME NEW S, NEW s \in Seq(S) PROVE DOMAIN s = 1 .. Len(s) /\ Len(s) \in Nat
BY LenProperties

\* A sequence rebuilt entry by entry
LEMMA Rebuilt ==
  ASSUME NEW S, NEW s \in Seq(S), NEW t, t \in [DOMAIN s -> S] PROVE t \in Seq(S)
<1>1. DOMAIN s = 1 .. Len(s) /\ Len(s) \in Nat
  BY LenProperties
<1> QED
  BY <1>1, SeqDef

LEMMA MovedMail ==
  ASSUME mail \in Seq(Message), NEW S, NEW box \in Boxes
  PROVE  /\ Moved(S, box) \in Seq(Message) /\ DOMAIN Moved(S, box) = DOMAIN mail
         /\ \A i \in DOMAIN mail :
              /\ Moved(S, box)[i].box = IF i \in S THEN box ELSE mail[i].box
              /\ Moved(S, box)[i].type = mail[i].type /\ Moved(S, box)[i].read = mail[i].read
<1>1. \A i \in DOMAIN mail : mail[i] \in Message
  BY MailDomain, ElementOfSeq
<1>2. \A m \in Message :
        /\ [m EXCEPT !.box = box] \in Message
        /\ [m EXCEPT !.box = box].box = box
        /\ [m EXCEPT !.box = box].type = m.type /\ [m EXCEPT !.box = box].read = m.read
  BY DEF Message
<1>3. Moved(S, box) \in [DOMAIN mail -> Message]
  BY <1>1, <1>2 DEF Moved
<1>4. Moved(S, box) \in Seq(Message)
  BY <1>3, Rebuilt
<1> QED
  BY <1>1, <1>2, <1>4 DEF Moved

LEMMA MarkedMail ==
  ASSUME NEW msgs \in Seq(Message), NEW S
  PROVE  /\ Marked(msgs, S) \in Seq(Message) /\ DOMAIN Marked(msgs, S) = DOMAIN msgs
         /\ \A i \in DOMAIN msgs :
              /\ Marked(msgs, S)[i].box = msgs[i].box /\ Marked(msgs, S)[i].type = msgs[i].type
              /\ Marked(msgs, S)[i].read = (i \in S \/ msgs[i].read)
<1>1. \A i \in DOMAIN msgs : msgs[i] \in Message
  BY MailDomain, ElementOfSeq
<1>2. \A m \in Message :
        /\ [m EXCEPT !.read = TRUE] \in Message
        /\ [m EXCEPT !.read = TRUE].read = TRUE
        /\ [m EXCEPT !.read = TRUE].type = m.type /\ [m EXCEPT !.read = TRUE].box = m.box
  BY DEF Message
<1>3. Marked(msgs, S) \in [DOMAIN msgs -> Message]
  BY <1>1, <1>2 DEF Marked
<1>4. Marked(msgs, S) \in Seq(Message)
  BY <1>3, Rebuilt
<1>5. \A m \in Message : m.read \in BOOLEAN
  BY DEF Message
<1> QED
  BY <1>1, <1>2, <1>4, <1>5 DEF Marked

\* A nonempty set of indices has a smallest and a largest member.
LEMMA HasSmallest ==
  ASSUME NEW S, S \subseteq Nat, S # {}
  PROVE  \E m \in S : \A j \in S : m <= j
<1> DEFINE Less == {s \in Nat \X Nat : s[1] < s[2]}
<1>1. Less = OpToRel(<, Nat)
  BY DEF OpToRel
<1>2. IsWellFoundedOn(Less, Nat)
  BY <1>1, NatLessThanWellFounded
<1>3. \A i, j \in Nat : i < j => <<i, j>> \in Less
  OBVIOUS
<1> HIDE DEF Less
<1>4. PICK m \in S : \A j \in S : ~(<<j, m>> \in Less)
  BY <1>2, WFMin
<1>5. \A j \in S : ~(j < m)
  BY <1>3, <1>4, Zenon
<1> QED
  BY <1>5

LEMMA HasLargest ==
  ASSUME NEW n \in Nat, NEW S, S \subseteq 1 .. n, S # {}
  PROVE  \E m \in S : \A j \in S : j <= m
<1> DEFINE D == {d \in Nat : n - d \in S}
<1>1. \A j \in S : n - j \in Nat /\ n - (n - j) = j
  OBVIOUS
<1>2. \A j \in S : n - j \in D
  BY <1>1
<1>3. D \subseteq Nat /\ D # {} /\ \A d \in D : n - d \in S
  BY <1>2
<1> HIDE DEF D
<1>4. PICK d \in D : \A e \in D : d <= e
  BY <1>3, HasSmallest
<1>5. \A j \in S : j <= n - d
  BY <1>1, <1>2, <1>3, <1>4
<1> QED
  BY <1>3, <1>4, <1>5

LEMMA LargestUnread ==
  ASSUME mail \in Seq(Message), NEW box PROVE Largest(Unread(box)) \in Nat
<1>1. DOMAIN mail = 1 .. Len(mail) /\ Len(mail) \in Nat
  BY MailDomain
<1>2. Unread(box) \subseteq 1 .. Len(mail)
  BY <1>1 DEF Unread
<1>3. CASE Unread(box) = {}
  BY <1>3 DEF Largest
<1>4. CASE Unread(box) # {}
  <2>1. PICK m \in Unread(box) : \A j \in Unread(box) : j <= m
    BY <1>1, <1>2, <1>4, HasLargest
  <2>2. Largest(Unread(box)) \in Unread(box)
    BY <2>1, <1>4 DEF Largest
  <2> QED
    BY <2>2, <1>2
<1> QED
  BY <1>3, <1>4

\* A batch holds the oldest mail: at least one message, no more than the limit.
LEMMA FirstOfSize ==
  ASSUME NEW n \in Nat, NEW S, S \subseteq 1 .. n, S # {}, NEW b \in Nat \ {0}
  PROVE  FirstOf(S, b) \subseteq S /\ Cardinality(FirstOf(S, b)) \in 1 .. b
<1> DEFINE F == FirstOf(S, b)
           Before(i) == {j \in S : j < i}
<1>1. F = {i \in S : Cardinality(Before(i)) < b}
  BY DEF FirstOf
<1>2. F \subseteq S
  BY <1>1
<1>3. IsFiniteSet(1 .. n)
  BY FS_Interval
<1>4. IsFiniteSet(F) /\ Cardinality(F) \in Nat
  BY <1>2, <1>3, FS_Subset, FS_CardinalityType
<1>5. PICK s \in S : \A j \in S : s <= j
  <2>1. S \subseteq Nat
    OBVIOUS
  <2> QED
    BY <2>1, HasSmallest
<1>6. \A j \in S : ~(j < s)
  BY <1>5
<1>7. s \in F
  <2>1. Before(s) = {}
    BY <1>6
  <2> QED
    BY <2>1, <1>1, FS_EmptySet
<1>8. Cardinality(F) # 0
  BY <1>7, <1>4, FS_EmptySet
<1>9. F \subseteq 1 .. n
  BY <1>2
<1> HIDE DEF F
<1>10. PICK m \in F : \A j \in F : j <= m
  BY <1>7, <1>9, HasLargest
<1>11. F \ {m} \subseteq Before(m)
  BY <1>10, <1>2, <1>9
<1>12. Cardinality(Before(m)) < b
  BY <1>1
<1>13. IsFiniteSet(Before(m))
  BY <1>3, FS_Subset
<1>14. Cardinality(F \ {m}) <= Cardinality(Before(m)) /\ Cardinality(Before(m)) \in Nat
  BY <1>11, <1>13, FS_Subset, FS_CardinalityType
<1>15. Cardinality(F \ {m}) = Cardinality(F) - 1
  BY <1>4, <1>10, FS_RemoveElement
<1>16. Cardinality(F) <= b
  BY <1>4, <1>12, <1>14, <1>15
<1> QED
  BY <1>2, <1>4, <1>8, <1>16 DEF F

(***************************************************************************)
(* Calls                                                                   *)
(***************************************************************************)
\* A call goes on as the same call: of its pane, mailbox and generation, its
\* acknowledgement kept or spent.
Continues(j, k) ==
  /\ k.pc # "idle" /\ (j.pc = "routing" => k.pc = "routing")
  /\ j.pane = k.pane /\ j.box = k.box /\ j.generation = k.generation /\ j.ack \in {0, k.ack}

\* A call that is over, or that has left the mailbox it read
Detached(j) ==
  j.box = "none" /\ j.ack = 0 /\ j.pc # "routing" /\ (j.pc # "idle" => j.pane \in Panes)

LEMMA IdleCall == Idle \in CallType /\ Detached(Idle)
BY DEF Idle, CallType, Detached, Steps

LEMMA CalledKept ==
  ASSUME IInv, check' \in [Callers -> CallType], DOMAIN deliveries \subseteq DOMAIN deliveries',
         run' = run \/ (run'.generation \in Nat /\ run.generation < run'.generation),
         \A c \in Callers : check'[c] = check[c] \/ Continues(check'[c], check[c]) \/ Detached(check'[c])
  PROVE  Called'
<1> SUFFICES ASSUME NEW c \in Callers
             PROVE  /\ check'[c].pc # "idle" => check'[c].pane \in Panes
                    /\ check'[c].ack \in {0} \cup DOMAIN deliveries'
                    /\ check'[c].pc = "routing" => check'[c].box # "none"
                    /\ check'[c].box = "run" =>
                         /\ check'[c].generation <= run'.generation
                         /\ check'[c].generation = run'.generation => run'.pane = check'[c].pane
  BY DEF Called
<1>1. run.generation \in Nat /\ check[c].generation \in Nat
  BY DEF IInv, Shapes, CallType
<1>2. CASE Detached(check'[c])
  BY <1>2 DEF Detached
<1>3. CASE check'[c] = check[c] \/ Continues(check'[c], check[c])
  BY <1>1, <1>3 DEF IInv, Called, Continues
<1> QED
  BY <1>2, <1>3

LEMMA OneCall ==
  ASSUME NEW calls \in [Callers -> CallType], NEW c \in Callers, NEW k \in CallType
  PROVE  /\ [calls EXCEPT ![c] = k] \in [Callers -> CallType]
         /\ [calls EXCEPT ![c] = k][c] = k
         /\ \A o \in Callers \ {c} : [calls EXCEPT ![c] = k][o] = calls[o]
OBVIOUS

LEMMA NotifiedCalls ==
  ASSUME NEW calls \in [Callers -> CallType], NEW box, NEW types
  PROVE  /\ Notified(calls, box, types) \in [Callers -> CallType]
         /\ \A c \in Callers : \/ Notified(calls, box, types)[c] = calls[c]
                               \/ Continues(Notified(calls, box, types)[c], calls[c])
<1>1. ASSUME NEW k \in CallType, k.pc = "waiting"
      PROVE  /\ [k EXCEPT !.pc = "woken", !.result = "notified"] \in CallType
             /\ Continues([k EXCEPT !.pc = "woken", !.result = "notified"], k)
  BY <1>1 DEF CallType, Continues, Steps
<1> QED
  BY <1>1 DEF Notified

LEMMA CancelledCalls ==
  ASSUME check \in [Callers -> CallType]
  PROVE  /\ Cancelled \in [Callers -> CallType]
         /\ \A c \in Callers : Cancelled[c] = check[c] \/ Continues(Cancelled[c], check[c])
<1>1. ASSUME NEW k \in CallType, k.pc = "waiting"
      PROVE  /\ [k EXCEPT !.pc = "woken", !.result = "over"] \in CallType
             /\ Continues([k EXCEPT !.pc = "woken", !.result = "over"], k)
  BY <1>1 DEF CallType, Continues, Steps
<1> QED
  BY <1>1 DEF Cancelled

(***************************************************************************)
(* What a step leaves to a batch                                           *)
(***************************************************************************)
\* No message is lost, taken out of the Run's mailbox or read by a check
\* other than the consumer's, and what is withdrawn is recorded.
Grows ==
  /\ mail' \in Seq(Message) /\ DOMAIN mail \subseteq DOMAIN mail'
  /\ Held(mail) \subseteq Held(mail)'
  /\ Withdrawn'

\* Nothing is withdrawn; a dispatch may start or settle.
Steady ==
  /\ UNCHANGED <<superseded, replied>>
  /\ \/ dispatch' = dispatch
     \/ dispatch.pane = NoPane
     \/ dispatch' = [dispatch EXCEPT !.active = FALSE]

LEMMA SteadyDispatch ==
  ASSUME IInv, Steady
  PROVE  superseded # {} => dispatch'.pane # NoPane /\ ~dispatch'.active
BY DEF IInv, Shapes, Withdrawn, Steady

LEMMA SteadyGrows ==
  ASSUME IInv, Steady, mail' \in Seq(Message), DOMAIN mail \subseteq DOMAIN mail',
         \A i \in DOMAIN mail :
           /\ mail'[i].type = mail[i].type
           /\ mail[i].read => mail'[i].read /\ mail'[i].box = mail[i].box
           /\ mail[i].box = "run" /\ ~mail[i].read => mail'[i].box = "run" /\ ~mail'[i].read
  PROVE  Grows
<1>1. superseded # {} => dispatch'.pane # NoPane /\ ~dispatch'.active
  BY SteadyDispatch
<1>2. superseded' = superseded /\ replied' = replied
  BY DEF Steady
<1>3. Withdrawn'
  BY <1>1, <1>2 DEF Withdrawn, IInv
<1>4. \A i \in DOMAIN mail : Excused(i, mail[i].type) => Excused(i, mail[i].type)'
  BY <1>1, <1>2 DEF Excused
<1>5. Held(mail) \subseteq Held(mail)'
  BY <1>1, <1>2 DEF Held, Excused
<1> QED
  BY <1>3, <1>5 DEF Grows

LEMMA BatchesKept ==
  ASSUME IInv, Grows, deliveries' = deliveries, run'.generation = run.generation
  PROVE  Filled' /\ OneOut' /\ Intact'
BY DEF IInv, Grows, Filled, OneOut, Intact, Outstanding

\* A takeover fences the batch; everything else stays.
LEMMA FencedBatches ==
  ASSUME IInv, Grows, deliveries' = Fence
  PROVE  /\ Filled' /\ OneOut' /\ Intact'
         /\ deliveries' \in Seq(Batches) /\ DOMAIN deliveries' = DOMAIN deliveries
<1>1. \A d \in DOMAIN deliveries : deliveries[d] \in Batches
  BY MailDomain, ElementOfSeq DEF IInv, Shapes
<1>2. \A b \in Batches : /\ [b EXCEPT !.status = "fenced"] \in Batches
                         /\ [b EXCEPT !.status = "fenced"].messages = b.messages
                         /\ [b EXCEPT !.status = "fenced"].status = "fenced"
  BY DEF Batches
<1>3. Fence \in [DOMAIN deliveries -> Batches]
  BY <1>1, <1>2 DEF Fence
<1>4. deliveries' \in Seq(Batches)
  BY <1>3, Rebuilt DEF IInv, Shapes
<1>5. DOMAIN deliveries' = DOMAIN deliveries
  BY DEF Fence
<1>6. \A d \in DOMAIN deliveries : /\ deliveries'[d].messages = deliveries[d].messages
                                  /\ deliveries'[d].status # "outstanding"
  BY <1>1, <1>2 DEF Fence
<1>7. Outstanding(deliveries') = {}
  BY <1>5, <1>6 DEF Outstanding
<1>8. Filled'
  BY <1>5, <1>6 DEF IInv, Grows, Filled
<1> QED
  BY <1>4, <1>5, <1>7, <1>8 DEF OneOut, Intact

LEMMA UnchangedGrows ==
  ASSUME IInv, Steady, mail' = mail PROVE Grows
BY SteadyGrows DEF IInv, Shapes

LEMMA MovedGrows ==
  ASSUME IInv, Steady, NEW S, \A i \in S \cap DOMAIN mail : ~mail[i].read,
         NEW box \in Boxes, box = "run" \/ S \cap Unread("run") = {}, mail' = Moved(S, box)
  PROVE  Grows
<1>1. /\ mail' \in Seq(Message) /\ DOMAIN mail' = DOMAIN mail
      /\ \A i \in DOMAIN mail : /\ mail'[i].box = IF i \in S THEN box ELSE mail[i].box
                                /\ mail'[i].type = mail[i].type /\ mail'[i].read = mail[i].read
  BY MovedMail DEF IInv, Shapes
<1> QED
  BY <1>1, SteadyGrows DEF Unread

LEMMA MarkedGrows ==
  ASSUME IInv, Steady, NEW S, S \cap Unread("run") = {}, mail' = Marked(mail, S) PROVE Grows
<1>1. /\ mail' \in Seq(Message) /\ DOMAIN mail' = DOMAIN mail
      /\ \A i \in DOMAIN mail : /\ mail'[i].box = mail[i].box /\ mail'[i].type = mail[i].type
                                /\ mail'[i].read = (i \in S \/ mail[i].read)
  BY MarkedMail DEF IInv, Shapes
<1>2. \A i \in DOMAIN mail : mail[i].box = "run" /\ ~mail[i].read => ~mail'[i].read
  BY <1>1 DEF Unread
<1>3. \A i \in DOMAIN mail : mail[i].read => mail'[i].read
  BY <1>1
<1> QED
  BY <1>1, <1>2, <1>3, SteadyGrows

LEMMA AppendedGrows ==
  ASSUME IInv, Steady, NEW m \in Message, mail' = Append(mail, m) PROVE Grows
<1>1. /\ mail' \in Seq(Message) /\ DOMAIN mail \subseteq DOMAIN mail'
      /\ \A i \in DOMAIN mail : mail'[i] = mail[i]
  BY AppendProperties, MailDomain DEF IInv, Shapes
<1> QED
  BY <1>1, SteadyGrows

\* Mail may be marked only because it is withdrawn.
LEMMA WithdrawnGrows ==
  ASSUME IInv, mail' \in Seq(Message), DOMAIN mail \subseteq DOMAIN mail',
         \A i \in DOMAIN mail :
           /\ mail'[i].box = mail[i].box /\ mail'[i].type = mail[i].type
           /\ mail'[i].read => mail[i].read \/ Excused(i, mail[i].type)',
         superseded \subseteq superseded', replied \subseteq replied', Withdrawn'
  PROVE  Grows
<1>1. \A i \in DOMAIN mail : Excused(i, mail[i].type) => Excused(i, mail[i].type)'
  BY DEF Excused, Withdrawn
<1>2. Held(mail) \subseteq Held(mail)'
  BY <1>1 DEF Held, Excused
<1> QED
  BY <1>2 DEF Grows

(***************************************************************************)
(* Every step preserves the invariant                                      *)
(***************************************************************************)
\* Most steps change mail and calls, and leave the Run and its batches alone.
LEMMA QuietStep ==
  ASSUME IInv, Grows, UNCHANGED <<run, known, elsewhere, deliveries, answered>>,
         dispatch' \in [pane : Workers \cup {NoPane}, active : BOOLEAN],
         check' \in [Callers -> CallType],
         \A c \in Callers : check'[c] = check[c] \/ Continues(check'[c], check[c]) \/ Detached(check'[c])
  PROVE  IInv'
<1>1. Shapes'
  BY DEF IInv, Shapes, Grows
<1>2. Filled' /\ OneOut' /\ Intact'
  BY BatchesKept
<1>3. Called'
  BY CalledKept
<1> QED
  BY <1>1, <1>2, <1>3 DEF IInv, Grows

LEMMA InsertStep ==
  ASSUME IInv, NEW box \in Boxes, NEW t \in Types, Insert(box, t) PROVE IInv'
<1>1. NewMail(box, t, FALSE) \in Message
  BY DEF NewMail, Message
<1>2. Grows
  BY <1>1, AppendedGrows DEF Insert, Steady
<1>3. /\ check' \in [Callers -> CallType]
      /\ \A c \in Callers : check'[c] = check[c] \/ Continues(check'[c], check[c])
  BY NotifiedCalls DEF Insert, IInv, Shapes
<1> QED
  BY <1>2, <1>3, QuietStep DEF Insert, IInv, Shapes

\* Mail of which some is marked, and then some more comes.
LEMMA MarkedThenAppended ==
  ASSUME mail \in Seq(Message), NEW S, NEW m \in Message, mail' = Append(Marked(mail, S), m)
  PROVE  /\ mail' \in Seq(Message) /\ DOMAIN mail' = DOMAIN mail \cup {Len(mail) + 1}
         /\ Len(mail) + 1 \notin DOMAIN mail /\ mail'[Len(mail) + 1] = m
         /\ \A i \in DOMAIN mail :
              /\ mail'[i].box = mail[i].box /\ mail'[i].type = mail[i].type
              /\ mail'[i].read = (i \in S \/ mail[i].read)
<1> DEFINE marked == Marked(mail, S)
<1>1. /\ marked \in Seq(Message) /\ DOMAIN marked = DOMAIN mail
      /\ \A i \in DOMAIN mail :
           /\ marked[i].box = mail[i].box /\ marked[i].type = mail[i].type
           /\ marked[i].read = (i \in S \/ mail[i].read)
  BY MarkedMail
<1> HIDE DEF marked
<1>2. Len(marked) = Len(mail)
  BY <1>1, MailDomain
<1>3. /\ mail' \in Seq(Message) /\ DOMAIN mail' = DOMAIN marked \cup {Len(mail) + 1}
      /\ mail'[Len(mail) + 1] = m
      /\ \A i \in DOMAIN marked : mail'[i] = marked[i]
  <2>1. mail' = Append(marked, m)
    BY DEF marked
  <2> QED
    BY <1>1, <1>2, <2>1, AppendProperties, MailDomain
<1>4. Len(mail) + 1 \notin DOMAIN mail
  BY MailDomain
<1> QED
  BY <1>1, <1>3, <1>4

LEMMA ObsoleteStep ==
  ASSUME IInv, NEW box \in Boxes, NEW t \in Types, dispatch.pane # NoPane, InsertObsolete(box, t)
  PROVE  IInv'
<1> DEFINE m == NewMail(box, t, TRUE)
<1>1. m \in Message /\ m.read /\ m.type = Heartbeat
  BY DEF InsertObsolete, NewMail, Message
<1>2. mail' = Append(mail, m) /\ superseded' = superseded \cup {Len(mail) + 1}
      /\ UNCHANGED <<run, known, elsewhere, deliveries, dispatch, check, answered, replied>>
      /\ ~dispatch.active
  BY DEF InsertObsolete
<1> HIDE DEF m
<1>3. /\ mail' \in Seq(Message) /\ DOMAIN mail' = DOMAIN mail \cup {Len(mail) + 1}
      /\ Len(mail) + 1 \notin DOMAIN mail /\ mail'[Len(mail) + 1] = m
      /\ \A i \in DOMAIN mail : mail'[i] = mail[i]
  BY <1>1, <1>2, AppendProperties, MailDomain DEF IInv, Shapes
<1>4. Withdrawn'
  BY <1>1, <1>2, <1>3 DEF Withdrawn, IInv
<1>5. Grows
  BY <1>2, <1>3, <1>4, WithdrawnGrows
<1> QED
  BY <1>2, <1>5, QuietStep DEF IInv, Shapes

LEMMA ReportStep ==
  ASSUME IInv, NEW box \in Boxes, NEW t \in Types, dispatch.pane # NoPane, InsertReport(box, t)
  PROVE  IInv'
<1> DEFINE m == NewMail(box, t, FALSE)
           old == Superseded(box)
<1>1. m \in Message
  BY DEF NewMail, Message
<1>2. /\ mail' = Append(Marked(mail, old), m) /\ superseded' = superseded \cup old
      /\ dispatch' = [dispatch EXCEPT !.active = FALSE]
      /\ UNCHANGED <<run, known, elsewhere, deliveries, answered, replied>>
  BY DEF InsertReport
<1>3. old \subseteq DOMAIN mail /\ \A i \in old : mail[i].type = Heartbeat /\ ~mail[i].read
  BY DEF Superseded, Unread
<1>4. /\ check' \in [Callers -> CallType]
      /\ \A c \in Callers : check'[c] = check[c] \/ Continues(check'[c], check[c])
  BY NotifiedCalls DEF InsertReport, IInv, Shapes
<1> HIDE DEF m, old
<1>5. /\ mail' \in Seq(Message) /\ DOMAIN mail' = DOMAIN mail \cup {Len(mail) + 1}
      /\ \A i \in DOMAIN mail :
           /\ mail'[i].box = mail[i].box /\ mail'[i].type = mail[i].type
           /\ mail'[i].read = (i \in old \/ mail[i].read)
  BY <1>1, <1>2, MarkedThenAppended DEF IInv, Shapes
<1>6. /\ dispatch' \in [pane : Workers \cup {NoPane}, active : BOOLEAN]
      /\ dispatch'.pane = dispatch.pane /\ ~dispatch'.active
  BY <1>2 DEF IInv, Shapes
<1>7. Withdrawn'
  <2>1. \A i \in superseded' : i \in DOMAIN mail /\ mail'[i].read /\ mail'[i].type = Heartbeat
    BY <1>2, <1>3, <1>5 DEF Withdrawn, IInv
  <2>2. \A i \in replied' : i \in DOMAIN mail /\ mail'[i].read
    BY <1>2, <1>5 DEF Withdrawn, IInv
  <2>3. superseded' \cap replied' = {}
    BY <1>2, <1>3 DEF Withdrawn, IInv
  <2> QED
    BY <1>5, <1>6, <2>1, <2>2, <2>3 DEF Withdrawn
<1>8. \A i \in old : Excused(i, mail[i].type)'
  BY <1>2, <1>3, <1>5, <1>6 DEF Excused
<1>9. Grows
  BY <1>2, <1>5, <1>7, <1>8, WithdrawnGrows
<1> QED
  BY <1>2, <1>4, <1>6, <1>9, QuietStep

LEMMA MailboxOf ==
  ASSUME NEW p \in Panes PROVE Recipient(p) \in Boxes
BY DEF Recipient, Boxes

LEMMA SendStep ==
  ASSUME IInv, NEW t \in Types,
         SendToRun(t) \/ SendToDispatch(t) \/ \E p \in Panes : SendToPane(p, t)
  PROVE  IInv'
<1>1. PICK box \in Boxes : Send(box, t)
  BY MailboxOf DEF SendToRun, SendToDispatch, SendToPane, Boxes
<1>2. CASE Insert(box, t)
  BY <1>2, InsertStep
<1>3. CASE InsertObsolete(box, t) \/ InsertReport(box, t)
  <2>1. dispatch.pane # NoPane
    BY <1>1, <1>3 DEF Send, InsertObsolete, InsertReport
  <2> QED
    BY <1>3, <2>1, ObsoleteStep, ReportStep
<1> QED
  BY <1>1, <1>2, <1>3 DEF Send

\* A reply marks one message and may be mail itself.
ReplyBoxes == {"run", "dispatch"} \cup {Recipient(p) : p \in Panes}

LEMMA ReplyMailbox ==
  ASSUME IInv, NEW box \in ReplyBoxes
  PROVE  box \in Boxes /\ (run.pane # NoPane => box # run.pane)
<1>1. run.pane # NoPane => run.pane \in Panes /\ run.pane \notin {"run", "dispatch"}
  BY MailboxConstants DEF IInv, Shapes, Panes
<1> QED
  BY <1>1, MailboxOf DEF ReplyBoxes, Boxes, Recipient

LEMMA ReplyMail ==
  ASSUME IInv, NEW i \in DOMAIN mail, Reply(i)
  PROVE  /\ mail' \in Seq(Message) /\ DOMAIN mail \subseteq DOMAIN mail'
         /\ \A j \in DOMAIN mail :
              /\ mail'[j].box = mail[j].box /\ mail'[j].type = mail[j].type
              /\ mail'[j].read = (j = i \/ mail[j].read)
         /\ \A j \in DOMAIN mail' \ DOMAIN mail :
              /\ mail'[j].type # Heartbeat /\ ~mail'[j].read
              /\ run.pane # NoPane => mail'[j].box # run.pane
         /\ check' \in [Callers -> CallType]
         /\ \A c \in Callers : check'[c] = check[c] \/ Continues(check'[c], check[c])
<1>1. mail \in Seq(Message) /\ check \in [Callers -> CallType]
  BY DEF IInv, Shapes
<1>2. CASE mail' = Marked(mail, {i}) /\ UNCHANGED check
  BY <1>1, <1>2, MarkedMail
<1>3. CASE ~(mail' = Marked(mail, {i}) /\ UNCHANGED check)
  <2>1. PICK box \in ReplyBoxes, t \in Types \ {Heartbeat, WorkerDone} :
          /\ mail' = Append(Marked(mail, {i}), NewMail(box, t, FALSE))
          /\ check' = Notified(check, box, {t})
    BY <1>3 DEF Reply, ReplyBoxes
  <2> DEFINE m == NewMail(box, t, FALSE)
  <2>2. /\ m \in Message /\ m.type # Heartbeat /\ ~m.read
        /\ run.pane # NoPane => m.box # run.pane
    BY ReplyMailbox DEF NewMail, Message
  <2> HIDE DEF m
  <2>3. mail' = Append(Marked(mail, {i}), m)
    BY <2>1 DEF m
  <2>4. /\ mail' \in Seq(Message) /\ DOMAIN mail' = DOMAIN mail \cup {Len(mail) + 1}
        /\ mail'[Len(mail) + 1] = m
        /\ \A j \in DOMAIN mail :
             /\ mail'[j].box = mail[j].box /\ mail'[j].type = mail[j].type
             /\ mail'[j].read = (j = i \/ mail[j].read)
    BY <1>1, <2>2, <2>3, MarkedThenAppended
  <2>5. /\ check' \in [Callers -> CallType]
        /\ \A c \in Callers : check'[c] = check[c] \/ Continues(check'[c], check[c])
    BY <1>1, <2>1, NotifiedCalls
  <2> QED
    BY <2>2, <2>4, <2>5
<1> QED
  BY <1>2, <1>3

LEMMA ReplyStep ==
  ASSUME IInv, NEW i \in DOMAIN mail, Reply(i) PROVE IInv'
<1>1. /\ replied' = IF mail[i].read THEN replied ELSE replied \cup {i}
      /\ UNCHANGED <<run, known, elsewhere, deliveries, dispatch, answered, superseded>>
  BY DEF Reply
<1>2. /\ mail' \in Seq(Message) /\ DOMAIN mail \subseteq DOMAIN mail'
      /\ \A j \in DOMAIN mail :
           /\ mail'[j].box = mail[j].box /\ mail'[j].type = mail[j].type
           /\ mail'[j].read = (j = i \/ mail[j].read)
      /\ check' \in [Callers -> CallType]
      /\ \A c \in Callers : check'[c] = check[c] \/ Continues(check'[c], check[c])
  BY ReplyMail
<1>3. \A j \in replied' : j \in DOMAIN mail /\ mail'[j].read /\ (j \in replied \/ ~mail[j].read)
  BY <1>1, <1>2 DEF Withdrawn, IInv
<1>4. Withdrawn'
  BY <1>1, <1>2, <1>3 DEF Withdrawn, IInv
<1>5. \A j \in DOMAIN mail : mail'[j].read => mail[j].read \/ Excused(j, mail[j].type)'
  BY <1>1, <1>2 DEF Excused
<1>6. Grows
  BY <1>1, <1>2, <1>4, <1>5, WithdrawnGrows
<1> QED
  BY <1>1, <1>2, <1>6, QuietStep DEF IInv, Shapes

LEMMA DispatchStep ==
  ASSUME IInv, Settle \/ \E p \in Workers : Assign(p) PROVE IInv'
<1>1. Grows
  BY UnchangedGrows DEF Settle, Assign, Steady
<1>2. dispatch' \in [pane : Workers \cup {NoPane}, active : BOOLEAN]
  <2>1. CASE Settle
    BY <2>1 DEF Settle, IInv, Shapes
  <2>2. CASE \E p \in Workers : Assign(p)
    BY <2>2 DEF Assign
  <2> QED
    BY <2>1, <2>2
<1> QED
  BY <1>1, <1>2, QuietStep DEF Settle, Assign, IInv, Shapes

\* Mail of a pane is not the Run's.
LEMMA DirectMailElsewhere ==
  ASSUME NEW p \in Panes PROVE Unread(p) \cap Unread("run") = {} /\ DirectMail(p) \subseteq Unread(p)
BY MailboxConstants DEF Unread, DirectMail

\* A binding moves mail into the Run's mailbox and cancels its waiters; a new
\* generation fences the batch.
LEMMA BindStep ==
  ASSUME IInv, NEW p \in Coordinators, RunUse(p) \/ Leave(p) PROVE IInv'
<1>1. Grows
  <2>1. \A q : \A i \in DirectMail(q) : ~mail[i].read
    BY DEF DirectMail, Unread
  <2> QED
    BY <2>1, MovedGrows DEF RunUse, Leave, Boxes, Steady
<1>2. /\ check' \in [Callers -> CallType]
      /\ \A c \in Callers : check'[c] = check[c] \/ Continues(check'[c], check[c])
  BY CancelledCalls DEF RunUse, Leave, IInv, Shapes
<1>3. /\ known' \subseteq Coordinators /\ elsewhere' \subseteq Coordinators
      /\ UNCHANGED <<dispatch, answered>>
      /\ Withdrawn'
  BY <1>1 DEF RunUse, Leave, IInv, Shapes, Grows
<1>4. CASE UNCHANGED <<run, deliveries>>
  <2>1. Shapes'
    BY <1>1, <1>2, <1>3, <1>4 DEF IInv, Shapes, Grows
  <2>2. Filled' /\ OneOut' /\ Intact'
    BY <1>1, <1>4, BatchesKept
  <2>3. Called'
    BY <1>2, <1>4, CalledKept
  <2> QED
    BY <1>3, <2>1, <2>2, <2>3 DEF IInv
<1>5. CASE /\ deliveries' = Fence /\ run.generation < MaxBinds
           /\ run' \in [pane : {p, NoPane}, generation : {run.generation + 1}]
  <2>1. /\ Filled' /\ OneOut' /\ Intact'
        /\ deliveries' \in Seq(Batches) /\ DOMAIN deliveries' = DOMAIN deliveries
    BY <1>1, <1>5, FencedBatches
  <2>2. run.generation \in 1 .. MaxBinds /\ MaxBinds \in Nat
    BY MailboxConstants DEF IInv, Shapes
  <2>3. run' \in [pane : Coordinators \cup {NoPane}, generation : 1 .. MaxBinds]
    BY <1>5, <2>2
  <2>4. Shapes'
    BY <1>1, <1>2, <1>3, <2>1, <2>3 DEF IInv, Shapes, Grows
  <2>5. run'.generation \in Nat /\ run.generation < run'.generation
    BY <1>5, <2>2
  <2>6. Called'
    BY <1>2, <2>1, <2>5, CalledKept
  <2> QED
    BY <1>3, <2>1, <2>4, <2>6 DEF IInv
<1> QED
  BY <1>4, <1>5 DEF RunUse, Leave

LEMMA CallTyped ==
  ASSUME IInv, NEW p \in Panes, NEW m \in Modes, NEW fs \in Filters, NEW box \in {"run", "dispatch"},
         NEW ack \in Nat
  PROVE  LET k == Call(p, box, m[1], m[2], fs, ack)
         IN /\ k \in CallType /\ k.pane = p /\ k.box = box /\ k.ack = ack
            /\ k.generation = IF box = "run" THEN run.generation ELSE 0
<1>1. fs \in SUBSET Types
  BY MailboxConstants
<1>2. m[1] \in {"read", "look"} /\ m[2] \in BOOLEAN
  BY MailboxConstants
<1>3. Largest(Unread(p)) \in Nat /\ run.generation \in Nat
  BY LargestUnread DEF IInv, Shapes
<1> QED
  BY <1>1, <1>2, <1>3 DEF Call, Idle, CallType, Steps

LEMMA BeginStep ==
  ASSUME IInv, NEW c \in Callers, NEW p \in Panes, NEW m \in Modes, NEW fs \in Filters,
         \/ \E ack \in answered[p] \cup {0} : BeginRun(c, p, m[1], m[2], fs, ack)
         \/ BeginDispatch(c, p, m[1], m[2], fs)
  PROVE  IInv'
<1>1. PICK ack \in answered[p] \cup {0}, box \in {"run", "dispatch"} :
        /\ Begin(c, p, Call(p, box, m[1], m[2], fs, ack))
        /\ box = "run" => run.pane = p
  BY DEF BeginRun, BeginDispatch
<1>2. DOMAIN deliveries \subseteq Nat
  BY MailDomain DEF IInv, Shapes
<1>3. ack \in Nat /\ ack \in {0} \cup DOMAIN deliveries
  BY <1>2 DEF IInv, Shapes
<1> DEFINE k == Call(p, box, m[1], m[2], fs, ack)
<1>4. /\ k \in CallType /\ k.pane = p /\ k.box = box /\ k.ack = ack
      /\ k.generation = IF box = "run" THEN run.generation ELSE 0
  BY <1>3, CallTyped
<1> HIDE DEF k
<1>5. /\ check' = [check EXCEPT ![c] = k]
      /\ UNCHANGED <<mail, run, known, elsewhere, deliveries, dispatch, answered, superseded, replied>>
  BY <1>1 DEF Begin, k
<1>6. /\ check' \in [Callers -> CallType] /\ check'[c] = k
      /\ \A o \in Callers \ {c} : check'[o] = check[o]
  BY <1>4, <1>5, OneCall DEF IInv, Shapes
<1>7. Shapes'
  BY <1>5, <1>6 DEF IInv, Shapes
<1>8. Filled' /\ OneOut' /\ Intact'
  <2>1. Grows
    BY <1>5, UnchangedGrows DEF Steady
  <2> QED
    BY <1>5, <2>1, BatchesKept
<1>9. Withdrawn'
  BY <1>5 DEF IInv, Withdrawn
<1>10. Called'
  <2>1. run.generation <= run.generation
    BY DEF IInv, Shapes
  <2> QED
    BY <1>1, <1>3, <1>4, <1>5, <1>6, <2>1 DEF IInv, Called
<1> QED
  BY <1>7, <1>8, <1>9, <1>10 DEF IInv

\* A call that is edited and nothing else, and mail that only grows
LEMMA OneCallStep ==
  ASSUME IInv, Grows, UNCHANGED <<run, known, elsewhere, deliveries, dispatch, answered, superseded, replied>>,
         NEW c \in Callers, NEW k \in CallType, check' = [check EXCEPT ![c] = k],
         k = check[c] \/ Continues(k, check[c]) \/ Detached(k)
  PROVE  IInv'
<1>1. /\ check' \in [Callers -> CallType] /\ check'[c] = k
      /\ \A o \in Callers \ {c} : check'[o] = check[o]
  BY OneCall DEF IInv, Shapes
<1> QED
  BY <1>1, QuietStep DEF IInv, Shapes

LEMMA CallOf ==
  ASSUME IInv, NEW c \in Callers
  PROVE  /\ check[c] \in CallType /\ check \in [Callers -> CallType]
         /\ check[c].pc # "idle" => check[c].pane \in Panes
         /\ check[c].pc = "routing" => check[c].box # "none"
BY DEF IInv, Shapes, Called

LEMMA RoutePageStep ==
  ASSUME IInv, NEW c \in Callers, RoutePage(c) PROVE IInv'
<1> DEFINE k == check[c]
           page == FirstOf(ToRoute(k), Batch)
           on == [k EXCEPT !.pc = "acting", !.through = 0]
<1>1. k \in CallType /\ k.pane \in Panes /\ k.box \in {"run", "dispatch"} /\ k.pc = "routing"
  BY CallOf DEF RoutePage, CallType
<1>2. page \subseteq Unread(k.pane)
  BY <1>1, DirectMailElsewhere DEF FirstOf, ToRoute
<1>3. page \cap Unread("run") = {}
  BY <1>1, <1>2, DirectMailElsewhere
<1>4. Grows
  <2>1. \A i \in page : ~mail[i].read
    BY <1>2 DEF Unread
  <2> QED
    BY <1>1, <1>3, <2>1, MovedGrows DEF RoutePage, Boxes, Steady
<1>5. on \in CallType /\ Continues(on, k)
  BY <1>1 DEF CallType, Steps, Continues
<1>6. check' = [check EXCEPT ![c] = on] \/ check' = [check EXCEPT ![c] = k]
  BY CallOf DEF RoutePage
<1> HIDE DEF on
<1> QED
  BY <1>1, <1>4, <1>5, <1>6, OneCallStep DEF RoutePage

\* A worker takes mail of its dispatch, which is not the Run's.
LEMMA TakenStep ==
  ASSUME IInv, NEW c \in Callers, NEW marks \in BOOLEAN, check[c].box = "dispatch", Taken(c, marks),
         UNCHANGED <<run, known, elsewhere, deliveries, dispatch, answered, superseded, replied>>
  PROVE  IInv'
<1>1. UnreadIn("dispatch", check[c].types) \cap Unread("run") = {}
  BY DEF UnreadIn, Unread
<1>2. Grows
  BY <1>1, MarkedGrows, UnchangedGrows DEF Taken, Steady
<1> QED
  BY <1>2, IdleCall, OneCallStep DEF Taken, Ended

LEMMA StartForwardingStep ==
  ASSUME IInv, NEW c \in Callers, check[c].pc # "idle", StartForwarding(c),
         UNCHANGED <<run, known, elsewhere, deliveries, dispatch, answered, superseded, replied>>
  PROVE  IInv'
<1> DEFINE k == [Idle EXCEPT !.pc = "forwarding", !.pane = check[c].pane,
                             !.through = Largest(Unread("dispatch"))]
<1>1. Largest(Unread("dispatch")) \in Nat
  BY LargestUnread DEF IInv, Shapes
<1>2. check[c].pane \in Panes
  BY CallOf
<1>3. k \in CallType /\ Detached(k)
  BY <1>1, <1>2 DEF Idle, CallType, Detached, Steps
<1>4. Grows
  BY UnchangedGrows DEF StartForwarding, Steady
<1> HIDE DEF k
<1>5. check' = [check EXCEPT ![c] = Idle] \/ check' = [check EXCEPT ![c] = k]
  BY DEF StartForwarding, Ended, k
<1> QED
  BY <1>3, <1>4, <1>5, IdleCall, OneCallStep

LEMMA DispatchCheckStep ==
  ASSUME IInv, NEW c \in Callers, ActOnDispatch(c) \/ ResumeOnDispatch(c) PROVE IInv'
<1> DEFINE k == check[c]
<1>1. /\ k.box = "dispatch" /\ k.pc # "idle" /\ k \in CallType
      /\ UNCHANGED <<run, known, elsewhere, deliveries, dispatch, answered, superseded, replied>>
  BY CallOf DEF ActOnDispatch, ResumeOnDispatch
<1>2. CASE StartForwarding(c)
  BY <1>1, <1>2, StartForwardingStep
<1>3. CASE Taken(c, k.mode = "read") \/ Taken(c, k.result = "notified")
  BY <1>1, <1>3, TakenStep
<1>4. CASE check' = [check EXCEPT ![c].pc = "waiting"] /\ UNCHANGED mail
  <2> DEFINE on == [k EXCEPT !.pc = "waiting"]
  <2>1. on \in CallType /\ Continues(on, k)
    BY <1>1 DEF CallType, Steps, Continues
  <2>2. check' = [check EXCEPT ![c] = on]
    BY <1>4
  <2>3. Grows
    BY <1>1, <1>4, UnchangedGrows DEF Steady
  <2> HIDE DEF on
  <2> QED
    BY <1>1, <2>1, <2>2, <2>3, OneCallStep
<1> QED
  BY <1>2, <1>3, <1>4 DEF ActOnDispatch, ResumeOnDispatch

\* Calls edited once and notified then
LEMMA EditedAndNotified ==
  ASSUME IInv, NEW c \in Callers, NEW k \in CallType, NEW types,
         Continues(k, check[c]) \/ Detached(k)
  PROVE  LET calls == Notified([check EXCEPT ![c] = k], "run", types)
         IN /\ calls \in [Callers -> CallType]
            /\ \A o \in Callers : calls[o] = check[o] \/ Continues(calls[o], check[o]) \/ Detached(calls[o])
<1> DEFINE edited == [check EXCEPT ![c] = k]
           calls == Notified(edited, "run", types)
<1>1. /\ edited \in [Callers -> CallType] /\ edited[c] = k
      /\ \A o \in Callers \ {c} : edited[o] = check[o]
  BY OneCall, CallOf
<1>2. /\ calls \in [Callers -> CallType]
      /\ \A o \in Callers : calls[o] = edited[o] \/ Continues(calls[o], edited[o])
  BY <1>1, NotifiedCalls
<1> HIDE DEF edited, calls
<1>3. \A o \in Callers : check[o].ack \in Nat /\ check[o] \in CallType
  BY CallOf DEF CallType
<1>4. ASSUME NEW o \in Callers
      PROVE  calls[o] = check[o] \/ Continues(calls[o], check[o]) \/ Detached(calls[o])
  <2>1. CASE calls[o] = edited[o]
    BY <1>1, <2>1
  <2>2. CASE Continues(calls[o], edited[o]) /\ (edited[o] = check[o] \/ Continues(edited[o], check[o]))
    BY <2>2 DEF Continues
  <2>3. CASE Continues(calls[o], edited[o]) /\ Detached(edited[o])
    BY <2>3 DEF Continues, Detached
  <2> QED
    BY <1>1, <1>2, <2>1, <2>2, <2>3
<1> QED
  BY <1>2, <1>4 DEF edited, calls

LEMMA ForwardPageStep ==
  ASSUME IInv, NEW c \in Callers, ForwardPage(c) PROVE IInv'
<1> DEFINE k     == check[c]
           left  == {i \in Unread("dispatch") : i <= k.through}
           page  == FirstOf(left, Batch)
           moved == ForwardedTypes(k.moved, page)
           on    == [k EXCEPT !.moved = moved]
<1>1. k \in CallType /\ k.pc = "forwarding"
  BY CallOf DEF ForwardPage
<1>2. Grows
  <2>1. \A i \in page : ~mail[i].read
    BY DEF FirstOf, Unread
  <2> QED
    BY <2>1, MovedGrows DEF ForwardPage, Boxes, Steady
<1>3. page \subseteq DOMAIN mail
  BY DEF FirstOf, Unread
<1>4. \A i \in DOMAIN mail : mail[i].type \in Types
  <2>1. \A i \in DOMAIN mail : mail[i] \in Message
    BY MailDomain, ElementOfSeq DEF IInv, Shapes
  <2> QED
    BY <2>1 DEF Message
<1>5. moved \subseteq Types
  BY <1>1, <1>3, <1>4 DEF ForwardedTypes, CallType
<1>6. on \in CallType /\ Continues(on, k)
  BY <1>1, <1>5 DEF CallType, Continues
<1>7. \/ check' = Notified([check EXCEPT ![c] = Idle], "run", moved)
      \/ check' = [check EXCEPT ![c] = on]
  BY DEF ForwardPage, Ended
<1>8. UNCHANGED <<run, known, elsewhere, deliveries, dispatch, answered, superseded, replied>>
  BY DEF ForwardPage
<1> HIDE DEF on, moved
<1>9. CASE check' = [check EXCEPT ![c] = on]
  BY <1>2, <1>6, <1>8, <1>9, OneCallStep
<1>10. CASE check' = Notified([check EXCEPT ![c] = Idle], "run", moved)
  <2>1. /\ check' \in [Callers -> CallType]
        /\ \A o \in Callers : check'[o] = check[o] \/ Continues(check'[o], check[o]) \/ Detached(check'[o])
    BY <1>10, IdleCall, EditedAndNotified
  <2> QED
    BY <1>2, <1>8, <2>1, QuietStep DEF IInv, Shapes
<1> QED
  BY <1>7, <1>9, <1>10

LEMMA AbortStep ==
  ASSUME IInv, NEW c \in Callers, TimeOut(c) \/ Abort(c) PROVE IInv'
<1> DEFINE k    == check[c]
           late == [k EXCEPT !.pc = "woken", !.result = "over"]
           gone == [k EXCEPT !.pc = "woken", !.result = "over"]
           bare == [k EXCEPT !.moved = {}]
<1>1. k \in CallType
  BY CallOf
<1>2. UNCHANGED <<mail, run, known, elsewhere, deliveries, dispatch, answered, superseded, replied>>
  BY DEF TimeOut, Abort
<1>3. Grows
  BY <1>2, UnchangedGrows DEF Steady
<1>4. CASE k.pc = "routing" /\ check' = Ended(c)
  BY <1>2, <1>3, <1>4, IdleCall, OneCallStep DEF Ended
<1>5. CASE k.pc = "waiting" /\ (check' = [check EXCEPT ![c] = late] \/ check' = [check EXCEPT ![c] = gone])
  <2>1. late \in CallType /\ Continues(late, k) /\ gone \in CallType /\ Continues(gone, k)
    BY <1>1, <1>5 DEF CallType, Steps, Continues
  <2> HIDE DEF late, gone
  <2> QED
    BY <1>2, <1>3, <1>5, <2>1, OneCallStep
<1>6. CASE k.pc = "forwarding" /\ check' = Notified([check EXCEPT ![c] = bare], "run", k.moved)
  <2>1. bare \in CallType /\ Continues(bare, k)
    BY <1>1, <1>6 DEF CallType, Continues
  <2> HIDE DEF bare
  <2>2. /\ check' \in [Callers -> CallType]
        /\ \A o \in Callers : check'[o] = check[o] \/ Continues(check'[o], check[o]) \/ Detached(check'[o])
    BY <1>6, <2>1, EditedAndNotified
  <2> QED
    BY <1>2, <1>3, <2>2, QuietStep DEF IInv, Shapes
<1>7. \/ k.pc = "routing" /\ check' = Ended(c)
      \/ k.pc = "waiting" /\ (check' = [check EXCEPT ![c] = late] \/ check' = [check EXCEPT ![c] = gone])
      \/ k.pc = "forwarding" /\ check' = Notified([check EXCEPT ![c] = bare], "run", k.moved)
  BY <1>1 DEF TimeOut, Abort
<1> QED
  BY <1>4, <1>5, <1>6, <1>7

LEMMA RestartStep ==
  ASSUME IInv, Restart PROVE IInv'
<1>1. check' \in [Callers -> CallType] /\ \A c \in Callers : Detached(check'[c])
  BY IdleCall DEF Restart
<1>2. Grows
  BY UnchangedGrows DEF Restart, Steady
<1> QED
  BY <1>1, <1>2, QuietStep DEF Restart, IInv, Shapes

(***************************************************************************)
(* Acknowledging and handing out                                           *)
(***************************************************************************)
RunMail(msgs) == {i \in DOMAIN msgs : msgs[i].box = "run" /\ ~msgs[i].read}

\* The batches are sound for this mail and this generation.
Sound(msgs, dels, generation) ==
  /\ dels \in Seq(Batches)
  /\ \A d \in DOMAIN dels : /\ dels[d].messages \subseteq DOMAIN msgs
                            /\ Cardinality(dels[d].messages) \in 1 .. Batch
  /\ \A d, e \in Outstanding(dels) : d = e
  /\ \A d \in Outstanding(dels) :
       dels[d].generation = generation /\ dels[d].messages \subseteq Held(msgs)

LEMMA SoundNow ==
  ASSUME IInv PROVE Sound(mail, deliveries, run.generation)
BY DEF IInv, Shapes, Filled, OneOut, Intact, Sound

LEMMA SoundNext ==
  ASSUME Sound(mail', deliveries', run'.generation), UNCHANGED <<dispatch, superseded, replied>>
  PROVE  Filled' /\ OneOut' /\ Intact'
<1>1. Held(mail)' = Held(mail')
  BY DEF Held, Excused
<1> QED
  BY <1>1 DEF Filled, OneOut, Intact, Sound

\* No acknowledgement, or a repeated one, changes nothing.
LEMMA NothingAcknowledged ==
  ASSUME IInv, NEW a \in {0} \cup DOMAIN deliveries, a = 0 \/ deliveries[a].status = "acknowledged"
  PROVE  ReadBy(a) = {} /\ Acked(a) = deliveries
<1>1. CASE a = 0
  BY <1>1 DEF ReadBy, Acked
<1>2. CASE a # 0
  <2>1. \A d \in DOMAIN deliveries : deliveries[d] \in Batches
    BY MailDomain, ElementOfSeq DEF IInv, Shapes
  <2>2. deliveries[a] = [deliveries[a] EXCEPT !.status = "acknowledged"]
    BY <1>2, <2>1 DEF Batches
  <2>3. deliveries \in [DOMAIN deliveries -> Batches]
    BY <2>1, MailDomain, SeqDef DEF IInv, Shapes
  <2> QED
    BY <1>2, <2>2, <2>3 DEF ReadBy, Acked
<1> QED
  BY <1>1, <1>2

\* What an acknowledgement that is accepted leaves: the batch it finishes was
\* the outstanding one, so the mail it marks is in no other.
LEMMA AcknowledgedSound ==
  ASSUME IInv, NEW c \in Callers, AckFits(check[c])
  PROVE  LET a    == check[c].ack
             msgs == Marked(mail, ReadBy(a))
         IN /\ msgs \in Seq(Message) /\ DOMAIN msgs = DOMAIN mail
            /\ DOMAIN Acked(a) = DOMAIN deliveries
            /\ \A i \in DOMAIN mail :
                 msgs[i].type = mail[i].type /\ (mail[i].read => msgs[i].read)
            /\ Sound(msgs, Acked(a), run.generation)
<1> DEFINE a    == check[c].ack
           msgs == Marked(mail, ReadBy(a))
<1>1. a \in {0} \cup DOMAIN deliveries
  BY DEF IInv, Called
<1>2. /\ msgs \in Seq(Message) /\ DOMAIN msgs = DOMAIN mail
      /\ \A i \in DOMAIN mail : /\ msgs[i].box = mail[i].box /\ msgs[i].type = mail[i].type
                                /\ msgs[i].read = (i \in ReadBy(a) \/ mail[i].read)
  BY MarkedMail DEF IInv, Shapes
<1>6. \A i \in DOMAIN mail : mail[i].read => msgs[i].read
  BY <1>2
<1>3. \A d \in DOMAIN deliveries : deliveries[d] \in Batches
  BY MailDomain, ElementOfSeq DEF IInv, Shapes
<1> HIDE DEF msgs
<1>4. CASE a = 0 \/ deliveries[a].status = "acknowledged"
  <2>1. ReadBy(a) = {} /\ Acked(a) = deliveries
    BY <1>1, <1>4, NothingAcknowledged
  <2>2. Held(msgs) = Held(mail)
    <3>1. \A i \in DOMAIN mail : mail[i] \in Message
      BY MailDomain, ElementOfSeq DEF IInv, Shapes
    <3>2. \A i \in DOMAIN mail : msgs[i].read = mail[i].read
      BY <1>2, <2>1, <3>1 DEF Message
    <3> QED
      BY <1>2, <3>2 DEF Held
  <2> QED
    BY <1>2, <1>6, <2>1, <2>2, SoundNow DEF Sound, msgs
<1>5. CASE a # 0 /\ deliveries[a].status # "acknowledged"
  <2>1. a \in Outstanding(deliveries)
    BY <1>1, <1>3, <1>5 DEF AckFits, Outstanding, Batches
  <2> DEFINE over == [deliveries[a] EXCEPT !.status = "acknowledged"]
  <2>2. /\ over \in Batches /\ over.messages = deliveries[a].messages
        /\ over.status = "acknowledged"
    BY <1>1, <1>3, <1>5 DEF Batches
  <2>3. Acked(a) = [deliveries EXCEPT ![a] = over]
    BY <1>5 DEF Acked
  <2> HIDE DEF over
  <2>4. /\ DOMAIN Acked(a) = DOMAIN deliveries
        /\ Acked(a)[a] = over
        /\ \A d \in DOMAIN deliveries \ {a} : Acked(a)[d] = deliveries[d]
    BY <1>1, <1>5, <2>3
  <2>5. Acked(a) \in [DOMAIN deliveries -> Batches]
    BY <1>3, <2>2, <2>3
  <2>6. Acked(a) \in Seq(Batches)
    BY <2>5, Rebuilt DEF IInv, Shapes
  <2>7. Outstanding(Acked(a)) = {}
    BY <2>1, <2>2, <2>4 DEF Outstanding, IInv, OneOut
  <2>8. \A d \in DOMAIN deliveries : Acked(a)[d].messages = deliveries[d].messages
    BY <2>2, <2>4
  <2>9. Sound(msgs, Acked(a), run.generation)
    BY <1>2, <2>4, <2>6, <2>7, <2>8 DEF Sound, IInv, Filled
  <2> QED
    BY <1>2, <1>6, <2>4, <2>9 DEF msgs
<1> QED
  BY <1>4, <1>5

\* A new batch of the oldest unread mail, when none is outstanding
LEMMA WithBatchSound ==
  ASSUME NEW msgs \in Seq(Message), NEW dels, NEW k, NEW wake,
         k.generation \in 1 .. MaxBinds, Sound(msgs, dels, k.generation)
  PROVE  LET new == WithBatch(msgs, dels, k, wake)
         IN Sound(msgs, new, k.generation) /\ DOMAIN dels \subseteq DOMAIN new
<1> DEFINE batch == [generation |-> k.generation, status |-> "outstanding",
                     messages |-> FirstOf(RunMail(msgs), Batch)]
           new   == WithBatch(msgs, dels, k, wake)
<1>1. CASE new = dels
  BY <1>1
<1>2. CASE Outstanding(dels) = {} /\ RunMail(msgs) # {} /\ new = Append(dels, batch)
  <2>1. DOMAIN msgs = 1 .. Len(msgs) /\ Len(msgs) \in Nat
    BY MailDomain
  <2>2. RunMail(msgs) \subseteq 1 .. Len(msgs)
    BY <2>1 DEF RunMail
  <2>3. /\ FirstOf(RunMail(msgs), Batch) \subseteq RunMail(msgs)
        /\ Cardinality(FirstOf(RunMail(msgs), Batch)) \in 1 .. Batch
    <3>1. Batch \in Nat \ {0}
      BY MailboxConstants
    <3> QED
      BY <1>2, <2>1, <2>2, <3>1, FirstOfSize
  <2>4. batch \in Batches
    BY <2>1, <2>2, <2>3 DEF Batches
  <2> HIDE DEF batch, new
  <2>5. dels \in Seq(Batches)
    BY DEF Sound
  <2>6. /\ new \in Seq(Batches) /\ DOMAIN new = DOMAIN dels \cup {Len(dels) + 1}
        /\ new[Len(dels) + 1] = batch
        /\ \A d \in DOMAIN dels : new[d] = dels[d]
    BY <1>2, <2>4, <2>5, AppendProperties, MailDomain
  <2>7. Outstanding(new) \subseteq {Len(dels) + 1}
    BY <1>2, <2>6 DEF Outstanding
  <2>8. /\ batch.messages \subseteq RunMail(msgs) /\ RunMail(msgs) \subseteq DOMAIN msgs
        /\ Cardinality(batch.messages) \in 1 .. Batch
        /\ batch.generation = k.generation
    BY <2>3 DEF batch, RunMail
  <2>9. RunMail(msgs) \subseteq Held(msgs)
    BY DEF RunMail, Held
  <2> QED
    BY <2>6, <2>7, <2>8, <2>9 DEF Sound, new
<1>3. new = dels \/ (Outstanding(dels) = {} /\ RunMail(msgs) # {} /\ new = Append(dels, batch))
  BY DEF WithBatch, RunMail
<1> QED
  BY <1>1, <1>2, <1>3

\* What is answered is the outstanding batch, to the pane of the call, when it
\* is of the call's generation.
Answered(c, dels) ==
  \A p \in Panes : \A d \in answered'[p] \ answered[p] :
    p = check[c].pane /\ d \in Outstanding(dels) /\ dels[d].generation = check[c].generation

LEMMA ServeAnswers ==
  ASSUME IInv, NEW c \in Callers, check[c].pane \in Panes, NEW dels,
         DOMAIN deliveries \subseteq DOMAIN dels, Serve(c, dels)
  PROVE  answered' \in [Panes -> SUBSET (DOMAIN dels)] /\ Answered(c, dels)
<1>1. answered \in [Panes -> SUBSET (DOMAIN dels)]
  BY DEF IInv, Shapes
<1>2. CASE UNCHANGED answered
  BY <1>1, <1>2 DEF Answered
<1>3. ASSUME NEW d \in Outstanding(dels), dels[d].generation = check[c].generation,
             answered' = [answered EXCEPT ![check[c].pane] = @ \cup {d}]
      PROVE  answered' \in [Panes -> SUBSET (DOMAIN dels)] /\ Answered(c, dels)
  BY <1>1, <1>3 DEF Answered, Outstanding
<1>4. \/ UNCHANGED answered
      \/ \E d \in Outstanding(dels) :
           /\ dels[d].generation = check[c].generation
           /\ answered' = [answered EXCEPT ![check[c].pane] = @ \cup {d}]
  BY DEF Serve, Answer
<1> QED
  BY <1>2, <1>3, <1>4

LEMMA EndedOrAwaits ==
  ASSUME IInv, NEW c \in Callers, check[c].pc # "idle", check' \in {Ended(c), Awaits(c)}
  PROVE  /\ check' \in [Callers -> CallType]
         /\ \A o \in Callers : check'[o] = check[o] \/ Continues(check'[o], check[o]) \/ Detached(check'[o])
<1> DEFINE k == check[c]
           on(pc) == [k EXCEPT !.pc = pc, !.result = "over", !.ack = 0]
<1>1. k \in CallType
  BY CallOf
<1>2. \A pc \in {"waiting", "woken"} : on(pc) \in CallType /\ Continues(on(pc), k)
  BY <1>1 DEF CallType, Steps, Continues
<1>3. CASE check' = Ended(c)
  BY <1>3, IdleCall, OneCall, CallOf DEF Ended
<1>4. CASE check' = Awaits(c)
  <2>1. PICK pc \in {"waiting", "woken"} : check' = [check EXCEPT ![c] = on(pc)]
    BY <1>4 DEF Awaits
  <2> HIDE DEF on
  <2> QED
    BY <1>2, <2>1, OneCall, CallOf
<1> QED
  BY <1>3, <1>4

\* A check of the Run's mailbox that finds its generation over changes nothing
\* but itself; one that does not acts for the current generation.
RunCheck(c, msgs, dels) ==
  /\ check[c].box = "run" /\ check[c].pc # "idle"
  /\ check' \in {Ended(c), Awaits(c)}
  /\ mail' = msgs /\ deliveries' = dels
  /\ UNCHANGED <<run, known, elsewhere, dispatch, superseded, replied>>
  /\ msgs \in Seq(Message) /\ DOMAIN mail \subseteq DOMAIN msgs
  /\ \A i \in DOMAIN mail : msgs[i].type = mail[i].type /\ (mail[i].read => msgs[i].read)
  /\ DOMAIN deliveries \subseteq DOMAIN dels
  /\ Sound(msgs, dels, run.generation)

LEMMA RunCheckStep ==
  ASSUME IInv, NEW c \in Callers, NEW msgs, NEW dels, RunCheck(c, msgs, dels),
         UNCHANGED answered \/ Serve(c, dels)
  PROVE  IInv' /\ Answered(c, dels)
<1>1. check[c].pane \in Panes
  BY CallOf DEF RunCheck
<1>2. answered' \in [Panes -> SUBSET (DOMAIN dels)] /\ Answered(c, dels)
  <2>1. CASE UNCHANGED answered
    BY <2>1 DEF Answered, IInv, Shapes, RunCheck
  <2>2. CASE Serve(c, dels)
    BY <1>1, <2>2, ServeAnswers DEF RunCheck
  <2> QED
    BY <2>1, <2>2
<1>3. /\ check' \in [Callers -> CallType]
      /\ \A o \in Callers : check'[o] = check[o] \/ Continues(check'[o], check[o]) \/ Detached(check'[o])
  BY EndedOrAwaits DEF RunCheck
<1>4. Called'
  BY <1>3, CalledKept DEF RunCheck
<1>5. Filled' /\ OneOut' /\ Intact'
  BY SoundNext DEF RunCheck
<1>6. Shapes'
  BY <1>2, <1>3 DEF IInv, Shapes, RunCheck, Sound
<1>7. Withdrawn'
  BY DEF IInv, Withdrawn, RunCheck
<1> QED
  BY <1>2, <1>4, <1>5, <1>6, <1>7 DEF IInv

\* A check whose generation is the current one reads for the bound pane.
LEMMA CurrentCall ==
  ASSUME IInv, NEW c \in Callers, check[c].box = "run", Current(check[c])
  PROVE  check[c].generation = run.generation /\ check[c].generation \in 1 .. MaxBinds
         /\ run.pane = check[c].pane
BY DEF IInv, Called, Shapes, Current

LEMMA ActOnRunStep ==
  ASSUME IInv, NEW c \in Callers, ActOnRun(c)
  PROVE  /\ IInv'
         /\ UNCHANGED answered \/ (Current(check[c]) /\ Answered(c, deliveries') /\ UNCHANGED run)
<1> DEFINE k    == check[c]
           msgs == Marked(mail, ReadBy(k.ack))
           dels == WithBatch(msgs, Acked(k.ack), k, IF k.wait THEN k.types ELSE {})
<1>1. k.pc = "acting" /\ k.box = "run" /\ UNCHANGED <<run, known, elsewhere, dispatch, superseded, replied>>
  BY DEF ActOnRun
<1>2. CASE check' = Ended(c) /\ UNCHANGED <<mail, deliveries, answered>>
  <2>1. RunCheck(c, mail, deliveries)
    BY <1>1, <1>2, SoundNow DEF RunCheck, IInv, Shapes
  <2> QED
    BY <1>2, <2>1, RunCheckStep
<1>3. CASE /\ Current(k) /\ AckFits(k) /\ mail' = msgs /\ check' \in {Ended(c), Awaits(c)}
           /\ \/ Serve(c, dels)
              \/ deliveries' = Acked(k.ack) /\ UNCHANGED answered
  <2>1. /\ msgs \in Seq(Message) /\ DOMAIN msgs = DOMAIN mail
        /\ DOMAIN Acked(k.ack) = DOMAIN deliveries
        /\ \A i \in DOMAIN mail :
             msgs[i].type = mail[i].type /\ (mail[i].read => msgs[i].read)
        /\ Sound(msgs, Acked(k.ack), run.generation)
    BY <1>3, AcknowledgedSound
  <2>2. k.generation = run.generation /\ k.generation \in 1 .. MaxBinds
    BY <1>1, <1>3, CurrentCall
  <2> HIDE DEF msgs
  <2>3. Sound(msgs, dels, run.generation) /\ DOMAIN deliveries \subseteq DOMAIN dels
    BY <2>1, <2>2, WithBatchSound
  <2> HIDE DEF dels
  <2>4. CASE Serve(c, dels)
    <3>1. RunCheck(c, msgs, dels) /\ deliveries' = dels
      BY <1>1, <1>3, <2>1, <2>3, <2>4 DEF RunCheck, Serve
    <3> QED
      BY <1>1, <1>3, <2>4, <3>1, RunCheckStep
  <2>5. CASE deliveries' = Acked(k.ack) /\ UNCHANGED answered
    <3>1. RunCheck(c, msgs, Acked(k.ack))
      BY <1>1, <1>3, <2>1, <2>5 DEF RunCheck
    <3> QED
      BY <2>5, <3>1, RunCheckStep
  <2> QED
    BY <1>3, <2>4, <2>5
<1> QED
  BY <1>2, <1>3 DEF ActOnRun

LEMMA ResumeOnRunStep ==
  ASSUME IInv, NEW c \in Callers, ResumeOnRun(c)
  PROVE  /\ IInv'
         /\ UNCHANGED answered \/ (Current(check[c]) /\ Answered(c, deliveries') /\ UNCHANGED run)
<1> DEFINE k    == check[c]
           dels == WithBatch(mail, deliveries, k, k.types)
<1>1. /\ k.pc = "woken" /\ k.box = "run" /\ check' = Ended(c)
      /\ UNCHANGED <<mail, run, known, elsewhere, dispatch, superseded, replied>>
      /\ mail \in Seq(Message)
  BY DEF ResumeOnRun, IInv, Shapes
<1>2. CASE UNCHANGED <<deliveries, answered>>
  <2>1. RunCheck(c, mail, deliveries)
    BY <1>1, <1>2, SoundNow DEF RunCheck
  <2> QED
    BY <1>2, <2>1, RunCheckStep
<1>3. CASE Current(k) /\ Serve(c, dels)
  <2>1. k.generation = run.generation /\ k.generation \in 1 .. MaxBinds
    BY <1>1, <1>3, CurrentCall
  <2>2. Sound(mail, dels, run.generation) /\ DOMAIN deliveries \subseteq DOMAIN dels
    BY <1>1, <2>1, SoundNow, WithBatchSound
  <2> HIDE DEF dels
  <2>3. RunCheck(c, mail, dels) /\ deliveries' = dels
    BY <1>1, <1>3, <2>2 DEF RunCheck, Serve
  <2> QED
    BY <1>1, <1>3, <2>3, RunCheckStep
<1> QED
  BY <1>2, <1>3 DEF ResumeOnRun

(***************************************************************************)
(* Theorems                                                                *)
(***************************************************************************)
LEMMA InitInvariant == Init => IInv
<1> SUFFICES ASSUME Init PROVE IInv
  OBVIOUS
<1>1. PICK p \in Coordinators :
        /\ mail = <<>> /\ run = [pane |-> p, generation |-> 1] /\ known = {p} /\ elsewhere = {}
        /\ deliveries = <<>> /\ dispatch = [pane |-> NoPane, active |-> FALSE]
        /\ check = [c \in Callers |-> Idle] /\ answered = [q \in Panes |-> {}]
        /\ superseded = {} /\ replied = {}
  BY DEF Init
<1>2. MaxBinds \in Nat \ {0}
  BY MailboxConstants
<1>3. \A c \in Callers : check[c] = Idle /\ Idle \in CallType /\ Detached(Idle)
  BY <1>1, IdleCall
<1>4. Shapes
  BY <1>1, <1>2, <1>3 DEF Shapes
<1>5. Filled /\ OneOut /\ Intact
  BY <1>1 DEF Filled, OneOut, Intact, Outstanding
<1>6. Called /\ Withdrawn
  BY <1>1, <1>3 DEF Called, Detached, Withdrawn
<1> QED
  BY <1>4, <1>5, <1>6 DEF IInv

LEMMA StepInvariant == IInv /\ [Next]_vars => IInv'
<1> SUFFICES ASSUME IInv, [Next]_vars PROVE IInv'
  OBVIOUS
<1>1. ASSUME NEW t \in Types, SendToRun(t) \/ SendToDispatch(t) \/ \E p \in Panes : SendToPane(p, t)
      PROVE  IInv'
  BY <1>1, SendStep
<1>7. ASSUME NEW i \in DOMAIN mail, Reply(i) PROVE IInv'
  BY <1>7, ReplyStep
<1>2. ASSUME NEW p \in Coordinators, RunUse(p) \/ Leave(p) PROVE IInv'
  BY <1>2, BindStep
<1>3. CASE Settle \/ \E p \in Workers : Assign(p)
  BY <1>3, DispatchStep
<1>4. ASSUME NEW c \in Callers, Checks(c) PROVE IInv'
  <2>1. ASSUME NEW p \in Panes, NEW m \in Modes, NEW fs \in Filters,
               \/ \E ack \in answered[p] \cup {0} : BeginRun(c, p, m[1], m[2], fs, ack)
               \/ BeginDispatch(c, p, m[1], m[2], fs)
        PROVE  IInv'
    BY <2>1, BeginStep
  <2>2. CASE RoutePage(c)
    BY <2>2, RoutePageStep
  <2>3. CASE ActOnRun(c)
    BY <2>3, ActOnRunStep
  <2>4. CASE ResumeOnRun(c)
    BY <2>4, ResumeOnRunStep
  <2>5. CASE ActOnDispatch(c) \/ ResumeOnDispatch(c)
    BY <2>5, DispatchCheckStep
  <2>6. CASE ForwardPage(c)
    BY <2>6, ForwardPageStep
  <2>7. CASE TimeOut(c) \/ Abort(c)
    BY <2>7, AbortStep
  <2> QED
    BY <1>4, <2>1, <2>2, <2>3, <2>4, <2>5, <2>6, <2>7 DEF Checks
<1>5. CASE Restart
  BY <1>5, RestartStep
<1>6. CASE UNCHANGED vars
  BY <1>6 DEF vars, IInv, Shapes, Filled, OneOut, Intact, Withdrawn, Called, Outstanding, Held, Excused
<1> QED
  BY <1>1, <1>2, <1>3, <1>4, <1>5, <1>6, <1>7 DEF Next

LEMMA Invariance == Spec => []IInv
<1> QED
  BY InitInvariant, StepInvariant, PTL DEF Spec

\* Every variable keeps its type, and no batch is empty or larger than the
\* limit of a delivery, whatever the calls in flight do.
THEOREM TypeCorrect == Spec => []TypeOK
<1>1. IInv => TypeOK
  <2> SUFFICES ASSUME IInv PROVE TypeOK
    OBVIOUS
  <2> DEFINE B == [generation : 1 .. MaxBinds, messages : SUBSET (DOMAIN mail),
                   status : {"outstanding", "acknowledged", "fenced"}]
  <2>1. \A d \in DOMAIN deliveries : deliveries[d] \in Batches
    BY MailDomain, ElementOfSeq DEF IInv, Shapes
  <2>2. \A d \in DOMAIN deliveries : deliveries[d] \in B
    BY <2>1 DEF IInv, Filled, Batches
  <2>3. deliveries \in [DOMAIN deliveries -> B]
    <3>1. deliveries \in [DOMAIN deliveries -> Batches]
      BY <2>1, MailDomain, SeqDef DEF IInv, Shapes
    <3> QED
      BY <2>2, <3>1
  <2> HIDE DEF B
  <2>4. deliveries \in Seq(B)
    BY <2>3, Rebuilt DEF IInv, Shapes
  <2>5. \A c \in Callers : check[c].pc \in Steps
    BY CallOf DEF CallType
  <2> QED
    BY <2>4, <2>5 DEF B, TypeOK, IInv, Shapes, Filled, Withdrawn, Called, Message, Boxes
<1> QED
  BY Invariance, <1>1, PTL

\* At most one batch is outstanding; it belongs to the current generation, and
\* all its mail is still in the Run's mailbox, unread unless somebody has
\* replied to it or it is a heartbeat of a dispatch that is over.
THEOREM BatchIntact == Spec => []OneIntactBatch
<1>1. IInv => OneIntactBatch
  <2> SUFFICES ASSUME IInv PROVE OneIntactBatch
    OBVIOUS
  <2>1. Cardinality(Outstanding(deliveries)) <= 1
    <3>1. CASE Outstanding(deliveries) = {}
      BY <3>1, FS_EmptySet
    <3>2. CASE Outstanding(deliveries) # {}
      <4>1. PICK d \in Outstanding(deliveries) : TRUE
        BY <3>2
      <4>2. Outstanding(deliveries) = {d}
        BY <4>1 DEF IInv, OneOut
      <4>3. Cardinality({d}) = 1
        BY FS_Singleton
      <4> QED
        BY <4>2, <4>3
    <3> QED
      BY <3>1, <3>2
  <2> QED
    BY <2>1 DEF OneIntactBatch, IInv, Intact, Held, Excused
<1> QED
  BY Invariance, <1>1, PTL

\* A batch is answered only to the pane bound to the Run, while its generation
\* is the current one and it is outstanding.
THEOREM AnswersOnlyCurrent == Spec => AnswersCurrentConsumer
<1> DEFINE ToCurrent == \A p \in Panes : \A d \in answered'[p] \ answered[p] :
             /\ run.pane = p /\ deliveries'[d].generation = run.generation
             /\ deliveries'[d].status = "outstanding"
<1>1. IInv /\ [Next]_vars => [ToCurrent]_vars
  <2> SUFFICES ASSUME IInv, Next PROVE ToCurrent
    BY DEF vars
  <2>1. CASE UNCHANGED answered
    BY <2>1
  <2>2. ASSUME NEW c \in Callers, ActOnRun(c) \/ ResumeOnRun(c) PROVE ToCurrent
    <3>1. check[c].box = "run"
      BY <2>2 DEF ActOnRun, ResumeOnRun
    <3>2. UNCHANGED answered \/ (Current(check[c]) /\ Answered(c, deliveries'))
      BY <2>2, ActOnRunStep, ResumeOnRunStep
    <3>3. CASE Current(check[c]) /\ Answered(c, deliveries')
      <4>1. check[c].generation = run.generation /\ run.pane = check[c].pane
        BY <3>1, <3>3, CurrentCall
      <4> QED
        BY <3>3, <4>1 DEF Answered, Outstanding
    <3> QED
      BY <2>1, <3>2, <3>3
  <2>3. UNCHANGED answered \/ \E c \in Callers : ActOnRun(c) \/ ResumeOnRun(c)
    <3>1. ASSUME NEW t \in Types, SendToRun(t) \/ SendToDispatch(t) \/ \E p \in Panes : SendToPane(p, t)
          PROVE  UNCHANGED answered
      BY <3>1 DEF SendToRun, SendToDispatch, SendToPane, Send, Insert, InsertObsolete, InsertReport
    <3>5. ASSUME NEW i \in DOMAIN mail, Reply(i) PROVE UNCHANGED answered
      BY <3>5 DEF Reply
    <3>2. ASSUME NEW p \in Coordinators, RunUse(p) \/ Leave(p) PROVE UNCHANGED answered
      BY <3>2 DEF RunUse, Leave
    <3>3. CASE Settle \/ (\E p \in Workers : Assign(p)) \/ Restart
      BY <3>3 DEF Settle, Assign, Restart
    <3>4. ASSUME NEW c \in Callers, Checks(c), ~ActOnRun(c), ~ResumeOnRun(c) PROVE UNCHANGED answered
      BY <3>4 DEF Checks, BeginRun, BeginDispatch, Begin, RoutePage, ActOnDispatch,
                  ResumeOnDispatch, ForwardPage, TimeOut, Abort
    <3> QED
      BY <3>1, <3>2, <3>3, <3>4, <3>5 DEF Next, Checks
  <2> QED
    BY <2>1, <2>2, <2>3
<1> QED
  BY Invariance, <1>1, PTL DEF Spec, AnswersCurrentConsumer

(***************************************************************************)
(* The mailbox is a lease: the lease's view of it                          *)
(***************************************************************************)
Posted   == {i \in DOMAIN mail : mail[i].box = "run"}
Beats    == {i \in Posted : mail[i].type = Heartbeat}
Obsolete == {i \in superseded : mail[i].box = "run"}
Settled  == {i \in replied : mail[i].box = "run"}
Finished == {i \in Posted : mail[i].read /\ i \notin superseded \cup replied}
HandedOut(dels) == UNION {dels[d].messages : d \in Outstanding(dels)}

LEMMA LeaseView ==
  ASSUME IInv
  PROVE  /\ Obsolete \subseteq Beats /\ Settled \subseteq Posted
         /\ (Obsolete \cup Settled) \cap Finished = {} /\ Obsolete \cap Settled = {}
BY DEF IInv, Withdrawn, Posted, Beats, Finished, Obsolete, Settled

LEMMA LeaseViewNext ==
  ASSUME IInv'
  PROVE  /\ Obsolete' \subseteq Beats' /\ Settled' \subseteq Posted'
         /\ (Obsolete' \cup Settled') \cap Finished' = {} /\ Obsolete' \cap Settled' = {}
BY DEF IInv, Withdrawn, Posted, Beats, Finished, Obsolete, Settled

(***************************************************************************)
(* Mail arriving                                                           *)
(***************************************************************************)
Gone == superseded \cup replied

\* Mail is brought into the Run's mailbox, or marked when it is withdrawn; no
\* read mail is moved, and none is finished.
Arrives ==
  /\ \A i \in DOMAIN mail :
       /\ i \in DOMAIN mail' /\ mail'[i].type = mail[i].type
       /\ mail[i].box = "run" => mail'[i].box = "run"
       /\ mail[i].read => /\ mail'[i].read /\ mail'[i].box = mail[i].box
                          /\ i \in Gone' <=> i \in Gone
       /\ mail'[i].box = "run" /\ mail'[i].read /\ ~mail[i].read => i \in Gone'
  /\ \A i \in DOMAIN mail' \ DOMAIN mail : mail'[i].box = "run" /\ mail'[i].read => i \in Gone'

LEMMA ArrivingMail ==
  ASSUME IInv, Arrives
  PROVE  Posted \subseteq Posted' /\ Beats' \cap Posted = Beats /\ Finished' = Finished
<1>1. Posted \subseteq Posted'
  BY DEF Posted, Arrives
<1>2. Beats' \cap Posted = Beats
  BY <1>1 DEF Beats, Posted, Arrives
<1>3. Finished \subseteq Finished'
  BY <1>1 DEF Finished, Posted, Arrives, Gone
<1>4. Finished' \subseteq Finished
  <2> SUFFICES ASSUME NEW i \in Finished' PROVE i \in Finished
    OBVIOUS
  <2>1. i \in DOMAIN mail' /\ mail'[i].box = "run" /\ mail'[i].read /\ i \notin Gone'
    BY DEF Finished, Posted, Gone
  <2>2. i \in DOMAIN mail /\ mail[i].read
    BY <2>1 DEF Arrives
  <2> QED
    BY <2>1, <2>2 DEF Finished, Posted, Arrives, Gone
<1> QED
  BY <1>1, <1>2, <1>3, <1>4

\* Withdrawn mail stays in the mailbox it is in.
LEMMA WithdrawnStays ==
  ASSUME IInv, Arrives
  PROVE  \A i \in Gone : i \in DOMAIN mail /\ mail'[i].box = mail[i].box
BY DEF IInv, Withdrawn, Arrives, Gone

LEMMA PostOrStutter ==
  ASSUME IInv, IInv', Arrives, run'.generation = run.generation,
         HandedOut(deliveries') = HandedOut(deliveries),
         superseded \subseteq superseded', Settled' = Settled
  PROVE  [Lease!Next]_(Lease!vars)
<1>1. Posted \subseteq Posted' /\ Beats' \cap Posted = Beats /\ Finished' = Finished
  BY ArrivingMail
<1>2. Obsolete' \subseteq Beats' \ (Finished \cup Settled)
  BY <1>1, LeaseViewNext
<1>3. Obsolete \subseteq Obsolete'
  BY WithdrawnStays DEF Obsolete, Gone
<1> QED
  BY <1>1, <1>2, <1>3
     DEF Lease!Next, Lease!Post, Lease!Arrive, InRun, Posted, Beats, Finished, Obsolete, Settled,
         HandedOut, Outstanding

\* A step that withdraws nothing
LEMMA ArrivalStep ==
  ASSUME IInv, IInv', Arrives, UNCHANGED <<superseded, replied, deliveries>>,
         run'.generation = run.generation
  PROVE  [Lease!Next]_(Lease!vars)
<1>1. Settled' = Settled
  BY WithdrawnStays DEF Settled, Gone
<1> QED
  BY <1>1, PostOrStutter

LEMMA SameMailStep ==
  ASSUME UNCHANGED <<mail, run, deliveries, superseded, replied>> PROVE [Lease!Next]_(Lease!vars)
BY DEF Lease!vars, InRun

LEMMA MovedArrives ==
  ASSUME IInv, NEW S, \A i \in S : i \in DOMAIN mail /\ ~mail[i].read, NEW box \in Boxes,
         box = "run" \/ \A i \in S : mail[i].box # "run", mail' = Moved(S, box),
         UNCHANGED <<superseded, replied>>
  PROVE  Arrives
<1>1. /\ DOMAIN mail' = DOMAIN mail
      /\ \A i \in DOMAIN mail : /\ mail'[i].box = IF i \in S THEN box ELSE mail[i].box
                                /\ mail'[i].type = mail[i].type /\ mail'[i].read = mail[i].read
  BY MovedMail DEF IInv, Shapes
<1> QED
  BY <1>1 DEF Arrives, Gone

LEMMA MarkedArrives ==
  ASSUME IInv, NEW S, S \cap Posted = {}, mail' = Marked(mail, S), UNCHANGED <<superseded, replied>>
  PROVE  Arrives
<1>1. /\ DOMAIN mail' = DOMAIN mail
      /\ \A i \in DOMAIN mail : /\ mail'[i].box = mail[i].box /\ mail'[i].type = mail[i].type
                                /\ mail'[i].read = (i \in S \/ mail[i].read)
  BY MarkedMail DEF IInv, Shapes
<1> QED
  BY <1>1 DEF Arrives, Posted, Gone

(***************************************************************************)
(* Sending and replying                                                    *)
(***************************************************************************)
LEMMA SendPosts ==
  ASSUME IInv, IInv', NEW box \in Boxes, NEW t \in Types, Send(box, t)
  PROVE  [Lease!Next]_(Lease!vars)
<1>0. mail \in Seq(Message) /\ UNCHANGED <<run, deliveries, replied>>
  BY DEF IInv, Shapes, Send, Insert, InsertObsolete, InsertReport
<1>1. ASSUME NEW S \in SUBSET Unread(box), NEW read \in BOOLEAN,
             mail' = Append(Marked(mail, S), NewMail(box, t, read)),
             superseded' = superseded \cup S \cup (IF read THEN {Len(mail) + 1} ELSE {})
      PROVE  [Lease!Next]_(Lease!vars)
  <2>1. /\ NewMail(box, t, read) \in Message /\ NewMail(box, t, read).box = box
        /\ NewMail(box, t, read).read = read
    BY DEF NewMail, Message
  <2>2. /\ DOMAIN mail' = DOMAIN mail \cup {Len(mail) + 1}
        /\ Len(mail) + 1 \notin DOMAIN mail /\ mail'[Len(mail) + 1].read = read
        /\ \A i \in DOMAIN mail :
             /\ mail'[i].box = mail[i].box /\ mail'[i].type = mail[i].type
             /\ mail'[i].read = (i \in S \/ mail[i].read)
    BY <1>0, <1>1, <2>1, MarkedThenAppended
  <2>3. \A i \in S : i \in DOMAIN mail /\ ~mail[i].read
    BY DEF Unread
  <2>4. Arrives
    BY <1>0, <1>1, <2>2, <2>3 DEF Arrives, Gone
  <2>5. Settled' = Settled
    BY <1>0, <2>4, WithdrawnStays DEF Settled, Gone
  <2> QED
    BY <1>0, <1>1, <2>4, <2>5, PostOrStutter
<1>2. Marked(mail, {}) = mail
  BY <1>0, SeqDef DEF Marked
<1>3. CASE Insert(box, t)
  BY <1>1, <1>2, <1>3 DEF Insert
<1>4. CASE InsertObsolete(box, t)
  BY <1>1, <1>2, <1>4 DEF InsertObsolete
<1>5. CASE InsertReport(box, t)
  <2>1. Superseded(box) \in SUBSET Unread(box)
    BY DEF Superseded
  <2> QED
    BY <1>1, <1>5, <2>1 DEF InsertReport
<1> QED
  BY <1>3, <1>4, <1>5 DEF Send

LEMMA ReplyWithdraws ==
  ASSUME IInv, IInv', NEW i \in DOMAIN mail, Reply(i) PROVE [Lease!Next]_(Lease!vars)
<1>1. /\ replied' = IF mail[i].read THEN replied ELSE replied \cup {i}
      /\ UNCHANGED <<run, deliveries, superseded>>
  BY DEF Reply
<1>2. /\ DOMAIN mail \subseteq DOMAIN mail'
      /\ \A j \in DOMAIN mail :
           /\ mail'[j].box = mail[j].box /\ mail'[j].type = mail[j].type
           /\ mail'[j].read = (j = i \/ mail[j].read)
      /\ \A j \in DOMAIN mail' \ DOMAIN mail : ~mail'[j].read
  BY ReplyMail
<1>3. Arrives
  BY <1>1, <1>2 DEF Arrives, Gone
<1>4. Settled' = IF mail[i].read \/ mail[i].box # "run" THEN Settled ELSE Settled \cup {i}
  BY <1>1, <1>2, <1>3, WithdrawnStays DEF Settled, Gone
<1>5. CASE Settled' = Settled
  BY <1>1, <1>3, <1>5, PostOrStutter
<1>6. CASE ~mail[i].read /\ mail[i].box = "run"
  <2>1. Posted \subseteq Posted' /\ Beats' \cap Posted = Beats /\ Finished' = Finished
    BY <1>3, ArrivingMail
  <2>2. Obsolete' = Obsolete
    BY <1>1, <1>3, WithdrawnStays DEF Obsolete, Gone
  <2>3. i \in Posted /\ i \notin Finished \cup Obsolete
    BY <1>6 DEF Posted, Finished, Obsolete, IInv, Withdrawn
  <2>4. Lease!Reply(i)
    BY <1>1, <1>4, <1>6, <2>1, <2>2, <2>3
       DEF Lease!Reply, Lease!Arrive, InRun, Posted, Beats, Finished, Obsolete, Settled
  <2> QED
    BY <2>3, <2>4 DEF Lease!Next, Posted, InRun
<1> QED
  BY <1>4, <1>5, <1>6

(***************************************************************************)
(* Every step is a step of the lease                                       *)
(***************************************************************************)
LEMMA BindingStep ==
  ASSUME IInv, IInv', NEW p \in Coordinators, RunUse(p) \/ Leave(p)
  PROVE  [Lease!Next]_(Lease!vars)
<1>1. PICK S : mail' = Moved(S, "run") /\ \A i \in S : i \in DOMAIN mail /\ ~mail[i].read
  <2>1. \A q : DirectMail(q) \subseteq {i \in DOMAIN mail : ~mail[i].read}
    BY DEF DirectMail, Unread
  <2>2. CASE RunUse(p)
    BY <2>1, <2>2 DEF RunUse
  <2>3. CASE Leave(p)
    BY <2>1, <2>3 DEF Leave
  <2> QED
    BY <2>2, <2>3
<1>2. UNCHANGED <<superseded, replied>>
  BY DEF RunUse, Leave
<1>3. Arrives
  BY <1>1, <1>2, MovedArrives DEF Boxes
<1>4. CASE UNCHANGED <<run, deliveries>>
  BY <1>2, <1>3, <1>4, ArrivalStep
<1>5. CASE deliveries' = Fence /\ run'.generation = run.generation + 1
  <2>1. \A d \in DOMAIN deliveries : deliveries[d] \in Batches
    BY MailDomain, ElementOfSeq DEF IInv, Shapes
  <2>2. \A b \in Batches : [b EXCEPT !.status = "fenced"].status = "fenced"
    BY DEF Batches
  <2>3. Outstanding(Fence) = {}
    BY <2>1, <2>2 DEF Fence, Outstanding
  <2>4. HandedOut(deliveries') = {}
    BY <1>5, <2>3 DEF HandedOut
  <2>5. Posted \subseteq Posted' /\ Beats' \cap Posted = Beats /\ Finished' = Finished
    BY <1>3, ArrivingMail
  <2>6. Obsolete' = Obsolete /\ Settled' = Settled
    BY <1>2, <1>3, WithdrawnStays DEF Obsolete, Settled, Gone
  <2>7. Lease!TakeOver
    BY <1>5, <2>4, <2>5, <2>6
       DEF Lease!TakeOver, Lease!Arrive, InRun, Posted, Beats, Finished, Obsolete, Settled,
           HandedOut, Outstanding
  <2> QED
    BY <2>7 DEF Lease!Next
<1> QED
  BY <1>4, <1>5 DEF RunUse, Leave

LEMMA CheckStep ==
  ASSUME IInv, IInv', NEW c \in Callers,
         \/ RoutePage(c) \/ ActOnDispatch(c) \/ ResumeOnDispatch(c)
         \/ ForwardPage(c) \/ TimeOut(c) \/ Abort(c)
  PROVE  [Lease!Next]_(Lease!vars)
<1> DEFINE k == check[c]
<1>0. UNCHANGED <<run, deliveries, superseded, replied>>
  BY DEF RoutePage, ActOnDispatch, ResumeOnDispatch, ForwardPage, TimeOut, Abort
<1>1. CASE RoutePage(c)
  <2>1. k.pane \in Panes /\ k.box \in {"run", "dispatch"}
    BY <1>1, CallOf DEF RoutePage, CallType
  <2>2. \A i \in FirstOf(ToRoute(k), Batch) :
          i \in DOMAIN mail /\ ~mail[i].read /\ mail[i].box # "run"
    BY <2>1, DirectMailElsewhere, MailboxConstants DEF FirstOf, ToRoute, Unread, DirectMail
  <2>3. Arrives
    BY <1>0, <1>1, <2>1, <2>2, MovedArrives DEF RoutePage, Boxes
  <2> QED
    BY <1>0, <2>3, ArrivalStep
<1>2. CASE ForwardPage(c)
  <2>1. \A i \in FirstOf({i \in Unread("dispatch") : i <= k.through}, Batch) :
          i \in DOMAIN mail /\ ~mail[i].read
    BY DEF FirstOf, Unread
  <2>2. Arrives
    BY <1>0, <1>2, <2>1, MovedArrives DEF ForwardPage, Boxes
  <2> QED
    BY <1>0, <2>2, ArrivalStep
<1>3. CASE ActOnDispatch(c) \/ ResumeOnDispatch(c)
  <2>1. k.box = "dispatch"
    BY <1>3 DEF ActOnDispatch, ResumeOnDispatch
  <2>2. CASE UNCHANGED mail
    BY <1>0, <2>2, SameMailStep
  <2>3. CASE mail' = Marked(mail, UnreadIn("dispatch", k.types))
    <3>1. UnreadIn("dispatch", k.types) \cap Posted = {}
      BY DEF UnreadIn, Unread, Posted
    <3> QED
      BY <1>0, <2>3, <3>1, MarkedArrives, ArrivalStep
  <2>4. UNCHANGED mail \/ mail' = Marked(mail, UnreadIn("dispatch", k.types))
    BY <1>3, <2>1 DEF ActOnDispatch, ResumeOnDispatch, StartForwarding, Taken
  <2> QED
    BY <2>2, <2>3, <2>4
<1>4. CASE TimeOut(c) \/ Abort(c)
  BY <1>4, SameMailStep DEF TimeOut, Abort
<1> QED
  BY <1>1, <1>2, <1>3, <1>4

(***************************************************************************)
(* Acknowledging and handing out                                           *)
(***************************************************************************)
LEMMA Serves ==
  ASSUME IInv, run'.generation = run.generation, UNCHANGED <<superseded, replied>>,
         DOMAIN mail' = DOMAIN mail,
         \A i \in DOMAIN mail : mail'[i].box = mail[i].box /\ mail'[i].type = mail[i].type,
         NEW finished \in {{}, HandedOut(deliveries)},
         Finished' = Finished \cup (finished \ (Obsolete \cup Settled)),
         HandedOut(deliveries') \subseteq Posted,
         IF HandedOut(deliveries) = finished
         THEN HandedOut(deliveries') \cap (Finished' \cup Obsolete \cup Settled) = {}
         ELSE HandedOut(deliveries') = HandedOut(deliveries)
  PROVE  Lease!Next
<1>1. Posted' = Posted /\ Beats' = Beats
  BY DEF Posted, Beats
<1>2. Obsolete' = Obsolete /\ Settled' = Settled
  BY DEF Obsolete, Settled, IInv, Withdrawn
<1>3. Lease!Serve(finished)
  BY <1>1, <1>2
     DEF Lease!Serve, InRun, Posted, Beats, Finished, Obsolete, Settled, HandedOut, Outstanding
<1> QED
  BY <1>3 DEF Lease!Next, HandedOut, Outstanding

\* No batch is empty.
LEMMA NothingOut ==
  ASSUME IInv, HandedOut(deliveries) = {} PROVE Outstanding(deliveries) = {}
<1> SUFFICES ASSUME NEW d \in Outstanding(deliveries) PROVE FALSE
  OBVIOUS
<1>1. deliveries[d].messages = {}
  BY DEF HandedOut
<1>2. Cardinality(deliveries[d].messages) \in 1 .. Batch
  BY DEF IInv, Filled, Outstanding
<1> QED
  BY <1>1, <1>2, FS_EmptySet

\* A batch that is outstanding is given again; otherwise the next one holds
\* mail nobody has read.
LEMMA NextBatch ==
  ASSUME NEW msgs, NEW dels \in Seq(Batches), NEW k, NEW wake
  PROVE  LET new == WithBatch(msgs, dels, k, wake)
         IN IF Outstanding(dels) = {} THEN HandedOut(new) \subseteq RunMail(msgs) ELSE new = dels
<1> DEFINE batch == [generation |-> k.generation, status |-> "outstanding",
                     messages |-> FirstOf(RunMail(msgs), Batch)]
           new   == WithBatch(msgs, dels, k, wake)
<1>1. new = dels \/ (Outstanding(dels) = {} /\ new = Append(dels, batch))
  BY DEF WithBatch, RunMail
<1>2. Outstanding(dels) # {} => new = dels
  BY DEF WithBatch
<1>3. CASE Outstanding(dels) = {} /\ new = dels
  BY <1>3 DEF HandedOut
<1>4. CASE Outstanding(dels) = {} /\ new = Append(dels, batch)
  <2>1. batch.messages \subseteq RunMail(msgs)
    BY DEF FirstOf
  <2> HIDE DEF batch, new
  <2>2. /\ DOMAIN new = DOMAIN dels \cup {Len(dels) + 1} /\ new[Len(dels) + 1] = batch
        /\ \A d \in DOMAIN dels : new[d] = dels[d]
    <3> DEFINE T == Batches \cup {batch}
    <3>1. dels \in [DOMAIN dels -> Batches]
      BY MailDomain, SeqDef
    <3>2. dels \in [DOMAIN dels -> T] /\ batch \in T
      BY <3>1
    <3> HIDE DEF T
    <3>3. dels \in Seq(T)
      BY <3>2, Rebuilt
    <3> QED
      BY <1>4, <3>2, <3>3, AppendProperties, MailDomain
  <2>3. Outstanding(new) \subseteq {Len(dels) + 1}
    BY <1>4, <2>2 DEF Outstanding
  <2>4. HandedOut(new) \subseteq batch.messages
    BY <2>2, <2>3 DEF HandedOut
  <2> QED
    BY <1>4, <2>1, <2>4 DEF new
<1> QED
  BY <1>1, <1>2, <1>3, <1>4

\* What is handed out is mail of the Run.
LEMMA HandedOutPosted ==
  ASSUME IInv' PROVE HandedOut(deliveries') \subseteq Posted'
BY DEF IInv, Intact, HandedOut, Held, Posted, Outstanding

\* An acknowledgement that is accepted finishes the batch handed out, or
\* nothing.
LEMMA FinishesBatch ==
  ASSUME IInv, NEW c \in Callers, AckFits(check[c])
  PROVE  LET a == check[c].ack
         IN /\ ReadBy(a) \subseteq Posted
            /\ \/ ReadBy(a) = {} /\ Acked(a) = deliveries
               \/ ReadBy(a) = HandedOut(deliveries) /\ Outstanding(Acked(a)) = {}
<1> DEFINE a == check[c].ack
<1>1. a \in {0} \cup DOMAIN deliveries
  BY DEF IInv, Called
<1>2. CASE a = 0 \/ deliveries[a].status = "acknowledged"
  BY <1>1, <1>2, NothingAcknowledged
<1>3. CASE ~(a = 0 \/ deliveries[a].status = "acknowledged")
  <2>1. \A d \in DOMAIN deliveries : deliveries[d] \in Batches
    BY MailDomain, ElementOfSeq DEF IInv, Shapes
  <2>2. a \in Outstanding(deliveries)
    BY <1>1, <1>3, <2>1 DEF AckFits, Outstanding, Batches
  <2>3. Outstanding(deliveries) = {a}
    BY <2>2 DEF IInv, OneOut
  <2>4. ReadBy(a) = deliveries[a].messages
    BY <1>3 DEF ReadBy
  <2>5. ReadBy(a) = HandedOut(deliveries)
    BY <2>3, <2>4 DEF HandedOut
  <2>6. ReadBy(a) \subseteq Posted
    BY <2>2, <2>4 DEF IInv, Intact, Held, Posted
  <2>7. \A b \in Batches : [b EXCEPT !.status = "acknowledged"].status = "acknowledged"
    BY DEF Batches
  <2>8. Outstanding(Acked(a)) = {}
    BY <1>1, <1>3, <2>1, <2>3, <2>7 DEF Acked, Outstanding
  <2> QED
    BY <2>5, <2>6, <2>8
<1> QED
  BY <1>2, <1>3

LEMMA ActOnRunServes ==
  ASSUME IInv, NEW c \in Callers, ActOnRun(c) PROVE [Lease!Next]_(Lease!vars)
<1> DEFINE k    == check[c]
           msgs == Marked(mail, ReadBy(k.ack))
           dels == WithBatch(msgs, Acked(k.ack), k, IF k.wait THEN k.types ELSE {})
<1>1. UNCHANGED <<run, superseded, replied>> /\ IInv'
  BY ActOnRunStep DEF ActOnRun
<1>2. CASE UNCHANGED <<mail, deliveries>>
  BY <1>1, <1>2, SameMailStep
<1>3. CASE AckFits(k) /\ mail' = msgs /\ deliveries' \in {dels, Acked(k.ack)}
  <2>1. /\ ReadBy(k.ack) \subseteq Posted
        /\ \/ ReadBy(k.ack) = {} /\ Acked(k.ack) = deliveries
           \/ ReadBy(k.ack) = HandedOut(deliveries) /\ Outstanding(Acked(k.ack)) = {}
    BY <1>3, FinishesBatch
  <2>2. /\ DOMAIN mail' = DOMAIN mail
        /\ \A i \in DOMAIN mail : /\ mail'[i].box = mail[i].box /\ mail'[i].type = mail[i].type
                                  /\ mail'[i].read = (i \in ReadBy(k.ack) \/ mail[i].read)
    BY <1>3, MarkedMail DEF IInv, Shapes
  <2>3. Posted' = Posted /\ Finished' = Finished \cup (ReadBy(k.ack) \ (Obsolete \cup Settled))
    BY <1>1, <2>1, <2>2 DEF Posted, Finished, Obsolete, Settled
  <2>4. HandedOut(deliveries') \subseteq Posted
    BY <1>1, <2>3, HandedOutPosted
  <2>5. Acked(k.ack) \in Seq(Batches)
    BY <1>3, AcknowledgedSound DEF Sound
  <2>6. CASE Outstanding(Acked(k.ack)) = {} /\ ReadBy(k.ack) = HandedOut(deliveries)
    <3>1. HandedOut(deliveries') \subseteq RunMail(mail')
      <4>1. CASE deliveries' = dels
        BY <1>3, <2>5, <2>6, <4>1, NextBatch
      <4>2. CASE deliveries' = Acked(k.ack)
        BY <2>6, <4>2 DEF HandedOut
      <4> QED
        BY <1>3, <4>1, <4>2
    <3>2. HandedOut(deliveries') \cap (Finished' \cup Obsolete \cup Settled) = {}
      <4>1. \A i \in Obsolete \cup Settled : i \in DOMAIN mail /\ mail[i].read
        BY DEF Obsolete, Settled, IInv, Withdrawn
      <4>2. \A i \in Finished' \cup Obsolete \cup Settled : mail'[i].read
        BY <2>2, <4>1 DEF Finished
      <4> QED
        BY <3>1, <4>2 DEF RunMail
    <3> QED
      BY <1>1, <2>2, <2>3, <2>4, <2>6, <3>2, Serves
  <2>7. CASE ReadBy(k.ack) = {} /\ Acked(k.ack) = deliveries /\ HandedOut(deliveries) # {}
    <3>1. Outstanding(deliveries) # {}
      BY <2>7 DEF HandedOut
    <3>2. Outstanding(Acked(k.ack)) # {}
      BY <2>7, <3>1
    <3>3. dels = Acked(k.ack)
      BY <3>2 DEF WithBatch
    <3>4. deliveries' = deliveries
      BY <1>3, <2>7, <3>3
    <3> QED
      BY <1>1, <2>2, <2>3, <2>4, <2>7, <3>4, Serves
  <2> QED
    BY <2>1, <2>6, <2>7, NothingOut
<1> QED
  BY <1>2, <1>3 DEF ActOnRun, Serve

LEMMA ResumeOnRunServes ==
  ASSUME IInv, NEW c \in Callers, ResumeOnRun(c) PROVE [Lease!Next]_(Lease!vars)
<1> DEFINE dels == WithBatch(mail, deliveries, check[c], check[c].types)
<1>1. /\ UNCHANGED <<mail, run, superseded, replied>> /\ IInv'
      /\ deliveries' \in {dels, deliveries}
  BY ResumeOnRunStep DEF ResumeOnRun, Serve
<1>2. deliveries \in Seq(Batches)
  BY DEF IInv, Shapes
<1>3. CASE deliveries' = deliveries
  BY <1>1, <1>3, SameMailStep
<1>4. CASE deliveries' = dels /\ deliveries' # deliveries
  <2>1. Outstanding(deliveries) = {} /\ HandedOut(deliveries') \subseteq RunMail(mail)
    BY <1>2, <1>4, NextBatch
  <2>2. HandedOut(deliveries) = {}
    BY <2>1 DEF HandedOut
  <2>3. Finished' = Finished /\ Posted' = Posted
    BY <1>1 DEF Finished, Posted
  <2>4. HandedOut(deliveries') \cap (Finished' \cup Obsolete \cup Settled) = {}
    BY <2>1, <2>3 DEF RunMail, Finished, Obsolete, Settled, IInv, Withdrawn
  <2>5. HandedOut(deliveries') \subseteq Posted
    BY <2>1 DEF RunMail, Posted
  <2>6. Finished' = Finished \cup ({} \ (Obsolete \cup Settled))
    BY <2>3
  <2> QED
    BY <1>1, <2>2, <2>4, <2>5, <2>6, Serves
<1> QED
  BY <1>1, <1>3, <1>4

LEMMA LeaseStep == IInv /\ [Next]_vars => [Lease!Next]_(Lease!vars)
<1> SUFFICES ASSUME IInv, [Next]_vars PROVE [Lease!Next]_(Lease!vars)
  OBVIOUS
<1>1. IInv'
  BY StepInvariant
<1>2. ASSUME NEW t \in Types, SendToRun(t) \/ SendToDispatch(t) \/ \E p \in Panes : SendToPane(p, t)
      PROVE  [Lease!Next]_(Lease!vars)
  <2>1. PICK box \in Boxes : Send(box, t)
    BY <1>2, MailboxOf DEF SendToRun, SendToDispatch, SendToPane, Boxes
  <2> QED
    BY <1>1, <2>1, SendPosts
<1>3. ASSUME NEW i \in DOMAIN mail, Reply(i) PROVE [Lease!Next]_(Lease!vars)
  BY <1>1, <1>3, ReplyWithdraws
<1>4. ASSUME NEW p \in Coordinators, RunUse(p) \/ Leave(p) PROVE [Lease!Next]_(Lease!vars)
  BY <1>1, <1>4, BindingStep
<1>5. CASE Settle \/ (\E p \in Workers : Assign(p)) \/ Restart \/ UNCHANGED vars
  BY <1>5, SameMailStep DEF Settle, Assign, Restart, vars
<1>6. ASSUME NEW c \in Callers, Checks(c) PROVE [Lease!Next]_(Lease!vars)
  <2>1. ASSUME NEW p \in Panes, NEW m \in Modes, NEW fs \in Filters,
               \/ \E ack \in answered[p] \cup {0} : BeginRun(c, p, m[1], m[2], fs, ack)
               \/ BeginDispatch(c, p, m[1], m[2], fs)
        PROVE  [Lease!Next]_(Lease!vars)
    BY <2>1, SameMailStep DEF BeginRun, BeginDispatch, Begin
  <2>2. CASE ActOnRun(c) \/ ResumeOnRun(c)
    BY <2>2, ActOnRunServes, ResumeOnRunServes
  <2>3. CASE \/ RoutePage(c) \/ ActOnDispatch(c) \/ ResumeOnDispatch(c)
             \/ ForwardPage(c) \/ TimeOut(c) \/ Abort(c)
    BY <1>1, <2>3, CheckStep
  <2> QED
    BY <1>6, <2>1, <2>2, <2>3 DEF Checks
<1> QED
  BY <1>2, <1>3, <1>4, <1>5, <1>6 DEF Next

LEMMA LeaseInit == Init => Lease!Init
BY DEF Init, Lease!Init, InRun, Outstanding

\* The mailbox of a Run is a lease on its mail: a message is finished once, by
\* an acknowledgement of the batch it is in, and only for the consumer the
\* batch was handed to; a takeover revokes the batch and finishes nothing.
\* Without its consumer mail is only withdrawn: a heartbeat of a dispatch that
\* is over, or a message somebody has replied to.
THEOREM MailboxIsLease == Spec => ImplementsLease
<1> QED
  BY Invariance, LeaseInit, LeaseStep, PTL DEF Spec, ImplementsLease, Lease!Spec

=============================================================================
